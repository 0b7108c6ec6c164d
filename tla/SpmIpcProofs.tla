----------------------------- MODULE SpmIpcProofs -----------------------------
(***************************************************************************)
(* Proofs about the Secure Partition Manager of SpmIpc, for every set of   *)
(* partitions, services, callers and handles.                              *)
(*                                                                         *)
(* The order of the threads is the result of a fold over the order they    *)
(* were started in, of which nothing is used here: whatever the scheduler  *)
(* picks, the invariants hold.                                             *)
(***************************************************************************)
EXTENDS SpmIpc, FiniteSetTheorems, SequenceTheorems, WellFoundedInduction, TLAPS

-----------------------------------------------------------------------------
(* Queues of handles.                                                      *)

\* No handle is in queue q twice.
Distinct(q) == \A i, j \in 1 .. Len(q) : q[i] = q[j] => i = j

\* A handle put at the end of a queue it was not in.
LEMMA AppendQueue ==
  ASSUME NEW q \in Seq(Handles), NEW h \in Handles
  PROVE  /\ Append(q, h) \in Seq(Handles)
         /\ \A k : Contains(Append(q, h), k) <=> Contains(q, k) \/ k = h
         /\ Distinct(q) /\ ~Contains(q, h) => Distinct(Append(q, h))
<1> DEFINE r == Append(q, h)
<1>1. /\ r \in Seq(Handles) /\ Len(r) = Len(q) + 1 /\ Len(q) \in Nat
      /\ \A i \in 1 .. Len(q) : r[i] = q[i]
      /\ r[Len(q) + 1] = h
  BY AppendProperties
<1> HIDE DEF r
<1>2. ASSUME NEW k
      PROVE  Contains(r, k) <=> Contains(q, k) \/ k = h
  BY <1>1 DEF Contains
<1>3. Distinct(q) /\ ~Contains(q, h) => Distinct(r)
  BY <1>1 DEF Contains, Distinct
<1> QED
  BY <1>1, <1>2, <1>3 DEF r

\* The first handle taken from a queue.
LEMMA TailQueue ==
  ASSUME NEW q \in Seq(Handles), q # <<>>, Distinct(q)
  PROVE  /\ Head(q) \in Handles /\ Contains(q, Head(q))
         /\ Tail(q) \in Seq(Handles) /\ Distinct(Tail(q))
         /\ \A k : Contains(Tail(q), k) <=> Contains(q, k) /\ k # Head(q)
<1> DEFINE r == Tail(q)  h == Head(q)
<1>1. /\ h \in Handles /\ r \in Seq(Handles) /\ Len(r) = Len(q) - 1
      /\ \A i \in 1 .. Len(r) : r[i] = q[i + 1]
      /\ h = q[1] /\ Len(q) \in Nat /\ Len(q) > 0
  BY HeadTailProperties
<1> HIDE DEF r, h
<1>2. Distinct(r) /\ Contains(q, h)
  BY <1>1 DEF Distinct, Contains
<1>3. ASSUME NEW k
      PROVE  Contains(r, k) <=> Contains(q, k) /\ k # h
  <2>1. ASSUME Contains(r, k) PROVE Contains(q, k) /\ k # h
    BY <2>1, <1>1 DEF Contains, Distinct
  <2>2. ASSUME Contains(q, k), k # h PROVE Contains(r, k)
    <3>1. PICK i \in 1 .. Len(q) : q[i] = k
      BY <2>2 DEF Contains
    <3>2. i # 1 /\ i - 1 \in 1 .. Len(r) /\ r[i - 1] = k
      BY <3>1, <2>2, <1>1
    <3> QED
      BY <3>2 DEF Contains
  <2> QED
    BY <2>1, <2>2
<1> QED
  BY <1>1, <1>2, <1>3 DEF r, h

\* A handle taken out of the middle of a queue.
LEMMA RemoveQueue ==
  ASSUME NEW q \in Seq(Handles), NEW i \in 1 .. Len(q), Distinct(q)
  PROVE  /\ q[i] \in Handles /\ Contains(q, q[i])
         /\ RemoveAt(q, i) \in Seq(Handles) /\ Distinct(RemoveAt(q, i))
         /\ \A k : Contains(RemoveAt(q, i), k) <=> Contains(q, k) /\ k # q[i]
<1> DEFINE u == SubSeq(q, 1, i - 1)  v == SubSeq(q, i + 1, Len(q))  r == u \o v
<1>1. Len(q) \in Nat /\ \A j \in 1 .. Len(q) : q[j] \in Handles
  BY ElementOfSeq
<1>2. /\ u \in Seq(Handles) /\ Len(u) = i - 1
      /\ \A j \in 1 .. i - 1 : u[j] = q[j]
  <2>1. 1 \in Int /\ i - 1 \in Int /\ \A j \in 1 .. i - 1 : q[j] \in Handles
    BY <1>1
  <2> QED
    BY <2>1, SubSeqProperties, Z3
<1>3. /\ v \in Seq(Handles) /\ Len(v) = Len(q) - i
      /\ \A j \in 1 .. Len(q) - i : v[j] = q[i + j]
  <2>1. i + 1 \in Int /\ Len(q) \in Int /\ \A j \in i + 1 .. Len(q) : q[j] \in Handles
    BY <1>1
  <2>2. /\ v \in Seq(Handles)
        /\ Len(v) = IF i + 1 <= Len(q) THEN Len(q) - (i + 1) + 1 ELSE 0
        /\ \A j \in 1 .. Len(q) - (i + 1) + 1 : v[j] = q[(i + 1) + j - 1]
    BY <2>1, SubSeqProperties
  <2> HIDE DEF v
  <2> QED
    BY <2>2, <1>1
<1> HIDE DEF u, v
<1>4. /\ r \in Seq(Handles) /\ Len(r) = Len(q) - 1
      /\ \A j \in 1 .. Len(q) - 1 : r[j] = IF j < i THEN q[j] ELSE q[j + 1]
  <2>1. /\ r \in Seq(Handles) /\ Len(r) = Len(u) + Len(v)
        /\ \A j \in 1 .. Len(u) + Len(v) : r[j] = IF j <= Len(u) THEN u[j] ELSE v[j - Len(u)]
    BY <1>2, <1>3, ConcatProperties
  <2> HIDE DEF r
  <2>2. Len(r) = Len(q) - 1
    BY <2>1, <1>1, <1>2, <1>3
  <2>3. ASSUME NEW j \in 1 .. Len(q) - 1
        PROVE  r[j] = IF j < i THEN q[j] ELSE q[j + 1]
    <3>1. r[j] = IF j <= i - 1 THEN u[j] ELSE v[j - (i - 1)]
      BY <2>1, <1>1, <1>2, <1>3
    <3>2. CASE j < i
      BY <3>1, <3>2, <1>1, <1>2
    <3>3. CASE j >= i
      <4>1. j - (i - 1) \in 1 .. Len(q) - i /\ i + (j - (i - 1)) = j + 1
        BY <3>3, <1>1
      <4> QED
        BY <4>1, <3>1, <3>3, <1>1, <1>3
    <3> QED
      BY <3>2, <3>3, <1>1
  <2> QED
    BY <2>1, <2>2, <2>3
<1>5. r = RemoveAt(q, i)
  BY DEF r, u, v, RemoveAt
<1> HIDE DEF r
<1>6. Distinct(r)
  BY <1>1, <1>4 DEF Distinct
<1>7. ASSUME NEW k
      PROVE  Contains(r, k) <=> Contains(q, k) /\ k # q[i]
  <2>1. ASSUME Contains(r, k) PROVE Contains(q, k) /\ k # q[i]
    <3>1. PICK j \in 1 .. Len(q) - 1 : r[j] = k
      BY <2>1, <1>4 DEF Contains
    <3> QED
      BY <3>1, <1>1, <1>4 DEF Contains, Distinct
  <2>2. ASSUME Contains(q, k), k # q[i] PROVE Contains(r, k)
    <3>1. PICK j \in 1 .. Len(q) : q[j] = k
      BY <2>2 DEF Contains
    <3>2. CASE j < i
      BY <3>1, <3>2, <1>1, <1>4 DEF Contains
    <3>3. CASE j > i
      <4>1. j - 1 \in 1 .. Len(r) /\ r[j - 1] = k
        BY <3>1, <3>3, <1>1, <1>4
      <4> QED
        BY <4>1 DEF Contains
    <3> QED
      BY <3>1, <3>2, <3>3, <2>2, <1>1
  <2> QED
    BY <2>1, <2>2
<1> QED
  BY <1>1, <1>4, <1>5, <1>6, <1>7 DEF Contains

\* A queue without repetitions is no longer than the pool.
LEMMA QueueBounded ==
  ASSUME NEW q \in Seq(Handles), Distinct(q)
  PROVE  Len(q) <= NumHandles
<1>1. IsFiniteSet(Handles) /\ Cardinality(Handles) = NumHandles
  <2>1. 1 \in Int /\ NumHandles \in Int /\ NumHandles > 0
    BY SpmAssumption
  <2>2. /\ IsFiniteSet(1 .. NumHandles)
        /\ Cardinality(1 .. NumHandles) = IF 1 > NumHandles THEN 0 ELSE NumHandles - 1 + 1
    BY <2>1, FS_Interval
  <2> QED
    BY <2>1, <2>2, SpmAssumption DEF Handles
<1>2. Len(q) \in Nat /\ Cardinality(1 .. Len(q)) = Len(q)
  <2>1. 1 \in Int /\ Len(q) \in Int /\ Len(q) \in Nat
    OBVIOUS
  <2>2. Cardinality(1 .. Len(q)) = IF 1 > Len(q) THEN 0 ELSE Len(q) - 1 + 1
    BY <2>1, FS_Interval
  <2> QED
    BY <2>1, <2>2
<1>3. q \in Injection(1 .. Len(q), Handles)
  BY DEF Injection, IsInjective, Distinct
<1>4. Cardinality(1 .. Len(q)) <= Cardinality(Handles)
  BY <1>1, <1>3, FS_Injection
<1> QED
  BY <1>1, <1>2, <1>4

\* A set of positions has a first one.
LEMMA LeastOf ==
  ASSUME NEW S, S \subseteq Nat, S # {}
  PROVE  \E i \in S : \A j \in S : i <= j
<1> DEFINE R == {ss \in Nat \X Nat : ss[1] < ss[2]}
<1>1. IsWellFoundedOn(R, Nat)
  BY NatLessThanWellFounded, Zenon DEF OpToRel
<1> HIDE DEF R
<1>2. PICK i \in S : \A j \in S : ~ (<<j, i>> \in R)
  BY <1>1, WFMin
<1>3. \A j \in S : i <= j
  <2> SUFFICES ASSUME NEW j \in S, j < i PROVE FALSE
    OBVIOUS
  <2> DEFINE p == <<j, i>>
  <2>1. p \in Nat \X Nat /\ p[1] < p[2]
    OBVIOUS
  <2> HIDE DEF p
  <2>2. p \in R
    BY <2>1 DEF R
  <2> QED
    BY <1>2, <2>2 DEF p
<1> QED
  BY <1>3

\* The first of some positions is one of them.
LEMMA FirstIn ==
  ASSUME NEW S, S \subseteq Nat, S # {}
  PROVE  (CHOOSE j \in S : \A k \in S : j <= k) \in S
BY LeastOf

-----------------------------------------------------------------------------
(* The inductive invariant.                                                *)

\* A scheduler with its four fields; nothing is said of who is head or current.
Shape(k) ==
  k \in [state : [Threads -> {"run", "block"}], head : {k.head}, curr : {k.curr},
         pend : BOOLEAN]

TypeInv ==
  /\ topo \in Topologies
  /\ Shape(sched)
  /\ saved \in [Threads -> {"entry", "wait", "driver", "call", "run"}]
  /\ sig \in [Partitions -> [asserted : SUBSET Signals, waiting : SUBSET Signals,
                             owner : BOOLEAN]]
  /\ msgs \in [Partitions -> Seq(Handles)]
  /\ conn \in [Handles -> Conns]
  /\ pool \in Seq(Handles)
  /\ line \in [Partitions -> BOOLEAN]
  /\ rpc \in Rpcs
  /\ pc \in [Agents -> {"idle", "sent", "calling", "ready", "waiting", "awake",
                        "serving", "done"}]
  /\ got \in [Threads -> Handles \cup {NoHandle}]
  /\ ret \in [Partitions -> SUBSET Signals]
  /\ held \in [Agents -> [Services -> Handles \cup {NoHandle}]]
  /\ inputs \in 0 .. MaxInputs[topo]
  /\ halted \in {"no", "signals", "handles", "owner", "relinked"}

\* A message of service s is queued.
Pending(s) ==
  \E h \in Handles : Contains(msgs[Owner[s]], h) /\ conn[h].service = s

\* A service signal is asserted for its owner only, and exactly while a message
\* of the service is queued.
SignalsInv ==
  /\ \A p \in Partitions : \A s \in Services : s \in sig[p].asserted => Owner[s] = p
  /\ \A s \in Services : (rpc.phase = "store" /\ rpc.service = s)
                           \/ (s \in sig[Owner[s]].asserted <=> Pending(s))

\* PendSV hands over requests on multi-core systems only.  Between its read of
\* signals_asserted and its write nothing but interrupts are asserted.
RpcInv ==
  /\ topo = "single" => rpc.phase = "off"
  /\ rpc.phase = "store" =>
       /\ rpc.had \subseteq sig[Owner[rpc.service]].asserted
       /\ sig[Owner[rpc.service]].asserted \ {"irq"} \subseteq rpc.had
       /\ Pending(rpc.service)

\* What partition p last waited for.
Mask(p) == IF got[p] = NoHandle THEN Allowed(p) ELSE {"irq"}

\* While the event of partition p is owned, p is blocked in psa_wait() with its
\* whole mask, or PendSV let it go on with no signal at all; nothing it waits for
\* is asserted but what PendSV is about to wake it for.  A partition that serves a
\* message gets no signal but that of its interrupt.
WaitOK(p) ==
  /\ sig[p].owner => /\ pc[p] \in {"waiting", "awake"} /\ ret[p] = {}
                     /\ sched.state[p] = "block"
                     /\ sig[p].asserted \cap sig[p].waiting \subseteq InFlight(p)
                     /\ sig[p].waiting = Mask(p)
  /\ pc[p] = "waiting" => sig[p].owner
  /\ pc[p] = "ready" => got[p] = NoHandle
  /\ pc[p] \in {"serving", "done", "calling"} => got[p] # NoHandle
  /\ pc[p] = "awake" /\ got[p] # NoHandle => ret[p] \subseteq {"irq"}

WaitInv == \A p \in Partitions : WaitOK(p)

\* Handle h carries a message to partition p, queued or being served.
UnderWay(p, h) == Contains(msgs[p], h) \/ got[p] = h

\* Agent a has handle h as its connection to service s.
Holds(a, s, h) == held[a][s] = h

HeldBy(h) == \E a \in Agents : \E s \in Services : Holds(a, s, h)

\* No queue has a handle twice, nor one that is being served.
QueuesInv ==
  /\ Distinct(pool)
  /\ \A p \in Partitions : Distinct(msgs[p])
  /\ \A p \in Partitions : \A h \in Handles : Contains(msgs[p], h) => got[p] # h

\* A free handle is nobody's connection.
FreeInv ==
  \A h \in Handles : Contains(pool, h) => ~conn[h].magic /\ ~HeldBy(h)

\* An open connection belongs to the one client that opened it, and might.
HeldInv ==
  \A h \in Handles : \A a \in Agents : \A s \in Services :
    Holds(a, s, h) =>
      /\ conn[h].magic /\ conn[h].service = s /\ conn[h].client = ClientId(a)
      /\ Authorized(a, s)
      /\ \A b \in Agents : \A t \in Services : Holds(b, t, h) => a = b

\* The message is on a connection its sender has open.
OnConnection(m) == m.type = "disconnect" \/ (m.type = "call" /\ m.service \notin Stateless)

\* A message under way is for its partition, from an agent that may send it and
\* waits for the answer; it travels on the sender's connection or on a handle of its own.
MessageOK(p, h) ==
  LET m == conn[h]
      a == Asker(m)
  IN  /\ m.magic /\ Owner[m.service] = p
      /\ a \in Agents /\ pc[a] = "calling" /\ m.client = ClientId(a)
      /\ Authorized(a, m.service)
      /\ OnConnection(m) => Holds(a, m.service, h)
      /\ ~OnConnection(m) => ~HeldBy(h)
      /\ m.type = "connect" => held[a][m.service] = NoHandle

MessagesInv ==
  \A p \in Partitions : \A h \in Handles : UnderWay(p, h) => MessageOK(p, h)

\* No agent waits for two answers.
AskersInv ==
  \A p, q \in Partitions : \A h, k \in Handles :
    UnderWay(p, h) /\ UnderWay(q, k) /\ Asker(conn[h]) = Asker(conn[k]) => h = k

\* The message of an agent that waits for an answer is under way.
CallersInv ==
  \A a \in Agents : pc[a] = "calling" =>
    \E p \in Partitions : \E h \in Handles : UnderWay(p, h) /\ Asker(conn[h]) = a

\* Only a message being served makes its handle active.
ActiveInv ==
  \A h \in Handles : conn[h].status = "active" => \E p \in Partitions : got[p] = h

\* Handle h is in the pool, with a message under way, or somebody's connection.
Reachable(h) ==
  Contains(pool, h) \/ (\E p \in Partitions : UnderWay(p, h)) \/ HeldBy(h)

\* A handle is lost to a call with refused vectors only, unless a service answers
\* psa_connect() with "busy".
KeptInv ==
  "busy" \notin ConnectReplies => \A h \in Handles : Reachable(h) \/ Leaked(h)

HandlesInv ==
  QueuesInv /\ FreeInv /\ HeldInv /\ MessagesInv /\ AskersInv /\ CallersInv
    /\ ActiveInv /\ KeptInv

IInv == TypeInv /\ SignalsInv /\ RpcInv /\ WaitInv /\ HandlesInv /\ IrqSignalKept

\* A partition PendSV is about to wake stands in psa_wait() between two requests, or
\* an interrupt has woken it since; one whose mask it is about to write has been woken.
WakeInv ==
  /\ rpc.phase = "wake" => /\ pc[Owner[rpc.service]] \in {"waiting", "awake"}
                            /\ got[Owner[rpc.service]] = NoHandle
  /\ rpc.phase = "mask" => ~sig[Owner[rpc.service]].owner

SpmInv == IInv /\ WakeInv

-----------------------------------------------------------------------------
(* The operators the steps are made of.                                    *)

\* The scheduler's operations change the state of one thread.
LEMMA SetState ==
  ASSUME NEW k, Shape(k), NEW t \in Threads, NEW st \in {"run", "block"}
  PROVE  /\ Shape(tfm_core_thrd_set_state(k, t, st))
         /\ tfm_core_thrd_set_state(k, t, st).state = [k.state EXCEPT ![t] = st]
BY DEF Shape, tfm_core_thrd_set_state

LEMMA EventWait ==
  ASSUME NEW k, Shape(k), NEW t \in Threads
  PROVE  /\ Shape(tfm_event_wait(k, t))
         /\ tfm_event_wait(k, t).state = [k.state EXCEPT ![t] = "block"]
<1> DEFINE j == tfm_core_thrd_set_state(k, t, "block")
<1>1. Shape(j) /\ j.state = [k.state EXCEPT ![t] = "block"]
  BY SetState
<1> HIDE DEF j
<1>2. Shape([j EXCEPT !.pend = TRUE]) /\ [j EXCEPT !.pend = TRUE].state = j.state
  BY <1>1 DEF Shape
<1> QED
  BY <1>1, <1>2 DEF tfm_event_wait, j

LEMMA EventWake ==
  ASSUME NEW k, Shape(k), NEW t \in Threads
  PROVE  /\ Shape(tfm_event_wake(k, t))
         /\ tfm_event_wake(k, t).state = [k.state EXCEPT ![t] = "run"]
<1> DEFINE j == tfm_core_thrd_set_state(k, t, "run")
<1>1. Shape(j) /\ j.state = [k.state EXCEPT ![t] = "run"]
  BY SetState
<1> HIDE DEF j
<1>2. Shape([j EXCEPT !.pend = TRUE]) /\ [j EXCEPT !.pend = TRUE].state = j.state
  BY <1>1 DEF Shape
<1> QED
  BY <1>1, <1>2 DEF tfm_event_wake, j

LEMMA WokenState ==
  ASSUME TypeInv, NEW p \in Partitions, NEW s
  PROVE  /\ Shape(Woken(p, s))
         /\ Woken(p, s).state = IF Wakes(p, s) THEN [sched.state EXCEPT ![p] = "run"]
                                ELSE sched.state
BY EventWake DEF TypeInv, Woken, Threads

\* Signal s is asserted for partition p on top of what it had.
LEMMA Signalled ==
  ASSUME TypeInv, NEW p \in Partitions, NEW s \in Signals, NEW had \in SUBSET Signals,
         SetSignal(p, s, had)
  PROVE  /\ sig' \in [Partitions -> [asserted : SUBSET Signals, waiting : SUBSET Signals,
                                     owner : BOOLEAN]]
         /\ ret' \in [Partitions -> SUBSET Signals]
         /\ sig'[p].asserted = had \cup {s}
         /\ sig'[p].waiting = sig[p].waiting \ {s}
         /\ sig'[p].owner <=> sig[p].owner /\ ~Wakes(p, s)
         /\ \A q \in Partitions : q # p => sig'[q] = sig[q] /\ ret'[q] = ret[q]
         /\ ~Wakes(p, s) => ret' = ret
         /\ Wakes(p, s) => ret'[p] \subseteq sig[p].waiting
<1>1. /\ sig \in [Partitions -> [asserted : SUBSET Signals, waiting : SUBSET Signals,
                                 owner : BOOLEAN]]
      /\ ret \in [Partitions -> SUBSET Signals]
  BY DEF TypeInv
<1>2. Wakes(p, s) \in BOOLEAN
  BY DEF Wakes
<1> DEFINE w == Wakes(p, s)  d == Delivered(p, (had \cup {s}) \cap sig[p].waiting)
<1>3. d \subseteq sig[p].waiting /\ d \in SUBSET Signals
  BY <1>1 DEF Delivered
<1>4. /\ sig' = [sig EXCEPT ![p].asserted = had \cup {s}, ![p].waiting = @ \ {s},
                            ![p].owner = @ /\ ~w]
      /\ ret' = IF w THEN [ret EXCEPT ![p] = d] ELSE ret
  BY DEF SetSignal
<1> HIDE DEF w, d
<1>5. /\ ret' \in [Partitions -> SUBSET Signals]
      /\ \A q \in Partitions : q # p => ret'[q] = ret[q]
      /\ ~w => ret' = ret
      /\ w => ret'[p] \subseteq sig[p].waiting
  BY <1>1, <1>3, <1>4
<1>6. /\ sig' \in [Partitions -> [asserted : SUBSET Signals, waiting : SUBSET Signals,
                                  owner : BOOLEAN]]
      /\ sig'[p].asserted = had \cup {s}
      /\ sig'[p].waiting = sig[p].waiting \ {s}
      /\ sig'[p].owner = (sig[p].owner /\ ~w)
      /\ \A q \in Partitions : q # p => sig'[q] = sig[q]
  BY <1>1, <1>2, <1>4 DEF w
<1> QED
  BY <1>5, <1>6 DEF w

\* The message of agent a goes back to a, and is well formed.
LEMMA FillMsg ==
  ASSUME NEW a \in Agents, NEW s \in Services,
         NEW type \in {"connect", "call", "disconnect"},
         NEW status \in {"idle", "active", "error"}
  PROVE  LET m == tfm_spm_fill_msg(a, s, type, status)
         IN  /\ m \in Conns /\ Asker(m) = a /\ m.client = ClientId(a) /\ m.magic
             /\ m.service = s /\ m.type = type /\ m.status = status
BY SpmAssumption DEF tfm_spm_fill_msg, Conns, Asker, ClientId, Agents, Threads

\* A queued handle makes its service pending, and its service only.
LEMMA PendingQueued ==
  ASSUME TypeInv, NEW s \in Services
  PROVE  Pending(s) <=> Queued(s) # {}
<1>1. Owner[s] \in Partitions /\ msgs[Owner[s]] \in Seq(Handles)
  BY SpmAssumption DEF TypeInv
<1>2. \A i \in 1 .. Len(msgs[Owner[s]]) : msgs[Owner[s]][i] \in Handles
  BY <1>1, ElementOfSeq
<1> QED
  BY <1>2 DEF Pending, Queued, Contains

\* A partition with its event stands in psa_wait().
LEMMA OwnerWaits ==
  ASSUME WaitInv, NEW p \in Partitions, NEW s, Wakes(p, s)
  PROVE  /\ pc[p] \in {"waiting", "awake"} /\ ret[p] = {} /\ sig[p].owner
         /\ sig[p].waiting = Mask(p) /\ s \in sig[p].waiting
BY DEF WaitInv, WaitOK, Wakes

\* Asserting a signal keeps partitions and their waits in step.  Partitions that
\* were busy may go on to a call or to the end of their request.
LEMMA SignalWait ==
  ASSUME TypeInv, WaitInv, NEW p \in Partitions, NEW s \in Signals,
         NEW had \in SUBSET Signals, had \subseteq sig[p].asserted,
         SetSignal(p, s, had), got' = got, rpc' = rpc,
         \A q \in Partitions :
           \/ pc'[q] = Awoken(p, s)[q] /\ sched'.state[q] = Woken(p, s).state[q]
           \/ pc[q] = "serving" /\ pc'[q] \in {"calling", "done"}
  PROVE  WaitInv'
<1> SUFFICES ASSUME NEW q \in Partitions PROVE WaitOK(q)'
  BY DEF WaitInv
<1> USE DEF WaitOK, Mask
<1>1. /\ WaitOK(q) /\ Allowed(q)' = Allowed(q) /\ InFlight(q)' = InFlight(q)
      /\ p \in Agents /\ q \in Agents
  BY DEF WaitInv, Allowed, InFlight, Agents, Threads
<1>2. /\ sig'[p].asserted = had \cup {s}
      /\ sig'[p].waiting = sig[p].waiting \ {s}
      /\ sig'[p].owner <=> sig[p].owner /\ ~Wakes(p, s)
      /\ q # p => sig'[q] = sig[q] /\ ret'[q] = ret[q]
      /\ ~Wakes(p, s) => ret' = ret
      /\ Wakes(p, s) => ret'[p] \subseteq sig[p].waiting
  BY Signalled
<1>3. /\ Woken(p, s).state[q] = IF Wakes(p, s) /\ q = p THEN "run" ELSE sched.state[q]
      /\ Awoken(p, s)[q] = IF Wakes(p, s) /\ q = p THEN "awake" ELSE pc[q]
  <2>1. sched.state \in [Threads -> {"run", "block"}] /\ p \in Threads /\ q \in Threads
    BY DEF TypeInv, Shape, Threads
  <2>2. pc \in [Agents -> {"idle", "sent", "calling", "ready", "waiting", "awake",
                           "serving", "done"}]
    BY DEF TypeInv
  <2>3. Awoken(p, s)[q] = IF Wakes(p, s) /\ q = p THEN "awake" ELSE pc[q]
    BY <1>1, <2>2 DEF Awoken
  <2> QED
    BY <2>1, <2>3, WokenState
<1>4. CASE pc[q] = "serving" /\ pc'[q] \in {"calling", "done"}
  <2>1. ~sig[q].owner /\ got[q] # NoHandle
    BY <1>1, <1>4
  <2> QED
    BY <2>1, <1>2, <1>4
<1>5. CASE pc'[q] = Awoken(p, s)[q] /\ sched'.state[q] = Woken(p, s).state[q]
  <2>1. CASE q # p
    BY <2>1, <1>1, <1>2, <1>3, <1>5
  <2>2. CASE q = p /\ Wakes(p, s)
    BY <2>2, <1>1, <1>2, <1>3, <1>5, OwnerWaits
  <2>3. CASE q = p /\ ~Wakes(p, s)
    <3>1. sig[p].owner => s \notin sig[p].waiting
      BY <2>3, <1>1 DEF Wakes
    <3> QED
      BY <3>1, <2>3, <1>1, <1>2, <1>3, <1>5
  <2> QED
    BY <2>1, <2>2, <2>3
<1> QED
  BY <1>4, <1>5

\* Steps that leave the messages and connections alone.
LEMMA HandlesKept ==
  ASSUME HandlesInv, UNCHANGED <<msgs, conn, pool, got, held>>,
         \A a \in Agents : pc[a] = "calling" <=> pc'[a] = "calling"
  PROVE  HandlesInv'
<1>1. \A p, h : UnderWay(p, h)' <=> UnderWay(p, h)
  BY DEF UnderWay
<1>2. \A h : HeldBy(h)' <=> HeldBy(h)
  BY DEF HeldBy, Holds
<1>3. QueuesInv' /\ FreeInv' /\ HeldInv' /\ ActiveInv'
  BY <1>2 DEF HandlesInv, QueuesInv, FreeInv, HeldInv, ActiveInv, Holds
<1>4. KeptInv' /\ AskersInv' /\ CallersInv'
  BY <1>1, <1>2 DEF HandlesInv, KeptInv, Reachable, Leaked, AskersInv, CallersInv
<1>5. MessagesInv'
  BY <1>1, <1>2 DEF HandlesInv, MessagesInv, MessageOK, Holds
<1> QED
  BY <1>3, <1>4, <1>5 DEF HandlesInv

\* Steps that leave the messages alone and assert or clear no service signal.
LEMMA SignalsKept ==
  ASSUME TypeInv, SignalsInv, RpcInv, UNCHANGED <<topo, msgs, conn, rpc>>,
         \A p \in Partitions : /\ sig'[p].asserted \cap Services = sig[p].asserted \cap Services
                               /\ sig[p].asserted \subseteq sig'[p].asserted
                                    \/ rpc.phase # "store"
                               /\ sig'[p].asserted \ {"irq"} = sig[p].asserted \ {"irq"}
                                    \/ rpc.phase # "store"
  PROVE  SignalsInv' /\ RpcInv'
<1>1. \A s : Pending(s)' <=> Pending(s)
  BY DEF Pending
<1>2. \A s \in Services : Owner[s] \in Partitions
  BY SpmAssumption
<1>3. SignalsInv'
  BY <1>1, <1>2 DEF SignalsInv
<1>4. RpcInv'
  <2> SUFFICES ASSUME rpc.phase = "store", rpc.service \in Services
               PROVE  RpcInv'
    BY DEF RpcInv, TypeInv, Rpcs
  <2> DEFINE p == Owner[rpc.service]
  <2>1. /\ sig[p].asserted \subseteq sig'[p].asserted
        /\ sig'[p].asserted \ {"irq"} = sig[p].asserted \ {"irq"}
    BY <1>2
  <2> QED
    BY <2>1, <1>1 DEF RpcInv
<1> QED
  BY <1>3, <1>4

-----------------------------------------------------------------------------
(* Requests.                                                               *)

\* The message of an agent that calls is on a handle that was free, or on one of
\* its own connections; nothing else is on its way there.
LEMMA HandleUnused ==
  ASSUME TypeInv, HandlesInv, NEW a \in Agents, NEW s \in Services, NEW h \in Handles,
         pc[a] # "calling", Contains(pool, h) \/ Holds(a, s, h)
  PROVE  \A p \in Partitions : ~UnderWay(p, h)
<1> SUFFICES ASSUME NEW p \in Partitions, UnderWay(p, h) PROVE FALSE
  OBVIOUS
<1>1. MessageOK(p, h)
  BY DEF HandlesInv, MessagesInv
<1>2. CASE Contains(pool, h)
  BY <1>1, <1>2 DEF HandlesInv, FreeInv, MessageOK
<1>3. CASE Holds(a, s, h)
  <2>1. HeldBy(h)
    BY <1>3 DEF HeldBy
  <2> DEFINE b == Asker(conn[h])
  <2>2. b \in Agents /\ pc[b] = "calling" /\ Holds(b, conn[h].service, h)
    BY <1>1, <2>1 DEF MessageOK
  <2>3. conn[h].service \in Services
    BY DEF TypeInv, Conns
  <2> HIDE DEF b
  <2>4. a = b
    BY <1>3, <2>2, <2>3 DEF HandlesInv, HeldInv
  <2> QED
    BY <2>2, <2>4
<1> QED
  BY <1>2, <1>3

\* What sending message m of agent a on handle h does to the handles.
Sending(a, s, h, m) ==
  /\ m.service = s /\ m.client = ClientId(a) /\ m.magic /\ Asker(m) = a
  /\ Authorized(a, s)
  /\ pc[a] # "calling" /\ pc'[a] = "calling"
  /\ \A b \in Agents : b # a => (pc[b] = "calling" <=> pc'[b] = "calling")
  /\ conn' = [conn EXCEPT ![h] = m]
  /\ msgs' = [msgs EXCEPT ![Owner[s]] = Append(@, h)]
  /\ UNCHANGED <<got, held>>
  /\ Distinct(pool')
  /\ \A k \in Handles : Contains(pool', k) <=> Contains(pool, k) /\ k # h
  /\ m.status # "active"
  /\ \/ Contains(pool, h) /\ ~OnConnection(m) /\ (m.type = "connect" => held[a][s] = NoHandle)
     \/ Holds(a, s, h) /\ OnConnection(m)

LEMMA HandleSent ==
  ASSUME TypeInv, HandlesInv, NEW a \in Agents, NEW s \in Services, NEW h \in Handles,
         NEW m \in Conns, Sending(a, s, h, m)
  PROVE  HandlesInv'
<1> USE DEF Sending
<1>1. \A p \in Partitions : ~UnderWay(p, h)
  <2>1. Contains(pool, h) \/ Holds(a, s, h)
    OBVIOUS
  <2> QED
    BY <2>1, HandleUnused
<1>2. /\ Owner[s] \in Partitions /\ msgs \in [Partitions -> Seq(Handles)]
      /\ conn \in [Handles -> Conns] /\ got' = got
  BY SpmAssumption DEF TypeInv
<1>3. /\ \A k \in Handles : conn'[k] = IF k = h THEN m ELSE conn[k]
      /\ \A p \in Partitions :
            msgs'[p] = IF p = Owner[s] THEN Append(msgs[p], h) ELSE msgs[p]
  BY <1>2
<1>4. ASSUME NEW p \in Partitions
      PROVE  /\ Distinct(msgs'[p])
             /\ \A k \in Handles : Contains(msgs'[p], k)
                                     <=> Contains(msgs[p], k) \/ (p = Owner[s] /\ k = h)
  <2>1. Distinct(msgs[p]) /\ ~Contains(msgs[p], h) /\ msgs[p] \in Seq(Handles)
    BY <1>1, <1>2 DEF HandlesInv, QueuesInv, UnderWay
  <2>2. /\ \A k : Contains(Append(msgs[p], h), k) <=> Contains(msgs[p], k) \/ k = h
        /\ Distinct(Append(msgs[p], h))
    BY <2>1, AppendQueue
  <2> QED
    BY <2>1, <2>2, <1>3
<1>5. \A p \in Partitions : \A k \in Handles :
         UnderWay(p, k)' <=> UnderWay(p, k) \/ (p = Owner[s] /\ k = h)
  BY <1>2, <1>4 DEF UnderWay
<1>6. \A k : /\ HeldBy(k)' <=> HeldBy(k)
             /\ \A b, t : Holds(b, t, k)' <=> Holds(b, t, k)
  BY DEF HeldBy, Holds
<1>7. QueuesInv'
  BY <1>1, <1>2, <1>4 DEF HandlesInv, QueuesInv, UnderWay
<1>8. FreeInv'
  BY <1>3, <1>6 DEF HandlesInv, FreeInv
<1>9. HeldInv'
  <2> SUFFICES ASSUME NEW k \in Handles, NEW b \in Agents, NEW t \in Services, Holds(b, t, k)
               PROVE  /\ conn'[k].magic /\ conn'[k].service = t
                      /\ conn'[k].client = ClientId(b) /\ Authorized(b, t)
                      /\ \A c \in Agents : \A u \in Services : Holds(c, u, k) => b = c
    BY DEF HeldInv, Holds
  <2>1. /\ conn[k].magic /\ conn[k].service = t /\ conn[k].client = ClientId(b)
        /\ Authorized(b, t)
        /\ \A c \in Agents : \A u \in Services : Holds(c, u, k) => b = c
    BY DEF HandlesInv, HeldInv
  <2>2. CASE k # h
    BY <2>1, <2>2, <1>3
  <2>3. CASE k = h
    <3>1. ~Contains(pool, h)
      BY <2>3 DEF HandlesInv, FreeInv, HeldBy
    <3>2. Holds(a, s, h)
      BY <3>1
    <3>3. b = a /\ conn[h].service = s
      BY <3>2, <2>1, <2>3 DEF HandlesInv, HeldInv
    <3> QED
      BY <3>3, <2>1, <2>3, <1>3
  <2> QED
    BY <2>2, <2>3
<1>10. MessagesInv'
  <2> SUFFICES ASSUME NEW p \in Partitions, NEW k \in Handles, UnderWay(p, k)'
               PROVE  MessageOK(p, k)'
    BY DEF MessagesInv
  <2>1. CASE k = h
    <3>1. p = Owner[s] /\ conn'[k] = m
      BY <2>1, <1>1, <1>3, <1>5
    <3>2. OnConnection(m) => Holds(a, s, h)'
      BY <1>6 DEF HandlesInv, FreeInv
    <3>3. ~OnConnection(m) => ~HeldBy(h)' /\ (m.type = "connect" => held'[a][s] = NoHandle)
      BY <1>6 DEF HandlesInv, FreeInv
    <3> QED
      BY <2>1, <3>1, <3>2, <3>3 DEF MessageOK, OnConnection, Asker, ClientId, Authorized
  <2>2. CASE k # h
    <3>1. MessageOK(p, k) /\ conn'[k] = conn[k]
      BY <2>2, <1>3, <1>5 DEF HandlesInv, MessagesInv
    <3> QED
      BY <3>1, <1>6 DEF MessageOK, OnConnection, Asker, ClientId, Authorized
  <2> QED
    BY <2>1, <2>2
<1>11. AskersInv'
  <2> SUFFICES ASSUME NEW p \in Partitions, NEW q \in Partitions,
                      NEW k \in Handles, NEW l \in Handles,
                      UnderWay(p, k)', UnderWay(q, l)',
                      Asker(conn'[k]) = Asker(conn'[l])
               PROVE  k = l
    BY DEF AskersInv, Asker
  <2>1. ASSUME NEW r \in Partitions, NEW n \in Handles, UnderWay(r, n)'
        PROVE  n # h => UnderWay(r, n) /\ conn'[n] = conn[n] /\ Asker(conn[n]) # a
    <3>1. n # h => UnderWay(r, n) /\ conn'[n] = conn[n]
      BY <2>1, <1>3, <1>5
    <3> QED
      BY <3>1 DEF HandlesInv, MessagesInv, MessageOK
  <2>2. Asker(conn'[h]) = a
    BY <1>3
  <2>3. CASE k # h /\ l # h
    BY <2>1, <2>3 DEF HandlesInv, AskersInv
  <2>4. CASE ~(k # h /\ l # h)
    BY <2>1, <2>2, <2>4
  <2> QED
    BY <2>3, <2>4
<1>12. ActiveInv'
  BY <1>2, <1>3 DEF HandlesInv, ActiveInv
<1>13. KeptInv'
  BY <1>2, <1>3, <1>5, <1>6 DEF HandlesInv, KeptInv, Reachable, Leaked
<1>14. CallersInv'
  <2> SUFFICES ASSUME NEW b \in Agents, pc'[b] = "calling"
               PROVE  \E p \in Partitions : \E k \in Handles :
                        UnderWay(p, k)' /\ Asker(conn'[k]) = b
    BY DEF CallersInv, Asker
  <2>1. CASE b = a
    BY <2>1, <1>2, <1>3, <1>5
  <2>2. CASE b # a
    <3>1. PICK p \in Partitions, k \in Handles : UnderWay(p, k) /\ Asker(conn[k]) = b
      BY <2>2 DEF HandlesInv, CallersInv
    <3>2. k # h
      BY <3>1, <1>1
    <3> QED
      BY <3>1, <3>2, <1>3, <1>5
  <2> QED
    BY <2>1, <2>2
<1> QED
  BY <1>7, <1>8, <1>9, <1>10, <1>11, <1>12, <1>13, <1>14 DEF HandlesInv

\* A message on a handle that was not on its way makes its service pending and
\* changes nothing for the other services.
LEMMA PendingSent ==
  ASSUME TypeInv, HandlesInv, NEW a \in Agents, NEW s \in Services, NEW h \in Handles,
         NEW m \in Conns, Sending(a, s, h, m)
  PROVE  Pending(s)' /\ \A t \in Services : t # s => (Pending(t)' <=> Pending(t))
<1>1. \A p \in Partitions : ~UnderWay(p, h)
  <2>1. pc[a] # "calling" /\ (Contains(pool, h) \/ Holds(a, s, h))
    BY DEF Sending
  <2> QED
    BY <2>1, HandleUnused
<1>2. /\ \A t \in Services : Owner[t] \in Partitions
      /\ msgs \in [Partitions -> Seq(Handles)] /\ conn \in [Handles -> Conns]
  BY SpmAssumption DEF TypeInv
<1>3. /\ \A k \in Handles : conn'[k] = IF k = h THEN m ELSE conn[k]
      /\ \A p \in Partitions :
            msgs'[p] = IF p = Owner[s] THEN Append(msgs[p], h) ELSE msgs[p]
      /\ m.service = s
  BY <1>2 DEF Sending
<1>4. ASSUME NEW p \in Partitions, NEW k \in Handles
      PROVE  Contains(msgs'[p], k) <=> Contains(msgs[p], k) \/ (p = Owner[s] /\ k = h)
  <2>1. msgs[p] \in Seq(Handles)
    BY <1>2
  <2>2. Contains(Append(msgs[p], h), k) <=> Contains(msgs[p], k) \/ k = h
    BY <2>1, AppendQueue
  <2> QED
    BY <2>2, <1>3
<1>5. Pending(s)'
  BY <1>2, <1>3, <1>4 DEF Pending
<1>6. ASSUME NEW t \in Services, t # s
      PROVE  Pending(t)' <=> Pending(t)
  <2>1. ~Contains(msgs[Owner[t]], h)
    BY <1>1, <1>2 DEF UnderWay
  <2> QED
    BY <2>1, <1>2, <1>3, <1>4, <1>6 DEF Pending
<1> QED
  BY <1>5, <1>6

\* Steps in which no partition moves.
LEMMA WaitKept ==
  ASSUME WaitInv, UNCHANGED <<sig, got, ret>>,
         \A p \in Partitions : /\ pc'[p] = pc[p] /\ sched'.state[p] = sched.state[p]
                               /\ InFlight(p)' = InFlight(p)
  PROVE  WaitInv'
BY DEF WaitInv, WaitOK, Mask, Allowed

\* A signal wakes no agent out of a call.
LEMMA AwokenCalling ==
  ASSUME TypeInv, WaitInv, NEW p \in Partitions, NEW s
  PROVE  /\ Awoken(p, s) \in [Agents -> {"idle", "sent", "calling", "ready", "waiting",
                                         "awake", "serving", "done"}]
         /\ \A b \in Agents : b # p => Awoken(p, s)[b] = pc[b]
         /\ \A b \in Agents : pc[b] \notin {"waiting", "awake"} => Awoken(p, s)[b] = pc[b]
         /\ \A b \in Agents : pc[b] = "calling" <=> Awoken(p, s)[b] = "calling"
<1>1. /\ p \in Agents
      /\ pc \in [Agents -> {"idle", "sent", "calling", "ready", "waiting", "awake",
                            "serving", "done"}]
  BY DEF TypeInv, Agents, Threads
<1> QED
  BY <1>1, OwnerWaits DEF Awoken

\* An agent that may call is not in a call.
LEMMA CallerFree ==
  ASSUME TypeInv, NEW a \in Agents, MayCall(a)
  PROVE  /\ pc[a] \in {"idle", "sent", "serving"}
         /\ a \in Callers => rpc.phase = "scan"
         /\ a \notin Callers => a \in Threads /\ rpc.phase = "off"
         /\ a \in Partitions => pc[a] = "serving"
         /\ a = NS => inputs < MaxInputs[topo]
BY SpmAssumption DEF MayCall, Running, Agents, Threads

\* A request of agent a to service s on handle h.
Request(a, s, h, type, status) ==
  /\ MayCall(a) /\ Authorized(a, s)
  /\ conn' = [conn EXCEPT ![h] = tfm_spm_fill_msg(a, s, type, status)]
  /\ tfm_spm_send_event(a, s, h)
  /\ Count(a)
  /\ UNCHANGED <<config, saved, line, got, held, halted>>
  /\ pool' \in Seq(Handles) /\ Distinct(pool')
  /\ \A k \in Handles : Contains(pool', k) <=> Contains(pool, k) /\ k # h
  /\ LET m == tfm_spm_fill_msg(a, s, type, status)
     IN  \/ Contains(pool, h) /\ ~OnConnection(m) /\ (type = "connect" => held[a][s] = NoHandle)
         \/ Holds(a, s, h) /\ OnConnection(m)

LEMMA RequestInv ==
  ASSUME IInv, NEW a \in Agents, NEW s \in Services, NEW h \in Handles,
         NEW type \in {"connect", "call", "disconnect"}, NEW status \in {"idle", "error"},
         Request(a, s, h, type, status)
  PROVE  IInv'
<1> DEFINE p == Owner[s]  m == tfm_spm_fill_msg(a, s, type, status)
           Pcs == {"idle", "sent", "calling", "ready", "waiting", "awake", "serving", "done"}
<1>1. /\ TypeInv /\ SignalsInv /\ RpcInv /\ WaitInv /\ HandlesInv /\ IrqSignalKept
      /\ p \in Partitions /\ p \in Agents /\ p \in Threads /\ s \in Signals
      /\ \A t \in Services : Owner[t] \in Partitions
  BY SpmAssumption DEF IInv, Agents, Threads, Signals
<1>2. /\ m \in Conns /\ Asker(m) = a /\ m.client = ClientId(a) /\ m.magic
      /\ m.service = s /\ m.type = type /\ m.status = status
  BY FillMsg
<1>3. /\ pc[a] \in {"idle", "sent", "serving"}
      /\ a \in Callers => rpc.phase = "scan"
      /\ a \notin Callers => a \in Threads /\ rpc.phase = "off"
      /\ a \in Partitions => pc[a] = "serving"
      /\ a = NS => inputs < MaxInputs[topo]
  BY <1>1, CallerFree DEF Request
<1>4. /\ a \notin Callers => /\ SetSignal(p, s, sig[p].asserted)
                             /\ sched' = tfm_event_wait(Woken(p, s), a)
                             /\ pc' = [Awoken(p, s) EXCEPT ![a] = "calling"]
                             /\ UNCHANGED rpc
      /\ a \in Callers => /\ rpc' = [phase |-> "store", service |-> s, had |-> sig[p].asserted]
                          /\ pc' = [pc EXCEPT ![a] = "calling"]
                          /\ UNCHANGED <<sig, ret, sched>>
      /\ msgs' = [msgs EXCEPT ![p] = Append(@, h)]
  BY DEF Request, tfm_spm_send_event
<1>5. /\ conn' = [conn EXCEPT ![h] = m]
      /\ Count(a) /\ UNCHANGED <<config, saved, line, got, held, halted>>
      /\ pool' \in Seq(Handles) /\ Distinct(pool')
      /\ \A k \in Handles : Contains(pool', k) <=> Contains(pool, k) /\ k # h
      /\ \/ Contains(pool, h) /\ ~OnConnection(m) /\ (type = "connect" => held[a][s] = NoHandle)
         \/ Holds(a, s, h) /\ OnConnection(m)
  BY DEF Request
<1> HIDE DEF m, p
<1>6. /\ sig \in [Partitions -> [asserted : SUBSET Signals, waiting : SUBSET Signals,
                                 owner : BOOLEAN]]
      /\ pc \in [Agents -> Pcs] /\ msgs \in [Partitions -> Seq(Handles)]
      /\ sig[p].asserted \in SUBSET Signals
  BY <1>1 DEF TypeInv
<1>7. /\ Awoken(p, s) \in [Agents -> Pcs]
      /\ \A b \in Agents : b # p => Awoken(p, s)[b] = pc[b]
      /\ \A b \in Agents : pc[b] = "calling" <=> Awoken(p, s)[b] = "calling"
  BY <1>1, AwokenCalling
<1>8. /\ pc' \in [Agents -> Pcs] /\ pc'[a] = "calling"
      /\ \A b \in Agents : b # a => (pc[b] = "calling" <=> pc'[b] = "calling")
      /\ a \in Callers => \A b \in Agents : b # a => pc'[b] = pc[b]
      /\ a \notin Callers => \A b \in Agents : b # a => pc'[b] = Awoken(p, s)[b]
  BY <1>4, <1>6, <1>7
<1>9. Sending(a, s, h, m)
  BY <1>2, <1>3, <1>4, <1>5, <1>8 DEF Sending, Request, p
<1>10. HandlesInv' /\ Pending(s)' /\ \A t \in Services : t # s => (Pending(t)' <=> Pending(t))
  BY <1>1, <1>2, <1>9, HandleSent, PendingSent
<1>11. a \notin Callers =>
         /\ Shape(sched')
         /\ \A q \in Threads : q # a => sched'.state[q] = Woken(p, s).state[q]
  <2> SUFFICES ASSUME a \notin Callers
               PROVE  /\ Shape(sched')
                      /\ \A q \in Threads : q # a => sched'.state[q] = Woken(p, s).state[q]
    OBVIOUS
  <2> DEFINE k == Woken(p, s)
  <2>1. Shape(k)
    BY <1>1, WokenState
  <2> HIDE DEF k
  <2>2. Shape(tfm_event_wait(k, a)) /\ tfm_event_wait(k, a).state = [k.state EXCEPT ![a] = "block"]
    BY <2>1, <1>3, EventWait
  <2>3. k.state \in [Threads -> {"run", "block"}]
    BY <2>1 DEF Shape
  <2> QED
    BY <2>2, <2>3, <1>4 DEF k
<1>12. a \notin Callers =>
         /\ sig' \in [Partitions -> [asserted : SUBSET Signals, waiting : SUBSET Signals,
                                     owner : BOOLEAN]]
         /\ ret' \in [Partitions -> SUBSET Signals]
         /\ sig'[p].asserted = sig[p].asserted \cup {s}
         /\ \A q \in Partitions : q # p => sig'[q] = sig[q]
  BY <1>1, <1>4, <1>6, Signalled
<1>13. TypeInv'
  <2>1. /\ Shape(sched)' 
        /\ sig' \in [Partitions -> [asserted : SUBSET Signals, waiting : SUBSET Signals,
                                    owner : BOOLEAN]]
        /\ ret' \in [Partitions -> SUBSET Signals]
    <3>1. CASE a \notin Callers
      BY <3>1, <1>11, <1>12 DEF Shape
    <3>2. CASE a \in Callers
      BY <3>2, <1>1, <1>4 DEF TypeInv, Shape
    <3> QED
      BY <3>1, <3>2
  <2>2. conn' \in [Handles -> Conns]
    BY <1>1, <1>2, <1>5 DEF TypeInv
  <2>3. msgs' \in [Partitions -> Seq(Handles)]
    <3>1. msgs[p] \in Seq(Handles)
      BY <1>1, <1>6
    <3>2. Append(msgs[p], h) \in Seq(Handles)
      BY <3>1, AppendQueue
    <3> QED
      BY <3>2, <1>4, <1>6
  <2>4. rpc' \in Rpcs
    BY <1>1, <1>4, <1>6 DEF TypeInv, Rpcs
  <2>5. inputs' \in 0 .. MaxInputs[topo]'
    <3>1. MaxInputs[topo] \in Nat /\ inputs \in 0 .. MaxInputs[topo] /\ topo' = topo
      BY <1>1, <1>5, SpmAssumption DEF TypeInv, config
    <3>2. inputs' = IF a = NS THEN inputs + 1 ELSE inputs
      BY <1>5 DEF Count
    <3> QED
      BY <3>1, <3>2, <1>3
  <2> QED
    BY <2>1, <2>2, <2>3, <2>4, <2>5, <1>1, <1>5, <1>8 DEF TypeInv, config
<1>14. SignalsInv'
  <2>1. CASE a \notin Callers
    <3>1. \A t \in Services : t \in sig[Owner[t]].asserted <=> Pending(t)
      BY <1>1, <1>3, <2>1 DEF SignalsInv
    <3>2. \A q \in Partitions : \A t \in Services :
             t \in sig'[q].asserted <=> t \in sig[q].asserted \/ (q = p /\ t = s)
      BY <1>12, <2>1
    <3>3. \A t \in Services : t \in sig'[Owner[t]].asserted <=> Pending(t)'
      BY <3>1, <3>2, <1>1, <1>10 DEF p
    <3>4. \A q \in Partitions : \A t \in Services : t \in sig'[q].asserted => Owner[t] = q
      BY <3>2, <1>1 DEF SignalsInv, p
    <3> QED
      BY <3>3, <3>4 DEF SignalsInv
  <2>2. CASE a \in Callers
    <3>1. \A t \in Services : t \in sig[Owner[t]].asserted <=> Pending(t)
      BY <1>1, <1>3, <2>2 DEF SignalsInv
    <3>2. sig' = sig /\ rpc'.phase = "store" /\ rpc'.service = s
      BY <1>4, <2>2
    <3> QED
      BY <3>1, <3>2, <1>1, <1>10 DEF SignalsInv
  <2> QED
    BY <2>1, <2>2
<1>15. RpcInv'
  <2>1. CASE a \notin Callers
    BY <2>1, <1>3, <1>4 DEF RpcInv
  <2>2. CASE a \in Callers
    BY <2>2, <1>1, <1>3, <1>4, <1>5, <1>10 DEF RpcInv, config, p
  <2> QED
    BY <2>1, <2>2
<1>16. WaitInv'
  <2>1. CASE a \notin Callers
    <3>1. ASSUME NEW q \in Partitions
          PROVE  \/ pc'[q] = Awoken(p, s)[q] /\ sched'.state[q] = Woken(p, s).state[q]
                 \/ pc[q] = "serving" /\ pc'[q] \in {"calling", "done"}
      BY <2>1, <1>3, <1>8, <1>11 DEF Agents, Threads
    <3> QED
      BY <2>1, <3>1, <1>1, <1>4, <1>5, <1>6, SignalWait
  <2>2. CASE a \in Callers
    <3>1. \A q \in Partitions : pc'[q] = pc[q] /\ sched'.state[q] = sched.state[q]
      BY <2>2, <1>4, <1>8, SpmAssumption DEF Agents, Threads
    <3>2. \A q \in Partitions : InFlight(q)' = InFlight(q)
      BY <2>2, <1>3, <1>4 DEF InFlight
    <3> QED
      BY <2>2, <3>1, <3>2, <1>1, <1>4, <1>5, WaitKept
  <2> QED
    BY <2>1, <2>2
<1>17. IrqSignalKept'
  <2>1. \A q \in Partitions : sig[q].asserted \subseteq sig'[q].asserted
    BY <1>4, <1>12
  <2> QED
    BY <2>1, <1>1, <1>5, SpmAssumption DEF IrqSignalKept, config
<1> QED
  BY <1>10, <1>13, <1>14, <1>15, <1>16, <1>17 DEF IInv

\* A handle taken from the pool for a request.
LEMMA NewInv ==
  ASSUME IInv, NEW a \in Agents, NEW s \in Services, NEW type \in {"connect", "call"},
         MayCall(a), Authorized(a, s), SendNew(a, s, type), Count(a),
         UNCHANGED <<config, saved, line, got, held, halted>>,
         type = "connect" => held[a][s] = NoHandle, type = "call" => s \in Stateless
  PROVE  IInv'
<1> DEFINE h == Head(pool)  m == tfm_spm_fill_msg(a, s, type, "idle")
<1>1. pool \in Seq(Handles) /\ pool # <<>> /\ Distinct(pool)
  BY DEF IInv, TypeInv, HandlesInv, QueuesInv, SendNew
<1>2. /\ h \in Handles /\ Contains(pool, h)
      /\ Tail(pool) \in Seq(Handles) /\ Distinct(Tail(pool))
      /\ \A k : Contains(Tail(pool), k) <=> Contains(pool, k) /\ k # h
  BY <1>1, TailQueue
<1>3. m.type = type /\ m.service = s
  BY FillMsg
<1>4. pool' = Tail(pool) /\ conn' = [conn EXCEPT ![h] = m] /\ tfm_spm_send_event(a, s, h)
  BY DEF SendNew
<1> HIDE DEF h
<1>5. ~OnConnection(m)
  BY <1>3 DEF OnConnection
<1>6. Request(a, s, h, type, "idle")
  BY <1>2, <1>4, <1>5 DEF Request
<1> QED
  BY <1>2, <1>6, RequestInv

\* A request on a connection the agent has open.
LEMMA OnInv ==
  ASSUME IInv, NEW a \in Agents, NEW s \in Services, NEW type \in {"call", "disconnect"},
         MayCall(a), held[a][s] # NoHandle, conn[held[a][s]].status # "active",
         SendOn(a, s, held[a][s], type), Count(a),
         UNCHANGED <<config, saved, line, got, held, halted>>,
         type = "call" => s \notin Stateless
  PROVE  IInv'
<1> DEFINE h == held[a][s]  st == conn[h].status  m == tfm_spm_fill_msg(a, s, type, st)
<1>1. h \in Handles /\ conn \in [Handles -> Conns] /\ pool \in Seq(Handles)
  BY DEF IInv, TypeInv
<1>2. /\ Holds(a, s, h) /\ ~Contains(pool, h) /\ Distinct(pool)
      /\ Authorized(a, s)
  <2>1. Holds(a, s, h)
    BY DEF Holds
  <2> QED
    BY <1>1, <2>1 DEF IInv, HandlesInv, FreeInv, QueuesInv, HeldBy, HeldInv
<1>3. st \in {"idle", "error"}
  BY <1>1 DEF Conns
<1>4. conn' = [conn EXCEPT ![h] = m] /\ tfm_spm_send_event(a, s, h) /\ pool' = pool
  BY DEF SendOn
<1> HIDE DEF h, st
<1>5. m.type = type /\ m.service = s
  BY <1>3, FillMsg
<1>6. OnConnection(m)
  BY <1>5 DEF OnConnection
<1>7. Request(a, s, h, type, st)
  BY <1>1, <1>2, <1>4, <1>6 DEF Request
<1> QED
  BY <1>1, <1>3, <1>7, RequestInv

\* A handle taken from the pool for a call that is then refused.
LEMMA RefusedInv ==
  ASSUME IInv, NEW a \in Agents, NEW s \in Services, VectorsRefused(a, s)
  PROVE  IInv'
<1> DEFINE h == Head(pool)
           n == [FreeConn EXCEPT !.service = s, !.client = ClientId(a)]
           Pcs == {"idle", "sent", "calling", "ready", "waiting", "awake", "serving", "done"}
<1>1. /\ TypeInv /\ SignalsInv /\ RpcInv /\ WaitInv /\ HandlesInv /\ IrqSignalKept
      /\ \A t \in Services : Owner[t] \in Partitions
  BY SpmAssumption DEF IInv
<1>2. pool \in Seq(Handles) /\ pool # <<>> /\ Distinct(pool)
  BY <1>1 DEF TypeInv, HandlesInv, QueuesInv, VectorsRefused
<1>3. /\ h \in Handles /\ Contains(pool, h)
      /\ Tail(pool) \in Seq(Handles) /\ Distinct(Tail(pool))
      /\ \A k : Contains(Tail(pool), k) <=> Contains(pool, k) /\ k # h
  BY <1>2, TailQueue
<1>4. /\ MayCall(a) /\ a \notin Partitions /\ s \in Stateless
      /\ conn' = [conn EXCEPT ![h] = n] /\ pool' = Tail(pool)
      /\ pc' = [pc EXCEPT ![a] = "idle"] /\ Count(a)
      /\ UNCHANGED <<config, sched, saved, sig, msgs, line, rpc, got, ret, held, halted>>
  BY DEF VectorsRefused
<1>5. /\ n \in Conns /\ n.status = "idle" /\ ~n.magic /\ n.service = s /\ n.client = NS
  <2>1. (CHOOSE t \in Services : TRUE) \in Services /\ ClientId(a) = NS /\ NS \in Threads
    BY <1>4 DEF ClientId, Threads
  <2> QED
    BY <2>1 DEF FreeConn, Conns
<1> HIDE DEF h, n
<1>6. /\ pc[a] # "calling" /\ pc' \in [Agents -> Pcs]
      /\ pc'[a] = "idle" /\ \A b \in Agents : b # a => pc'[b] = pc[b]
  BY <1>1, <1>4, CallerFree DEF TypeInv
<1>7. conn' \in [Handles -> Conns] /\ \A k \in Handles : conn'[k] = IF k = h THEN n ELSE conn[k]
  BY <1>1, <1>4, <1>5 DEF TypeInv
<1>8. /\ \A p, k : UnderWay(p, k)' <=> UnderWay(p, k)
      /\ \A k : HeldBy(k)' <=> HeldBy(k)
      /\ \A b, t, k : Holds(b, t, k)' <=> Holds(b, t, k)
  BY <1>4 DEF UnderWay, HeldBy, Holds
<1>9. ~HeldBy(h) /\ ~conn[h].magic
  BY <1>1, <1>3 DEF HandlesInv, FreeInv
<1>10. \A p \in Partitions : ~UnderWay(p, h)
  BY <1>1, <1>3, <1>9 DEF HandlesInv, MessagesInv, MessageOK
<1>11. TypeInv'
  <2>1. inputs' \in 0 .. MaxInputs[topo]'
    <3>1. MaxInputs[topo] \in Nat /\ inputs \in 0 .. MaxInputs[topo] /\ topo' = topo
      BY <1>1, <1>4, SpmAssumption DEF TypeInv, config
    <3>2. inputs' = IF a = NS THEN inputs + 1 ELSE inputs
      BY <1>4 DEF Count
    <3>3. a = NS => inputs < MaxInputs[topo]
      BY <1>1, <1>4, CallerFree
    <3> QED
      BY <3>1, <3>2, <3>3
  <2> QED
    BY <2>1, <1>1, <1>3, <1>4, <1>6, <1>7 DEF TypeInv, config, Shape
<1>12. SignalsInv' /\ RpcInv'
  <2>1. \A t \in Services : Pending(t)' <=> Pending(t)
    <3>1. \A t \in Services : ~Contains(msgs[Owner[t]], h)
      BY <1>1, <1>10 DEF UnderWay
    <3> QED
      BY <3>1, <1>4, <1>7 DEF Pending
  <2>2. rpc.service \in Services /\ rpc' = rpc /\ sig' = sig /\ topo' = topo
    BY <1>1, <1>4 DEF TypeInv, Rpcs, config
  <2> QED
    BY <2>1, <2>2, <1>1 DEF SignalsInv, RpcInv
<1>13. WaitInv'
  <2>1. \A p \in Partitions : /\ pc'[p] = pc[p] /\ sched'.state[p] = sched.state[p]
                               /\ InFlight(p)' = InFlight(p)
    BY <1>4, <1>6 DEF InFlight, Agents, Threads
  <2> QED
    BY <2>1, <1>1, <1>4, WaitKept
<1>14. QueuesInv' /\ FreeInv'
  BY <1>1, <1>3, <1>4, <1>5, <1>7, <1>8 DEF HandlesInv, QueuesInv, FreeInv
<1>15. HeldInv'
  <2> SUFFICES ASSUME NEW k \in Handles, NEW b \in Agents, NEW t \in Services, Holds(b, t, k)
               PROVE  /\ conn'[k].magic /\ conn'[k].service = t
                      /\ conn'[k].client = ClientId(b) /\ Authorized(b, t)
                      /\ \A c \in Agents : \A u \in Services : Holds(c, u, k) => b = c
    BY <1>8 DEF HeldInv, ClientId, Authorized
  <2>1. k # h
    BY <1>9 DEF HeldBy
  <2> QED
    BY <2>1, <1>1, <1>7 DEF HandlesInv, HeldInv
<1>16. MessagesInv'
  <2> SUFFICES ASSUME NEW p \in Partitions, NEW k \in Handles, UnderWay(p, k)
               PROVE  MessageOK(p, k)'
    BY <1>8 DEF MessagesInv
  <2>1. MessageOK(p, k) /\ conn'[k] = conn[k] /\ held' = held
    BY <1>1, <1>4, <1>7, <1>10 DEF HandlesInv, MessagesInv
  <2>2. pc'[Asker(conn[k])] = "calling"
    BY <2>1, <1>6 DEF MessageOK
  <2> QED
    BY <2>1, <2>2, <1>8 DEF MessageOK, OnConnection, Asker, ClientId, Authorized
<1>17. AskersInv'
  BY <1>1, <1>7, <1>8, <1>10 DEF HandlesInv, AskersInv
<1>18. CallersInv'
  <2> SUFFICES ASSUME NEW b \in Agents, pc'[b] = "calling"
               PROVE  \E p \in Partitions : \E k \in Handles :
                        UnderWay(p, k)' /\ Asker(conn'[k]) = b
    BY DEF CallersInv, Asker
  <2>1. PICK p \in Partitions, k \in Handles : UnderWay(p, k) /\ Asker(conn[k]) = b
    BY <1>1, <1>6 DEF HandlesInv, CallersInv
  <2> QED
    BY <2>1, <1>7, <1>8, <1>10
<1>19. ActiveInv'
  BY <1>1, <1>4, <1>5, <1>7 DEF HandlesInv, ActiveInv
<1>20. KeptInv'
  <2> SUFFICES ASSUME "busy" \notin ConnectReplies, NEW k \in Handles
               PROVE  Reachable(k)' \/ Leaked(k)'
    BY DEF KeptInv
  <2>1. CASE k = h
    BY <2>1, <1>4, <1>5, <1>7 DEF Leaked
  <2>2. CASE k # h
    BY <2>2, <1>1, <1>3, <1>4, <1>7, <1>8 DEF HandlesInv, KeptInv, Reachable, Leaked
  <2> QED
    BY <2>1, <2>2
<1>21. IrqSignalKept'
  BY <1>1, <1>4 DEF IrqSignalKept, config
<1> QED
  BY <1>11, <1>12, <1>13, <1>14, <1>15, <1>16, <1>17, <1>18, <1>19, <1>20, <1>21
  DEF IInv, HandlesInv

LEMMA CallInv ==
  ASSUME IInv, NEW a \in Agents, Call(a)
  PROVE  IInv'
<1>1. PICK s \in Services : \/ tfm_spm_client_psa_connect(a, s)
                            \/ tfm_spm_client_psa_call(a, s)
                            \/ tfm_spm_client_psa_close(a, s)
                            \/ VectorsRefused(a, s)
  BY DEF Call
<1>2. CASE tfm_spm_client_psa_connect(a, s)
  BY <1>2, NewInv DEF tfm_spm_client_psa_connect
<1>3. CASE tfm_spm_client_psa_call(a, s)
  <2>1. CASE s \in Stateless
    BY <1>3, <2>1, NewInv DEF tfm_spm_client_psa_call
  <2>2. CASE s \notin Stateless
    BY <1>3, <2>2, OnInv DEF tfm_spm_client_psa_call
  <2> QED
    BY <2>1, <2>2
<1>4. CASE tfm_spm_client_psa_close(a, s)
  BY <1>4, OnInv DEF tfm_spm_client_psa_close
<1>5. CASE VectorsRefused(a, s)
  BY <1>5, RefusedInv
<1> QED
  BY <1>1, <1>2, <1>3, <1>4, <1>5

-----------------------------------------------------------------------------
(* The partitions' calls.                                                  *)

\* psa_wait() with a mask of what partition p last waited for.
LEMMA WaitStepInv ==
  ASSUME IInv, NEW p \in Partitions, NEW mask \in SUBSET Signals, mask = Mask(p),
         pc[p] \in {"ready", "serving"}, tfm_spm_psa_wait(p, mask)
  PROVE  IInv'
<1> DEFINE now == sig[p].asserted \cap mask
           Pcs == {"idle", "sent", "calling", "ready", "waiting", "awake", "serving", "done"}
<1>1. TypeInv /\ SignalsInv /\ RpcInv /\ WaitInv /\ HandlesInv /\ IrqSignalKept
  BY DEF IInv
<1>2. /\ p \in Agents /\ p \in Threads /\ Shape(sched)
      /\ sig \in [Partitions -> [asserted : SUBSET Signals, waiting : SUBSET Signals,
                                 owner : BOOLEAN]]
      /\ pc \in [Agents -> Pcs] /\ ret \in [Partitions -> SUBSET Signals]
      /\ sched.state \in [Threads -> {"run", "block"}]
  BY <1>1 DEF Agents, Threads, TypeInv, Shape
<1>3. /\ ret' = [ret EXCEPT ![p] = now]
      /\ pc' = [pc EXCEPT ![p] = IF now = {} THEN "waiting" ELSE "awake"]
      /\ now = {} => /\ sig' = [sig EXCEPT ![p].waiting = mask, ![p].owner = TRUE]
                     /\ sched' = tfm_event_wait(sched, p)
      /\ now # {} => UNCHANGED <<sig, sched>>
      /\ UNCHANGED <<config, saved, msgs, conn, pool, line, rpc, got, held, inputs, halted>>
  BY DEF tfm_spm_psa_wait
<1>4. /\ now \subseteq mask /\ now \subseteq Signals
      /\ now = {} => sig[p].asserted \cap mask = {}
  OBVIOUS
<1> HIDE DEF now
<1>5. /\ Shape(sched')
      /\ \A q \in Threads : q # p => sched'.state[q] = sched.state[q]
      /\ now = {} => sched'.state[p] = "block"
  <2>1. CASE now = {}
    <3>1. Shape(tfm_event_wait(sched, p))
          /\ tfm_event_wait(sched, p).state = [sched.state EXCEPT ![p] = "block"]
      BY <1>2, EventWait
    <3> QED
      BY <2>1, <3>1, <1>2, <1>3
  <2>2. CASE now # {}
    BY <2>2, <1>2, <1>3
  <2> QED
    BY <2>1, <2>2
<1>6. /\ sig' \in [Partitions -> [asserted : SUBSET Signals, waiting : SUBSET Signals,
                                  owner : BOOLEAN]]
      /\ \A q \in Partitions : sig'[q].asserted = sig[q].asserted
      /\ \A q \in Partitions : q # p => sig'[q] = sig[q]
      /\ now = {} => sig'[p].waiting = mask /\ sig'[p].owner
      /\ now # {} => sig' = sig
  BY <1>2, <1>3, SMTT(30)
<1>7. /\ pc' \in [Agents -> Pcs] /\ \A b \in Agents : b # p => pc'[b] = pc[b]
      /\ pc'[p] = IF now = {} THEN "waiting" ELSE "awake"
      /\ ret' \in [Partitions -> SUBSET Signals] /\ ret'[p] = now
      /\ \A q \in Partitions : q # p => ret'[q] = ret[q]
  BY <1>2, <1>3, <1>4
<1>8. TypeInv'
  BY <1>1, <1>3, <1>5, <1>6, <1>7 DEF TypeInv, config, Shape
<1>9. SignalsInv' /\ RpcInv'
  BY <1>1, <1>3, <1>6, SignalsKept DEF config
<1>10. WaitInv'
  <2> SUFFICES ASSUME NEW q \in Partitions PROVE WaitOK(q)'
    BY DEF WaitInv
  <2>1. /\ WaitOK(q) /\ WaitOK(p) /\ got' = got /\ Mask(q)' = Mask(q)
        /\ InFlight(q)' = InFlight(q)
    BY <1>1, <1>3 DEF WaitInv, Mask, Allowed, InFlight
  <2>2. CASE q # p
    BY <2>1, <2>2, <1>5, <1>6, <1>7 DEF WaitOK, Agents, Threads
  <2>3. CASE q = p
    <3>1. ~sig[p].owner
      BY <2>1 DEF WaitOK
    <3>2. got[p] # NoHandle => mask = {"irq"}
      BY DEF Mask
    <3>3. CASE now = {}
      BY <3>3, <2>1, <2>3, <1>4, <1>5, <1>6, <1>7 DEF WaitOK
    <3>4. CASE now # {}
      BY <3>1, <3>2, <3>4, <2>1, <2>3, <1>4, <1>6, <1>7 DEF WaitOK
    <3> QED
      BY <3>3, <3>4
  <2> QED
    BY <2>2, <2>3
<1>11. HandlesInv'
  BY <1>1, <1>3, <1>7, HandlesKept
<1>12. IrqSignalKept'
  BY <1>1, <1>3, <1>6, SpmAssumption DEF IrqSignalKept, config
<1> QED
  BY <1>8, <1>9, <1>10, <1>11, <1>12 DEF IInv

LEMMA WaitsInv ==
  ASSUME IInv, NEW p \in Partitions, WaitAny(p) \/ WaitForIrq(p)
  PROVE  IInv'
<1>1. WaitOK(p) /\ Allowed(p) \in SUBSET Signals /\ {"irq"} \in SUBSET Signals
  BY DEF IInv, WaitInv, Allowed, Signals
<1>2. CASE WaitAny(p)
  <2>1. Allowed(p) = Mask(p)
    BY <1>1, <1>2 DEF WaitAny, WaitOK, Mask
  <2> QED
    BY <2>1, <1>1, <1>2, WaitStepInv DEF WaitAny
<1>3. CASE WaitForIrq(p)
  <2>1. {"irq"} = Mask(p)
    BY <1>1, <1>3 DEF WaitForIrq, WaitOK, Mask
  <2> QED
    BY <2>1, <1>1, <1>3, WaitStepInv DEF WaitForIrq
<1> QED
  BY <1>2, <1>3

\* A partition that ends with a signal: psa_clear() and psa_eoi().
LEMMA ClearInv ==
  ASSUME IInv, NEW p \in Partitions, NEW s \in {"doorbell", "irq"}, Handling(p, s),
         NEW next \in {"ready", "done"}, next = "ready" <=> got[p] = NoHandle,
         sig' = [sig EXCEPT ![p].asserted = @ \ {s}],
         pc' = [pc EXCEPT ![p] = next],
         ret' = [ret EXCEPT ![p] = {}],
         line' = IF s = "irq" THEN [line EXCEPT ![p] = TRUE] ELSE line,
         UNCHANGED <<config, sched, saved, msgs, conn, pool, rpc, got, held, inputs, halted>>
  PROVE  IInv'
<1> DEFINE Pcs == {"idle", "sent", "calling", "ready", "waiting", "awake", "serving", "done"}
<1>1. TypeInv /\ SignalsInv /\ RpcInv /\ WaitInv /\ HandlesInv /\ IrqSignalKept
  BY DEF IInv
<1>2. /\ p \in Agents /\ p \in Threads
      /\ sig \in [Partitions -> [asserted : SUBSET Signals, waiting : SUBSET Signals,
                                 owner : BOOLEAN]]
      /\ pc \in [Agents -> Pcs] /\ ret \in [Partitions -> SUBSET Signals]
  BY <1>1 DEF Agents, Threads, TypeInv
<1>3. /\ pc[p] = "awake" /\ s \in ret[p] /\ rpc.phase = "off"
  BY DEF Handling, Running
<1>4. s \notin Services
  BY SpmAssumption
<1>5. /\ sig' \in [Partitions -> [asserted : SUBSET Signals, waiting : SUBSET Signals,
                                  owner : BOOLEAN]]
      /\ \A q \in Partitions : /\ sig'[q].waiting = sig[q].waiting
                               /\ sig'[q].owner = sig[q].owner
      /\ \A q \in Partitions : q # p => sig'[q] = sig[q]
      /\ sig'[p].asserted = sig[p].asserted \ {s}
  BY <1>2
<1>6. /\ pc' \in [Agents -> Pcs] /\ \A b \in Agents : b # p => pc'[b] = pc[b]
      /\ pc'[p] = next
      /\ ret' \in [Partitions -> SUBSET Signals] /\ ret'[p] = {}
      /\ \A q \in Partitions : q # p => ret'[q] = ret[q]
  BY <1>2
<1>7. TypeInv'
  <2>1. line' \in [Partitions -> BOOLEAN]
    BY <1>1 DEF TypeInv
  <2> QED
    BY <2>1, <1>1, <1>5, <1>6 DEF TypeInv, config, Shape
<1>8. SignalsInv' /\ RpcInv'
  <2>1. \A q \in Partitions : sig'[q].asserted \cap Services = sig[q].asserted \cap Services
    BY <1>4, <1>5
  <2> QED
    BY <2>1, <1>1, <1>3, SignalsKept DEF config
<1>9. WaitInv'
  <2> SUFFICES ASSUME NEW q \in Partitions PROVE WaitOK(q)'
    BY DEF WaitInv
  <2>1. /\ WaitOK(q) /\ WaitOK(p) /\ got' = got /\ Mask(q)' = Mask(q) /\ sched' = sched
        /\ InFlight(q)' = InFlight(q)
    BY <1>1 DEF WaitInv, Mask, Allowed, InFlight
  <2>2. CASE q # p
    BY <2>1, <2>2, <1>5, <1>6 DEF WaitOK, Agents, Threads
  <2>3. CASE q = p
    <3>1. ~sig[p].owner
      BY <2>1, <1>3 DEF WaitOK
    <3> QED
      BY <3>1, <2>1, <2>3, <1>5, <1>6 DEF WaitOK
  <2> QED
    BY <2>2, <2>3
<1>10. HandlesInv'
  BY <1>1, <1>3, <1>6, HandlesKept
<1>11. IrqSignalKept'
  <2> SUFFICES ASSUME topo = "single", NEW q \in IrqOwners, ~line'[q]
               PROVE  "irq" \in sig'[q].asserted
    BY DEF IrqSignalKept, config
  <2>1. q \in Partitions /\ line \in [Partitions -> BOOLEAN]
    BY <1>1, SpmAssumption DEF TypeInv
  <2>2. ~line[q] /\ ~(q = p /\ s = "irq")
    BY <2>1
  <2>3. "irq" \in sig[q].asserted
    BY <2>2, <1>1 DEF IrqSignalKept
  <2> QED
    BY <2>1, <2>2, <2>3, <1>5
<1> QED
  BY <1>7, <1>8, <1>9, <1>10, <1>11 DEF IInv

LEMMA ClearsInv ==
  ASSUME IInv, NEW p \in Partitions, tfm_spm_psa_clear(p) \/ tfm_spm_psa_eoi(p)
  PROVE  IInv'
<1>1. WaitOK(p)
  BY DEF IInv, WaitInv
<1>2. CASE tfm_spm_psa_clear(p)
  <2>1. got[p] = NoHandle
    BY <1>1, <1>2 DEF tfm_spm_psa_clear, Handling, WaitOK
  <2> QED
    BY <2>1, <1>2, ClearInv DEF tfm_spm_psa_clear
<1>3. CASE tfm_spm_psa_eoi(p)
  <2> DEFINE next == IF got[p] = NoHandle THEN "ready" ELSE "done"
  <2>1. next \in {"ready", "done"} /\ (next = "ready" <=> got[p] = NoHandle)
    OBVIOUS
  <2>2. pc' = [pc EXCEPT ![p] = next]
    BY <1>3 DEF tfm_spm_psa_eoi
  <2> HIDE DEF next
  <2> QED
    BY <2>1, <2>2, <1>3, ClearInv DEF tfm_spm_psa_eoi
<1> QED
  BY <1>2, <1>3

-----------------------------------------------------------------------------
(* Signals that are no service's: the doorbell and interrupts.             *)

LEMMA NotifyInv ==
  ASSUME IInv, NEW p \in Partitions, NEW s \in {"doorbell", "irq"},
         notify_with_signal(p, s),
         s = "doorbell" => rpc.phase = "off",
         pc' \in [Agents -> {"idle", "sent", "calling", "ready", "waiting", "awake",
                             "serving", "done"}],
         \A b \in Agents : \/ pc'[b] = Awoken(p, s)[b]
                           \/ pc[b] = "serving" /\ pc'[b] = "done",
         line' \in [Partitions -> BOOLEAN],
         \A q \in Partitions : line[q] => line'[q] \/ (q = p /\ s = "irq"),
         inputs' \in 0 .. MaxInputs[topo],
         UNCHANGED <<config, saved, msgs, conn, pool, rpc, got, held, halted>>
  PROVE  IInv'
<1>1. TypeInv /\ SignalsInv /\ RpcInv /\ WaitInv /\ HandlesInv /\ IrqSignalKept
  BY DEF IInv
<1>2. SetSignal(p, s, sig[p].asserted) /\ sched' = Woken(p, s)
  BY DEF notify_with_signal
<1>3. /\ p \in Agents /\ p \in Threads /\ s \in Signals /\ s \notin Services
      /\ sig[p].asserted \in SUBSET Signals
  BY <1>1, SpmAssumption DEF TypeInv, Signals, Agents, Threads
<1>4. /\ sig' \in [Partitions -> [asserted : SUBSET Signals, waiting : SUBSET Signals,
                                  owner : BOOLEAN]]
      /\ ret' \in [Partitions -> SUBSET Signals]
      /\ sig'[p].asserted = sig[p].asserted \cup {s}
      /\ \A q \in Partitions : q # p => sig'[q] = sig[q]
  BY <1>1, <1>2, <1>3, Signalled
<1>5. TypeInv'
  <2>1. Shape(sched)'
    BY <1>1, <1>2, WokenState DEF Shape
  <2> QED
    BY <2>1, <1>1, <1>4 DEF TypeInv, config
<1>6. SignalsInv' /\ RpcInv'
  <2>1. \A q \in Partitions : /\ sig'[q].asserted \cap Services = sig[q].asserted \cap Services
                              /\ sig[q].asserted \subseteq sig'[q].asserted
                              /\ sig'[q].asserted \ {"irq"} = sig[q].asserted \ {"irq"}
                                   \/ s = "doorbell"
    BY <1>3, <1>4
  <2> QED
    BY <2>1, <1>1, SignalsKept DEF config
<1>7. WaitInv'
  <2>1. \A q \in Partitions :
           \/ pc'[q] = Awoken(p, s)[q] /\ sched'.state[q] = Woken(p, s).state[q]
           \/ pc[q] = "serving" /\ pc'[q] \in {"calling", "done"}
    BY <1>2 DEF Agents, Threads
  <2> QED
    BY <2>1, <1>1, <1>2, <1>3, SignalWait
<1>8. HandlesInv'
  <2>1. \A b \in Agents : pc[b] = "calling" <=> pc'[b] = "calling"
    BY <1>1, AwokenCalling
  <2> QED
    BY <2>1, <1>1, HandlesKept
<1>9. IrqSignalKept'
  BY <1>1, <1>4, SpmAssumption DEF IrqSignalKept, config
<1> QED
  BY <1>5, <1>6, <1>7, <1>8, <1>9 DEF IInv

LEMMA PsaNotifyInv ==
  ASSUME IInv, NEW p \in Partitions, NEW q \in Partitions, tfm_spm_psa_notify(p, q)
  PROVE  IInv'
<1> DEFINE Pcs == {"idle", "sent", "calling", "ready", "waiting", "awake", "serving", "done"}
<1>1. /\ Awoken(q, "doorbell") \in [Agents -> Pcs]
  BY AwokenCalling DEF IInv
<1>2. /\ pc' = [Awoken(q, "doorbell") EXCEPT ![p] = "done"]
      /\ pc[p] = "serving" /\ rpc.phase = "off" /\ p \in Agents
      /\ notify_with_signal(q, "doorbell")
      /\ UNCHANGED <<config, saved, msgs, conn, pool, line, rpc, got, held, inputs, halted>>
  BY DEF tfm_spm_psa_notify, Running, Agents, Threads
<1>3. /\ pc' \in [Agents -> Pcs]
      /\ \A b \in Agents : \/ pc'[b] = Awoken(q, "doorbell")[b]
                           \/ pc[b] = "serving" /\ pc'[b] = "done"
  BY <1>1, <1>2
<1>4. line' \in [Partitions -> BOOLEAN] /\ inputs' \in 0 .. MaxInputs[topo]
  BY <1>2 DEF IInv, TypeInv
<1> QED
  BY <1>2, <1>3, <1>4, NotifyInv

LEMMA IrqInv ==
  ASSUME IInv, NEW p \in Partitions, tfm_set_irq_signal(p)
  PROVE  IInv'
<1>1. Awoken(p, "irq") \in [Agents -> {"idle", "sent", "calling", "ready", "waiting",
                                       "awake", "serving", "done"}]
  BY AwokenCalling DEF IInv
<1>2. line' \in [Partitions -> BOOLEAN] /\ \A q \in Partitions : q # p => line'[q] = line[q]
  BY DEF IInv, TypeInv, tfm_set_irq_signal
<1>3. inputs' \in 0 .. MaxInputs[topo]
  <2>1. MaxInputs[topo] \in Nat /\ inputs \in 0 .. MaxInputs[topo]
    BY SpmAssumption DEF IInv, TypeInv
  <2> QED
    BY <2>1 DEF tfm_set_irq_signal
<1>4. /\ notify_with_signal(p, "irq") /\ pc' = Awoken(p, "irq")
      /\ UNCHANGED <<config, saved, msgs, conn, pool, rpc, got, held, halted>>
  BY DEF tfm_set_irq_signal
<1> QED
  BY <1>1, <1>2, <1>3, <1>4, NotifyInv

\* PendSV asserts the signal of a request from the mailbox.
LEMMA RpcStoreInv ==
  ASSUME IInv, RpcStore
  PROVE  IInv'
<1> DEFINE s == rpc.service  p == Owner[rpc.service]  had == rpc.had
<1>1. TypeInv /\ SignalsInv /\ RpcInv /\ WaitInv /\ HandlesInv /\ IrqSignalKept
  BY DEF IInv
<1>2. /\ s \in Services /\ p \in Partitions /\ had \in SUBSET Signals
      /\ \A t \in Services : Owner[t] \in Partitions
      /\ sig \in [Partitions -> [asserted : SUBSET Signals, waiting : SUBSET Signals,
                                 owner : BOOLEAN]]
      /\ rpc \in Rpcs
  BY <1>1, SpmAssumption DEF TypeInv, Rpcs
<1>3. /\ sig' = [sig EXCEPT ![p].asserted = had \cup {s}]
      /\ rpc' = [rpc EXCEPT !.phase = "test", !.had = {}] /\ rpc.phase = "store"
      /\ UNCHANGED <<config, sched, saved, msgs, conn, pool, line, pc, got, ret, held,
                     inputs, halted>>
  BY DEF RpcStore
<1>4. /\ had \subseteq sig[p].asserted /\ sig[p].asserted \ {"irq"} \subseteq had
      /\ Pending(s) /\ topo # "single"
  BY <1>1, <1>3 DEF RpcInv
<1>5. Owner[s] = p
  OBVIOUS
<1>6. rpc' \in Rpcs /\ rpc'.phase = "test" /\ rpc'.service = s
  BY <1>2, <1>3 DEF Rpcs
<1> HIDE DEF s, p, had
<1>7. s \in Signals /\ "irq" \notin Services
  BY <1>2, SpmAssumption DEF Signals
<1>8. /\ sig' \in [Partitions -> [asserted : SUBSET Signals, waiting : SUBSET Signals,
                                  owner : BOOLEAN]]
      /\ sig'[p].asserted = had \cup {s}
      /\ sig'[p].waiting = sig[p].waiting /\ sig'[p].owner = sig[p].owner
      /\ \A q \in Partitions : q # p => sig'[q] = sig[q]
  BY <1>2, <1>3, <1>7
<1>9. TypeInv'
  BY <1>1, <1>3, <1>6, <1>8 DEF TypeInv, config, Shape
<1>10. SignalsInv'
  <2>1. \A t : Pending(t)' <=> Pending(t)
    BY <1>3 DEF Pending
  <2>2. \A q \in Partitions : \A t \in Services :
           t \in sig'[q].asserted <=> t \in sig[q].asserted \/ (q = p /\ t = s)
    BY <1>4, <1>7, <1>8
  <2>3. \A q \in Partitions : \A t \in Services : t \in sig'[q].asserted => Owner[t] = q
    BY <2>2, <1>1, <1>5 DEF SignalsInv
  <2>4. \A t \in Services : t # s => (t \in sig[Owner[t]].asserted <=> Pending(t))
    BY <1>1 DEF SignalsInv, s
  <2>5. \A t \in Services : t \in sig'[Owner[t]].asserted <=> Pending(t)'
    BY <2>1, <2>2, <2>4, <1>2, <1>4, <1>5
  <2> QED
    BY <2>3, <2>5 DEF SignalsInv
<1>11. RpcInv'
  BY <1>3, <1>4, <1>6 DEF RpcInv, config
<1>12. WaitInv'
  <2> SUFFICES ASSUME NEW q \in Partitions PROVE WaitOK(q)'
    BY DEF WaitInv
  <2>1. /\ WaitOK(q) /\ Mask(q)' = Mask(q) /\ InFlight(q) = {}
        /\ pc' = pc /\ ret' = ret /\ got' = got /\ sched' = sched
    BY <1>1, <1>3 DEF WaitInv, Mask, Allowed, InFlight
  <2>2. q = p => InFlight(q)' = {s}
    BY <1>5, <1>6 DEF InFlight
  <2>3. CASE q # p
    BY <2>1, <2>3, <1>8 DEF WaitOK
  <2>4. CASE q = p
    BY <2>1, <2>2, <2>4, <1>4, <1>8 DEF WaitOK
  <2> QED
    BY <2>3, <2>4
<1>13. HandlesInv'
  BY <1>1, <1>3, HandlesKept
<1>14. IrqSignalKept'
  BY <1>3, <1>4 DEF IrqSignalKept, config
<1> QED
  BY <1>9, <1>10, <1>11, <1>12, <1>13, <1>14 DEF IInv

\* The steps with which it then wakes the partition assert nothing.
LEMMA RpcStepInv ==
  ASSUME IInv, rpc.phase \in {"test", "wake", "mask"}, rpc' \in Rpcs, rpc'.phase # "store",
         Shape(sched'),
         sig' \in [Partitions -> [asserted : SUBSET Signals, waiting : SUBSET Signals,
                                  owner : BOOLEAN]],
         \A q \in Partitions : sig'[q].asserted = sig[q].asserted,
         ret' \in [Partitions -> SUBSET Signals],
         pc' \in [Agents -> {"idle", "sent", "calling", "ready", "waiting", "awake",
                             "serving", "done"}],
         \A b \in Agents : pc[b] = "calling" <=> pc'[b] = "calling",
         UNCHANGED <<config, saved, msgs, conn, pool, line, got, held, inputs, halted>>,
         WaitInv'
  PROVE  IInv'
<1>1. TypeInv /\ SignalsInv /\ RpcInv /\ HandlesInv /\ IrqSignalKept
  BY DEF IInv
<1>2. TypeInv'
  BY <1>1 DEF TypeInv, config, Shape
<1>3. SignalsInv' /\ RpcInv'
  <2>1. \A t : Pending(t)' <=> Pending(t)
    BY DEF Pending
  <2>2. \A t \in Services : Owner[t] \in Partitions
    BY SpmAssumption
  <2>3. topo # "single" /\ topo' = topo
    BY <1>1 DEF RpcInv, config
  <2> QED
    BY <2>1, <2>2, <2>3, <1>1 DEF SignalsInv, RpcInv
<1>4. HandlesInv'
  BY <1>1, HandlesKept
<1>5. IrqSignalKept'
  BY <1>1, SpmAssumption DEF IrqSignalKept, config
<1> QED
  BY <1>2, <1>3, <1>4, <1>5 DEF IInv

LEMMA RpcTestInv ==
  ASSUME IInv, RpcTest
  PROVE  IInv'
<1> DEFINE s == rpc.service  p == Owner[rpc.service]
<1>1. TypeInv /\ WaitInv
  BY DEF IInv
<1>2. /\ s \in Services /\ p \in Partitions /\ rpc \in Rpcs
      /\ sig \in [Partitions -> [asserted : SUBSET Signals, waiting : SUBSET Signals,
                                 owner : BOOLEAN]]
      /\ RpcOff \in Rpcs
  BY <1>1, SpmAssumption DEF TypeInv, Rpcs, RpcOff
<1>3. /\ rpc.phase = "test"
      /\ UNCHANGED <<config, sched, saved, sig, msgs, conn, pool, line, pc, got, ret, held,
                     inputs, halted>>
      /\ \/ /\ Wakes(p, s)
            /\ rpc' = [rpc EXCEPT !.phase = "wake",
                                  !.had = sig[p].asserted \cap sig[p].waiting]
         \/ /\ s \in sig[p].waiting /\ ~Wakes(p, s)
            /\ rpc' = [rpc EXCEPT !.phase = "mask", !.had = sig[p].waiting]
         \/ s \notin sig[p].waiting /\ rpc' = [RpcOff EXCEPT !.phase = "scan"]
  BY DEF RpcTest, Wakes
<1>4. /\ rpc' \in Rpcs
      /\ \/ Wakes(p, s) /\ rpc'.phase = "wake" /\ rpc'.service = s
         \/ s \in sig[p].waiting /\ ~Wakes(p, s) /\ rpc'.phase = "mask"
         \/ s \notin sig[p].waiting /\ rpc'.phase = "scan"
  BY <1>2, <1>3 DEF Rpcs
<1>5. InFlight(p) = {s} /\ \A q \in Partitions : q # p => InFlight(q) = {}
  BY <1>3 DEF InFlight
<1>6. \A q \in Partitions : q = p /\ rpc'.phase = "wake" => InFlight(q)' = {s}
  BY <1>4 DEF InFlight
<1>7. \A q \in Partitions : WaitOK(q) /\ Mask(q)' = Mask(q)
  BY <1>1, <1>3 DEF WaitInv, Mask, Allowed
<1> HIDE DEF s, p
<1>8. WaitInv'
  <2> SUFFICES ASSUME NEW q \in Partitions PROVE WaitOK(q)'
    BY DEF WaitInv
  <2>1. CASE q # p
    BY <2>1, <1>3, <1>5, <1>7 DEF WaitOK
  <2>2. CASE q = p
    BY <2>2, <1>2, <1>3, <1>4, <1>5, <1>6, <1>7 DEF WaitOK, Wakes
  <2> QED
    BY <2>1, <2>2
<1>9. /\ Shape(sched') /\ pc' = pc /\ ret' = ret /\ sig' = sig
      /\ pc \in [Agents -> {"idle", "sent", "calling", "ready", "waiting", "awake",
                            "serving", "done"}]
      /\ ret \in [Partitions -> SUBSET Signals]
  BY <1>1, <1>3 DEF TypeInv, Shape
<1>10. rpc.phase \in {"test", "wake", "mask"} /\ rpc'.phase # "store"
  BY <1>3, <1>4
<1> QED
  BY <1>2, <1>3, <1>4, <1>8, <1>9, <1>10, RpcStepInv

LEMMA RpcWakeInv ==
  ASSUME IInv, WakeInv, RpcWake
  PROVE  IInv'
<1> DEFINE p == Owner[rpc.service]
           Pcs == {"idle", "sent", "calling", "ready", "waiting", "awake", "serving", "done"}
<1>1. TypeInv /\ WaitInv
  BY DEF IInv
<1>2. /\ p \in Partitions /\ p \in Threads /\ p \in Agents /\ rpc \in Rpcs
      /\ sig \in [Partitions -> [asserted : SUBSET Signals, waiting : SUBSET Signals,
                                 owner : BOOLEAN]]
      /\ rpc.had \in SUBSET Signals
      /\ pc \in [Agents -> Pcs] /\ ret \in [Partitions -> SUBSET Signals] /\ Shape(sched)
  BY <1>1, SpmAssumption DEF TypeInv, Rpcs, Agents, Threads
<1>3. /\ rpc.phase = "wake"
      /\ sched' = tfm_event_wake(sched, p)
      /\ ret' = [ret EXCEPT ![p] = Delivered(p, rpc.had)]
      /\ sig' = [sig EXCEPT ![p].owner = FALSE]
      /\ pc' = [pc EXCEPT ![p] = "awake"]
      /\ rpc' = [rpc EXCEPT !.phase = "mask", !.had = sig[p].waiting]
      /\ UNCHANGED <<config, saved, msgs, conn, pool, line, got, held, inputs, halted>>
  BY DEF RpcWake
<1>4. Delivered(p, rpc.had) \in SUBSET Signals
  BY <1>2 DEF Delivered
<1>5. pc[p] \in {"waiting", "awake"} /\ got[p] = NoHandle
  BY <1>3 DEF WakeInv
<1>6. rpc' \in Rpcs /\ rpc'.phase = "mask"
  BY <1>2, <1>3 DEF Rpcs
<1>7. \A q \in Partitions : /\ WaitOK(q) /\ Mask(q)' = Mask(q)
                            /\ q # p => InFlight(q) = {}
  BY <1>1, <1>3 DEF WaitInv, Mask, Allowed, InFlight
<1> HIDE DEF p
<1>8. /\ Shape(sched')
      /\ \A q \in Threads : q # p => sched'.state[q] = sched.state[q]
  <2>1. Shape(tfm_event_wake(sched, p))
        /\ tfm_event_wake(sched, p).state = [sched.state EXCEPT ![p] = "run"]
    BY <1>2, EventWake
  <2>2. sched.state \in [Threads -> {"run", "block"}]
    BY <1>2 DEF Shape
  <2> QED
    BY <2>1, <2>2, <1>3
<1>9. /\ sig' \in [Partitions -> [asserted : SUBSET Signals, waiting : SUBSET Signals,
                                  owner : BOOLEAN]]
      /\ \A q \in Partitions : sig'[q].asserted = sig[q].asserted
      /\ \A q \in Partitions : q # p => sig'[q] = sig[q]
      /\ ~sig'[p].owner
  BY <1>2, <1>3
<1>10. /\ pc' \in [Agents -> Pcs] /\ pc'[p] = "awake"
       /\ \A b \in Agents : b # p => pc'[b] = pc[b]
       /\ ret' \in [Partitions -> SUBSET Signals]
       /\ \A q \in Partitions : q # p => ret'[q] = ret[q]
       /\ \A b \in Agents : pc[b] = "calling" <=> pc'[b] = "calling"
  BY <1>2, <1>3, <1>4, <1>5
<1>11. WaitInv'
  <2> SUFFICES ASSUME NEW q \in Partitions PROVE WaitOK(q)'
    BY DEF WaitInv
  <2>1. q \in Agents /\ q \in Threads /\ got' = got
    BY <1>3 DEF Agents, Threads
  <2>2. CASE q # p
    BY <2>1, <2>2, <1>7, <1>8, <1>9, <1>10 DEF WaitOK
  <2>3. CASE q = p
    BY <2>1, <2>3, <1>5, <1>9, <1>10 DEF WaitOK
  <2> QED
    BY <2>2, <2>3
<1>12. rpc.phase \in {"test", "wake", "mask"} /\ rpc'.phase # "store"
  BY <1>3, <1>6
<1> QED
  BY <1>3, <1>6, <1>8, <1>9, <1>10, <1>11, <1>12, RpcStepInv

LEMMA RpcMaskInv ==
  ASSUME IInv, WakeInv, RpcMask
  PROVE  IInv'
<1> DEFINE p == Owner[rpc.service]  s == rpc.service
<1>1. TypeInv /\ WaitInv
  BY DEF IInv
<1>2. /\ p \in Partitions /\ RpcOff \in Rpcs /\ rpc.had \in SUBSET Signals
      /\ sig \in [Partitions -> [asserted : SUBSET Signals, waiting : SUBSET Signals,
                                 owner : BOOLEAN]]
      /\ sig[p].waiting \in SUBSET Signals
  BY <1>1, SpmAssumption DEF TypeInv, Rpcs, RpcOff
<1>3. /\ rpc.phase = "mask" /\ rpc' = [RpcOff EXCEPT !.phase = "scan"]
      /\ UNCHANGED <<config, sched, saved, msgs, conn, pool, line, pc, got, ret, held,
                     inputs, halted>>
      /\ \E w \in SUBSET Signals : sig' = [sig EXCEPT ![p].waiting = w]
  <2>1. \A w \in {sig[p].waiting, rpc.had} : w \ {s} \in SUBSET Signals
    BY <1>2
  <2> QED
    BY <2>1 DEF RpcMask
<1>4. ~sig[p].owner
  BY <1>3 DEF WakeInv
<1>5. rpc' \in Rpcs /\ rpc'.phase = "scan"
  BY <1>2, <1>3 DEF Rpcs
<1>6. \A q \in Partitions : WaitOK(q) /\ Mask(q)' = Mask(q) /\ InFlight(q) = {}
  BY <1>1, <1>3 DEF WaitInv, Mask, Allowed, InFlight
<1> HIDE DEF p, s
<1>7. /\ sig' \in [Partitions -> [asserted : SUBSET Signals, waiting : SUBSET Signals,
                                  owner : BOOLEAN]]
      /\ \A q \in Partitions : /\ sig'[q].asserted = sig[q].asserted
                               /\ sig'[q].owner = sig[q].owner
      /\ \A q \in Partitions : q # p => sig'[q] = sig[q]
  BY <1>2, <1>3
<1>8. WaitInv'
  <2> SUFFICES ASSUME NEW q \in Partitions PROVE WaitOK(q)'
    BY DEF WaitInv
  <2>1. CASE q # p
    BY <2>1, <1>3, <1>6, <1>7 DEF WaitOK
  <2>2. CASE q = p
    BY <2>2, <1>3, <1>4, <1>6, <1>7 DEF WaitOK
  <2> QED
    BY <2>1, <2>2
<1>9. /\ Shape(sched') /\ pc' = pc /\ ret' = ret
      /\ pc \in [Agents -> {"idle", "sent", "calling", "ready", "waiting", "awake",
                            "serving", "done"}]
      /\ ret \in [Partitions -> SUBSET Signals]
  BY <1>1, <1>3 DEF TypeInv, Shape
<1>10. rpc.phase \in {"test", "wake", "mask"} /\ rpc'.phase # "store"
  BY <1>3, <1>5
<1> QED
  BY <1>3, <1>5, <1>7, <1>8, <1>9, <1>10, RpcStepInv


-----------------------------------------------------------------------------
(* Exceptions and steps that touch few variables.                          *)

LEMMA ScheduleInv ==
  ASSUME IInv, tfm_pendsv_do_schedule
  PROVE  IInv'
<1> DEFINE next == tfm_core_thrd_get_next  curr == sched.curr
           Pcs == {"idle", "sent", "calling", "ready", "waiting", "awake", "serving", "done"}
<1>1. TypeInv /\ SignalsInv /\ RpcInv /\ WaitInv /\ HandlesInv /\ IrqSignalKept
  BY DEF IInv
<1>2. /\ Shape(sched) /\ pc \in [Agents -> Pcs]
      /\ saved \in [Threads -> {"entry", "wait", "driver", "call", "run"}]
      /\ rpc \in Rpcs
  BY <1>1 DEF TypeInv
<1>3. /\ rpc.phase = "off"
      /\ rpc' = [rpc EXCEPT !.phase = IF topo = "multi" THEN "scan" ELSE "off"]
      /\ UNCHANGED <<config, sig, msgs, conn, pool, line, got, ret, held, inputs, halted>>
      /\ \/ /\ sched' = [sched EXCEPT !.pend = FALSE]
            /\ pc' = IF pc[curr] = "waiting" THEN [pc EXCEPT ![curr] = "awake"] ELSE pc
            /\ UNCHANGED saved
         \/ /\ sched' = [sched EXCEPT !.pend = FALSE, !.curr = next]
            /\ saved' = IF next = curr THEN saved ELSE [saved EXCEPT ![curr] = Frame(curr)]
            /\ UNCHANGED pc
  BY DEF tfm_pendsv_do_schedule
<1>4. Frame(curr) \in {"entry", "wait", "driver", "call", "run"}
  BY DEF Frame
<1> HIDE DEF next, curr
<1>5. Shape(sched') /\ sched'.state = sched.state
  BY <1>2, <1>3 DEF Shape
<1>6. /\ pc' \in [Agents -> Pcs]
      /\ \A b \in Agents : pc'[b] = pc[b] \/ (pc[b] = "waiting" /\ pc'[b] = "awake")
      /\ saved' \in [Threads -> {"entry", "wait", "driver", "call", "run"}]
  BY <1>2, <1>3, <1>4
<1>7. /\ rpc' \in Rpcs
      /\ rpc'.phase \in {"off", "scan"} /\ (topo = "single" => rpc'.phase = "off")
  BY <1>2, <1>3 DEF Rpcs
<1>8. TypeInv'
  BY <1>1, <1>3, <1>5, <1>6, <1>7 DEF TypeInv, config, Shape
<1>9. SignalsInv' /\ RpcInv'
  <2>1. \A t : Pending(t)' <=> Pending(t)
    BY <1>3 DEF Pending
  <2> QED
    BY <2>1, <1>1, <1>3, <1>7 DEF SignalsInv, RpcInv, config
<1>10. WaitInv'
  <2> SUFFICES ASSUME NEW q \in Partitions PROVE WaitOK(q)'
    BY DEF WaitInv
  <2>1. /\ WaitOK(q) /\ got' = got /\ Mask(q)' = Mask(q) /\ ret' = ret /\ sig' = sig
        /\ InFlight(q)' = InFlight(q)
    BY <1>1, <1>3, <1>7 DEF WaitInv, Mask, Allowed, InFlight
  <2>2. /\ pc'[q] = pc[q] \/ (pc[q] = "waiting" /\ pc'[q] = "awake")
        /\ sched'.state[q] = sched.state[q]
    BY <1>5, <1>6 DEF Agents, Threads
  <2> QED
    BY <2>1, <2>2 DEF WaitOK
<1>11. HandlesInv'
  BY <1>1, <1>3, <1>6, HandlesKept
<1>12. IrqSignalKept'
  BY <1>1, <1>3 DEF IrqSignalKept, config
<1> QED
  BY <1>8, <1>9, <1>10, <1>11, <1>12 DEF IInv

\* Steps of mailbox callers between two requests, and the end of PendSV.
LEMMA MailboxInv ==
  ASSUME IInv,
         \/ \E a \in Callers : MailboxRequest(a) \/ MailboxRefuse(a)
         \/ RpcDone
  PROVE  IInv'
<1> DEFINE Pcs == {"idle", "sent", "calling", "ready", "waiting", "awake", "serving", "done"}
<1>1. TypeInv /\ SignalsInv /\ RpcInv /\ WaitInv /\ HandlesInv /\ IrqSignalKept
  BY DEF IInv
<1>2. /\ Shape(sched) /\ pc \in [Agents -> Pcs]
      /\ inputs \in 0 .. MaxInputs[topo] /\ MaxInputs[topo] \in Nat
      /\ rpc \in Rpcs
      /\ Callers \subseteq Agents /\ Callers \cap Partitions = {}
  BY <1>1, SpmAssumption DEF TypeInv, Agents, Threads
<1>3. /\ UNCHANGED <<config, saved, sig, msgs, conn, pool, line, got, ret, held, halted>>
      /\ \/ UNCHANGED rpc
         \/ rpc.phase = "scan" /\ rpc' = [rpc EXCEPT !.phase = "off"]
      /\ sched' = sched \/ sched' = [sched EXCEPT !.pend = TRUE]
      /\ inputs' \in 0 .. MaxInputs[topo]
      /\ \/ UNCHANGED pc
         \/ \E a \in Callers : /\ pc[a] \in {"idle", "sent"}
                               /\ \/ pc' = [pc EXCEPT ![a] = "sent"]
                                  \/ pc' = [pc EXCEPT ![a] = "idle"]
  BY <1>2 DEF MailboxRequest, MailboxRefuse, RpcDone
<1>4. Shape(sched') /\ sched'.state = sched.state
  BY <1>2, <1>3 DEF Shape
<1>5. /\ pc' \in [Agents -> Pcs]
      /\ \A b \in Agents : pc'[b] = pc[b]
                             \/ (b \in Callers /\ pc[b] # "calling" /\ pc'[b] # "calling")
  BY <1>2, <1>3
<1>6. /\ rpc' \in Rpcs
      /\ rpc' = rpc \/ (rpc.phase = "scan" /\ rpc'.phase = "off")
  BY <1>2, <1>3 DEF Rpcs
<1>7. TypeInv'
  BY <1>1, <1>3, <1>4, <1>5, <1>6 DEF TypeInv, config, Shape
<1>8. SignalsInv' /\ RpcInv'
  <2>1. \A t : Pending(t)' <=> Pending(t)
    BY <1>3 DEF Pending
  <2> QED
    BY <2>1, <1>1, <1>3, <1>6 DEF SignalsInv, RpcInv, config
<1>9. WaitInv'
  <2>1. \A q \in Partitions : pc'[q] = pc[q] /\ sched'.state[q] = sched.state[q]
    BY <1>2, <1>4, <1>5 DEF Agents, Threads
  <2>2. \A q \in Partitions : InFlight(q)' = InFlight(q)
    BY <1>6 DEF InFlight
  <2> QED
    BY <2>1, <2>2, <1>1, <1>3, WaitKept
<1>10. HandlesInv'
  BY <1>1, <1>3, <1>5, HandlesKept
<1>11. IrqSignalKept'
  BY <1>1, <1>3 DEF IrqSignalKept, config
<1> QED
  BY <1>7, <1>8, <1>9, <1>10, <1>11 DEF IInv

\* A panic changes nothing but the fact that the system stands still.
LEMMA PanicInv ==
  ASSUME IInv, halted' \in {"no", "signals", "handles", "owner", "relinked"},
         UNCHANGED <<config, sched, saved, sig, msgs, conn, pool, line, rpc, pc, got, ret,
                     held, inputs>>
  PROVE  IInv'
<1>1. TypeInv /\ SignalsInv /\ RpcInv /\ WaitInv /\ HandlesInv /\ IrqSignalKept
  BY DEF IInv
<1>2. TypeInv'
  BY <1>1 DEF TypeInv, config, Shape
<1>3. SignalsInv' /\ RpcInv'
  BY <1>1, SignalsKept DEF config
<1>4. WaitInv' /\ HandlesInv'
  <2>1. \A q \in Partitions : InFlight(q)' = InFlight(q)
    BY DEF InFlight
  <2> QED
    BY <2>1, <1>1, WaitKept, HandlesKept
<1>5. IrqSignalKept'
  BY <1>1 DEF IrqSignalKept, config
<1> QED
  BY <1>2, <1>3, <1>4, <1>5 DEF IInv

-----------------------------------------------------------------------------
(* A message is taken and answered.                                        *)

\* The partition takes the first message of the service whose signal it handles.
LEMMA GetInv ==
  ASSUME IInv, NEW p \in Partitions, NEW s \in Services, tfm_spm_psa_get(p, s)
  PROVE  IInv'
<1> DEFINE i == CHOOSE j \in Queued(s) : \A k \in Queued(s) : j <= k
           h == msgs[p][i]
           last == Queued(s) = {i}
           Pcs == {"idle", "sent", "calling", "ready", "waiting", "awake", "serving", "done"}
<1>1. /\ TypeInv /\ SignalsInv /\ RpcInv /\ WaitInv /\ HandlesInv /\ IrqSignalKept
      /\ WaitOK(p)
  BY DEF IInv, WaitInv
<1>2. /\ pc[p] = "awake" /\ s \in ret[p] /\ s \in sig[p].asserted /\ rpc.phase = "off"
      /\ msgs' = [msgs EXCEPT ![p] = RemoveAt(@, i)]
      /\ got' = [got EXCEPT ![p] = h]
      /\ conn' = [conn EXCEPT ![h].status = "active"]
      /\ sig' = [sig EXCEPT ![p].asserted = IF last THEN @ \ {s} ELSE @]
      /\ pc' = [pc EXCEPT ![p] = "serving"]
      /\ ret' = [ret EXCEPT ![p] = {}]
      /\ UNCHANGED <<config, sched, saved, pool, line, rpc, held, inputs, halted>>
  BY DEF tfm_spm_psa_get, Handling, Running
<1>3. Owner[s] = p /\ Pending(s)
  BY <1>1, <1>2 DEF SignalsInv
<1>4. Queued(s) # {} /\ Queued(s) = {j \in 1 .. Len(msgs[p]) : conn[msgs[p][j]].service = s}
  BY <1>1, <1>3, PendingQueued DEF Queued
<1>5. i \in Queued(s)
  <2>1. Queued(s) \subseteq Nat
    BY <1>4
  <2> QED
    BY <2>1, <1>4, FirstIn
<1> HIDE DEF i
<1>6. /\ msgs \in [Partitions -> Seq(Handles)] /\ conn \in [Handles -> Conns]
      /\ got \in [Threads -> Handles \cup {NoHandle}] /\ p \in Threads /\ p \in Agents
      /\ pc \in [Agents -> Pcs] /\ ret \in [Partitions -> SUBSET Signals]
      /\ sig \in [Partitions -> [asserted : SUBSET Signals, waiting : SUBSET Signals,
                                 owner : BOOLEAN]]
      /\ NoHandle \notin Handles
  BY <1>1 DEF TypeInv, Agents, Threads, NoHandle, Handles
<1>7. /\ msgs[p] \in Seq(Handles) /\ i \in 1 .. Len(msgs[p]) /\ Distinct(msgs[p])
      /\ conn[h].service = s
  BY <1>1, <1>4, <1>5, <1>6 DEF HandlesInv, QueuesInv
<1>8. /\ h \in Handles /\ Contains(msgs[p], h)
      /\ RemoveAt(msgs[p], i) \in Seq(Handles) /\ Distinct(RemoveAt(msgs[p], i))
      /\ \A k : Contains(RemoveAt(msgs[p], i), k) <=> Contains(msgs[p], k) /\ k # h
  BY <1>7, RemoveQueue
<1>9. got[p] = NoHandle /\ ~(got[p] # NoHandle)
  <2>1. s # "irq"
    BY SpmAssumption
  <2> QED
    BY <2>1, <1>1, <1>2 DEF WaitOK
<1>10. last => \A k \in Handles : Contains(msgs[p], k) /\ conn[k].service = s => k = h
  BY <1>4 DEF Contains
<1>11. ~last => \E k \in Handles : Contains(msgs[p], k) /\ conn[k].service = s /\ k # h
  <2> SUFFICES ASSUME ~last
               PROVE  \E k \in Handles : Contains(msgs[p], k) /\ conn[k].service = s /\ k # h
    OBVIOUS
  <2>1. PICK j \in Queued(s) : j # i
    BY <1>5
  <2>2. /\ j \in 1 .. Len(msgs[p]) /\ conn[msgs[p][j]].service = s
        /\ msgs[p][j] \in Handles /\ msgs[p][j] # h
    BY <2>1, <1>4, <1>7, ElementOfSeq DEF Distinct
  <2> QED
    BY <2>2 DEF Contains
<1> HIDE DEF h, last
<1>12. /\ \A q \in Partitions : q # p => msgs'[q] = msgs[q] /\ got'[q] = got[q]
       /\ msgs' \in [Partitions -> Seq(Handles)] /\ Distinct(msgs'[p])
       /\ got' \in [Threads -> Handles \cup {NoHandle}] /\ got'[p] = h
       /\ \A k : Contains(msgs'[p], k) <=> Contains(msgs[p], k) /\ k # h
  BY <1>2, <1>6, <1>8 DEF Threads
<1>13. /\ conn' \in [Handles -> Conns] /\ conn'[h].status = "active"
       /\ \A k \in Handles : k # h => conn'[k] = conn[k]
       /\ \A k \in Handles : /\ conn'[k].service = conn[k].service
                             /\ conn'[k].client = conn[k].client
                             /\ conn'[k].magic = conn[k].magic
                             /\ conn'[k].type = conn[k].type
                             /\ conn'[k].owner = conn[k].owner
                             /\ conn'[k].caller = conn[k].caller
  <2> DEFINE m == conn[h]  n == [conn[h] EXCEPT !.status = "active"]
  <2>1. conn' = [conn EXCEPT ![h] = n]
    BY <1>2
  <2>2. m \in Conns
    BY <1>6, <1>8
  <2>3. /\ n \in Conns /\ n.status = "active" /\ n.service = m.service
        /\ n.client = m.client /\ n.magic = m.magic /\ n.type = m.type
        /\ n.owner = m.owner /\ n.caller = m.caller
    BY <2>2 DEF Conns
  <2> HIDE DEF n
  <2> QED
    BY <2>1, <2>3, <1>6, <1>8
<1>14. \A q \in Partitions : \A k \in Handles : UnderWay(q, k)' <=> UnderWay(q, k)
  BY <1>6, <1>8, <1>9, <1>12 DEF UnderWay
<1>15. \A k : /\ HeldBy(k)' <=> HeldBy(k)
              /\ \A b, t : Holds(b, t, k)' <=> Holds(b, t, k)
  BY <1>2 DEF HeldBy, Holds
<1>16. /\ \A b \in Agents : b # p => pc'[b] = pc[b]
       /\ pc'[p] = "serving" /\ pc' \in [Agents -> Pcs]
       /\ ret' \in [Partitions -> SUBSET Signals] /\ ret'[p] = {}
       /\ \A q \in Partitions : q # p => ret'[q] = ret[q]
  BY <1>2, <1>6
<1>17. /\ sig' \in [Partitions -> [asserted : SUBSET Signals, waiting : SUBSET Signals,
                                   owner : BOOLEAN]]
       /\ sig'[p].asserted = IF last THEN sig[p].asserted \ {s} ELSE sig[p].asserted
       /\ \A q \in Partitions : q # p => sig'[q] = sig[q]
       /\ \A q \in Partitions : sig'[q].owner = sig[q].owner
  BY <1>2, <1>6
<1>18. TypeInv'
  BY <1>1, <1>2, <1>12, <1>13, <1>16, <1>17 DEF TypeInv, config, Shape
<1>19. HandlesInv'
  <2>1. \A k \in Handles : Asker(conn'[k]) = Asker(conn[k])
    BY <1>13 DEF Asker
  <2>2. QueuesInv'
    <3>1. Distinct(pool') /\ \A q \in Partitions : Distinct(msgs'[q])
      BY <1>1, <1>2, <1>12 DEF HandlesInv, QueuesInv
    <3>2. \A q \in Partitions : \A k \in Handles : Contains(msgs'[q], k) => got'[q] # k
      BY <1>1, <1>12 DEF HandlesInv, QueuesInv
    <3> QED
      BY <3>1, <3>2 DEF QueuesInv
  <2>3. FreeInv'
    BY <1>1, <1>2, <1>13, <1>15 DEF HandlesInv, FreeInv
  <2>4. HeldInv'
    <3> SUFFICES ASSUME NEW k \in Handles, NEW b \in Agents, NEW t \in Services,
                        Holds(b, t, k)
                 PROVE  /\ conn'[k].magic /\ conn'[k].service = t
                        /\ conn'[k].client = ClientId(b) /\ Authorized(b, t)
                        /\ \A c \in Agents : \A u \in Services : Holds(c, u, k) => b = c
      BY <1>2 DEF HeldInv, Holds
    <3> QED
      BY <1>1, <1>13 DEF HandlesInv, HeldInv
  <2>5. MessagesInv'
    <3> SUFFICES ASSUME NEW q \in Partitions, NEW k \in Handles, UnderWay(q, k)'
                 PROVE  MessageOK(q, k)'
      BY DEF MessagesInv
    <3>1. MessageOK(q, k)
      BY <1>1, <1>14 DEF HandlesInv, MessagesInv
    <3>2. pc'[Asker(conn[k])] = "calling"
      BY <3>1, <1>2, <1>16 DEF MessageOK
    <3>3. OnConnection(conn'[k]) <=> OnConnection(conn[k])
      BY <1>13 DEF OnConnection
    <3>4. held' = held
      BY <1>2
    <3> QED
      BY <3>1, <3>2, <3>3, <3>4, <2>1, <1>13, <1>15 DEF MessageOK, ClientId, Authorized
  <2>6. AskersInv'
    BY <2>1, <1>1, <1>14 DEF HandlesInv, AskersInv
  <2>7. ActiveInv'
    <3> SUFFICES ASSUME NEW k \in Handles, conn'[k].status = "active"
                 PROVE  \E q \in Partitions : got'[q] = k
      BY DEF ActiveInv
    <3>1. CASE k = h
      BY <3>1, <1>12
    <3>2. CASE k # h
      <4>1. PICK q \in Partitions : got[q] = k
        BY <3>2, <1>1, <1>13 DEF HandlesInv, ActiveInv
      <4>2. q # p
        BY <4>1, <1>6, <1>9
      <4> QED
        BY <4>1, <4>2, <1>12
    <3> QED
      BY <3>1, <3>2
  <2>8. KeptInv'
    BY <1>1, <1>2, <1>13, <1>14, <1>15 DEF HandlesInv, KeptInv, Reachable, Leaked
  <2>9. CallersInv'
    <3> SUFFICES ASSUME NEW b \in Agents, pc'[b] = "calling"
                 PROVE  \E q \in Partitions : \E k \in Handles :
                          UnderWay(q, k)' /\ Asker(conn'[k]) = b
      BY DEF CallersInv, Asker
    <3>1. pc[b] = "calling"
      BY <1>16
    <3> QED
      BY <3>1, <2>1, <1>1, <1>14 DEF HandlesInv, CallersInv
  <2> QED
    BY <2>2, <2>3, <2>4, <2>5, <2>6, <2>7, <2>8, <2>9 DEF HandlesInv
<1>20. SignalsInv'
  <2>1. \A t \in Services : Owner[t] \in Partitions
    BY SpmAssumption
  <2>2. \A t \in Services : t \in sig[Owner[t]].asserted <=> Pending(t)
    BY <1>1, <1>2 DEF SignalsInv
  <2>3. \A t \in Services : t # s => (Pending(t)' <=> Pending(t))
    <3> SUFFICES ASSUME NEW t \in Services, t # s PROVE Pending(t)' <=> Pending(t)
      OBVIOUS
    <3>1. \A k \in Handles : conn[k].service = t =>
             (Contains(msgs'[Owner[t]], k) <=> Contains(msgs[Owner[t]], k))
      BY <2>1, <1>7, <1>12
    <3> QED
      BY <3>1, <1>13 DEF Pending
  <2>4. Pending(s)' <=> ~last
    BY <1>3, <1>10, <1>11, <1>12, <1>13 DEF Pending
  <2>5. \A t \in Services : t \in sig'[Owner[t]].asserted <=> Pending(t)'
    BY <2>1, <2>2, <2>3, <2>4, <1>2, <1>3, <1>17
  <2>6. \A q \in Partitions : \A t \in Services : t \in sig'[q].asserted => Owner[t] = q
    BY <1>1, <1>17 DEF SignalsInv
  <2> QED
    BY <2>5, <2>6 DEF SignalsInv
<1>21. RpcInv'
  BY <1>1, <1>2 DEF RpcInv, config
<1>22. WaitInv'
  <2> SUFFICES ASSUME NEW q \in Partitions PROVE WaitOK(q)'
    BY DEF WaitInv
  <2>1. CASE q # p
    <3>1. /\ WaitOK(q) /\ got'[q] = got[q] /\ sched' = sched /\ Allowed(q)' = Allowed(q)
          /\ InFlight(q)' = InFlight(q)
      BY <2>1, <1>1, <1>2, <1>12 DEF WaitInv, Allowed, InFlight
    <3> QED
      BY <3>1, <2>1, <1>16, <1>17 DEF WaitOK, Mask, Agents, Threads
  <2>2. CASE q = p
    <3>1. ~sig'[p].owner
      BY <1>1, <1>2, <1>17 DEF WaitOK
    <3> QED
      BY <3>1, <2>2, <1>6, <1>8, <1>12, <1>16 DEF WaitOK
  <2> QED
    BY <2>1, <2>2
<1>23. IrqSignalKept'
  <2>1. \A q \in Partitions : "irq" \in sig[q].asserted => "irq" \in sig'[q].asserted
    BY <1>17, SpmAssumption
  <2> QED
    BY <2>1, <1>1, <1>2, SpmAssumption DEF IrqSignalKept, config
<1> QED
  BY <1>18, <1>19, <1>20, <1>21, <1>22, <1>23 DEF IInv

\* Agent a has handle v as its connection to service s from now on.
Learns(a, s, v) == held' = [held EXCEPT ![a][s] = v]

\* Who holds which connection after message m of handle h was answered: the handle
\* is nobody's, or the sender's connection, or it got lost to a "busy" answer.
HeldAfter(h, m, a, s, status) ==
  /\ held' \in [Agents -> [Services -> Handles \cup {NoHandle}]]
  /\ \A b \in Agents : b # a => held'[b] = held[b]
  /\ \A b \in Agents : \A t \in Services : \A k \in Handles :
        k # h => (held'[b][t] = k <=> held[b][t] = k)
  /\ Freed(m, status) => \A b \in Agents : \A t \in Services : held'[b][t] # h
  /\ \A b \in Agents : \A t \in Services : held'[b][t] = h => b = a /\ t = s
  /\ ~Freed(m, status) /\ "busy" \notin ConnectReplies => held'[a][s] = h

\* The answer to a message under way leaves the connections like that.
LEMMA ReplyHeld ==
  ASSUME TypeInv, HandlesInv, NEW p \in Partitions, NEW h \in Handles, UnderWay(p, h),
         NEW m \in Conns, m = conn[h], NEW a \in Agents, a = Asker(m),
         NEW s \in Services, s = m.service, NEW status \in Statuses(m),
         Learns(a, s, Known(m, h, status))
  PROVE  HeldAfter(h, m, a, s, status)
<1> DEFINE v == Known(m, h, status)
<1>1. /\ held \in [Agents -> [Services -> Handles \cup {NoHandle}]]
      /\ m.type \in {"connect", "call", "disconnect"}
      /\ NoHandle \notin Handles
  <2>1. NoHandle \notin Handles
    BY SpmAssumption DEF NoHandle, Handles
  <2> QED
    BY <2>1 DEF TypeInv, Conns
<1>2. /\ OnConnection(m) => Holds(a, s, h)
      /\ ~OnConnection(m) => ~HeldBy(h)
      /\ m.type = "connect" => held[a][s] = NoHandle
  BY DEF HandlesInv, MessagesInv, MessageOK
<1>3. Holds(a, s, h) => \A b \in Agents : \A t \in Services : Holds(b, t, h) => b = a /\ t = s
  BY <1>1, <1>2 DEF HandlesInv, HeldInv
<1>4. /\ m.type = "connect" /\ status = "success" => v = h
      /\ m.type = "call" => v = held[a][s]
      /\ m.type = "connect" /\ status # "success" => v = NoHandle
      /\ m.type = "disconnect" => v = NoHandle
  BY DEF Known
<1>5. m.type = "connect" => status \in ConnectReplies /\ ConnectReplies \subseteq {"success", "refused", "busy"}
  BY SpmAssumption DEF Statuses
<1>6. /\ OnConnection(m) <=> m.type = "disconnect" \/ (m.type = "call" /\ s \notin Stateless)
      /\ Freed(m, status) <=> \/ m.type = "connect" /\ status = "refused"
                              \/ m.type = "disconnect"
                              \/ m.type = "call" /\ s \in Stateless
  BY DEF OnConnection, Freed
<1>7. held' = [held EXCEPT ![a][s] = v]
  BY DEF Learns
<1> HIDE DEF v
<1>8. v \in Handles \cup {NoHandle}
  BY <1>1, <1>2, <1>4
<1>9. /\ held' \in [Agents -> [Services -> Handles \cup {NoHandle}]]
      /\ \A b \in Agents : b # a => held'[b] = held[b]
      /\ \A t \in Services : t # s => held'[a][t] = held[a][t]
      /\ held'[a][s] = v
  BY <1>1, <1>2, <1>7, <1>8
<1>10. \A b \in Agents : \A t \in Services :
          (b # a \/ t # s) => \A k : Holds(b, t, k)' <=> Holds(b, t, k)
  BY <1>9 DEF Holds
<1>11. \A k : Holds(a, s, k)' <=> v = k
  BY <1>9 DEF Holds
<1>12. \A k : Holds(a, s, k) <=> held[a][s] = k
  BY DEF Holds
<1>13. ASSUME NEW k \in Handles, k # h
       PROVE  Holds(a, s, k)' <=> Holds(a, s, k)
  BY <1>13, <1>1, <1>2, <1>4, <1>6, <1>11, <1>12
<1>14. ASSUME NEW b \in Agents, NEW t \in Services, Holds(b, t, h)'
       PROVE  b = a /\ t = s
  <2> SUFFICES ASSUME b # a \/ t # s PROVE FALSE
    OBVIOUS
  <2>1. Holds(b, t, h)
    BY <1>10, <1>14
  <2>2. HeldBy(h)
    BY <2>1 DEF HeldBy
  <2> QED
    BY <2>1, <2>2, <1>2, <1>3
<1>15. Freed(m, status) => ~Holds(a, s, h)'
  <2>1. ~OnConnection(m) => ~Holds(a, s, h)
    BY <1>1, <1>2 DEF HeldBy
  <2> QED
    BY <2>1, <1>1, <1>4, <1>6, <1>11, <1>12
<1>16. Freed(m, status) => ~HeldBy(h)'
  BY <1>14, <1>15 DEF HeldBy
<1>17. ~Freed(m, status) /\ "busy" \notin ConnectReplies => Holds(a, s, h)'
  BY <1>1, <1>2, <1>4, <1>5, <1>6, <1>11, <1>12
<1> QED
  BY <1>9, <1>10, <1>13, <1>14, <1>16, <1>17 DEF HeldAfter, Holds, HeldBy

\* The service answers the message it serves.
LEMMA ReplyInv ==
  ASSUME IInv, NEW p \in Partitions, NEW status, tfm_spm_psa_reply(p, status)
  PROVE  IInv'
<1> DEFINE Pcs == {"idle", "sent", "calling", "ready", "waiting", "awake", "serving", "done"}
<1>1. /\ TypeInv /\ SignalsInv /\ RpcInv /\ WaitInv /\ HandlesInv /\ IrqSignalKept
      /\ WaitOK(p)
  BY DEF IInv, WaitInv
<1>2. /\ msgs \in [Partitions -> Seq(Handles)] /\ conn \in [Handles -> Conns]
      /\ got \in [Threads -> Handles \cup {NoHandle}] /\ p \in Threads /\ p \in Agents
      /\ pc \in [Agents -> Pcs] /\ pool \in Seq(Handles)
      /\ NoHandle \notin Handles
  <2>1. NoHandle \notin Handles
    BY SpmAssumption DEF NoHandle, Handles
  <2> QED
    BY <2>1, <1>1 DEF TypeInv, Agents, Threads
<1>3. PICK h \in Handles : h = got[p]
  BY <1>1, <1>2 DEF WaitOK, tfm_spm_psa_reply
<1>4. PICK m \in Conns : m = conn[h]
  BY <1>2
<1>5. PICK a \in Agents, s \in Services :
         /\ a = Asker(m) /\ s = m.service /\ UnderWay(p, h)
         /\ m.magic /\ Owner[s] = p /\ pc[a] = "calling" /\ m.client = ClientId(a)
         /\ Authorized(a, s)
  <2>1. MessageOK(p, h) /\ UnderWay(p, h)
    BY <1>1, <1>3 DEF HandlesInv, MessagesInv, UnderWay
  <2>2. m.service \in Services
    BY DEF Conns
  <2> QED
    BY <2>1, <2>2, <1>4 DEF MessageOK
<1>6. /\ pc[p] \in {"serving", "done"} /\ rpc.phase = "off" /\ status \in Statuses(m)
      /\ Freed(m, status) => pool' = Append(pool, h) /\ conn' = [conn EXCEPT ![h] = FreeConn]
      /\ ~Freed(m, status) =>
            /\ conn' = [conn EXCEPT ![h].status = IF status = "programmer" THEN "error"
                                                  ELSE "idle",
                                    ![h].owner = NoAgent]
            /\ pool' = pool
      /\ held' = [held EXCEPT ![a][s] = Known(m, h, status)]
      /\ sched' = IF a \in Callers THEN sched ELSE tfm_event_wake(sched, a)
      /\ pc' = [pc EXCEPT ![a] = Resumed(a), ![p] = "ready"]
      /\ got' = [got EXCEPT ![p] = NoHandle]
      /\ UNCHANGED <<config, saved, sig, msgs, line, rpc, ret, inputs, halted>>
      /\ a # p
  BY <1>3, <1>4, <1>5 DEF tfm_spm_psa_reply, tfm_spm_free_conn_handle, Running
<1>7. /\ held' \in [Agents -> [Services -> Handles \cup {NoHandle}]]
      /\ \A b \in Agents : b # a => held'[b] = held[b]
      /\ \A b \in Agents : \A t \in Services : \A k \in Handles :
            k # h => (Holds(b, t, k)' <=> Holds(b, t, k))
      /\ Freed(m, status) => ~HeldBy(h)'
      /\ \A b \in Agents : \A t \in Services : Holds(b, t, h)' => b = a /\ t = s
      /\ ~Freed(m, status) /\ "busy" \notin ConnectReplies => Holds(a, s, h)'
  <2>1. Learns(a, s, Known(m, h, status)) /\ status \in Statuses(m)
    BY <1>6 DEF Learns
  <2>2. HeldAfter(h, m, a, s, status)
    BY <2>1, <1>1, <1>4, <1>5, ReplyHeld
  <2> QED
    BY <2>2 DEF HeldAfter, Holds, HeldBy
<1>8. /\ conn' \in [Handles -> Conns] /\ conn'[h].status # "active"
      /\ \A k \in Handles : k # h => conn'[k] = conn[k]
      /\ Freed(m, status) => ~conn'[h].magic
      /\ ~Freed(m, status) => /\ conn'[h].magic /\ conn'[h].service = s
                              /\ conn'[h].client = ClientId(a)
  <2>1. CASE Freed(m, status)
    <3>1. FreeConn \in Conns /\ FreeConn.status = "idle" /\ ~FreeConn.magic
      BY <1>3, <1>4, <1>5 DEF FreeConn, Conns, Threads
    <3>2. conn' = [conn EXCEPT ![h] = FreeConn]
      BY <2>1, <1>6
    <3> HIDE DEF FreeConn
    <3> QED
      BY <2>1, <3>1, <3>2, <1>2
  <2>2. CASE ~Freed(m, status)
    <3> DEFINE st == IF status = "programmer" THEN "error" ELSE "idle"
               n == [m EXCEPT !.status = st, !.owner = NoAgent]
    <3>1. conn' = [conn EXCEPT ![h] = n]
      BY <2>2, <1>6, <1>2, <1>3, <1>4, <1>5
    <3>2. /\ n \in Conns /\ n.status # "active" /\ n.magic = m.magic
          /\ n.service = m.service /\ n.client = m.client
      BY <1>3, <1>4, <1>5 DEF Conns
    <3> HIDE DEF n
    <3> QED
      BY <2>2, <3>1, <3>2, <1>2, <1>3, <1>4, <1>5, <1>6
  <2> QED
    BY <2>1, <2>2
<1>9. /\ got' \in [Threads -> Handles \cup {NoHandle}] /\ got'[p] = NoHandle
      /\ \A q \in Partitions : q # p => got'[q] = got[q]
  BY <1>6, <1>2, <1>3, <1>4, <1>5 DEF Threads
<1>10. /\ pc' \in [Agents -> Pcs] /\ pc'[p] = "ready" /\ pc'[a] = Resumed(a)
       /\ \A b \in Agents : b # a /\ b # p => pc'[b] = pc[b]
  BY <1>6, <1>2, <1>5 DEF Resumed
<1>11. /\ pool' \in Seq(Handles) /\ Distinct(pool')
       /\ \A k \in Handles :
             Contains(pool', k) <=> Contains(pool, k) \/ (k = h /\ Freed(m, status))
  <2>1. Distinct(pool) /\ ~Contains(pool, h)
    BY <1>1, <1>3, <1>4, <1>5, <1>6 DEF HandlesInv, QueuesInv, FreeInv
  <2>2. CASE Freed(m, status)
    <3>1. pool' = Append(pool, h)
      BY <2>2, <1>6
    <3> QED
      BY <2>1, <2>2, <3>1, <1>2, AppendQueue
  <2>3. CASE ~Freed(m, status)
    <3>1. pool' = pool
      BY <2>3, <1>6
    <3> QED
      BY <2>1, <2>3, <3>1, <1>2
  <2> QED
    BY <2>2, <2>3
<1>12. \A q \in Partitions : ~Contains(msgs[q], h) /\ (q # p => ~UnderWay(q, h))
  <2> SUFFICES ASSUME NEW q \in Partitions
               PROVE  ~Contains(msgs[q], h) /\ (q # p => ~UnderWay(q, h))
    OBVIOUS
  <2>1. UnderWay(q, h) => Owner[s] = q
    BY <1>1, <1>3, <1>4, <1>5 DEF HandlesInv, MessagesInv, MessageOK
  <2>2. ~Contains(msgs[p], h)
    BY <1>1, <1>3, <1>4, <1>5, <1>9 DEF HandlesInv, QueuesInv
  <2> QED
    BY <2>1, <2>2, <1>5, <1>6 DEF UnderWay
<1>13. \A q \in Partitions : \A k \in Handles : UnderWay(q, k)' <=> UnderWay(q, k) /\ k # h
  <2>1. msgs' = msgs
    BY <1>6
  <2> QED
    BY <2>1, <1>2, <1>3, <1>9, <1>12 DEF UnderWay
<1>14. \A k \in Handles : k # h => (HeldBy(k)' <=> HeldBy(k))
  BY <1>7 DEF HeldBy
<1>15. /\ Shape(sched')
       /\ \A q \in Threads : q # a => sched'.state[q] = sched.state[q]
  <2>1. CASE a \in Callers
    BY <2>1, <1>1, <1>6 DEF TypeInv
  <2>2. CASE a \notin Callers
    <3>1. a \in Threads /\ Shape(sched)
      BY <2>2, <1>1, <1>5, <1>6 DEF Agents, TypeInv
    <3>2. /\ Shape(tfm_event_wake(sched, a))
          /\ tfm_event_wake(sched, a).state = [sched.state EXCEPT ![a] = "run"]
      BY <3>1, EventWake
    <3>3. sched.state \in [Threads -> {"run", "block"}]
      BY <3>1 DEF Shape
    <3> QED
      BY <2>2, <3>2, <3>3, <1>6
  <2> QED
    BY <2>1, <2>2
<1>16. TypeInv'
  BY <1>1, <1>6, <1>7, <1>8, <1>9, <1>10, <1>11, <1>15 DEF TypeInv, config, Shape
<1>17. SignalsInv' /\ RpcInv'
  <2>1. \A t \in Services : Pending(t)' <=> Pending(t)
    <3>1. \A t \in Services : Owner[t] \in Partitions
      BY SpmAssumption
    <3>2. msgs' = msgs
      BY <1>6
    <3> QED
      BY <3>1, <3>2, <1>8, <1>12 DEF Pending
  <2> QED
    BY <2>1, <1>1, <1>6 DEF SignalsInv, RpcInv, config
<1>18. WaitInv'
  <2> SUFFICES ASSUME NEW q \in Partitions PROVE WaitOK(q)'
    BY DEF WaitInv
  <2>1. /\ WaitOK(q) /\ sig' = sig /\ ret' = ret /\ Allowed(q)' = Allowed(q)
        /\ q \in Agents /\ q \in Threads /\ InFlight(q)' = InFlight(q)
    BY <1>1, <1>6 DEF WaitInv, Allowed, InFlight, Agents, Threads
  <2>2. CASE q = p
    BY <2>1, <2>2, <1>6, <1>9, <1>10 DEF WaitOK
  <2>3. CASE q # p /\ q = a
    <3>1. pc[q] = "calling" /\ pc'[q] = "done" /\ got'[q] = got[q]
      BY <2>3, <1>5, <1>6, <1>9, <1>10 DEF Resumed
    <3> QED
      BY <2>1, <3>1 DEF WaitOK
  <2>4. CASE q # p /\ q # a
    <3>1. pc'[q] = pc[q] /\ got'[q] = got[q] /\ sched'.state[q] = sched.state[q]
      BY <2>1, <2>4, <1>9, <1>10, <1>15
    <3> QED
      BY <2>1, <3>1 DEF WaitOK, Mask
  <2> QED
    BY <2>2, <2>3, <2>4
<1>19. QueuesInv' /\ FreeInv'
  <2>1. msgs' = msgs
    BY <1>6
  <2>2. \A q \in Partitions : \A k \in Handles : Contains(msgs'[q], k) => got'[q] # k
    BY <2>1, <1>1, <1>2, <1>9 DEF HandlesInv, QueuesInv
  <2>3. QueuesInv'
    BY <2>1, <2>2, <1>1, <1>11 DEF HandlesInv, QueuesInv
  <2>4. FreeInv'
    <3> SUFFICES ASSUME NEW k \in Handles, Contains(pool', k)
                 PROVE  ~conn'[k].magic /\ ~HeldBy(k)'
      BY DEF FreeInv
    <3>1. CASE k = h
      <4>1. ~Contains(pool, h)
        BY <1>1, <1>3, <1>4, <1>5, <1>6 DEF HandlesInv, FreeInv
      <4> QED
        BY <4>1, <3>1, <1>7, <1>8, <1>11
    <3>2. CASE k # h
      <4>1. Contains(pool, k)
        BY <3>2, <1>11
      <4> QED
        BY <4>1, <3>2, <1>1, <1>8, <1>14 DEF HandlesInv, FreeInv
    <3> QED
      BY <3>1, <3>2
  <2> QED
    BY <2>3, <2>4
<1>20. HeldInv'
  <2> SUFFICES ASSUME NEW k \in Handles, NEW b \in Agents, NEW t \in Services, Holds(b, t, k)'
               PROVE  /\ conn'[k].magic /\ conn'[k].service = t
                      /\ conn'[k].client = ClientId(b) /\ Authorized(b, t)
                      /\ \A c \in Agents : \A u \in Services : Holds(c, u, k)' => b = c
    BY DEF HeldInv, ClientId, Authorized
  <2>1. CASE k = h
    <3>1. ~Freed(m, status)
      BY <2>1, <1>7 DEF HeldBy
    <3> QED
      BY <2>1, <3>1, <1>5, <1>7, <1>8
  <2>2. CASE k # h
    <3>1. Holds(b, t, k)
      BY <2>2, <1>7
    <3>2. /\ conn[k].magic /\ conn[k].service = t /\ conn[k].client = ClientId(b)
          /\ Authorized(b, t)
          /\ \A c \in Agents : \A u \in Services : Holds(c, u, k) => b = c
      BY <3>1, <1>1 DEF HandlesInv, HeldInv
    <3> QED
      BY <2>2, <3>2, <1>7, <1>8
  <2> QED
    BY <2>1, <2>2
<1>21. MessagesInv'
  <2> SUFFICES ASSUME NEW q \in Partitions, NEW k \in Handles, UnderWay(q, k)'
               PROVE  MessageOK(q, k)'
    BY DEF MessagesInv
  <2>1. UnderWay(q, k) /\ k # h /\ conn'[k] = conn[k]
    BY <1>8, <1>13
  <2>2. MessageOK(q, k)
    BY <2>1, <1>1 DEF HandlesInv, MessagesInv
  <2>3. PICK b \in Agents : b = Asker(conn[k]) /\ b # a /\ pc[b] = "calling"
    <3>1. Asker(conn[k]) # a
      BY <2>1, <1>1, <1>4, <1>5 DEF HandlesInv, AskersInv
    <3> QED
      BY <3>1, <2>2 DEF MessageOK
  <2>5. pc'[b] = "calling" /\ held'[b] = held[b]
    BY <2>3, <1>6, <1>7, <1>10
  <2>6. \A t : Holds(b, t, k)' <=> Holds(b, t, k)
    BY <2>5 DEF Holds
  <2> QED
    BY <2>1, <2>2, <2>3, <2>5, <2>6, <1>14 DEF MessageOK, OnConnection, ClientId, Authorized
<1>22. AskersInv'
  BY <1>1, <1>8, <1>13 DEF HandlesInv, AskersInv
<1>23. ActiveInv'
  <2> SUFFICES ASSUME NEW k \in Handles, conn'[k].status = "active"
               PROVE  \E q \in Partitions : got'[q] = k
    BY DEF ActiveInv
  <2>1. k # h /\ conn[k].status = "active"
    BY <1>8
  <2>2. PICK q \in Partitions : got[q] = k
    BY <2>1, <1>1 DEF HandlesInv, ActiveInv
  <2> QED
    BY <2>1, <2>2, <1>3, <1>9
<1>24. KeptInv'
  <2> SUFFICES ASSUME "busy" \notin ConnectReplies, NEW k \in Handles
               PROVE  Reachable(k)' \/ Leaked(k)'
    BY DEF KeptInv
  <2>1. CASE k = h
    <3>1. CASE Freed(m, status)
      BY <2>1, <3>1, <1>11 DEF Reachable
    <3>2. CASE ~Freed(m, status)
      BY <2>1, <3>2, <1>3, <1>4, <1>5, <1>6, <1>7 DEF Reachable, HeldBy
    <3> QED
      BY <3>1, <3>2
  <2>2. CASE k # h
    <3>1. Reachable(k) \/ Leaked(k)
      BY <1>1 DEF HandlesInv, KeptInv
    <3> QED
      BY <2>2, <3>1, <1>8, <1>11, <1>13, <1>14 DEF Reachable, Leaked
  <2> QED
    BY <2>1, <2>2
<1>25. IrqSignalKept'
  BY <1>1, <1>6 DEF IrqSignalKept, config
<1>26. CallersInv'
  <2> SUFFICES ASSUME NEW b \in Agents, pc'[b] = "calling"
               PROVE  \E q \in Partitions : \E k \in Handles :
                        UnderWay(q, k)' /\ Asker(conn'[k]) = b
    BY DEF CallersInv, Asker
  <2>1. b # a /\ b # p /\ pc[b] = "calling"
    BY <1>10 DEF Resumed
  <2>2. PICK q \in Partitions, k \in Handles : UnderWay(q, k) /\ Asker(conn[k]) = b
    BY <2>1, <1>1 DEF HandlesInv, CallersInv
  <2>3. k # h
    BY <2>1, <2>2, <1>4, <1>5
  <2> QED
    BY <2>2, <2>3, <1>8, <1>13
<1> QED
  BY <1>16, <1>17, <1>18, <1>19, <1>20, <1>21, <1>22, <1>23, <1>24, <1>25, <1>26
  DEF IInv, HandlesInv

-----------------------------------------------------------------------------
(* The invariant holds.                                                    *)

LEMMA InitInv == Init => IInv
<1> SUFFICES ASSUME Init PROVE IInv
  OBVIOUS
<1>1. /\ \A s \in Services : Owner[s] \in Partitions
      /\ (CHOOSE s \in Services : TRUE) \in Services
      /\ NoHandle \notin Handles /\ NumHandles \in Nat
  BY SpmAssumption DEF NoHandle, Handles
<1>2. FreeConn \in Conns /\ ~FreeConn.magic /\ FreeConn.status = "idle"
  BY <1>1 DEF FreeConn, Conns, Threads
<1>3. RpcOff \in Rpcs /\ RpcOff.phase = "off"
  BY <1>1 DEF RpcOff, Rpcs
<1>4. /\ pool \in Seq(Handles) /\ Distinct(pool) /\ \A h \in Handles : Contains(pool, h)
  <2>1. pool = [h \in 1 .. NumHandles |-> h] /\ Handles = 1 .. NumHandles
    BY DEF Init, Handles
  <2>2. pool \in Seq(Handles) /\ Len(pool) = NumHandles
    BY <2>1, <1>1
  <2> QED
    BY <2>1, <2>2 DEF Distinct, Contains
<1>5. /\ msgs = [p \in Partitions |-> <<>>] /\ conn = [h \in Handles |-> FreeConn]
      /\ got = [t \in Threads |-> NoHandle]
      /\ held = [a \in Agents |-> [s \in Services |-> NoHandle]]
      /\ rpc = RpcOff
      /\ sig = [p \in Partitions |-> [asserted |-> {}, waiting |-> {}, owner |-> FALSE]]
      /\ pc = [a \in Agents |-> IF a \in Partitions THEN "ready" ELSE "idle"]
      /\ line = [p \in Partitions |-> TRUE] /\ ret = [p \in Partitions |-> {}]
      /\ sched = [state |-> [t \in Threads |-> "run"], head |-> Head(list), curr |-> NS,
                  pend |-> TRUE]
  BY DEF Init
<1>6. \A p \in Partitions : p \in Threads /\ p \in Agents
  BY DEF Threads, Agents
<1>7. TypeInv
  <2>1. Shape(sched)
    BY <1>5 DEF Shape
  <2>2. msgs \in [Partitions -> Seq(Handles)] /\ conn \in [Handles -> Conns]
    BY <1>2, <1>5
  <2>3. inputs \in 0 .. MaxInputs[topo] /\ topo \in Topologies
    BY SpmAssumption DEF Init
  <2>4. /\ got \in [Threads -> Handles \cup {NoHandle}]
        /\ held \in [Agents -> [Services -> Handles \cup {NoHandle}]]
        /\ ret \in [Partitions -> SUBSET Signals] /\ line \in [Partitions -> BOOLEAN]
        /\ saved \in [Threads -> {"entry", "wait", "driver", "call", "run"}]
    BY <1>5 DEF Init
  <2>5. sig \in [Partitions -> [asserted : SUBSET Signals, waiting : SUBSET Signals,
                                owner : BOOLEAN]]
    BY <1>5
  <2>6. pc \in [Agents -> {"idle", "sent", "calling", "ready", "waiting", "awake",
                           "serving", "done"}]
    BY <1>5
  <2>7. halted \in {"no", "signals", "handles", "owner", "relinked"}
    BY DEF Init
  <2> QED
    BY <2>1, <2>2, <2>3, <2>4, <2>5, <2>6, <2>7, <1>3, <1>4, <1>5 DEF TypeInv
<1>8. \A p \in Partitions : \A h \in Handles : ~UnderWay(p, h) /\ ~Contains(msgs[p], h)
  <2>1. \A p \in Partitions : msgs[p] = <<>> /\ got[p] = NoHandle
    BY <1>5, <1>6
  <2> QED
    BY <2>1, <1>1 DEF UnderWay, Contains
<1>9. \A h \in Handles : ~HeldBy(h) /\ \A a \in Agents : \A s \in Services : ~Holds(a, s, h)
  BY <1>1, <1>5 DEF HeldBy, Holds
<1>10. SignalsInv /\ RpcInv
  <2>1. \A s \in Services : ~Pending(s)
    BY <1>1, <1>8 DEF Pending
  <2> QED
    BY <2>1, <1>1, <1>3, <1>5 DEF SignalsInv, RpcInv
<1>11. WaitInv
  BY <1>5, <1>6 DEF WaitInv, WaitOK
<1>12. QueuesInv
  <2>1. \A p \in Partitions : Distinct(msgs[p])
    BY <1>5 DEF Distinct
  <2> QED
    BY <2>1, <1>4, <1>8 DEF QueuesInv
<1>13. FreeInv /\ HeldInv /\ MessagesInv /\ AskersInv /\ ActiveInv /\ KeptInv /\ CallersInv
  BY <1>2, <1>4, <1>5, <1>8, <1>9
  DEF FreeInv, HeldInv, MessagesInv, AskersInv, ActiveInv, KeptInv, Reachable, CallersInv
<1>14. IrqSignalKept
  BY <1>5, SpmAssumption DEF IrqSignalKept
<1> QED
  BY <1>7, <1>10, <1>11, <1>12, <1>13, <1>14 DEF IInv, HandlesInv

LEMMA NextInv == SpmInv /\ [NextDriver]_vars => IInv'
<1> SUFFICES ASSUME IInv, WakeInv, [NextDriver]_vars PROVE IInv'
  BY DEF SpmInv
<1>1. NS \in Agents /\ Partitions \subseteq Agents /\ Callers \subseteq Agents
  BY DEF Agents, Threads
<1>2. CASE Call(NS)
  BY <1>1, <1>2, CallInv
<1>3. CASE \E p \in Partitions : PartitionStep(p)
  <2> PICK p \in Partitions : PartitionStep(p)
    BY <1>3
  <2>1. CASE WaitAny(p)
    BY <2>1, WaitsInv
  <2>2. CASE \E s \in Services : tfm_spm_psa_get(p, s)
    BY <2>2, GetInv
  <2>3. CASE \E status \in {"success", "refused", "busy", "programmer"} :
                tfm_spm_psa_reply(p, status)
    BY <2>3, ReplyInv
  <2>4. CASE \E q \in Partitions : tfm_spm_psa_notify(p, q)
    BY <2>4, PsaNotifyInv
  <2>5. CASE tfm_spm_psa_clear(p) \/ tfm_spm_psa_eoi(p)
    BY <2>5, ClearsInv
  <2>6. CASE tfm_spm_psa_panic(p)
    BY <2>6, PanicInv DEF tfm_spm_psa_panic
  <2>7. CASE HandlesExhausted(p)
    BY <2>7, PanicInv DEF HandlesExhausted
  <2>8. CASE Call(p)
    BY <2>8, <1>1, CallInv
  <2> QED
    BY <2>1, <2>2, <2>3, <2>4, <2>5, <2>6, <2>7, <2>8 DEF PartitionStep
<1>4. CASE \E p \in Partitions : tfm_set_irq_signal(p)
  BY <1>4, IrqInv
<1>5. CASE \/ \E a \in Callers : MailboxRequest(a) \/ MailboxRefuse(a)
           \/ RpcDone
  BY <1>5, MailboxInv
<1>6. CASE tfm_pendsv_do_schedule \/ RpcStore \/ RpcTest \/ RpcWake \/ RpcMask
  BY <1>6, ScheduleInv, RpcStoreInv, RpcTestInv, RpcWakeInv, RpcMaskInv
<1>10. CASE RpcOwnerLost \/ \E a, b \in Callers, sv \in Services : MessageRelinked(a, b, sv)
  BY <1>10, PanicInv DEF RpcOwnerLost, MessageRelinked
<1>7. CASE \E a \in Callers : Call(a)
  BY <1>1, <1>7, CallInv
<1>8. CASE \E p \in Partitions : WaitForIrq(p)
  BY <1>8, WaitsInv
<1>9. CASE UNCHANGED vars
  <2>1. halted \in {"no", "signals", "handles", "owner", "relinked"} /\ halted' = halted
    BY <1>9 DEF IInv, TypeInv, vars
  <2> QED
    BY <2>1, <1>9, PanicInv DEF vars
<1> QED
  BY <1>2, <1>3, <1>4, <1>5, <1>6, <1>7, <1>8, <1>9, <1>10 DEF NextDriver, Next, PendSV

\* While PendSV wakes a partition no thread runs.
LEMMA ThreadsQuiet ==
  ASSUME NEW p \in Partitions, PartitionStep(p) \/ WaitForIrq(p)
  PROVE  rpc.phase = "off" /\ rpc' = rpc
<1>1. CASE Call(p)
  <2>1. PICK s \in Services : \/ tfm_spm_client_psa_connect(p, s)
                              \/ tfm_spm_client_psa_call(p, s)
                              \/ tfm_spm_client_psa_close(p, s)
                              \/ VectorsRefused(p, s)
    BY <1>1 DEF Call
  <2>2. p \notin Callers /\ p # NS
    BY SpmAssumption DEF Threads
  <2>3. MayCall(p) /\ (rpc' = rpc \/ \E h : tfm_spm_send_event(p, s, h))
    BY <2>1 DEF tfm_spm_client_psa_connect, tfm_spm_client_psa_call, tfm_spm_client_psa_close,
                VectorsRefused, SendNew, SendOn
  <2> QED
    BY <2>2, <2>3 DEF MayCall, Running, tfm_spm_send_event
<1>2. CASE WaitAny(p) \/ WaitForIrq(p)
  BY <1>2 DEF WaitForIrq, WaitAny, tfm_spm_psa_wait, Running
<1>3. CASE \E s \in Services : tfm_spm_psa_get(p, s)
  BY <1>3 DEF tfm_spm_psa_get, Handling, Running
<1>4. CASE \E status \in {"success", "refused", "busy", "programmer"} :
              tfm_spm_psa_reply(p, status)
  BY <1>4 DEF tfm_spm_psa_reply, Running
<1>5. CASE \E q \in Partitions : tfm_spm_psa_notify(p, q)
  BY <1>5 DEF tfm_spm_psa_notify, Running
<1>6. CASE tfm_spm_psa_clear(p) \/ tfm_spm_psa_eoi(p)
  BY <1>6 DEF tfm_spm_psa_clear, tfm_spm_psa_eoi, Handling, Running
<1>7. CASE tfm_spm_psa_panic(p) \/ HandlesExhausted(p)
  <2>1. p \notin Callers /\ p # NS
    BY SpmAssumption DEF Threads
  <2> QED
    BY <2>1, <1>7 DEF tfm_spm_psa_panic, HandlesExhausted, MayCall, Running
<1> QED
  BY <1>1, <1>2, <1>3, <1>4, <1>5, <1>6, <1>7 DEF PartitionStep

\* A call starts no wake-up: PendSV has yet to assert the signal.
LEMMA CallQuiet ==
  ASSUME NEW a \in Agents, Call(a)
  PROVE  rpc'.phase \in {"off", "scan", "store"}
<1>1. PICK s \in Services : \/ tfm_spm_client_psa_connect(a, s)
                            \/ tfm_spm_client_psa_call(a, s)
                            \/ tfm_spm_client_psa_close(a, s)
                            \/ VectorsRefused(a, s)
  BY DEF Call
<1>2. MayCall(a) /\ (rpc' = rpc \/ \E h : tfm_spm_send_event(a, s, h))
  BY <1>1 DEF tfm_spm_client_psa_connect, tfm_spm_client_psa_call, tfm_spm_client_psa_close,
              VectorsRefused, SendNew, SendOn
<1>3. rpc.phase \in {"off", "scan"}
  BY <1>2 DEF MayCall, Running
<1> QED
  BY <1>2, <1>3 DEF tfm_spm_send_event

LEMMA WakeNext == SpmInv /\ [NextDriver]_vars => WakeInv'
<1> SUFFICES ASSUME IInv, WakeInv, [NextDriver]_vars PROVE WakeInv'
  BY DEF SpmInv
<1>1. NS \in Agents /\ Callers \subseteq Agents /\ Callers \cap Partitions = {}
  BY SpmAssumption DEF Agents, Threads
<1>2. rpc \in Rpcs /\ rpc.service \in Services /\ Owner[rpc.service] \in Partitions
  BY SpmAssumption DEF IInv, TypeInv, Rpcs
<1>3. ASSUME rpc'.phase \notin {"wake", "mask"} PROVE WakeInv'
  BY <1>3 DEF WakeInv
<1>4. CASE \E a \in Agents : Call(a)
  <2>1. rpc'.phase \in {"off", "scan", "store"}
    BY <1>4, CallQuiet
  <2> QED
    BY <2>1, <1>3
<1>5. CASE \E p \in Partitions : PartitionStep(p) \/ WaitForIrq(p)
  <2>1. rpc'.phase = "off"
    BY <1>5, ThreadsQuiet
  <2> QED
    BY <2>1, <1>3
<1>6. CASE \E p \in Partitions : tfm_set_irq_signal(p)
  <2>1. PICK p \in Partitions : tfm_set_irq_signal(p)
    BY <1>6
  <2>2. /\ SetSignal(p, "irq", sig[p].asserted) /\ pc' = Awoken(p, "irq")
        /\ got' = got /\ rpc' = rpc
    BY <2>1 DEF tfm_set_irq_signal, notify_with_signal
  <2>3. /\ TypeInv /\ "irq" \in Signals /\ sig[p].asserted \in SUBSET Signals
        /\ pc \in [Agents -> {"idle", "sent", "calling", "ready", "waiting", "awake",
                              "serving", "done"}]
    BY DEF IInv, TypeInv, Signals
  <2>4. /\ sig'[p].owner <=> sig[p].owner /\ ~Wakes(p, "irq")
        /\ \A q \in Partitions : q # p => sig'[q] = sig[q]
    BY <2>2, <2>3, Signalled
  <2>5. \A q \in Partitions : pc'[q] = pc[q] \/ pc'[q] = "awake"
    BY <2>2, <2>3 DEF Awoken, Agents, Threads
  <2> QED
    BY <2>2, <2>4, <2>5, <1>2 DEF WakeInv
<1>7. CASE \E a \in Callers : MailboxRequest(a)
  <2>1. PICK a \in Callers : MailboxRequest(a)
    BY <1>7
  <2>2. pc' = [pc EXCEPT ![a] = "sent"] /\ rpc' = rpc /\ got' = got /\ sig' = sig
    BY <2>1 DEF MailboxRequest
  <2>3. \A q \in Partitions : pc'[q] = pc[q]
    BY <2>2, <1>1 DEF IInv, TypeInv, Agents, Threads
  <2> QED
    BY <2>2, <2>3, <1>2 DEF WakeInv
<1>8. CASE \/ \E a \in Callers : MailboxRefuse(a)
           \/ RpcDone \/ RpcStore \/ RpcMask \/ tfm_pendsv_do_schedule
  <2>1. rpc'.phase \notin {"wake", "mask"}
    BY <1>2, <1>8
    DEF MailboxRefuse, RpcDone, RpcStore, RpcMask, tfm_pendsv_do_schedule, RpcOff, Rpcs
  <2> QED
    BY <2>1, <1>3
<1>9. CASE RpcTest
  <2> DEFINE s == rpc.service  p == Owner[rpc.service]
  <2>1. UNCHANGED <<sig, pc, got>>
    BY <1>9 DEF RpcTest
  <2>2. \/ Wakes(p, s) /\ rpc'.phase = "wake" /\ rpc'.service = s
        \/ s \in sig[p].waiting /\ ~Wakes(p, s) /\ rpc'.phase = "mask" /\ rpc'.service = s
        \/ rpc'.phase = "scan"
    BY <1>2, <1>9 DEF RpcTest, RpcOff, Rpcs
  <2>3. WaitOK(p)
    BY <1>2 DEF IInv, WaitInv
  <2>4. s # "irq"
    BY <1>2, SpmAssumption
  <2>5. CASE Wakes(p, s) /\ rpc'.phase = "wake" /\ rpc'.service = s
    <3>1. pc[p] \in {"waiting", "awake"} /\ sig[p].waiting = Mask(p) /\ s \in sig[p].waiting
      BY <2>3, <2>5 DEF WaitOK, Wakes
    <3>2. got[p] = NoHandle
      BY <2>4, <3>1 DEF Mask
    <3> QED
      BY <2>1, <2>5, <3>1, <3>2 DEF WakeInv
  <2>6. CASE s \in sig[p].waiting /\ ~Wakes(p, s) /\ rpc'.phase = "mask" /\ rpc'.service = s
    <3>1. ~sig[p].owner
      BY <2>3, <2>6 DEF WaitOK, Wakes
    <3> QED
      BY <2>1, <2>6, <3>1 DEF WakeInv
  <2> QED
    BY <2>2, <2>5, <2>6, <1>3
<1>10. CASE RpcWake
  <2>1. /\ rpc' = [rpc EXCEPT !.phase = "mask", !.had = sig[Owner[rpc.service]].waiting]
        /\ sig' = [sig EXCEPT ![Owner[rpc.service]].owner = FALSE]
    BY <1>10 DEF RpcWake
  <2>2. rpc'.phase = "mask" /\ rpc'.service = rpc.service
    BY <2>1, <1>2 DEF Rpcs
  <2>3. ~sig'[Owner[rpc.service]].owner
    BY <2>1, <1>2 DEF IInv, TypeInv
  <2> QED
    BY <2>2, <2>3 DEF WakeInv
<1>11. CASE RpcOwnerLost \/ (\E a, b \in Callers, sv \in Services : MessageRelinked(a, b, sv))
            \/ UNCHANGED vars
  <2>1. UNCHANGED <<rpc, pc, got, sig>>
    BY <1>11 DEF RpcOwnerLost, MessageRelinked, vars
  <2> QED
    BY <2>1 DEF WakeInv
<1> QED
  BY <1>1, <1>4, <1>5, <1>6, <1>7, <1>8, <1>9, <1>10, <1>11
  DEF NextDriver, Next, PendSV

\* With and without drivers that wait within a request.
LEMMA Invariant == Spec \/ DriverSpec => [](IInv /\ WakeInv)
<1>1. Next => NextDriver
  BY DEF NextDriver
<1>2. Init => SpmInv
  <2>1. Init => rpc.phase = "off"
    BY DEF Init, RpcOff
  <2> QED
    BY <2>1, InitInv DEF SpmInv, WakeInv
<1>3. SpmInv /\ [NextDriver]_vars => SpmInv'
  BY NextInv, WakeNext DEF SpmInv
<1>4. Spec => []SpmInv
  BY <1>1, <1>2, <1>3, PTL DEF Spec
<1>5. DriverSpec => []SpmInv
  BY <1>2, <1>3, PTL DEF DriverSpec
<1>6. SpmInv => IInv /\ WakeInv
  BY DEF SpmInv
<1> QED
  BY <1>4, <1>5, <1>6, PTL

\* The signal of a service is asserted exactly while messages for it are queued, for
\* every number of partitions, services and handles, whatever order interrupts,
\* callers and partitions come in.
THEOREM SignalsHold == Spec \/ DriverSpec => []SignalsMatchMessages
<1>1. IInv => SignalsMatchMessages
  <2> SUFFICES ASSUME IInv, NEW s \in Services
               PROVE  (rpc.phase = "store" /\ rpc.service = s)
                        \/ (s \in sig[Owner[s]].asserted <=> Queued(s) # {})
    BY DEF SignalsMatchMessages
  <2>1. Pending(s) <=> Queued(s) # {}
    BY PendingQueued DEF IInv
  <2> QED
    BY <2>1 DEF IInv, SignalsInv
<1> QED
  BY <1>1, Invariant, PTL

\* No partition blocked in psa_wait() misses a signal it waits for.
THEOREM WakeupsHold == Spec \/ DriverSpec => []NoMissedWakeup
<1>1. IInv => NoMissedWakeup
  BY DEF IInv, WaitInv, WaitOK, Mask, NoMissedWakeup
<1> QED
  BY <1>1, Invariant, PTL

\* On a single core no interrupt gets lost while its line is masked.
THEOREM IrqHolds == Spec \/ DriverSpec => []IrqSignalKept
<1>1. IInv => IrqSignalKept
  BY DEF IInv
<1> QED
  BY <1>1, Invariant, PTL

\* The places of a handle, one by one.
LEMMA WhichPlace ==
  ASSUME NEW h, NEW z
  PROVE  z \in Places(h) <=>
           \/ \E i \in 1 .. Len(pool) : pool[i] = h /\ z = <<"pool", i>>
           \/ \E p \in Partitions : \E i \in 1 .. Len(msgs[p]) :
                 msgs[p][i] = h /\ z = <<p, i>>
           \/ \E p \in Partitions : got[p] = h /\ z = <<p, 0>>
<1> DEFINE A == {<<"pool", i>> : i \in {j \in 1 .. Len(pool) : pool[j] = h}}
           D(p) == {<<p, i>> : i \in {j \in 1 .. Len(msgs[p]) : msgs[p][j] = h}}
           B == UNION {{<<p, i>> : i \in {j \in 1 .. Len(msgs[p]) : msgs[p][j] = h}} :
                       p \in Partitions}
           C == {<<p, 0>> : p \in {q \in Partitions : got[q] = h}}
<1>1. z \in Places(h) <=> z \in A \/ z \in B \/ z \in C
  BY Zenon DEF Places
<1>2. z \in A <=> \E i \in 1 .. Len(pool) : pool[i] = h /\ z = <<"pool", i>>
  OBVIOUS
<1>3. \A p : z \in D(p) <=> \E i \in 1 .. Len(msgs[p]) : msgs[p][i] = h /\ z = <<p, i>>
  OBVIOUS
<1>4. z \in C <=> \E p \in Partitions : got[p] = h /\ z = <<p, 0>>
  OBVIOUS
<1>5. z \in B <=> \E p \in Partitions : z \in D(p)
  OBVIOUS
<1> HIDE DEF A, B, C, D
<1> QED
  BY <1>1, <1>2, <1>3, <1>4, <1>5

\* A handle is in one place only.
LEMMA OnePlace ==
  ASSUME IInv, NEW h \in Handles, NEW x \in Places(h), NEW y \in Places(h)
  PROVE  x = y
<1>1. /\ NoHandle \notin Handles
      /\ \A p \in Partitions : \A i \in 1 .. Len(msgs[p]) :
            msgs[p][i] = h => Contains(msgs[p], h)
      /\ \A i \in 1 .. Len(pool) : pool[i] = h => Contains(pool, h)
  BY SpmAssumption DEF NoHandle, Handles, Contains
<1>2. \A p, q \in Partitions : UnderWay(p, h) /\ UnderWay(q, h) => p = q
  BY DEF IInv, HandlesInv, MessagesInv, MessageOK
<1>3. \A p \in Partitions : UnderWay(p, h) => ~Contains(pool, h)
  BY DEF IInv, HandlesInv, MessagesInv, MessageOK, FreeInv
<1>4. \A p \in Partitions : Contains(msgs[p], h) => got[p] # h
  BY DEF IInv, HandlesInv, QueuesInv
<1>5. Distinct(pool) /\ \A p \in Partitions : Distinct(msgs[p])
  BY DEF IInv, HandlesInv, QueuesInv
<1> DEFINE InPool(z) == \E i \in 1 .. Len(pool) : pool[i] = h /\ z = <<"pool", i>>
           Queues(z) == \E p \in Partitions : \E i \in 1 .. Len(msgs[p]) :
                          msgs[p][i] = h /\ z = <<p, i>>
           Served(z) == \E p \in Partitions : got[p] = h /\ z = <<p, 0>>
<1>6. \A z \in Places(h) : InPool(z) \/ Queues(z) \/ Served(z)
  BY WhichPlace
<1>7. \A z : Queues(z) => \E p \in Partitions : UnderWay(p, h) /\ Contains(msgs[p], h)
  BY <1>1 DEF UnderWay
<1>8. \A z : Served(z) => \E p \in Partitions : UnderWay(p, h) /\ got[p] = h
  BY DEF UnderWay
<1>9. \A z : InPool(z) => Contains(pool, h)
  BY <1>1
<1>10. InPool(x) /\ InPool(y) => x = y
  BY <1>5 DEF Distinct
<1>11. Queues(x) /\ Queues(y) => x = y
  BY <1>1, <1>2, <1>5 DEF Distinct, UnderWay
<1>12. Served(x) /\ Served(y) => x = y
  BY <1>2 DEF UnderWay
<1> HIDE DEF InPool, Queues, Served
<1>13. ~(InPool(x) /\ (Queues(y) \/ Served(y))) /\ ~(InPool(y) /\ (Queues(x) \/ Served(x)))
  BY <1>3, <1>7, <1>8, <1>9
<1>14. ~(Queues(x) /\ Served(y)) /\ ~(Queues(y) /\ Served(x))
  BY <1>2, <1>4, <1>7, <1>8
<1> QED
  BY <1>6, <1>10, <1>11, <1>12, <1>13, <1>14

\* A set without two different members has at most one.
LEMMA AtMostOne ==
  ASSUME NEW S, \A x, y \in S : x = y
  PROVE  Cardinality(S) <= 1
<1>1. CASE S = {}
  BY <1>1, FS_EmptySet
<1>2. CASE S # {}
  <2>1. PICK x \in S : TRUE
    BY <1>2
  <2>2. S = {x}
    BY <2>1
  <2> QED
    BY <2>2, FS_Singleton
<1> QED
  BY <1>1, <1>2

\* No handle is ever freed twice, queued twice or given to two clients, and only calls
\* with refused vectors lose one, up to the moment when a caller uses another one's
\* connection whose message is queued, where the model stops (MessageRelinked).  It is
\* assumed that no service answers psa_connect() with PSA_ERROR_CONNECTION_BUSY: the
\* property is violated if one does.
THEOREM HandlesHold ==
  ASSUME "busy" \notin ConnectReplies
  PROVE  Spec \/ DriverSpec => []HandlesAccounted
<1>1. IInv => HandlesAccounted
  <2> SUFFICES ASSUME IInv, NEW h \in Handles
               PROVE  /\ Cardinality(Places(h)) <= 1
                      /\ Cardinality(Holders(h)) <= 1
                      /\ Places(h) = {} => \/ /\ Holders(h) # {} /\ conn[h].magic
                                              /\ conn[h].status # "active"
                                           \/ Leaked(h)
                      /\ Contains(pool, h) => Holders(h) = {} /\ ~conn[h].magic
    BY DEF HandlesAccounted
  <2>1. HandlesInv /\ conn[h] \in Conns /\ (Reachable(h) \/ Leaked(h))
    BY DEF IInv, TypeInv, HandlesInv, KeptInv
  <2>2. Cardinality(Places(h)) <= 1
    BY OnePlace, AtMostOne
  <2>3. Cardinality(Holders(h)) <= 1
    <3>1. \A a, b \in Holders(h) : a = b
      BY <2>1 DEF Holders, HandlesInv, HeldInv, Holds
    <3> QED
      BY <3>1, AtMostOne
  <2>4. \A a \in Agents : \A s \in Services : Holds(a, s, h) => a \in Holders(h) /\ conn[h].magic
    BY <2>1 DEF HandlesInv, HeldInv, Holders, Holds
  <2>5. Places(h) = {} => ~Contains(pool, h) /\ \A p \in Partitions : ~UnderWay(p, h)
    <3> SUFFICES ASSUME Places(h) = {}
                 PROVE  ~Contains(pool, h) /\ \A p \in Partitions : ~UnderWay(p, h)
      OBVIOUS
    <3>1. ~Contains(pool, h)
      <4> SUFFICES ASSUME NEW i \in 1 .. Len(pool), pool[i] = h PROVE FALSE
        BY DEF Contains
      <4> QED
        BY WhichPlace
    <3>2. ASSUME NEW p \in Partitions PROVE ~UnderWay(p, h)
      <4>1. ASSUME NEW i \in 1 .. Len(msgs[p]), msgs[p][i] = h PROVE FALSE
        BY <4>1, WhichPlace
      <4>2. got[p] # h
        BY WhichPlace
      <4> QED
        BY <4>1, <4>2 DEF UnderWay, Contains
    <3> QED
      BY <3>1, <3>2
  <2>6. Places(h) = {} => \/ Holders(h) # {} /\ conn[h].magic /\ conn[h].status # "active"
                          \/ Leaked(h)
    BY <2>1, <2>4, <2>5 DEF Reachable, HeldBy, HandlesInv, ActiveInv, UnderWay
  <2>7. Contains(pool, h) => Holders(h) = {} /\ ~conn[h].magic
    BY <2>1 DEF HandlesInv, FreeInv, Holders, HeldBy, Holds
  <2> QED
    BY <2>2, <2>3, <2>6, <2>7
<1> QED
  BY <1>1, Invariant, PTL

=============================================================================
