---------------------------- MODULE SpmSchedProofs ----------------------------
(***************************************************************************)
(* Proofs about the scheduler of SpmIpc: the list of threads is in order   *)
(* of priority, the thread that runs is runnable and no runnable thread is *)
(* more urgent.                                                            *)
(***************************************************************************)
EXTENDS SpmIpcProofs

\* RNBL_HEAD is a thread that no runnable thread comes before in the list.
SchedOK(k) ==
  /\ Shape(k) /\ k.head \in Threads /\ k.curr \in Threads
  /\ \A i \in 1 .. Len(list) : k.state[list[i]] = "run" => \E j \in 1 .. i : list[j] = k.head

\* Unless PendSV was asked for, the current thread is one of the most urgent.
CurrOK ==
  ~sched.pend => /\ sched.state[sched.curr] = "run"
                 /\ \A t \in Threads : sched.state[t] = "run" => prior[sched.curr] <= prior[t]

\* Threads are blocked by a call or between two requests only.
BlockedOK(t) ==
  sched.state[t] = "block" =>
    pc[t] = "calling" \/ (t \in Partitions /\ pc[t] = "waiting" /\ got[t] = NoHandle)

\* On multi-core systems the non-secure thread of this core just runs.
SchedInv ==
  /\ ListOK /\ prior \in [Threads -> Nat]
  /\ SchedOK(sched) /\ CurrOK
  /\ \A t \in Threads : BlockedOK(t)
  /\ topo = "multi" => sched.state[NS] = "run"

\* The services a partition depends on are those of partitions of lower rank.
Ranked(rank) ==
  /\ rank \in [Partitions -> Nat]
  /\ \A p \in Partitions : \A s \in Deps[p] : rank[Owner[s]] < rank[p]

-----------------------------------------------------------------------------
(* The operations of the scheduler.                                        *)

\* The shortcut to the first runnable thread stays right when a thread changes state.
LEMMA SetStateOK ==
  ASSUME ListOK, prior \in [Threads -> Nat], NEW k, SchedOK(k), NEW t \in Threads,
         NEW st \in {"run", "block"}
  PROVE  /\ SchedOK(tfm_core_thrd_set_state(k, t, st))
         /\ tfm_core_thrd_set_state(k, t, st).state = [k.state EXCEPT ![t] = st]
<1> DEFINE hd == IF st = "run" /\ prior[t] < prior[k.head] THEN t ELSE Head(list)
           j == tfm_core_thrd_set_state(k, t, st)
<1>1. /\ k \in [state : [Threads -> {"run", "block"}], head : {k.head}, curr : {k.curr},
                pend : BOOLEAN]
      /\ k.head \in Threads /\ k.curr \in Threads
  BY DEF SchedOK, Shape
<1>2. /\ Len(list) \in Nat /\ Len(list) > 0 /\ Head(list) = list[1]
      /\ \A i \in 1 .. Len(list) : list[i] \in Threads
  <2>1. NS \in Threads
    BY DEF Threads
  <2>2. list \in Seq(Threads) /\ Contains(list, NS)
    BY <2>1 DEF ListOK
  <2>3. Len(list) \in Nat /\ Len(list) > 0
    BY <2>2 DEF Contains
  <2> QED
    BY <2>2, <2>3, ElementOfSeq
<1>3. hd \in Threads
  BY <1>2
<1>4. j = [k EXCEPT !.state[t] = st, !.head = hd]
  BY DEF tfm_core_thrd_set_state
<1> HIDE DEF hd, j
<1>5. /\ j \in [state : [Threads -> {"run", "block"}], head : {j.head}, curr : {j.curr},
                pend : BOOLEAN]
      /\ j.head = hd /\ j.curr = k.curr /\ j.state = [k.state EXCEPT ![t] = st]
  BY <1>1, <1>4
<1>6. ASSUME NEW i \in 1 .. Len(list), j.state[list[i]] = "run"
      PROVE  \E l \in 1 .. i : list[l] = hd
  <2>1. CASE ~(st = "run" /\ prior[t] < prior[k.head])
    BY <2>1, <1>2 DEF hd
  <2>2. CASE st = "run" /\ prior[t] < prior[k.head]
    <3>1. hd = t
      BY <2>2 DEF hd
    <3>2. CASE list[i] = t
      BY <3>1, <3>2
    <3>3. CASE list[i] # t
      <4>1. k.state[list[i]] = "run"
        BY <3>3, <1>1, <1>2, <1>5, <1>6
      <4>2. PICK l \in 1 .. i : list[l] = k.head
        BY <4>1 DEF SchedOK
      <4>3. PICK n \in 1 .. Len(list) : list[n] = t
        BY DEF ListOK, Contains
      <4>4. ~(l <= n)
        <5>1. l \in 1 .. Len(list) /\ prior[t] \in Nat /\ prior[k.head] \in Nat
          BY <1>1, <1>2
        <5>2. l <= n => prior[k.head] <= prior[t]
          BY <4>2, <4>3, <5>1 DEF ListOK
        <5> QED
          BY <2>2, <5>1, <5>2
      <4>5. n \in 1 .. i
        BY <4>4, <1>2
      <4> QED
        BY <4>3, <4>5, <3>1
    <3> QED
      BY <3>2, <3>3
  <2> QED
    BY <2>1, <2>2
<1>7. SchedOK(j)
  BY <1>1, <1>3, <1>5, <1>6 DEF SchedOK, Shape
<1> QED
  BY <1>5, <1>7 DEF j

LEMMA EventOK ==
  ASSUME ListOK, prior \in [Threads -> Nat], NEW k, SchedOK(k), NEW t \in Threads
  PROVE  /\ SchedOK(tfm_event_wait(k, t)) /\ tfm_event_wait(k, t).pend
         /\ tfm_event_wait(k, t).state = [k.state EXCEPT ![t] = "block"]
         /\ SchedOK(tfm_event_wake(k, t)) /\ tfm_event_wake(k, t).pend
         /\ tfm_event_wake(k, t).state = [k.state EXCEPT ![t] = "run"]
<1>1. ASSUME NEW j, SchedOK(j)
      PROVE  /\ SchedOK([j EXCEPT !.pend = TRUE]) /\ [j EXCEPT !.pend = TRUE].pend
             /\ [j EXCEPT !.pend = TRUE].state = j.state
  <2> DEFINE l == [j EXCEPT !.pend = TRUE]
  <2>1. j \in [state : [Threads -> {"run", "block"}], head : {j.head}, curr : {j.curr},
               pend : BOOLEAN]
    BY <1>1 DEF SchedOK, Shape
  <2>2. /\ l \in [state : [Threads -> {"run", "block"}], head : {l.head}, curr : {l.curr},
                  pend : BOOLEAN]
        /\ l.state = j.state /\ l.head = j.head /\ l.curr = j.curr /\ l.pend
    BY <2>1
  <2> HIDE DEF l
  <2>3. SchedOK(l)
    BY <2>2, <1>1 DEF SchedOK, Shape
  <2> QED
    BY <2>2, <2>3 DEF l
<1>2. ASSUME NEW st \in {"run", "block"}
      PROVE  /\ SchedOK(tfm_core_thrd_set_state(k, t, st))
             /\ tfm_core_thrd_set_state(k, t, st).state = [k.state EXCEPT ![t] = st]
  BY SetStateOK
<1> QED
  BY <1>1, <1>2 DEF tfm_event_wait, tfm_event_wake

LEMMA WokenOK ==
  ASSUME SchedInv, NEW p \in Partitions, NEW s
  PROVE  /\ SchedOK(Woken(p, s))
         /\ Woken(p, s) = sched \/ Woken(p, s).pend
         /\ Woken(p, s).state = IF Wakes(p, s) THEN [sched.state EXCEPT ![p] = "run"]
                                ELSE sched.state
BY EventOK DEF SchedInv, Woken, Threads

\* The first runnable thread from RNBL_HEAD on is the most urgent one.
LEMMA GetNext ==
  ASSUME SchedInv, NEW u \in Threads, sched.state[u] = "run"
  PROVE  LET t == tfm_core_thrd_get_next
         IN  /\ t \in Threads /\ sched.state[t] = "run"
             /\ \A v \in Threads : sched.state[v] = "run" => prior[t] <= prior[v]
<1> DEFINE F == {i \in 1 .. Len(list) : list[i] = sched.head}
           from == IF F # {} THEN Min(F) ELSE 0
           I == {i \in from .. Len(list) : sched.state[list[i]] = "run"}
           i0 == IF I # {} THEN Min(I) ELSE 0
<1>1. tfm_core_thrd_get_next = IF i0 = 0 THEN NoAgent ELSE list[i0]
  BY DEF tfm_core_thrd_get_next, SelectInSeq, SelectInSubSeq
<1>2. /\ list \in Seq(Threads) /\ Len(list) \in Nat
      /\ \A i \in 1 .. Len(list) : list[i] \in Threads
      /\ \A t \in Threads : \E i \in 1 .. Len(list) : list[i] = t
      /\ prior \in [Threads -> Nat] /\ sched.head \in Threads
  <2>1. list \in Seq(Threads)
    BY DEF SchedInv, ListOK
  <2>2. Len(list) \in Nat /\ \A i \in 1 .. Len(list) : list[i] \in Threads
    BY <2>1, ElementOfSeq
  <2>3. \A t \in Threads : \E i \in 1 .. Len(list) : list[i] = t
    BY DEF SchedInv, ListOK, Contains
  <2>4. prior \in [Threads -> Nat] /\ sched.head \in Threads
    BY DEF SchedInv, SchedOK
  <2> QED
    BY <2>1, <2>2, <2>3, <2>4
<1>3. ASSUME NEW S, S \subseteq Nat, S # {}
      PROVE  Min(S) \in S /\ \A y \in S : Min(S) <= y
  <2> DEFINE x == CHOOSE x \in S : \A y \in S : x <= y
  <2>1. Min(S) = x
    BY DEF Min
  <2>2. PICK z \in S : \A y \in S : z <= y
    BY <1>3, LeastOf
  <2> QED
    BY <2>1, <2>2
<1>4. F \subseteq Nat /\ F # {}
  <2>1. PICK i \in 1 .. Len(list) : list[i] = sched.head
    BY <1>2
  <2>2. i \in F
    BY <2>1
  <2> QED
    BY <2>2
<1>5. from \in F /\ from \in 1 .. Len(list) /\ \A i \in F : from <= i
  BY <1>3, <1>4
<1> HIDE DEF from
<1>6. ASSUME NEW v \in Threads, sched.state[v] = "run"
      PROVE  \E i \in I : list[i] = v
  <2>1. PICK i \in 1 .. Len(list) : list[i] = v
    BY <1>2
  <2>2. PICK j \in 1 .. i : list[j] = sched.head
    BY <1>6, <2>1 DEF SchedInv, SchedOK
  <2>3. j \in F /\ from <= j
    BY <2>2, <1>5
  <2> QED
    BY <2>1, <2>3, <1>5, <1>6
<1>7. I # {} /\ I \subseteq Nat /\ I \subseteq 1 .. Len(list)
  BY <1>5, <1>6
<1>8. i0 \in I /\ \A i \in I : i0 <= i
  BY <1>3, <1>7
<1> HIDE DEF i0
<1>9. i0 \in 1 .. Len(list) /\ sched.state[list[i0]] = "run" /\ list[i0] \in Threads
  BY <1>2, <1>7, <1>8
<1>10. ASSUME NEW v \in Threads, sched.state[v] = "run"
       PROVE  prior[list[i0]] <= prior[v]
  <2>1. PICK i \in I : list[i] = v
    BY <1>6, <1>10
  <2>2. i \in 1 .. Len(list) /\ i0 <= i
    BY <1>7, <1>8
  <2> QED
    BY <2>1, <2>2, <1>9 DEF SchedInv, ListOK
<1>11. tfm_core_thrd_get_next = list[i0]
  BY <1>1, <1>9
<1> QED
  BY <1>9, <1>10, <1>11

-----------------------------------------------------------------------------
(* Somebody can run.                                                       *)

\* Unless dependencies are circular, the blocked callers form chains, and the
\* partition at the end of each chain has a message and is not blocked.
LEMMA SomeoneRuns ==
  ASSUME IInv, SchedInv, NEW rank, Ranked(rank), rpc.phase = "off"
  PROVE  \E t \in Threads : sched.state[t] = "run"
<1> SUFFICES ASSUME \A t \in Threads : sched.state[t] # "run" PROVE FALSE
  OBVIOUS
<1>1. \A t \in Threads : sched.state[t] = "block"
  BY DEF SchedInv, SchedOK, Shape
<1>2. NS \in Threads /\ NS \in Agents /\ NS \notin Partitions /\ Partitions \subseteq Threads
      /\ Partitions \subseteq Agents
  BY SpmAssumption DEF Agents, Threads
<1>3. pc[NS] = "calling"
  BY <1>1, <1>2 DEF SchedInv, BlockedOK
<1>4. ASSUME NEW q \in Partitions, NEW h \in Handles, UnderWay(q, h)
      PROVE  pc[q] = "calling"
  <2> SUFFICES ASSUME pc[q] = "waiting", got[q] = NoHandle PROVE FALSE
    BY <1>1, <1>2 DEF SchedInv, BlockedOK
  <2> DEFINE s == conn[h].service
  <2>1. Contains(msgs[q], h) /\ s \in Services
    <3>1. NoHandle \notin Handles
      BY SpmAssumption DEF NoHandle, Handles
    <3> QED
      BY <3>1, <1>4 DEF UnderWay, IInv, TypeInv, Conns
  <2>2. Owner[s] = q
    BY <1>4 DEF IInv, HandlesInv, MessagesInv, MessageOK
  <2>3. Pending(s)
    BY <2>1, <2>2 DEF Pending
  <2>4. s \in sig[q].asserted
    BY <2>1, <2>2, <2>3 DEF IInv, SignalsInv
  <2>5. /\ sig[q].waiting = Allowed(q)
        /\ sig[q].asserted \cap sig[q].waiting = {}
    BY DEF IInv, WaitInv, WaitOK, Mask, InFlight
  <2>6. s \in Allowed(q)
    BY <2>1, <2>2 DEF Allowed
  <2> QED
    BY <2>4, <2>5, <2>6
<1> DEFINE C == {p \in Partitions : pc[p] = "calling"}
           S == {rank[p] : p \in C}
<1>5. ASSUME NEW a \in Agents, pc[a] = "calling"
      PROVE  \E q \in C : \E s \in Services : Owner[s] = q /\ Authorized(a, s)
  <2>1. PICK q \in Partitions, h \in Handles : UnderWay(q, h) /\ Asker(conn[h]) = a
    BY <1>5 DEF IInv, HandlesInv, CallersInv
  <2>2. MessageOK(q, h) /\ conn[h].service \in Services
    BY <2>1 DEF IInv, TypeInv, Conns, HandlesInv, MessagesInv
  <2>3. q \in C
    BY <2>1, <1>4
  <2> QED
    BY <2>1, <2>2, <2>3 DEF MessageOK
<1>6. S # {} /\ S \subseteq Nat
  BY <1>2, <1>3, <1>5 DEF Ranked
<1>7. PICK i \in S : \A j \in S : i <= j
  BY <1>6, LeastOf
<1>8. PICK p \in C : i = rank[p]
  BY <1>7
<1>9. PICK q \in C : \E s \in Services : Owner[s] = q /\ Authorized(p, s)
  BY <1>2, <1>5
<1>10. rank[q] < rank[p] /\ rank[q] \in S
  BY <1>9 DEF Ranked, Authorized
<1> QED
  BY <1>6, <1>7, <1>8, <1>10

-----------------------------------------------------------------------------
(* Every step keeps the scheduler right.                                   *)

\* What a step has to show.
LEMMA SchedStep ==
  ASSUME SchedInv, UNCHANGED config, SchedOK(sched'),
         \/ sched'.pend
         \/ sched' = sched
         \/ /\ sched'.state[sched'.curr] = "run"
            /\ \A t \in Threads : sched'.state[t] = "run" => prior[sched'.curr] <= prior[t],
         \A t \in Threads :
            sched'.state[t] = "block" =>
              \/ pc'[t] = "calling"
              \/ sched.state[t] = "block" /\ pc'[t] = pc[t] /\ got'[t] = got[t]
              \/ t \in Partitions /\ pc'[t] = "waiting" /\ got'[t] = NoHandle,
         topo = "multi" => sched'.state[NS] = "run"
  PROVE  SchedInv'
<1>1. topo' = topo /\ prior' = prior /\ list' = list
  BY DEF config
<1>2. ListOK' /\ prior' \in [Threads -> Nat] /\ SchedOK(sched)'
  BY <1>1 DEF SchedInv, ListOK, SchedOK, Shape
<1>3. CurrOK'
  BY <1>1 DEF SchedInv, CurrOK
<1>4. \A t \in Threads : BlockedOK(t)'
  BY DEF SchedInv, BlockedOK
<1> QED
  BY <1>1, <1>2, <1>3, <1>4 DEF SchedInv

\* Steps that leave the scheduler alone, of a thread that runs.
LEMMA SchedKept ==
  ASSUME SchedInv, UNCHANGED <<config, sched>>,
         \A t \in Threads : pc[t] \in {"calling", "waiting"} => pc'[t] = pc[t] /\ got'[t] = got[t]
  PROVE  SchedInv'
<1>1. SchedOK(sched) /\ (topo = "multi" => sched.state[NS] = "run")
  BY DEF SchedInv
<1>2. \A t \in Threads : sched.state[t] = "block" => pc'[t] = pc[t] /\ got'[t] = got[t]
  BY DEF SchedInv, BlockedOK
<1> QED
  BY <1>1, <1>2, SchedStep

\* Steps that assert a signal.
LEMMA SchedSignal ==
  ASSUME IInv, SchedInv, UNCHANGED <<config, got>>, NEW p \in Partitions, NEW s,
         sched' = Woken(p, s),
         \A t \in Threads : \/ pc'[t] = Awoken(p, s)[t]
                            \/ pc[t] = "serving" /\ pc'[t] = "done"
  PROVE  SchedInv'
<1>1. /\ SchedOK(sched') /\ (sched' = sched \/ sched'.pend)
      /\ sched'.state = IF Wakes(p, s) THEN [sched.state EXCEPT ![p] = "run"] ELSE sched.state
  BY WokenOK
<1>2. /\ sched.state \in [Threads -> {"run", "block"}] /\ p \in Threads
      /\ topo = "multi" => sched.state[NS] = "run"
      /\ NS \in Threads
  BY DEF SchedInv, SchedOK, Shape, Threads
<1>3. \A t \in Threads : /\ sched'.state[t] = "block" => sched.state[t] = "block" /\ ~(t = p /\ Wakes(p, s))
                         /\ sched.state[t] = "run" => sched'.state[t] = "run"
  BY <1>1, <1>2
<1>4. ASSUME NEW t \in Threads, ~(t = p /\ Wakes(p, s))
      PROVE  Awoken(p, s)[t] = pc[t]
  <2>1. pc \in [Agents -> {"idle", "sent", "calling", "ready", "waiting", "awake", "serving",
                           "done"}] /\ t \in Agents
    BY DEF IInv, TypeInv, Agents
  <2> QED
    BY <2>1, <1>4 DEF Awoken
<1>5. \A t \in Threads : sched.state[t] = "block" => pc[t] # "serving"
  BY DEF SchedInv, BlockedOK
<1> QED
  BY <1>1, <1>2, <1>3, <1>4, <1>5, SchedStep

\* A thread's request blocks it.
LEMMA SchedRequest ==
  ASSUME IInv, SchedInv, NEW a \in Agents, NEW s \in Services, NEW h, MayCall(a),
         tfm_spm_send_event(a, s, h), UNCHANGED <<config, got>>
  PROVE  SchedInv'
<1> DEFINE p == Owner[s]
           Pcs == {"idle", "sent", "calling", "ready", "waiting", "awake", "serving", "done"}
<1>1. /\ p \in Partitions /\ p \in Threads /\ p \in Agents /\ NS \in Threads
      /\ pc \in [Agents -> Pcs] /\ Threads \subseteq Agents /\ Threads \cap Callers = {}
  BY SpmAssumption DEF IInv, TypeInv, Agents, Threads
<1>2. CASE a \in Callers
  <2>1. sched' = sched /\ pc' = [pc EXCEPT ![a] = "calling"]
    BY <1>2 DEF tfm_spm_send_event
  <2>2. \A t \in Threads : pc'[t] = pc[t]
    BY <2>1, <1>1, <1>2
  <2> QED
    BY <2>1, <2>2, SchedKept
<1>3. CASE a \notin Callers
  <2> DEFINE k == Woken(p, s)
  <2>1. /\ sched' = tfm_event_wait(k, a) /\ pc' = [Awoken(p, s) EXCEPT ![a] = "calling"]
        /\ a \in Threads
    BY <1>3 DEF tfm_spm_send_event, Agents
  <2>2. /\ SchedOK(k)
        /\ k.state = IF Wakes(p, s) THEN [sched.state EXCEPT ![p] = "run"] ELSE sched.state
    BY <1>1, WokenOK
  <2> HIDE DEF k
  <2>3. /\ SchedOK(sched') /\ sched'.pend /\ sched'.state = [k.state EXCEPT ![a] = "block"]
    BY <2>1, <2>2, EventOK DEF SchedInv
  <2>4. /\ sched.state \in [Threads -> {"run", "block"}]
        /\ topo = "multi" => sched.state[NS] = "run"
    BY DEF SchedInv, SchedOK, Shape
  <2>5. ASSUME NEW t \in Threads, t # a
        PROVE  sched'.state[t] = IF t = p /\ Wakes(p, s) THEN "run" ELSE sched.state[t]
    BY <2>2, <2>3, <2>4, <2>5, <1>1
  <2>6. ASSUME NEW t \in Threads, t # a, ~(t = p /\ Wakes(p, s))
        PROVE  pc'[t] = pc[t]
    BY <2>1, <2>6, <1>1 DEF Awoken
  <2>7. pc'[a] = "calling"
    BY <2>1, <1>1 DEF Awoken
  <2>8. topo = "multi" => a # NS
    BY <1>1, SpmAssumption DEF MayCall, Threads
  <2>9. ASSUME NEW t \in Threads, sched'.state[t] = "block"
        PROVE  \/ pc'[t] = "calling"
               \/ sched.state[t] = "block" /\ pc'[t] = pc[t] /\ got'[t] = got[t]
    BY <2>5, <2>6, <2>7, <2>9
  <2>10. topo = "multi" => sched'.state[NS] = "run"
    BY <2>4, <2>5, <2>8, <1>1
  <2> QED
    BY <2>3, <2>9, <2>10, SchedStep
<1> QED
  BY <1>2, <1>3

LEMMA SchedCall ==
  ASSUME IInv, SchedInv, NEW a \in Agents, Call(a)
  PROVE  SchedInv'
<1>1. PICK s \in Services : \/ tfm_spm_client_psa_connect(a, s)
                            \/ tfm_spm_client_psa_call(a, s)
                            \/ tfm_spm_client_psa_close(a, s)
                            \/ VectorsRefused(a, s)
  BY DEF Call
<1>2. CASE VectorsRefused(a, s)
  <2>1. /\ MayCall(a) /\ UNCHANGED <<config, sched, got>> /\ pc' = [pc EXCEPT ![a] = "idle"]
    BY <1>2 DEF VectorsRefused
  <2>2. pc[a] \in {"idle", "sent", "serving"}
    BY <2>1, CallerFree DEF IInv
  <2>3. \A t \in Threads : pc[t] \in {"calling", "waiting"} => pc'[t] = pc[t]
    BY <2>1, <2>2 DEF IInv, TypeInv, Agents
  <2> QED
    BY <2>1, <2>3, SchedKept
<1>3. CASE ~VectorsRefused(a, s)
  <2>1. /\ MayCall(a) /\ UNCHANGED <<config, got>>
        /\ \E h : tfm_spm_send_event(a, s, h)
    BY <1>1, <1>3 DEF tfm_spm_client_psa_connect, tfm_spm_client_psa_call,
                      tfm_spm_client_psa_close, SendNew, SendOn
  <2> QED
    BY <2>1, SchedRequest
<1> QED
  BY <1>2, <1>3

\* A partition that waits between two requests.
LEMMA SchedWait ==
  ASSUME IInv, SchedInv, NEW p \in Partitions, WaitAny(p)
  PROVE  SchedInv'
<1> DEFINE now == sig[p].asserted \cap Allowed(p)
<1>1. /\ pc' = [pc EXCEPT ![p] = IF now = {} THEN "waiting" ELSE "awake"]
      /\ now = {} => sched' = tfm_event_wait(sched, p)
      /\ now # {} => sched' = sched
      /\ UNCHANGED <<config, got>> /\ pc[p] = "ready"
  BY DEF WaitAny, tfm_spm_psa_wait
<1> HIDE DEF now
<1>2. /\ p \in Threads /\ p \in Agents /\ Threads \subseteq Agents /\ NS \in Threads /\ NS # p
      /\ pc \in [Agents -> {"idle", "sent", "calling", "ready", "waiting", "awake", "serving",
                            "done"}]
      /\ sched.state \in [Threads -> {"run", "block"}]
      /\ topo = "multi" => sched.state[NS] = "run"
  BY SpmAssumption DEF IInv, TypeInv, Agents, Threads, SchedInv, SchedOK, Shape
<1>3. \A t \in Threads : t # p => pc'[t] = pc[t]
  BY <1>1, <1>2
<1>4. CASE now # {}
  BY <1>4, <1>1, <1>3, SchedKept
<1>5. CASE now = {}
  <2>1. got[p] = NoHandle /\ pc'[p] = "waiting"
    BY <1>1, <1>2, <1>5 DEF IInv, WaitInv, WaitOK
  <2>2. /\ SchedOK(sched') /\ sched'.pend
        /\ sched'.state = [sched.state EXCEPT ![p] = "block"]
    <3>1. ListOK /\ prior \in [Threads -> Nat] /\ SchedOK(sched)
      BY DEF SchedInv
    <3>2. sched' = tfm_event_wait(sched, p)
      BY <1>1, <1>5
    <3>3. /\ SchedOK(tfm_event_wait(sched, p)) /\ tfm_event_wait(sched, p).pend
          /\ tfm_event_wait(sched, p).state = [sched.state EXCEPT ![p] = "block"]
      BY <3>1, <1>2, EventOK
    <3> QED
      BY <3>2, <3>3
  <2>3. \A t \in Threads : t # p => sched'.state[t] = sched.state[t]
    BY <2>2, <1>2
  <2> QED
    BY <2>1, <2>2, <2>3, <1>1, <1>2, <1>3, SchedStep
<1> QED
  BY <1>4, <1>5

\* An answer makes the thread that waits for it runnable.
LEMMA SchedReply ==
  ASSUME IInv, SchedInv, NEW p \in Partitions, NEW status, tfm_spm_psa_reply(p, status)
  PROVE  SchedInv'
<1>1. /\ pc[p] \in {"serving", "done"} /\ WaitOK(p) /\ p \in Threads /\ p \in Agents
      /\ got \in [Threads -> Handles \cup {NoHandle}]
      /\ pc \in [Agents -> {"idle", "sent", "calling", "ready", "waiting", "awake", "serving",
                            "done"}]
      /\ sched.state \in [Threads -> {"run", "block"}]
      /\ topo = "multi" => sched.state[NS] = "run"
      /\ NS \in Threads
  BY DEF IInv, TypeInv, WaitInv, Agents, Threads, SchedInv, SchedOK, Shape, tfm_spm_psa_reply
<1>2. PICK h \in Handles : h = got[p]
  BY <1>1 DEF WaitOK
<1>3. PICK a \in Agents : a = Asker(conn[h]) /\ pc[a] = "calling"
  <2>1. UnderWay(p, h)
    BY <1>2 DEF UnderWay
  <2> QED
    BY <2>1 DEF IInv, HandlesInv, MessagesInv, MessageOK
<1>4. /\ sched' = IF a \in Callers THEN sched ELSE tfm_event_wake(sched, a)
      /\ pc' = [pc EXCEPT ![a] = Resumed(a), ![p] = "ready"]
      /\ got' = [got EXCEPT ![p] = NoHandle]
      /\ UNCHANGED config
  BY <1>2, <1>3 DEF tfm_spm_psa_reply
<1>5. ASSUME NEW t \in Threads, t # a, t # p
      PROVE  pc'[t] = pc[t] /\ got'[t] = got[t]
  <2>1. t \in Agents
    BY DEF Agents
  <2> QED
    BY <2>1, <1>1, <1>3, <1>4, <1>5
<1>6. sched.state[p] = "run"
  BY <1>1 DEF SchedInv, BlockedOK
<1>7. CASE a \in Callers
  <2>1. a \notin Threads
    BY <1>7, SpmAssumption
  <2> QED
    BY <2>1, <1>1, <1>4, <1>5, <1>7, SchedKept
<1>8. CASE a \notin Callers
  <2>1. a \in Threads
    BY <1>8 DEF Agents
  <2>2. /\ SchedOK(sched') /\ sched'.pend /\ sched'.state = [sched.state EXCEPT ![a] = "run"]
    BY <2>1, <1>4, <1>8, EventOK DEF SchedInv
  <2>3. /\ \A t \in Threads : t # a => sched'.state[t] = sched.state[t]
        /\ sched'.state[a] = "run"
    BY <2>1, <2>2, <1>1
  <2>4. \A t \in Threads : sched'.state[t] = "block" =>
           sched.state[t] = "block" /\ pc'[t] = pc[t] /\ got'[t] = got[t]
    BY <2>3, <1>5, <1>6
  <2>5. topo = "multi" => sched'.state[NS] = "run"
    BY <2>3, <1>1
  <2> QED
    BY <2>2, <2>4, <2>5, <1>4, SchedStep
<1> QED
  BY <1>7, <1>8

\* PendSV finds a thread, and the right one.
LEMMA SchedSwitch ==
  ASSUME IInv, SchedInv, NEW rank, Ranked(rank), tfm_pendsv_do_schedule
  PROVE  SchedInv'
<1> DEFINE next == tfm_core_thrd_get_next
<1>1. rpc.phase = "off" /\ UNCHANGED <<config, got>>
  BY DEF tfm_pendsv_do_schedule
<1>2. PICK u \in Threads : sched.state[u] = "run"
  BY <1>1, SomeoneRuns
<1>3. /\ next \in Threads /\ sched.state[next] = "run"
      /\ \A v \in Threads : sched.state[v] = "run" => prior[next] <= prior[v]
  BY <1>2, GetNext
<1>4. next # NoAgent
  BY <1>3, SpmAssumption DEF Agents
<1>5. sched' = [sched EXCEPT !.pend = FALSE, !.curr = next] /\ pc' = pc
  BY <1>4 DEF tfm_pendsv_do_schedule
<1> HIDE DEF next
<1>6. /\ sched \in [state : [Threads -> {"run", "block"}], head : {sched.head},
                    curr : {sched.curr}, pend : BOOLEAN]
      /\ SchedOK(sched) /\ (topo = "multi" => sched.state[NS] = "run")
  BY DEF SchedInv, SchedOK, Shape
<1>7. /\ sched' \in [state : [Threads -> {"run", "block"}], head : {sched'.head},
                     curr : {sched'.curr}, pend : BOOLEAN]
      /\ sched'.state = sched.state /\ sched'.head = sched.head /\ sched'.curr = next
  BY <1>5, <1>6
<1>8. SchedOK(sched')
  BY <1>3, <1>6, <1>7 DEF SchedOK, Shape
<1> QED
  BY <1>1, <1>3, <1>5, <1>6, <1>7, <1>8, SchedStep

\* A caller behind the mailbox moves, or PendSV is asked for.
LEMMA SchedMailbox ==
  ASSUME IInv, SchedInv, \E a \in Callers : MailboxRequest(a) \/ MailboxRefuse(a)
  PROVE  SchedInv'
<1>1. /\ pc \in [Agents -> {"idle", "sent", "calling", "ready", "waiting", "awake", "serving",
                            "done"}]
      /\ Threads \subseteq Agents /\ Callers \subseteq Agents /\ Threads \cap Callers = {}
      /\ SchedOK(sched) /\ (topo = "multi" => sched.state[NS] = "run")
  BY SpmAssumption DEF IInv, TypeInv, Agents, SchedInv
<1>2. PICK a \in Callers : MailboxRequest(a) \/ MailboxRefuse(a)
  OBVIOUS
<1>3. /\ sched' = sched \/ sched' = [sched EXCEPT !.pend = TRUE]
      /\ pc' = [pc EXCEPT ![a] = "sent"] \/ pc' = [pc EXCEPT ![a] = "idle"]
      /\ UNCHANGED <<config, got>>
  BY <1>2 DEF MailboxRequest, MailboxRefuse
<1>4. \A t \in Threads : pc'[t] = pc[t]
  BY <1>1, <1>2, <1>3
<1>5. CASE sched' = sched
  BY <1>3, <1>4, <1>5, SchedKept
<1>6. CASE sched' = [sched EXCEPT !.pend = TRUE]
  <2>1. sched \in [state : [Threads -> {"run", "block"}], head : {sched.head},
                   curr : {sched.curr}, pend : BOOLEAN]
    BY <1>1 DEF SchedOK, Shape
  <2>2. /\ sched' \in [state : [Threads -> {"run", "block"}], head : {sched'.head},
                       curr : {sched'.curr}, pend : BOOLEAN]
        /\ sched'.state = sched.state /\ sched'.head = sched.head
        /\ sched'.curr = sched.curr /\ sched'.pend
    BY <2>1, <1>6
  <2>3. SchedOK(sched')
    BY <2>2, <1>1 DEF SchedOK, Shape
  <2> QED
    BY <2>2, <2>3, <1>1, <1>3, <1>4, SchedStep
<1> QED
  BY <1>3, <1>5, <1>6

LEMMA SchedNext ==
  ASSUME NEW rank, Ranked(rank)
  PROVE  IInv /\ SchedInv /\ [Next]_vars => SchedInv'
<1> SUFFICES ASSUME IInv, SchedInv, [Next]_vars PROVE SchedInv'
  OBVIOUS
<1>1. /\ NS \in Agents /\ Partitions \subseteq Agents /\ Callers \subseteq Agents
      /\ Threads \subseteq Agents /\ Partitions \subseteq Threads
      /\ pc \in [Agents -> {"idle", "sent", "calling", "ready", "waiting", "awake", "serving",
                            "done"}]
      /\ got \in [Threads -> Handles \cup {NoHandle}]
  BY DEF Agents, Threads, IInv, TypeInv
<1>2. CASE Call(NS) \/ \E a \in Callers : Call(a)
  BY <1>1, <1>2, SchedCall
<1>3. CASE \E p \in Partitions : PartitionStep(p)
  <2> PICK p \in Partitions : PartitionStep(p)
    BY <1>3
  <2>1. CASE WaitAny(p)
    BY <2>1, SchedWait
  <2>2. CASE \E s \in Services : tfm_spm_psa_get(p, s)
    <3> PICK s \in Services : tfm_spm_psa_get(p, s)
      BY <2>2
    <3>1. /\ pc[p] = "awake" /\ UNCHANGED <<config, sched>> /\ pc' = [pc EXCEPT ![p] = "serving"]
          /\ \E h : got' = [got EXCEPT ![p] = h]
      BY DEF tfm_spm_psa_get, Handling
    <3>2. \A t \in Threads : t # p => pc'[t] = pc[t] /\ got'[t] = got[t]
      BY <3>1, <1>1
    <3> QED
      BY <3>1, <3>2, <1>1, SchedKept
  <2>3. CASE \E status \in {"success", "refused", "busy", "programmer"} :
                tfm_spm_psa_reply(p, status)
    BY <2>3, SchedReply
  <2>4. CASE \E q \in Partitions : tfm_spm_psa_notify(p, q)
    <3> PICK q \in Partitions : tfm_spm_psa_notify(p, q)
      BY <2>4
    <3>1. /\ pc[p] = "serving" /\ UNCHANGED <<config, got>> /\ sched' = Woken(q, "doorbell")
          /\ pc' = [Awoken(q, "doorbell") EXCEPT ![p] = "done"]
      BY DEF tfm_spm_psa_notify, notify_with_signal
    <3>2. Awoken(q, "doorbell") \in [Agents -> {"idle", "sent", "calling", "ready", "waiting",
                                               "awake", "serving", "done"}]
      BY AwokenCalling DEF IInv
    <3>3. \A t \in Threads : \/ pc'[t] = Awoken(q, "doorbell")[t]
                             \/ pc[t] = "serving" /\ pc'[t] = "done"
      BY <3>1, <3>2, <1>1
    <3> QED
      BY <3>1, <3>3, SchedSignal
  <2>5. CASE tfm_spm_psa_clear(p) \/ tfm_spm_psa_eoi(p)
    <3>1. /\ pc[p] = "awake" /\ UNCHANGED <<config, sched, got>>
          /\ \E v : pc' = [pc EXCEPT ![p] = v]
      BY <2>5 DEF tfm_spm_psa_clear, tfm_spm_psa_eoi, Handling
    <3>2. \A t \in Threads : t # p => pc'[t] = pc[t]
      BY <3>1, <1>1
    <3> QED
      BY <3>1, <3>2, <1>1, SchedKept
  <2>6. CASE tfm_spm_psa_panic(p) \/ HandlesExhausted(p)
    BY <2>6, SchedKept DEF tfm_spm_psa_panic, HandlesExhausted
  <2>7. CASE Call(p)
    BY <2>7, <1>1, SchedCall
  <2> QED
    BY <2>1, <2>2, <2>3, <2>4, <2>5, <2>6, <2>7 DEF PartitionStep
<1>4. CASE \E p \in Partitions : tfm_set_irq_signal(p)
  <2> PICK p \in Partitions : tfm_set_irq_signal(p)
    BY <1>4
  <2>1. UNCHANGED <<config, got>> /\ sched' = Woken(p, "irq") /\ pc' = Awoken(p, "irq")
    BY DEF tfm_set_irq_signal, notify_with_signal
  <2> QED
    BY <2>1, SchedSignal
<1>5. CASE \E a \in Callers : MailboxRequest(a) \/ MailboxRefuse(a)
  BY <1>5, SchedMailbox
<1>6. CASE tfm_pendsv_do_schedule
  BY <1>6, SchedSwitch
<1>7. CASE RpcWake
  <2> DEFINE p == Owner[rpc.service]
  <2>1. p \in Partitions /\ p \in Threads /\ NS \in Threads /\ NS # p
    BY SpmAssumption DEF IInv, TypeInv, Rpcs, Threads
  <2>2. /\ UNCHANGED <<config, got>> /\ sched' = tfm_event_wake(sched, p)
        /\ pc' = [pc EXCEPT ![p] = "awake"]
    BY <1>7 DEF RpcWake
  <2> HIDE DEF p
  <2>3. /\ SchedOK(sched') /\ sched'.pend /\ sched'.state = [sched.state EXCEPT ![p] = "run"]
    BY <2>1, <2>2, EventOK DEF SchedInv
  <2>4. /\ sched.state \in [Threads -> {"run", "block"}]
        /\ topo = "multi" => sched.state[NS] = "run"
    BY DEF SchedInv, SchedOK, Shape
  <2>5. \A t \in Threads : sched'.state[t] = "block" =>
           sched.state[t] = "block" /\ pc'[t] = pc[t] /\ got'[t] = got[t]
    BY <2>1, <2>2, <2>3, <2>4, <1>1
  <2>6. topo = "multi" => sched'.state[NS] = "run"
    BY <2>1, <2>3, <2>4
  <2> QED
    BY <2>2, <2>3, <2>5, <2>6, SchedStep
<1>8. CASE RpcStore \/ RpcTest \/ RpcOwnerLost \/ RpcMask \/ RpcDone \/ UNCHANGED vars
            \/ \E a, b \in Callers, sv \in Services : MessageRelinked(a, b, sv)
  BY <1>8, SchedKept
  DEF RpcStore, RpcTest, RpcOwnerLost, RpcMask, RpcDone, MessageRelinked, vars
<1> QED
  BY <1>2, <1>3, <1>4, <1>5, <1>6, <1>7, <1>8 DEF Next, PendSV

-----------------------------------------------------------------------------
(* The thread list.  insert_by_prior() is folded over the order in which   *)
(* the threads were started; the fold is reasoned about with sets of       *)
(* "good" arguments: a set of subsets that contains a set whenever it      *)
(* contains its proper subsets contains every finite set.                  *)

LEMMA SubsetInduction ==
  ASSUME NEW S, IsFiniteSet(S), NEW Good,
         \A T \in SUBSET S :
           (\A U \in SUBSET T : U # T => U \in Good) => T \in Good
  PROVE  \A T \in SUBSET S : T \in Good
<1> DEFINE Bad == {T \in SUBSET S : T \notin Good}
<1>1. SUFFICES ASSUME Bad # {} PROVE FALSE
  OBVIOUS
<1>2. IsWellFoundedOn(StrictSubsetOrdering(S), SUBSET S)
  BY FS_StrictSubsetOrderingWellFounded, FS_FiniteSubsetsOfFinite
<1>3. PICK T \in Bad : \A U \in Bad : <<U, T>> \notin StrictSubsetOrdering(S)
  <2>1. Bad \subseteq SUBSET S
    OBVIOUS
  <2> HIDE DEF Bad
  <2>2. \E T \in Bad : \A U \in Bad : ~(<<U, T>> \in StrictSubsetOrdering(S))
    BY <1>1, <1>2, <2>1, WFMin
  <2> QED
    BY <2>2
<1>4. \A U \in SUBSET T : U # T => U \in Good
  BY <1>3 DEF StrictSubsetOrdering
<1> QED
  BY <1>3, <1>4

\* A finite set of numbers has a first and a last one.
LEMMA FirstAndLast ==
  ASSUME NEW n \in Nat, NEW S \in SUBSET (1 .. n), S # {}
  PROVE  (\E x \in S : \A y \in S : x <= y) /\ (\E x \in S : \A y \in S : x >= y)
<1> DEFINE Good == {T \in SUBSET S : T # {} => /\ \E x \in T : \A y \in T : x <= y
                                               /\ \E x \in T : \A y \in T : x >= y}
<1>1. ASSUME NEW T \in SUBSET S,
             \A W \in SUBSET T : W # T => W \in Good
      PROVE  T \in Good
  <2> SUFFICES ASSUME NEW z \in T
               PROVE  /\ \E x \in T : \A y \in T : x <= y
                      /\ \E x \in T : \A y \in T : x >= y
    OBVIOUS
  <2>0. \A y \in T : y \in Nat
    OBVIOUS
  <2>1. CASE T = {z}
    BY <2>0, <2>1
  <2>2. CASE T # {z}
    <3>1. T \ {z} \in Good
      <4> HIDE DEF Good
      <4> QED
        BY <1>1
    <3>2. PICK x \in T \ {z} : \A y \in T \ {z} : x <= y
      BY <3>1, <2>2
    <3>3. PICK w \in T \ {z} : \A y \in T \ {z} : w >= y
      BY <3>1, <2>2
    <3>4. \E f \in {x, z} : \A y \in T : f <= y
      BY <2>0, <3>2
    <3>5. \E f \in {w, z} : \A y \in T : f >= y
      BY <2>0, <3>3
    <3> QED
      BY <3>4, <3>5
  <2> QED
    BY <2>1, <2>2
<1>2. \A T \in SUBSET S : T \in Good
  <2>1. IsFiniteSet(S)
    <3>1. IsFiniteSet(1 .. n)
      BY FS_Interval
    <3> QED
      BY <3>1, FS_Subset
  <2> HIDE DEF Good
  <2> QED
    BY <1>1, <2>1, SubsetInduction
<1> QED
  BY <1>2

LEMMA MaxIn ==
  ASSUME NEW n \in Nat, NEW S \in SUBSET (1 .. n), S # {}
  PROVE  Max(S) \in S
BY FirstAndLast DEF Max

\* insert_by_prior() for the priorities pr.
Inserted(pr, l, t) ==
  LET later == {i \in 1 .. Len(l) : pr[t] <= pr[l[i]]}
  IN  InsertAt(l, IF later = {} THEN Len(l) + 1
                  ELSE CHOOSE i \in later : \A j \in later : i <= j, t)

\* A list of threads, the most urgent first.
InOrder(pr, l) ==
  /\ l \in Seq(Threads)
  /\ \A i, j \in 1 .. Len(l) : i <= j => pr[l[i]] <= pr[l[j]]

LEMMA InsertAtIs ==
  ASSUME NEW S, NEW l \in Seq(S), NEW t \in S, NEW k \in 1 .. Len(l) + 1
  PROVE  LET r == InsertAt(l, k, t)
         IN  /\ r \in Seq(S) /\ Len(r) = Len(l) + 1 /\ r[k] = t
             /\ \A i \in 1 .. k - 1 : r[i] = l[i]
             /\ \A i \in k + 1 .. Len(l) + 1 : r[i] = l[i - 1]
<1> DEFINE a == SubSeq(l, 1, k - 1)
           b == SubSeq(l, k, Len(l))
           c == a \o <<t>>
<1>1. Len(l) \in Nat /\ k \in Nat /\ k >= 1 /\ k <= Len(l) + 1 /\ \A i \in 1 .. Len(l) : l[i] \in S
  BY LenProperties
<1>2. a \in Seq(S) /\ Len(a) = k - 1 /\ \A i \in 1 .. k - 1 : a[i] = l[i]
  <2>1. \A i \in 1 .. k - 1 : l[i] \in S
    BY <1>1
  <2>2. /\ a \in Seq(S) /\ Len(a) = IF 1 <= k - 1 THEN k - 1 - 1 + 1 ELSE 0
        /\ \A i \in 1 .. k - 1 - 1 + 1 : a[i] = l[1 + i - 1]
    BY <1>1, <2>1, SubSeqProperties
  <2> HIDE DEF a
  <2> QED
    BY <1>1, <2>2
<1>3. b \in Seq(S) /\ Len(b) = Len(l) - k + 1 /\ \A i \in 1 .. Len(l) - k + 1 : b[i] = l[k + i - 1]
  <2>1. \A i \in k .. Len(l) : l[i] \in S
    BY <1>1
  <2>2. /\ b \in Seq(S) /\ Len(b) = IF k <= Len(l) THEN Len(l) - k + 1 ELSE 0
        /\ \A i \in 1 .. Len(l) - k + 1 : b[i] = l[k + i - 1]
    BY <1>1, <2>1, SubSeqProperties
  <2> HIDE DEF b
  <2> QED
    BY <1>1, <2>2
<1> HIDE DEF a, b
<1>4. c \in Seq(S) /\ Len(c) = k /\ c[k] = t /\ \A i \in 1 .. k - 1 : c[i] = l[i]
  <2>1. <<t>> \in Seq(S) /\ Len(<<t>>) = 1 /\ <<t>>[1] = t
    OBVIOUS
  <2>2. /\ c \in Seq(S) /\ Len(c) = Len(a) + Len(<<t>>)
        /\ \A i \in 1 .. Len(a) + Len(<<t>>) :
             c[i] = IF i <= Len(a) THEN a[i] ELSE <<t>>[i - Len(a)]
    BY <1>2, <2>1, ConcatProperties
  <2>3. /\ Len(a) + Len(<<t>>) = k /\ \A i \in 1 .. k - 1 : i \in 1 .. k /\ i <= Len(a)
        /\ k \in 1 .. k /\ ~(k <= Len(a)) /\ k - Len(a) = 1
    BY <1>1, <1>2, <2>1
  <2> HIDE DEF c
  <2> QED
    BY <1>2, <2>1, <2>2, <2>3
<1> HIDE DEF c
<1>5. /\ c \o b \in Seq(S) /\ Len(c \o b) = Len(c) + Len(b)
      /\ \A i \in 1 .. Len(c) + Len(b) : (c \o b)[i] = IF i <= Len(c) THEN c[i] ELSE b[i - Len(c)]
  BY <1>3, <1>4, ConcatProperties
<1>6. /\ Len(c) + Len(b) = Len(l) + 1 /\ k \in 1 .. Len(l) + 1
      /\ \A i \in 1 .. k : i \in 1 .. Len(l) + 1 /\ i <= Len(c)
      /\ k \in 1 .. k /\ \A i \in 1 .. k - 1 : i \in 1 .. k
      /\ \A i \in k + 1 .. Len(l) + 1 : /\ i \in 1 .. Len(l) + 1 /\ ~(i <= Len(c))
                                        /\ i - Len(c) \in 1 .. Len(l) - k + 1
                                        /\ k + (i - Len(c)) - 1 = i - 1
  BY <1>1, <1>3, <1>4
<1>7. InsertAt(l, k, t) = c \o b
  BY DEF InsertAt, a, b, c
<1>8. \A i \in 1 .. k : (c \o b)[i] = c[i]
  BY <1>5, <1>6
<1>9. \A i \in k + 1 .. Len(l) + 1 : (c \o b)[i] = l[i - 1]
  BY <1>3, <1>5, <1>6
<1> QED
  BY <1>4, <1>5, <1>6, <1>7, <1>8, <1>9

\* A thread is put before the first one that is not more urgent.
LEMMA InsertedInOrder ==
  ASSUME NEW pr \in [Threads -> Nat], NEW l, InOrder(pr, l), NEW t \in Threads
  PROVE  LET r == Inserted(pr, l, t)
         IN  /\ InOrder(pr, r) /\ Contains(r, t)
             /\ \A u : Contains(l, u) => Contains(r, u)
<1> DEFINE later == {i \in 1 .. Len(l) : pr[t] <= pr[l[i]]}
           k == IF later = {} THEN Len(l) + 1 ELSE CHOOSE i \in later : \A j \in later : i <= j
           r == InsertAt(l, k, t)
<1>1. l \in Seq(Threads) /\ Len(l) \in Nat /\ \A i \in 1 .. Len(l) : l[i] \in Threads
  BY LenProperties DEF InOrder
<1>2. /\ k \in 1 .. Len(l) + 1
      /\ \A i \in 1 .. Len(l) : i < k => ~(pr[t] <= pr[l[i]])
      /\ k \in 1 .. Len(l) => pr[t] <= pr[l[k]]
  <2>1. CASE later = {}
    BY <1>1, <2>1
  <2>2. CASE later # {}
    <3>1. later \in SUBSET (1 .. Len(l))
      OBVIOUS
    <3>2. \E i \in later : \A j \in later : i <= j
      <4> HIDE DEF later
      <4> QED
        BY <1>1, <2>2, <3>1, FirstAndLast
    <3>3. k \in later /\ \A j \in later : k <= j
      <4> HIDE DEF later
      <4> QED
        BY <2>2, <3>2
    <3> HIDE DEF k
    <3> QED
      BY <1>1, <3>3
  <2> QED
    BY <2>1, <2>2
<1>3. Inserted(pr, l, t) = r
  BY DEF Inserted
<1> HIDE DEF k
<1>4. /\ r \in Seq(Threads) /\ Len(r) = Len(l) + 1 /\ r[k] = t
      /\ \A i \in 1 .. k - 1 : r[i] = l[i]
      /\ \A i \in k + 1 .. Len(l) + 1 : r[i] = l[i - 1]
  BY <1>1, <1>2, InsertAtIs
<1> HIDE DEF r
<1>5. ASSUME NEW u, Contains(l, u)
      PROVE  Contains(r, u)
  <2>1. PICK i \in 1 .. Len(l) : l[i] = u
    BY <1>5 DEF Contains
  <2>2. CASE i < k
    <3>1. i \in 1 .. k - 1 /\ i \in 1 .. Len(r)
      BY <1>1, <1>2, <1>4, <2>2
    <3> QED
      BY <1>4, <2>1, <3>1 DEF Contains
  <2>3. CASE i >= k
    <3>1. i + 1 \in k + 1 .. Len(l) + 1 /\ i + 1 \in 1 .. Len(r) /\ (i + 1) - 1 = i
      BY <1>1, <1>2, <1>4, <2>3
    <3>2. r[i + 1] = u
      BY <1>4, <2>1, <3>1
    <3> QED
      BY <3>1, <3>2 DEF Contains
  <2> QED
    BY <1>1, <1>2, <2>2, <2>3
<1>6. Contains(r, t)
  BY <1>2, <1>4 DEF Contains
<1>7. ASSUME NEW i \in 1 .. Len(r), NEW j \in 1 .. Len(r), i <= j
      PROVE  pr[r[i]] <= pr[r[j]]
  <2>0. /\ i \in Nat /\ j \in Nat /\ k \in Nat /\ i >= 1 /\ j <= Len(l) + 1
        /\ \A x \in Threads : pr[x] \in Nat
    BY <1>1, <1>2, <1>4
  <2>1. CASE j < k
    <3>1. i \in 1 .. k - 1 /\ j \in 1 .. k - 1 /\ i \in 1 .. Len(l) /\ j \in 1 .. Len(l)
      BY <1>1, <1>2, <1>7, <2>0, <2>1
    <3> QED
      BY <1>4, <1>7, <3>1 DEF InOrder
  <2>2. CASE i < k /\ j = k
    <3>1. i \in 1 .. k - 1 /\ i \in 1 .. Len(l)
      BY <1>1, <1>2, <2>0, <2>2
    <3>2. ~(pr[t] <= pr[l[i]])
      BY <1>2, <2>2, <3>1
    <3> QED
      BY <1>1, <1>4, <2>0, <2>2, <3>1, <3>2
  <2>3. CASE i < k /\ j > k
    <3>1. /\ i \in 1 .. k - 1 /\ i \in 1 .. Len(l) /\ j \in k + 1 .. Len(l) + 1
          /\ j - 1 \in 1 .. Len(l) /\ i <= j - 1
      BY <1>1, <1>2, <2>0, <2>3
    <3> QED
      BY <1>4, <3>1 DEF InOrder
  <2>4. CASE i = k /\ j = k
    BY <1>4, <2>0, <2>4
  <2>5. CASE i = k /\ j > k
    <3>1. /\ j \in k + 1 .. Len(l) + 1 /\ k \in 1 .. Len(l)
          /\ j - 1 \in 1 .. Len(l) /\ k <= j - 1
      BY <1>1, <1>2, <2>0, <2>5
    <3>2. pr[t] <= pr[l[k]] /\ pr[l[k]] <= pr[l[j - 1]]
      BY <1>2, <3>1 DEF InOrder
    <3>3. pr[t] \in Nat /\ pr[l[k]] \in Nat /\ pr[l[j - 1]] \in Nat
      BY <1>1, <2>0, <3>1
    <3>4. r[i] = t /\ r[j] = l[j - 1]
      BY <1>4, <2>5, <3>1
    <3> QED
      BY <3>2, <3>3, <3>4
  <2>6. CASE i > k
    <3>1. /\ i \in k + 1 .. Len(l) + 1 /\ j \in k + 1 .. Len(l) + 1
          /\ i - 1 \in 1 .. Len(l) /\ j - 1 \in 1 .. Len(l) /\ i - 1 <= j - 1
      BY <1>1, <1>2, <1>4, <1>7, <2>0, <2>6
    <3> QED
      BY <1>4, <3>1 DEF InOrder
  <2> QED
    BY <1>7, <2>0, <2>1, <2>2, <2>3, <2>4, <2>5, <2>6
<1> QED
  BY <1>3, <1>4, <1>5, <1>6, <1>7 DEF InOrder

\* The table of partial results of the fold over the starts o.
IsLists(pr, o, g, S) ==
  g = [s \in SUBSET S |->
         IF s = {} THEN <<>> ELSE Inserted(pr, g[s \ {Max(s)}], o[Max(s)])]

Lists(pr, o, S) == CHOOSE g : IsLists(pr, o, g, S)

LEMMA FoldIs ==
  ASSUME NEW o
  PROVE  FoldLeft(insert_by_prior, <<>>, o) = Lists(prior, o, DOMAIN o)[DOMAIN o]
BY DEF FoldLeft, MapThenFoldSet, Lists, IsLists, insert_by_prior, Inserted

\* Every subset that is not empty has a last element.
MaxIsIn(S) == \A s \in SUBSET S : s # {} => Max(s) \in s

LEMMA ListsUnique ==
  ASSUME NEW pr, NEW o, NEW S, IsFiniteSet(S), MaxIsIn(S),
         NEW U, NEW V, S \subseteq U, S \subseteq V,
         NEW g, NEW h, IsLists(pr, o, g, U), IsLists(pr, o, h, V)
  PROVE  g[S] = h[S]
<1> DEFINE Good == {T \in SUBSET S : g[T] = h[T]}
<1>1. ASSUME NEW T \in SUBSET S,
             \A W \in SUBSET T : W # T => W \in Good
      PROVE  T \in Good
  <2>1. CASE T = {}
    BY <2>1 DEF IsLists
  <2>2. CASE T # {}
    <3>1. Max(T) \in T
      BY <2>2 DEF MaxIsIn
    <3>2. T \ {Max(T)} \in Good
      BY <1>1, <3>1
    <3>3. g[T] = Inserted(pr, g[T \ {Max(T)}], o[Max(T)])
      BY <2>2 DEF IsLists
    <3>4. h[T] = Inserted(pr, h[T \ {Max(T)}], o[Max(T)])
      BY <2>2 DEF IsLists
    <3> QED
      BY <3>2, <3>3, <3>4
  <2> QED
    BY <2>1, <2>2
<1>2. \A T \in SUBSET S : T \in Good
  <2> HIDE DEF Good
  <2> QED
    BY <1>1, SubsetInduction
<1> QED
  BY <1>2

LEMMA ListsExist ==
  ASSUME NEW pr, NEW o, NEW n \in Nat
  PROVE  IsLists(pr, o, Lists(pr, o, 1 .. n), 1 .. n)
<1> DEFINE S == 1 .. n
           Good == {T \in SUBSET S : IsLists(pr, o, Lists(pr, o, T), T)}
<1>0. IsFiniteSet(S)
  BY FS_Interval
<1>1. ASSUME NEW T \in SUBSET S,
             \A W \in SUBSET T : W # T => W \in Good
      PROVE  T \in Good
  <2> DEFINE rest(s) == Lists(pr, o, s \ {Max(s)})[s \ {Max(s)}]
             g == [s \in SUBSET T |->
                     IF s = {} THEN <<>> ELSE Inserted(pr, rest(s), o[Max(s)])]
  <2>0. \A s \in SUBSET T : s # {} => Max(s) \in s
    BY MaxIn
  <2>1. ASSUME NEW s \in SUBSET T, s # {}
        PROVE  rest(s) = g[s \ {Max(s)}]
    <3> DEFINE u == s \ {Max(s)}
    <3>1. u \in SUBSET T /\ u # T
      BY <2>0, <2>1
    <3>2. IsLists(pr, o, Lists(pr, o, u), u)
      BY <1>1, <3>1
    <3>3. CASE u = {}
      BY <3>1, <3>2, <3>3 DEF IsLists
    <3>4. CASE u # {}
      <4> DEFINE w == u \ {Max(u)}
      <4>1. Max(u) \in u
        BY <2>0, <3>1, <3>4
      <4>2. w \in SUBSET T /\ w # T /\ w \subseteq u
        BY <3>1, <4>1
      <4>3. IsLists(pr, o, Lists(pr, o, w), w)
        BY <1>1, <4>2
      <4>5. Lists(pr, o, u)[w] = Lists(pr, o, w)[w]
        <5>1. IsFiniteSet(w)
          BY <1>0, <4>2, FS_Subset
        <5>2. MaxIsIn(w)
          BY <2>0, <4>2 DEF MaxIsIn
        <5>3. w \subseteq w
          OBVIOUS
        <5> HIDE DEF w, u
        <5>4. ASSUME NEW U, NEW V, w \subseteq U, w \subseteq V, NEW G, NEW H,
                     IsLists(pr, o, G, U), IsLists(pr, o, H, V)
              PROVE  G[w] = H[w]
          BY ONLY <5>1, <5>2, <5>4, ListsUnique
        <5> QED
          BY ONLY <4>2, <4>3, <5>3, <5>4, <3>2
      <4>6. Lists(pr, o, u)[u] = Inserted(pr, Lists(pr, o, u)[w], o[Max(u)])
        BY <3>2, <3>4 DEF IsLists
      <4>7. g[u] = Inserted(pr, Lists(pr, o, w)[w], o[Max(u)])
        BY <3>1, <3>4
      <4> QED
        BY <4>5, <4>6, <4>7
    <3> QED
      BY <3>3, <3>4
  <2>2. IsLists(pr, o, g, T)
    BY <2>1 DEF IsLists
  <2>3. IsLists(pr, o, Lists(pr, o, T), T)
    <3> HIDE DEF g
    <3> QED
      BY <2>2 DEF Lists
  <2> QED
    BY <2>3
<1>2. \A T \in SUBSET S : T \in Good
  <2> HIDE DEF Good, S
  <2> QED
    BY <1>0, <1>1, SubsetInduction
<1> QED
  BY <1>2

\* Whatever the order of the starts and the priorities, the list holds every
\* thread, the most urgent first.
LEMMA ListInit == Init => ListOK
<1> SUFFICES ASSUME Init PROVE ListOK
  OBVIOUS
<1>1. PICK o \in StartOrders : list = FoldLeft(insert_by_prior, <<>>, o)
  BY DEF Init
<1>2. PICK pr \in [Threads -> Nat] : pr = prior
  BY SpmAssumption DEF Init
<1>3. o \in Seq(Threads) /\ \A t \in Threads : Contains(o, t)
  BY SpmAssumption
<1>4. PICK n \in Nat : n = Len(o)
  BY <1>3
<1>5. DOMAIN o = 1 .. n /\ \A i \in 1 .. n : o[i] \in Threads
  BY <1>3, <1>4, LenProperties
<1> DEFINE S == 1 .. n
           g == Lists(pr, o, S)
           Good == {T \in SUBSET S : InOrder(pr, g[T]) /\ \A i \in T : Contains(g[T], o[i])}
<1>6. list = g[S]
  BY <1>1, <1>2, <1>5, FoldIs
<1>7. IsLists(pr, o, g, S)
  BY ListsExist
<1> HIDE DEF g
<1>8. ASSUME NEW T \in SUBSET S, \A W \in SUBSET T : W # T => W \in Good
      PROVE  T \in Good
  <2>1. CASE T = {}
    <3>1. g[T] = <<>>
      BY <1>7, <2>1 DEF IsLists
    <3>2. InOrder(pr, <<>>)
      BY DEF InOrder
    <3> QED
      BY <2>1, <3>1, <3>2
  <2>2. CASE T # {}
    <3>1. Max(T) \in T /\ o[Max(T)] \in Threads
      <4>1. Max(T) \in T
        BY <2>2, MaxIn
      <4> QED
        BY <1>5, <4>1
    <3> DEFINE u == T \ {Max(T)}
    <3>2. u \in Good
      BY <1>8, <3>1
    <3>3. g[T] = Inserted(pr, g[u], o[Max(T)])
      BY <1>7, <2>2 DEF IsLists
    <3>4. /\ InOrder(pr, g[T]) /\ Contains(g[T], o[Max(T)])
          /\ \A x : Contains(g[u], x) => Contains(g[T], x)
      <4>1. InOrder(pr, g[u])
        BY <3>2
      <4> HIDE DEF u
      <4> QED
        BY <3>1, <3>3, <4>1, InsertedInOrder
    <3>5. \A i \in T : i = Max(T) \/ i \in u
      OBVIOUS
    <3> QED
      BY <3>2, <3>4, <3>5
  <2> QED
    BY <2>1, <2>2
<1>9. S \in Good
  <2>1. IsFiniteSet(S)
    BY FS_Interval
  <2>2. S \in SUBSET S
    OBVIOUS
  <2> HIDE DEF Good, S
  <2> QED
    BY <1>8, <2>1, <2>2, SubsetInduction
<1>10. \A t \in Threads : \E i \in 1 .. n : o[i] = t
  BY <1>3, <1>4 DEF Contains
<1> QED
  BY <1>2, <1>6, <1>9, <1>10 DEF ListOK, InOrder

LEMMA SchedInit == Init => SchedInv
<1> SUFFICES ASSUME Init, ListOK PROVE SchedInv
  BY ListInit
<1>1. /\ prior \in [Threads -> Nat] /\ NS \in Threads
      /\ sched = [state |-> [t \in Threads |-> "run"], head |-> Head(list), curr |-> NS,
                  pend |-> TRUE]
  BY SpmAssumption DEF Init, Threads
<1>2. Len(list) \in Nat /\ Len(list) > 0 /\ Head(list) = list[1] /\ list[1] \in Threads
  <2>1. list \in Seq(Threads) /\ Contains(list, NS)
    BY <1>1 DEF ListOK
  <2>2. Len(list) \in Nat /\ Len(list) > 0
    BY <2>1 DEF Contains
  <2> QED
    BY <2>1, <2>2, ElementOfSeq
<1>3. Shape(sched) /\ sched.head \in Threads /\ sched.curr \in Threads /\ sched.pend
  BY <1>1, <1>2 DEF Shape
<1>4. \A t \in Threads : sched.state[t] = "run"
  BY <1>1
<1>5. \A i \in 1 .. Len(list) : \E j \in 1 .. i : list[j] = sched.head
  BY <1>1, <1>2
<1> QED
  BY <1>1, <1>3, <1>4, <1>5 DEF SchedInv, SchedOK, CurrOK, BlockedOK

-----------------------------------------------------------------------------
(* Theorems.                                                               *)

\* When no exception is pending the processor executes a runnable thread that no
\* runnable thread exceeds in priority, for every set of partitions whose
\* dependencies are not circular, every priority and every order of starts.
THEOREM PriorityHolds ==
  ASSUME NEW rank, Ranked(rank)
  PROVE  Spec => []HighestPriorityRuns
<1>1. IInv /\ SchedInv /\ [Next]_vars => SchedInv'
  BY SchedNext
<1>2. SchedInv => HighestPriorityRuns
  BY DEF SchedInv, CurrOK, HighestPriorityRuns
<1>3. Spec => []IInv
  BY Invariant, PTL
<1>4. Spec => []SchedInv
  BY <1>1, <1>3, SchedInit, PTL DEF Spec
<1> QED
  BY <1>2, <1>4, PTL

\* Types: the list holds every thread in order of priority, no queue outgrows the
\* pool, and head and current thread are threads.
THEOREM TypeCorrect ==
  ASSUME NEW rank, Ranked(rank)
  PROVE  Spec => []TypeOK
<1>1. IInv /\ SchedInv /\ [Next]_vars => SchedInv'
  BY SchedNext
<1>2. Spec => []IInv
  BY Invariant, PTL
<1>3. Spec => []SchedInv
  BY <1>1, <1>2, SchedInit, PTL DEF Spec
<1>4. IInv /\ SchedInv => TypeOK
  <2> SUFFICES ASSUME IInv, SchedInv PROVE TypeOK
    OBVIOUS
  <2>1. Len(pool) <= NumHandles /\ \A p \in Partitions : Len(msgs[p]) <= NumHandles
    BY QueueBounded DEF IInv, TypeInv, HandlesInv, QueuesInv
  <2>2. ListOK
    BY DEF SchedInv
  <2>3. sched \in [state : [Threads -> {"run", "block"}], head : Threads, curr : Threads,
                   pend : BOOLEAN]
    BY DEF SchedInv, SchedOK, Shape
  <2> QED
    BY <2>1, <2>2, <2>3 DEF IInv, TypeInv, TypeOK
<1> QED
  BY <1>2, <1>3, <1>4, PTL

=============================================================================
