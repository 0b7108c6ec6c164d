------------------------------- MODULE SpmIpc --------------------------------
(***************************************************************************)
(* The Secure Partition Manager in IPC mode: connections and messages      *)
(* (spm_ipc.c), the client and service calls (spm_psa_client_call.c,       *)
(* psa_client_service_apis.c), events (tfm_wait.c), the connection pool    *)
(* (tfm_pools.c) and the thread scheduler (tfm_thread.c), with partition   *)
(* interrupts and, in the multi-core topology, non-secure requests that    *)
(* arrive through the mailbox.                                             *)
(*                                                                         *)
(* An SVC has the highest exception priority, so a call of a thread is one *)
(* action.  PendSV has the lowest: an interrupt can come between an SVC    *)
(* and the switch it asked for, and between the accesses to shared data    *)
(* with which PendSV hands over a non-secure request.  A call that is      *)
(* refused before anything was changed is no action.                       *)
(*                                                                         *)
(* A partition runs the loop of the in-tree services: wait for any signal, *)
(* handle one of those returned, wait again.                               *)
(***************************************************************************)
EXTENDS Naturals, Sequences, SequencesExt, FiniteSets

CONSTANTS
  Partitions,   \* the secure partitions, in no order
  NS,           \* the non-secure thread, and the identifier of its client
  Callers,      \* non-secure callers behind the mailbox
  NoAgent,
  Services,
  Owner,        \* the partition of every service
  Stateless,    \* the services that are called by a static handle
  Deps,         \* the services every partition may call
  NsServices,   \* the services non-secure clients may call
  IrqOwners,    \* the partitions with an interrupt
  StartOrders,  \* orders in which threads may be started
  Priors,       \* their possible priorities; a lower value is more urgent
  Topologies,   \* "single", "multi"
  ConnectReplies, \* what services answer to psa_connect()
  NumHandles,   \* CONFIG_TFM_CONN_HANDLE_MAX_NUM
  MaxInputs     \* per topology, bound on non-secure requests and interrupts

Threads == Partitions \cup {NS}

Agents == Threads \cup Callers

Handles == 1 .. NumHandles

NoHandle == 0

Signals == Services \cup {"doorbell", "irq"}

ASSUME SpmAssumption ==
  /\ NS \notin Partitions /\ Threads \cap Callers = {} /\ NoAgent \notin Agents
  /\ {"doorbell", "irq"} \cap Services = {}
  /\ Services # {} /\ Owner \in [Services -> Partitions]
  /\ Deps \in [Partitions -> SUBSET Services]
  /\ Stateless \subseteq Services /\ NsServices \subseteq Services
  /\ IrqOwners \subseteq Partitions
  /\ Priors \subseteq [Threads -> Nat]
  /\ \A order \in StartOrders : /\ order \in Seq(Threads)
                               /\ \A t \in Threads : Contains(order, t)
  /\ Topologies \subseteq {"single", "multi"}
  /\ ConnectReplies \subseteq {"success", "refused", "busy"}
  /\ NumHandles \in Nat \ {0}
  /\ MaxInputs \in [Topologies -> Nat]

VARIABLES
  topo,     \* TFM_MULTI_CORE_TOPOLOGY or not
  prior,    \* priority of every thread
  list,     \* all threads, the most urgent first (LIST_HEAD)
  sched,    \* thread states, RNBL_HEAD, CURR_THRD, PendSV pending
  saved,    \* where every thread's context was last saved
  sig,      \* per partition: signals_asserted, signals_waiting, event owned
  msgs,     \* per partition, the handles of the queued messages (msg_list)
  conn,     \* conn_handle_pool: connections with their message
  pool,     \* its free chunks
  line,     \* per partition, its interrupt line is enabled
  rpc,      \* what PendSV does with requests from the mailbox
  pc,       \* where every agent is
  got,      \* per partition, the message it serves
  ret,      \* per partition, what psa_wait() returned
  held,     \* per agent and service, the connection it has open
  inputs,   \* requests and interrupts so far
  halted    \* tfm_core_panic(), or why the SPM is not followed any further

config == <<topo, prior, list>>

vars == <<config, sched, saved, sig, msgs, conn, pool, line, rpc, pc, got, ret,
          held, inputs, halted>>

\* A connection handle with the message inside it.
Conns ==
  [service : Services, status : {"idle", "active", "error"}, client : Threads,
   magic : BOOLEAN, type : {"connect", "call", "disconnect"},
   owner : Threads \cup {NoAgent}, caller : Callers \cup {NoAgent}]

FreeConn ==
  [service |-> CHOOSE s \in Services : TRUE, status |-> "idle", client |-> NS,
   magic |-> FALSE, type |-> "call", owner |-> NoAgent, caller |-> NoAgent]

\* What PendSV is at with a request from the mailbox: looking for one, or at a
\* step of tfm_spm_send_event(); had is what it last read of the signals.
Rpcs ==
  [phase : {"off", "scan", "store", "test", "wake", "mask"}, service : Services,
   had : SUBSET Signals]

RpcOff == [phase |-> "off", service |-> CHOOSE s \in Services : TRUE, had |-> {}]

\* The signals partition p may wait for (signals_allowed).
Allowed(p) ==
  {s \in Services : Owner[s] = p} \cup {"doorbell"}
    \cup (IF p \in IrqOwners THEN {"irq"} ELSE {})

-----------------------------------------------------------------------------
(* Threads.                                                                *)

\* Threads of equal priority: the one started last comes first.
insert_by_prior(l, t) ==
  LET later == {i \in 1 .. Len(l) : prior[t] <= prior[l[i]]}
  IN  InsertAt(l, IF later = {} THEN Len(l) + 1
                  ELSE CHOOSE i \in later : \A j \in later : i <= j, t)

\* Mutant: any thread that becomes runnable becomes the head.
MutSetStateHead(k, t, state) ==
  [k EXCEPT !.state[t] = state, !.head = IF state = "run" THEN t ELSE Head(list)]

tfm_core_thrd_set_state(k, t, state) ==
  [k EXCEPT !.state[t] = state,
            !.head = IF state = "run" /\ prior[t] < prior[k.head] THEN t ELSE Head(list)]

\* The first runnable thread from RNBL_HEAD on, NoAgent if there is none.
tfm_core_thrd_get_next ==
  LET from == SelectInSeq(list, LAMBDA t : t = sched.head)
      i    == SelectInSubSeq(list, from, Len(list), LAMBDA t : sched.state[t] = "run")
  IN  IF i = 0 THEN NoAgent ELSE list[i]

tfm_event_wait(k, t) ==
  [tfm_core_thrd_set_state(k, t, "block") EXCEPT !.pend = TRUE]

\* Mutant: the scheduler is not asked for.
MutEventWakeNoSchedule(k, t) == tfm_core_thrd_set_state(k, t, "run")

tfm_event_wake(k, t) ==
  [tfm_core_thrd_set_state(k, t, "run") EXCEPT !.pend = TRUE]

\* The stack frame a blocked or preempted thread stands on.
Frame(t) ==
  CASE pc[t] = "waiting" /\ got[t] = NoHandle -> "wait"
    [] pc[t] = "waiting" /\ got[t] # NoHandle -> "driver"
    [] pc[t] = "calling"                      -> "call"
    [] OTHER                                  -> "run"

-----------------------------------------------------------------------------
(* Signals.                                                                *)

\* Does asserting signal s now wake partition p?
Wakes(p, s) ==
  s \in sig[p].waiting /\ sig[p].owner /\ sched.state[p] = "block"

\* tfm_core_thrd_set_retval() writes to the frame saved last.  While p is
\* still current its frame of psa_wait() has not been saved yet, and p goes
\* on with the zero the SVC returned, unless both frames are the same.
Delivered(p, value) ==
  IF sched.curr = p /\ saved[p] # Frame(p) THEN {} ELSE value

\* Add signal s to what partition p had asserted, and wake p if it waits for it.
SetSignal(p, s, had) ==
  /\ sig' = [sig EXCEPT ![p].asserted = had \cup {s},
                        ![p].waiting = @ \ {s},
                        ![p].owner = @ /\ ~Wakes(p, s)]
  /\ ret' = IF Wakes(p, s)
            THEN [ret EXCEPT ![p] = Delivered(p, (had \cup {s}) \cap sig[p].waiting)]
            ELSE ret

\* The scheduler after signal s was asserted for partition p.
Woken(p, s) == IF Wakes(p, s) THEN tfm_event_wake(sched, p) ELSE sched

\* Where the threads are after signal s was asserted for partition p.
Awoken(p, s) == IF Wakes(p, s) THEN [pc EXCEPT ![p] = "awake"] ELSE pc

notify_with_signal(p, s) ==
  /\ SetSignal(p, s, sig[p].asserted)
  /\ sched' = Woken(p, s)

-----------------------------------------------------------------------------
(* Clients.                                                                *)

Running(t) ==
  /\ halted = "no"
  /\ sched.curr = t
  /\ ~sched.pend
  /\ rpc.phase = "off"

\* Agent a may start a request: a thread between two calls, a partition while
\* it serves a message, or a caller whose request PendSV is looking at.
MayCall(a) ==
  \/ a = NS /\ topo = "single" /\ Running(NS) /\ pc[NS] = "idle" /\ inputs < MaxInputs[topo]
  \/ a \in Partitions /\ Running(a) /\ pc[a] = "serving"
  \/ a \in Callers /\ halted = "no" /\ rpc.phase = "scan" /\ pc[a] = "sent"

ClientId(a) == IF a \in Partitions THEN a ELSE NS

\* tfm_spm_check_authorization()
Authorized(a, s) == s \in IF a \in Partitions THEN Deps[a] ELSE NsServices

\* What tfm_spm_fill_msg() makes of a connection's message.
tfm_spm_fill_msg(a, s, type, status) ==
  [service |-> s, status |-> status, client |-> ClientId(a), magic |-> TRUE,
   type |-> type, owner |-> IF a \in Callers THEN NoAgent ELSE a,
   caller |-> IF a \in Callers THEN a ELSE NoAgent]

Count(a) == inputs' = IF a = NS THEN inputs + 1 ELSE inputs

\* A thread sends the message of handle h and blocks until it is answered; a
\* request from the mailbox only gets as far as the read of signals_asserted.
tfm_spm_send_event(a, s, h) ==
  LET p == Owner[s]
  IN  /\ msgs' = [msgs EXCEPT ![p] = Append(@, h)]
      /\ IF a \in Callers
         THEN /\ rpc' = [phase |-> "store", service |-> s, had |-> sig[p].asserted]
              /\ pc' = [pc EXCEPT ![a] = "calling"]
              /\ UNCHANGED <<sig, ret, sched>>
         ELSE /\ SetSignal(p, s, sig[p].asserted)
              /\ sched' = tfm_event_wait(Woken(p, s), a)
              /\ pc' = [Awoken(p, s) EXCEPT ![a] = "calling"]
              /\ UNCHANGED rpc

SendNew(a, s, type) ==
  /\ pool # <<>>
  /\ conn' = [conn EXCEPT ![Head(pool)] = tfm_spm_fill_msg(a, s, type, "idle")]
  /\ pool' = Tail(pool)
  /\ tfm_spm_send_event(a, s, Head(pool))

SendOn(a, s, h, type) ==
  /\ conn' = [conn EXCEPT ![h] = tfm_spm_fill_msg(a, s, type, @.status)]
  /\ tfm_spm_send_event(a, s, h)
  /\ UNCHANGED pool

tfm_spm_client_psa_connect(a, s) ==
  /\ MayCall(a) /\ Authorized(a, s)
  /\ s \notin Stateless /\ held[a][s] = NoHandle
  /\ SendNew(a, s, "connect")
  /\ Count(a)
  /\ UNCHANGED <<config, saved, line, got, held, halted>>

tfm_spm_client_psa_call(a, s) ==
  /\ MayCall(a) /\ Authorized(a, s)
  /\ IF s \in Stateless
     THEN SendNew(a, s, "call")
     ELSE /\ held[a][s] # NoHandle
          /\ conn[held[a][s]].status = "idle"
          /\ SendOn(a, s, held[a][s], "call")
  /\ Count(a)
  /\ UNCHANGED <<config, saved, line, got, held, halted>>

tfm_spm_client_psa_close(a, s) ==
  /\ MayCall(a)
  /\ held[a][s] # NoHandle
  /\ conn[held[a][s]].status # "active"
  /\ SendOn(a, s, held[a][s], "disconnect")
  /\ Count(a)
  /\ UNCHANGED <<config, saved, line, got, held, halted>>

\* The SPM refuses the vectors of a non-secure call to a stateless service: the
\* handle it has allocated for the call is not given back.
VectorsRefused(a, s) ==
  /\ MayCall(a) /\ a \notin Partitions /\ Authorized(a, s)
  /\ s \in Stateless /\ pool # <<>>
  /\ conn' = [conn EXCEPT ![Head(pool)] = [FreeConn EXCEPT !.service = s,
                                                          !.client = ClientId(a)]]
  /\ pool' = Tail(pool)
  /\ pc' = [pc EXCEPT ![a] = "idle"]
  /\ Count(a)
  /\ UNCHANGED <<config, sched, saved, sig, msgs, line, rpc, got, ret, held, halted>>

\* A secure client that finds no handle for a stateless call panics; others
\* get an error, like a caller whose connection the service has terminated.
HandlesExhausted(p) ==
  /\ MayCall(p) /\ pool = <<>>
  /\ Deps[p] \cap Stateless # {}
  /\ halted' = "handles"
  /\ UNCHANGED <<config, sched, saved, sig, msgs, conn, pool, line, rpc, pc, got, ret,
                 held, inputs>>

\* Non-secure callers share a client identifier: caller a uses the connection that
\* caller b has opened while b's message is queued and, not being active yet, passes
\* for idle.  It is filled anew and linked into the list a second time, which loses
\* what is behind it; what becomes of the lists is not followed.
MessageRelinked(a, b, s) ==
  /\ MayCall(a)
  /\ held[b][s] # NoHandle /\ conn[held[b][s]].status = "idle"
  /\ Contains(msgs[Owner[s]], held[b][s])
  /\ halted' = "relinked"
  /\ UNCHANGED <<config, sched, saved, sig, msgs, conn, pool, line, rpc, pc, got, ret,
                 held, inputs>>

-----------------------------------------------------------------------------
(* Partitions.                                                             *)

\* Mutant: blocks without a look at what is asserted already.
MutWaitUnchecked(p, mask) ==
  /\ Running(p)
  /\ ret' = [ret EXCEPT ![p] = {}]
  /\ pc' = [pc EXCEPT ![p] = "waiting"]
  /\ sig' = [sig EXCEPT ![p].waiting = mask, ![p].owner = TRUE]
  /\ sched' = tfm_event_wait(sched, p)
  /\ UNCHANGED <<config, saved, msgs, conn, pool, line, rpc, got, held, inputs, halted>>

\* The SVC returns the asserted signals of the mask.  When there are none it
\* has blocked the thread and the return value is the empty set for now.
tfm_spm_psa_wait(p, mask) ==
  /\ Running(p)
  /\ LET now == sig[p].asserted \cap mask
     IN  /\ ret' = [ret EXCEPT ![p] = now]
         /\ pc' = [pc EXCEPT ![p] = IF now = {} THEN "waiting" ELSE "awake"]
         /\ IF now = {}
            THEN /\ sig' = [sig EXCEPT ![p].waiting = mask, ![p].owner = TRUE]
                 /\ sched' = tfm_event_wait(sched, p)
            ELSE UNCHANGED <<sig, sched>>
  /\ UNCHANGED <<config, saved, msgs, conn, pool, line, rpc, got, held, inputs, halted>>

WaitAny(p) == pc[p] = "ready" /\ tfm_spm_psa_wait(p, Allowed(p))

\* A driver waits for its interrupt in the middle of a request.
WaitForIrq(p) ==
  /\ p \in IrqOwners
  /\ pc[p] = "serving"
  /\ tfm_spm_psa_wait(p, {"irq"})

\* Partition p handles signal s, one of those it was returned.
Handling(p, s) ==
  /\ Running(p)
  /\ pc[p] = "awake"
  /\ s \in ret[p] \cap sig[p].asserted

\* Positions of the queued messages of service s.
Queued(s) ==
  {i \in 1 .. Len(msgs[Owner[s]]) : conn[msgs[Owner[s]][i]].service = s}

\* Mutants: the signal is cleared with every message; the last message is taken.
MutGetAt(p, s, i, cleared) ==
  /\ Handling(p, s) /\ s \in Services
  /\ msgs' = [msgs EXCEPT ![p] = RemoveAt(@, i)]
  /\ got' = [got EXCEPT ![p] = msgs[p][i]]
  /\ conn' = [conn EXCEPT ![msgs[p][i]].status = "active"]
  /\ sig' = [sig EXCEPT ![p].asserted = IF cleared THEN @ \ {s} ELSE @]
  /\ pc' = [pc EXCEPT ![p] = "serving"]
  /\ ret' = [ret EXCEPT ![p] = {}]
  /\ UNCHANGED <<config, sched, saved, pool, line, rpc, held, inputs, halted>>

MutGetClears(p, s) ==
  MutGetAt(p, s, CHOOSE j \in Queued(s) : \A k \in Queued(s) : j <= k, TRUE)

MutGetLast(p, s) ==
  MutGetAt(p, s, CHOOSE j \in Queued(s) : \A k \in Queued(s) : k <= j,
           Cardinality(Queued(s)) = 1)

\* The signal stays asserted while further messages of the service wait.
tfm_spm_psa_get(p, s) ==
  /\ Handling(p, s) /\ s \in Services
  /\ LET i == CHOOSE j \in Queued(s) : \A k \in Queued(s) : j <= k
         h == msgs[p][i]
     IN  /\ msgs' = [msgs EXCEPT ![p] = RemoveAt(@, i)]
         /\ got' = [got EXCEPT ![p] = h]
         /\ conn' = [conn EXCEPT ![h].status = "active"]
         /\ sig' = [sig EXCEPT ![p].asserted = IF Queued(s) = {i} THEN @ \ {s} ELSE @]
  /\ pc' = [pc EXCEPT ![p] = "serving"]
  /\ ret' = [ret EXCEPT ![p] = {}]
  /\ UNCHANGED <<config, sched, saved, pool, line, rpc, held, inputs, halted>>

\* Mutant: the chunk is put into the free list twice.
MutFreeTwice(h) ==
  /\ pool' = pool \o <<h, h>>
  /\ conn' = [conn EXCEPT ![h] = FreeConn]

\* Append the chunk to the free list; nobody reads the rest before the chunk
\* is allocated and filled again.
tfm_spm_free_conn_handle(h) ==
  /\ pool' = Append(pool, h)
  /\ conn' = [conn EXCEPT ![h] = FreeConn]

\* Mutant: a refused connection keeps its handle.
MutFreedNotRefused(m, status) ==
  m.type = "disconnect" \/ (m.type = "call" /\ m.service \in Stateless)

Freed(m, status) ==
  \/ m.type = "connect" /\ status = "refused"
  \/ m.type = "disconnect"
  \/ m.type = "call" /\ m.service \in Stateless

\* Statuses a service may answer message m with; only a non-secure client
\* survives PSA_ERROR_PROGRAMMER_ERROR.
Statuses(m) ==
  IF m.type = "connect" THEN ConnectReplies
  ELSE {"success"} \cup IF m.type = "call" /\ m.client = NS THEN {"programmer"} ELSE {}

\* The agent waiting for the answer to message m.
Asker(m) == IF m.caller # NoAgent THEN m.caller ELSE m.owner

\* What agent a knows of its connection to service s after an answer.
Known(m, h, status) ==
  CASE m.type = "connect" /\ status = "success" -> h
    [] m.type = "call"                          -> held[Asker(m)][m.service]
    [] OTHER                                    -> NoHandle

\* Back to what the agent did before its call.
Resumed(a) == IF a \in Partitions THEN "done" ELSE "idle"

tfm_spm_psa_reply(p, status) ==
  /\ Running(p) /\ pc[p] \in {"serving", "done"}
  /\ LET h == got[p]
         m == conn[h]
         a == Asker(m)
     IN  /\ status \in Statuses(m)
         /\ IF Freed(m, status)
            THEN tfm_spm_free_conn_handle(h)
            ELSE /\ conn' = [conn EXCEPT ![h].status = IF status = "programmer"
                                                       THEN "error" ELSE "idle",
                                         ![h].owner = NoAgent]
                 /\ UNCHANGED pool
         /\ held' = [held EXCEPT ![a][m.service] = Known(m, h, status)]
         /\ sched' = IF a \in Callers THEN sched ELSE tfm_event_wake(sched, a)
         /\ pc' = [pc EXCEPT ![a] = Resumed(a), ![p] = "ready"]
  /\ got' = [got EXCEPT ![p] = NoHandle]
  /\ UNCHANGED <<config, saved, sig, msgs, line, rpc, ret, inputs, halted>>

tfm_spm_psa_notify(p, q) ==
  /\ Running(p) /\ pc[p] = "serving"
  /\ notify_with_signal(q, "doorbell")
  /\ pc' = [Awoken(q, "doorbell") EXCEPT ![p] = "done"]
  /\ UNCHANGED <<config, saved, msgs, conn, pool, line, rpc, got, held, inputs, halted>>

\* Mutant: clearing the doorbell clears all signals.
MutClearAll(p) ==
  /\ Handling(p, "doorbell")
  /\ sig' = [sig EXCEPT ![p].asserted = {}]
  /\ pc' = [pc EXCEPT ![p] = "ready"]
  /\ ret' = [ret EXCEPT ![p] = {}]
  /\ UNCHANGED <<config, sched, saved, msgs, conn, pool, line, rpc, got, held, inputs,
                 halted>>

tfm_spm_psa_clear(p) ==
  /\ Handling(p, "doorbell")
  /\ sig' = [sig EXCEPT ![p].asserted = @ \ {"doorbell"}]
  /\ pc' = [pc EXCEPT ![p] = "ready"]
  /\ ret' = [ret EXCEPT ![p] = {}]
  /\ UNCHANGED <<config, sched, saved, msgs, conn, pool, line, rpc, got, held, inputs,
                 halted>>

\* After a driver's wait the partition goes on with its request.
tfm_spm_psa_eoi(p) ==
  /\ Handling(p, "irq")
  /\ sig' = [sig EXCEPT ![p].asserted = @ \ {"irq"}]
  /\ line' = [line EXCEPT ![p] = TRUE]
  /\ pc' = [pc EXCEPT ![p] = IF got[p] = NoHandle THEN "ready" ELSE "done"]
  /\ ret' = [ret EXCEPT ![p] = {}]
  /\ UNCHANGED <<config, sched, saved, msgs, conn, pool, rpc, got, held, inputs, halted>>

\* A partition that was returned no signal panics, and it is fatal to get,
\* clear or end a signal that is not asserted.
tfm_spm_psa_panic(p) ==
  /\ Running(p) /\ pc[p] = "awake"
  /\ ret[p] = {} \/ ~(ret[p] \subseteq sig[p].asserted)
  /\ halted' = "signals"
  /\ UNCHANGED <<config, sched, saved, sig, msgs, conn, pool, line, rpc, pc, got, ret,
                 held, inputs>>

-----------------------------------------------------------------------------
(* Exceptions.                                                             *)

tfm_set_irq_signal(p) ==
  /\ halted = "no"
  /\ p \in IrqOwners /\ line[p] /\ inputs < MaxInputs[topo]
  /\ line' = [line EXCEPT ![p] = FALSE]
  /\ notify_with_signal(p, "irq")
  /\ pc' = Awoken(p, "irq")
  /\ inputs' = inputs + 1
  /\ UNCHANGED <<config, saved, msgs, conn, pool, rpc, got, held, halted>>

\* When no thread can run, the current one goes on although it is blocked.
tfm_pendsv_do_schedule ==
  /\ halted = "no" /\ sched.pend /\ rpc.phase = "off"
  /\ LET next == tfm_core_thrd_get_next
         curr == sched.curr
     IN  IF next = NoAgent
         THEN /\ sched' = [sched EXCEPT !.pend = FALSE]
              /\ pc' = IF pc[curr] = "waiting" THEN [pc EXCEPT ![curr] = "awake"] ELSE pc
              /\ UNCHANGED saved
         ELSE /\ sched' = [sched EXCEPT !.pend = FALSE, !.curr = next]
              /\ saved' = IF next = curr THEN saved
                          ELSE [saved EXCEPT ![curr] = Frame(curr)]
              /\ UNCHANGED pc
  /\ rpc' = [rpc EXCEPT !.phase = IF topo = "multi" THEN "scan" ELSE "off"]
  /\ UNCHANGED <<config, sig, msgs, conn, pool, line, got, ret, held, inputs, halted>>

\* A caller hands a request to the mailbox, whose interrupt asks for PendSV.
MailboxRequest(a) ==
  /\ halted = "no" /\ topo = "multi" /\ pc[a] = "idle" /\ inputs < MaxInputs[topo]
  /\ pc' = [pc EXCEPT ![a] = "sent"]
  /\ sched' = [sched EXCEPT !.pend = TRUE]
  /\ inputs' = inputs + 1
  /\ UNCHANGED <<config, saved, sig, msgs, conn, pool, line, rpc, got, ret, held, halted>>

\* tfm_rpc_client_call_handler() answers a request the SPM refuses directly.
MailboxRefuse(a) ==
  /\ halted = "no" /\ rpc.phase = "scan" /\ pc[a] = "sent"
  /\ \E s \in NsServices :
        \/ pool = <<>> /\ (s \in Stateless \/ held[a][s] = NoHandle)
        \/ held[a][s] # NoHandle /\ conn[held[a][s]].status = "error"
  /\ pc' = [pc EXCEPT ![a] = "idle"]
  /\ UNCHANGED <<config, sched, saved, sig, msgs, conn, pool, line, rpc, got, ret, held,
                 inputs, halted>>

\* The rest of tfm_spm_send_event() for a request from the mailbox: what was
\* asserted when it was read is written back with the signal of the service.
RpcStore ==
  /\ halted = "no" /\ rpc.phase = "store"
  /\ sig' = [sig EXCEPT ![Owner[rpc.service]].asserted = rpc.had \cup {rpc.service}]
  /\ rpc' = [rpc EXCEPT !.phase = "test", !.had = {}]
  /\ UNCHANGED <<config, sched, saved, msgs, conn, pool, line, pc, got, ret, held, inputs,
                 halted>>

\* It looks whether the partition waits for the signal, and tfm_event_wake()
\* whether the event has an owner that is blocked.
RpcTest ==
  /\ halted = "no" /\ rpc.phase = "test"
  /\ LET s == rpc.service
         p == Owner[s]
     IN  rpc' = CASE Wakes(p, s) ->
                       [rpc EXCEPT !.phase = "wake",
                                   !.had = sig[p].asserted \cap sig[p].waiting]
                  [] s \in sig[p].waiting /\ ~Wakes(p, s) ->
                       [rpc EXCEPT !.phase = "mask", !.had = sig[p].waiting]
                  [] OTHER -> [RpcOff EXCEPT !.phase = "scan"]
  /\ UNCHANGED <<config, sched, saved, sig, msgs, conn, pool, line, pc, got, ret, held,
                 inputs, halted>>

\* tfm_event_wake() wakes the owner it found.  An interrupt may have done so
\* since; then this is a build that kept the pointer in a register.  It is one
\* step: an interrupt amid it finds the thread runnable and leaves it alone.
RpcWake ==
  /\ halted = "no" /\ rpc.phase = "wake"
  /\ LET p == Owner[rpc.service]
     IN  /\ sched' = tfm_event_wake(sched, p)
         /\ ret' = [ret EXCEPT ![p] = Delivered(p, rpc.had)]
         /\ sig' = [sig EXCEPT ![p].owner = FALSE]
         /\ pc' = [pc EXCEPT ![p] = "awake"]
         /\ rpc' = [rpc EXCEPT !.phase = "mask", !.had = sig[p].waiting]
  /\ UNCHANGED <<config, saved, msgs, conn, pool, line, got, held, inputs, halted>>

\* A build that reads the owner again finds NULL after such an interrupt:
\* tfm_core_thrd_set_state() asserts that it is not, and hangs, or
\* tfm_core_thrd_set_retval() writes through it.
RpcOwnerLost ==
  /\ halted = "no" /\ rpc.phase = "wake" /\ ~sig[Owner[rpc.service]].owner
  /\ halted' = "owner"
  /\ UNCHANGED <<config, sched, saved, sig, msgs, conn, pool, line, rpc, pc, got, ret,
                 held, inputs>>

\* The signal is taken out of signals_waiting, which an interrupt may have
\* changed between the read and the write.
RpcMask ==
  /\ halted = "no" /\ rpc.phase = "mask"
  /\ \E waiting \in {sig[Owner[rpc.service]].waiting, rpc.had} :
        sig' = [sig EXCEPT ![Owner[rpc.service]].waiting = waiting \ {rpc.service}]
  /\ rpc' = [RpcOff EXCEPT !.phase = "scan"]
  /\ UNCHANGED <<config, sched, saved, msgs, conn, pool, line, pc, got, ret, held, inputs,
                 halted>>

RpcDone ==
  /\ halted = "no" /\ rpc.phase = "scan"
  /\ \A a \in Callers : pc[a] # "sent"
  /\ rpc' = [rpc EXCEPT !.phase = "off"]
  /\ UNCHANGED <<config, sched, saved, sig, msgs, conn, pool, line, pc, got, ret, held,
                 inputs, halted>>

-----------------------------------------------------------------------------
(* The system after tfm_spm_init(): every thread runs, the non-secure one  *)
(* is current and the scheduler was asked for.                             *)

Init ==
  /\ topo \in Topologies
  /\ prior \in Priors
  /\ \E order \in StartOrders : list = FoldLeft(insert_by_prior, <<>>, order)
  /\ sched = [state |-> [t \in Threads |-> "run"], head |-> Head(list), curr |-> NS,
              pend |-> TRUE]
  /\ saved = [t \in Threads |-> "entry"]
  /\ sig = [p \in Partitions |-> [asserted |-> {}, waiting |-> {}, owner |-> FALSE]]
  /\ msgs = [p \in Partitions |-> <<>>]
  /\ conn = [h \in Handles |-> FreeConn]
  /\ pool = [h \in Handles |-> h]
  /\ line = [p \in Partitions |-> TRUE]
  /\ rpc = RpcOff
  /\ pc = [a \in Agents |-> IF a \in Partitions THEN "ready" ELSE "idle"]
  /\ got = [t \in Threads |-> NoHandle]
  /\ ret = [p \in Partitions |-> {}]
  /\ held = [a \in Agents |-> [s \in Services |-> NoHandle]]
  /\ inputs = 0
  /\ halted = "no"

Call(a) ==
  \E s \in Services : \/ tfm_spm_client_psa_connect(a, s)
                      \/ tfm_spm_client_psa_call(a, s)
                      \/ tfm_spm_client_psa_close(a, s)
                      \/ VectorsRefused(a, s)

PartitionStep(p) ==
  \/ WaitAny(p)
  \/ \E s \in Services : tfm_spm_psa_get(p, s)
  \/ \E status \in {"success", "refused", "busy", "programmer"} :
        tfm_spm_psa_reply(p, status)
  \/ \E q \in Partitions : tfm_spm_psa_notify(p, q)
  \/ tfm_spm_psa_clear(p)
  \/ tfm_spm_psa_eoi(p)
  \/ tfm_spm_psa_panic(p)
  \/ HandlesExhausted(p)
  \/ Call(p)

PendSV ==
  \/ tfm_pendsv_do_schedule
  \/ \E a \in Callers : Call(a) \/ MailboxRefuse(a)
  \/ \E a, b \in Callers, s \in Services : MessageRelinked(a, b, s)
  \/ RpcStore \/ RpcTest \/ RpcWake \/ RpcOwnerLost \/ RpcMask
  \/ RpcDone

Next ==
  \/ Call(NS)
  \/ \E p \in Partitions : PartitionStep(p) \/ tfm_set_irq_signal(p)
  \/ \E a \in Callers : MailboxRequest(a)
  \/ PendSV

\* The same with drivers that wait for their interrupt within a request.
NextDriver == Next \/ \E p \in Partitions : WaitForIrq(p)

Spec == Init /\ [][Next]_vars

\* Exceptions and the current thread go on; nobody is obliged to send requests.
Fairness == WF_vars(PendSV) /\ \A p \in Partitions : WF_vars(PartitionStep(p))

FairSpec == Spec /\ Fairness

DriverSpec == Init /\ [][NextDriver]_vars /\ Fairness

-----------------------------------------------------------------------------
(* Properties.                                                             *)

\* Every thread is in the list, the most urgent first.
ListOK ==
  /\ list \in Seq(Threads)
  /\ \A t \in Threads : Contains(list, t)
  /\ \A i, j \in 1 .. Len(list) : i <= j => prior[list[i]] <= prior[list[j]]

\* Types of the variables, and the order of the list that the threads were put in.
TypeOK ==
  /\ ListOK
  /\ sched \in [state : [Threads -> {"run", "block"}], head : Threads, curr : Threads,
                pend : BOOLEAN]
  /\ saved \in [Threads -> {"entry", "wait", "driver", "call", "run"}]
  /\ sig \in [Partitions -> [asserted : SUBSET Signals, waiting : SUBSET Signals,
                             owner : BOOLEAN]]
  /\ msgs \in [Partitions -> Seq(Handles)]
  /\ \A p \in Partitions : Len(msgs[p]) <= NumHandles
  /\ conn \in [Handles -> Conns]
  /\ pool \in Seq(Handles) /\ Len(pool) <= NumHandles
  /\ line \in [Partitions -> BOOLEAN]
  /\ rpc \in Rpcs
  /\ pc \in [Agents -> {"idle", "sent", "calling", "ready", "waiting", "awake",
                        "serving", "done"}]
  /\ got \in [Threads -> Handles \cup {NoHandle}]
  /\ ret \in [Partitions -> SUBSET Signals]
  /\ held \in [Agents -> [Services -> Handles \cup {NoHandle}]]
  /\ inputs \in 0 .. MaxInputs[topo]
  /\ halted \in {"no", "signals", "handles", "owner", "relinked"}

\* The signal of a service is asserted exactly while messages for it are
\* queued, whatever else partitions and interrupts assert in between: a lost
\* signal would leave its message for ever, a spurious one is fatal in
\* psa_get().  (PendSV queues first and asserts a step later.)
SignalsMatchMessages ==
  \A s \in Services :
    (rpc.phase = "store" /\ rpc.service = s)
      \/ (s \in sig[Owner[s]].asserted <=> Queued(s) # {})

\* The signal PendSV has asserted for partition p and is about to wake p for.
InFlight(p) ==
  IF rpc.phase \in {"test", "wake"} /\ Owner[rpc.service] = p THEN {rpc.service} ELSE {}

\* A partition blocked in psa_wait() misses nothing: no signal it waits for is
\* asserted, but for one PendSV is about to wake it for, and each of them would
\* wake it, because it still owns its event and its mask was not eaten away by
\* signals that came while it was busy.
NoMissedWakeup ==
  \A p \in Partitions :
    pc[p] = "waiting" =>
      /\ sched.state[p] = "block" /\ sig[p].owner
      /\ sig[p].asserted \cap sig[p].waiting \subseteq InFlight(p)
      /\ sig[p].waiting = IF got[p] = NoHandle THEN Allowed(p) ELSE {"irq"}

\* Where handle h is: in the free list, in a queue or with its service.
Places(h) ==
  {<<"pool", i>> : i \in {j \in 1 .. Len(pool) : pool[j] = h}}
    \cup (UNION {{<<p, i>> : i \in {j \in 1 .. Len(msgs[p]) : msgs[p][j] = h}} :
                 p \in Partitions})
    \cup {<<p, 0>> : p \in {q \in Partitions : got[q] = h}}

\* The agents that know handle h as an open connection.
Holders(h) ==
  {a \in Agents : \E s \in Services : held[a][s] = h /\ conn[h].service = s
                                     /\ conn[h].client = ClientId(a)}

\* Handle h was allocated for a non-secure call whose vectors were refused.
Leaked(h) == conn[h].service \in Stateless /\ conn[h].client = NS /\ ~conn[h].magic

\* No handle is freed twice, queued twice or given to two clients, and only calls
\* with refused vectors lose any: it is in one place, and a handle that is nowhere,
\* neither free nor under way, is an idle connection one client has open and can
\* close, or was leaked.  This is said up to the moment when a caller uses another
\* one's connection whose message is queued (MessageRelinked).
HandlesAccounted ==
  \A h \in Handles :
    /\ Cardinality(Places(h)) <= 1
    /\ Cardinality(Holders(h)) <= 1
    /\ Places(h) = {} => \/ Holders(h) # {} /\ conn[h].magic /\ conn[h].status # "active"
                         \/ Leaked(h)
    /\ Contains(pool, h) => Holders(h) = {} /\ ~conn[h].magic

\* When no exception is pending the processor executes a thread that is not
\* blocked and that no runnable thread exceeds in priority, whatever shortcut
\* RNBL_HEAD takes into the list.
HighestPriorityRuns ==
  halted = "no" /\ ~sched.pend /\ rpc.phase = "off" =>
    /\ sched.state[sched.curr] = "run"
    /\ \A t \in Threads : sched.state[t] = "run" => prior[sched.curr] <= prior[t]

\* On a single core a masked interrupt line has its signal asserted, so that
\* the partition will see it and unmask the line again in psa_eoi().
IrqSignalKept ==
  topo = "single" => \A p \in IrqOwners : line[p] \/ "irq" \in sig[p].asserted

\* The caller of the message partition p serves for service s, if any.
ActiveAgent(s) ==
  LET h == got[Owner[s]]
  IN  IF h # NoHandle /\ conn[h].service = s THEN Asker(conn[h]) ELSE NoAgent

\* The callers of the messages queued for service s.
QueuedAgents(s) ==
  LET ofs == SelectSeq(msgs[Owner[s]], LAMBDA h : conn[h].service = s)
  IN  [i \in 1 .. Len(ofs) |-> Asker(conn[ofs[i]])]

Calls == INSTANCE PsaCalls WITH
  calling <- {a \in Agents : pc[a] = "calling"},
  queue   <- [s \in Services |-> QueuedAgents(s)],
  active  <- [s \in Services |-> ActiveAgent(s)]

\* Connections, messages, signals and scheduling together implement request
\* queues in the order of arrival: the service answers the request it took,
\* the answer releases the agent that sent it and nobody else.
IpcImplemented == Calls!Spec

\* Every request of a client is answered, unless the system panics.
CallAnswered ==
  \A a \in Agents :
    (pc[a] \in {"sent", "calling"}) ~> (pc[a] \notin {"sent", "calling"} \/ halted # "no")

\* psa_wait() with PSA_BLOCK returns a signal: "0 ... is only seen when a
\* polling timeout is used" (interface/include/psa/service.h).
WaitReturnsSignals ==
  \A p \in Partitions : pc[p] = "awake" => ret[p] # {}
=============================================================================
