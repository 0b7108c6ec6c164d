------------------------------ MODULE PsaCalls -------------------------------
(***************************************************************************)
(* What the Secure Partition Manager promises the callers of psa_connect(),*)
(* psa_call() and psa_close(): a request that was accepted waits in the    *)
(* queue of its service, the service takes requests in the order in which  *)
(* they came and answers the one it has taken, and only that answer lets   *)
(* the caller go on.  Nothing is said about partitions, signals, threads,  *)
(* connection handles or interrupts.                                       *)
(***************************************************************************)
EXTENDS Sequences

CONSTANTS
  Agents,    \* whoever can have a request outstanding
  NoAgent,   \* none of them
  Services

VARIABLES
  calling,   \* the agents that wait for an answer
  queue,     \* per service, the agents whose requests nobody has taken yet
  active     \* per service, the agent whose request is being served

Init ==
  /\ calling = {}
  /\ queue = [s \in Services |-> <<>>]
  /\ active = [s \in Services |-> NoAgent]

Send(a, s) ==
  /\ a \notin calling
  /\ calling' = calling \cup {a}
  /\ queue' = [queue EXCEPT ![s] = Append(@, a)]
  /\ UNCHANGED active

Take(s) ==
  /\ active[s] = NoAgent
  /\ queue[s] # <<>>
  /\ active' = [active EXCEPT ![s] = Head(queue[s])]
  /\ queue' = [queue EXCEPT ![s] = Tail(@)]
  /\ UNCHANGED calling

Answer(s) ==
  /\ active[s] # NoAgent
  /\ calling' = calling \ {active[s]}
  /\ active' = [active EXCEPT ![s] = NoAgent]
  /\ UNCHANGED queue

Next ==
  \E s \in Services : Take(s) \/ Answer(s) \/ \E a \in Agents : Send(a, s)

Spec == Init /\ [][Next]_<<calling, queue, active>>
=============================================================================
