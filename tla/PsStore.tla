------------------------------- MODULE PsStore -------------------------------
(***************************************************************************)
(* What the protected storage service promises: a store of objects that    *)
(* changes only by the request being served, one object at a time and as a *)
(* whole, never back to earlier contents, and in which a write-once object *)
(* stays.                                                                  *)
(*                                                                         *)
(* A build with roll-back protection binds the store to a non-volatile     *)
(* counter.  Between the increment of the counter and the write of the     *)
(* object table the store is "loose": the counters no longer vouch for it. *)
(* Only a loose store may be lost.                                         *)
(*                                                                         *)
(* All this until the store is harmed: when the alignment of the counters  *)
(* or a call of start-up fails, the service gives up committed objects,    *)
(* and nothing is promised any more.                                       *)
(***************************************************************************)
EXTENDS Naturals

CONSTANTS
  Uids,      \* object identifiers (uid and client)
  Objects,   \* what can be stored: [data |-> request number, once |-> BOOLEAN]
  NoObject

VARIABLES
  store,     \* the object of every uid, NoObject if there is none
  loose,     \* the store may be lost at the next boot
  rollback,  \* the build has PS_ROLLBACK_PROTECTION
  harmed,    \* an alignment or a call of start-up has failed
  request    \* number of requests so far; request n stores data n

Empty == [u \in Uids |-> NoObject]

Init ==
  /\ store \in [Uids -> Objects \cup {NoObject}]
  /\ ~loose
  /\ rollback \in BOOLEAN /\ ~harmed
  /\ request \in Nat

\* A client calls the service.
Request ==
  /\ request' = request + 1
  /\ UNCHANGED <<harmed, rollback, loose, store>>

\* The counter moves ahead of the store.
Loosen ==
  /\ rollback
  /\ ~loose /\ loose' = TRUE
  /\ UNCHANGED <<harmed, store, rollback, request>>

\* The current request takes effect: an object is set or removed.
Commit(u, obj) ==
  /\ ~store[u].once
  /\ obj = NoObject \/ obj.data = request
  /\ store' = [store EXCEPT ![u] = obj]
  /\ loose' = FALSE
  /\ UNCHANGED <<harmed, rollback, request>>

\* The store is lost, or a new one takes the place of a lost one.
Lose ==
  /\ store' = Empty /\ loose' = FALSE
  /\ loose \/ store = Empty
  /\ UNCHANGED <<harmed, rollback, request>>

\* A failure harms the store, or it has been harmed.
Harm == harmed' = TRUE

Next ==
  \/ Request \/ Loosen \/ Lose \/ Harm
  \/ /\ store' # store
     /\ \E u \in Uids, obj \in Objects \cup {NoObject} : Commit(u, obj)

Spec == Init /\ [][Next]_<<store, loose, rollback, harmed, request>>

=============================================================================
