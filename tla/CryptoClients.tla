---------------------------- MODULE CryptoClients ----------------------------
(***************************************************************************)
(* What the crypto service promises its clients: a multi-part operation    *)
(* goes from one call to the next as its own client drives it, and a       *)
(* client may use a key until it gives the key up, and the one who signs   *)
(* with it is the one the client asked for.  Whatever other clients ask    *)
(* for, in whatever order, changes neither.  Nothing is said about         *)
(* contexts, handles and tables, which all clients share.                  *)
(***************************************************************************)
EXTENDS Naturals

CONSTANTS
  Clients,
  Ops,       \* the operation objects of the clients
  OpOwner,   \* whose they are
  Ids        \* identifiers of keys

VARIABLES
  caller,    \* the client served last
  val,       \* per object, its state and the number of parts processed
  use        \* per client, the keys it may use

vars == <<caller, val, use>>

\* A key: its identifier, whose key the client asked for and who signs with it.
Signers == {"vendor", "library"}

Keys == [id : Ids, asked : Signers, signer : Signers]

Inactive == [state |-> "none", parts |-> 0]

Parts(n) == [state |-> "active", parts |-> n]

Broken == [state |-> "error", parts |-> 0]

Init ==
  /\ caller \in Clients
  /\ val = [o \in Ops |-> Inactive]
  /\ use = [c \in Clients |-> {}]

\* What a call may make of an operation.
After(v) ==
  CASE v = Inactive       -> {Parts(0)}
    [] v.state = "active" -> {Parts(v.parts + 1), Inactive, Broken}
    [] v = Broken         -> {Inactive}

\* A copy starts where its source, an operation of the same client, is.
Copies(o) ==
  IF val[o] # Inactive THEN {}
  ELSE UNION {{val[s], Broken} : s \in {q \in Ops : OpOwner[q] = OpOwner[o] /\ val[q] # Inactive}}

\* A call of its own client, and of nobody else, takes an operation further.
OpStep(o) ==
  /\ caller' = OpOwner[o]
  /\ UNCHANGED use
  /\ \E to \in After(val[o]) \cup Copies(o) : val' = [val EXCEPT ![o] = to]

\* A client gains a key as it asked for it, or gives one up.
KeyStep(c) ==
  /\ caller' = c
  /\ UNCHANGED val
  /\ \E k \in Keys :
        \/ k.signer = k.asked /\ use' = [use EXCEPT ![c] = use[c] \cup {k}]
        \/ use' = [use EXCEPT ![c] = use[c] \ {k}]

\* A request that changes nothing its client can see.
Served(c) == caller' = c /\ UNCHANGED <<val, use>>

Restart ==
  /\ caller' \in Clients
  /\ val' = [o \in Ops |-> Inactive]
  /\ use' = [c \in Clients |-> {}]

Next ==
  \/ \E o \in Ops : OpStep(o)
  \/ \E c \in Clients : KeyStep(c) \/ Served(c)
  \/ Restart

Spec == Init /\ [][Next]_vars
=============================================================================
