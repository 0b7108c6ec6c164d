------------------------------ MODULE MCSpmIpc -------------------------------
(* Two partitions: p1 serves connections to s1, has an interrupt and calls *)
(* the stateless service s2 of p2.                                         *)
EXTENDS SpmIpc

CONSTANTS p1, p2

MCOwner == [s1 |-> p1, s2 |-> p2]

MCDeps == (p1 :> {"s2"}) @@ (p2 :> {})

MCStartOrders == {<<NS, p1, p2>>}

\* TFM_PRIORITY_LOW, NORMAL and HIGH, as in the in-tree manifests.
MCPriors ==
  {(NS :> 3) @@ (p1 :> 2) @@ (p2 :> 2), (NS :> 3) @@ (p1 :> 1) @@ (p2 :> 2)}
MCMaxInputs == [single |-> 6, multi |-> 3]
=============================================================================
