--------------------------- MODULE MCCryptoService ---------------------------
(* A careful client A beside a careless client B, with operations of the   *)
(* same type.                                                              *)
EXTENDS CryptoService

MCOpOwner ==
  [o \in Ops |-> IF o \in {"hA", "hA2", "mA", "cA", "dA"} THEN "A" ELSE "B"]

MCOpType ==
  [o \in Ops |-> CASE o \in {"hA", "hA2", "hB"} -> "hash"
                   [] o \in {"mA", "mB"}        -> "mac"
                   [] o \in {"cA", "cB"}        -> "cipher"
                   [] o \in {"dA", "dB"}        -> "derivation"]

\* Both clients choose the identifier p.
MCSharedIds == [A |-> {"p", "pA"}, B |-> {"p"}]

\* Operations of one type beside few keys, and many keys beside no operation.
MCPopulations ==
  {{"hA", "hA2", "hB"}, {"mA", "mB", "v1"}, {"cA", "cB", "pA"}, {"dA", "dB", "v1"},
   {"v1", "v2", "p", "pA"}}
=============================================================================
