--------------------------- MODULE MCBrokerProcs ---------------------------
(* Small instances of BrokerProcs.                                         *)
EXTENDS BrokerProcs, TLC

CONSTANTS t1, t2, w1, b1, b2

MCClass == {"public", "repo"}
MCTier == {"local_only", "external"}
MCAllowedTiers == [c \in MCClass |-> IF c = "public" THEN MCTier ELSE {"local_only"}]

PairTask == (t1 :> "k1") @@ (t2 :> "k2")
PairClass == (t1 :> "public") @@ (t2 :> "public")
SoloTask == (t1 :> "k1")
SoloClass == (t1 :> "public")

Symmetry == Permutations({b1, b2})
============================================================================
