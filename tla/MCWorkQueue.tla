---------------------------- MODULE MCWorkQueue ----------------------------
(* Small instances of WorkQueue.                                           *)
EXTENDS WorkQueue, TLC

CONSTANTS t1, t2, t3, w1, w2

MCClass == {"public", "low", "repo", "secret"}
MCTier == {"local_only", "external"}
MCAllowedTiers ==
  [c \in MCClass |-> CASE c = "public" -> MCTier
                       [] c = "low"    -> MCTier
                       [] c = "repo"   -> {"local_only"}
                       [] c = "secret" -> {}]

\* One ticket with its task, and two.
SoloTask == (t1 :> "k1")
PairTask == (t1 :> "k1") @@ (t2 :> "k2")
PairPublic == (t1 :> "public") @@ (t2 :> "public")

\* A public ticket with a task, a sensitive one without, and one that no
\* tier may pull, parked at birth.
TripleTask == (t1 :> "k1") @@ (t2 :> None) @@ (t3 :> None)
TripleClass == (t1 :> "public") @@ (t2 :> "repo") @@ (t3 :> "secret")

Symmetry == Permutations({w1, w2})
============================================================================
