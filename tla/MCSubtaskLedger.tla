-------------------------- MODULE MCSubtaskLedger --------------------------
(* Small instances of SubtaskLedger.                                       *)
EXTENDS SubtaskLedger, TLC

CONSTANTS s1, s2, s3, p1, p2

Symmetry == Permutations(Proc) \cup Permutations(Subtask)
============================================================================
