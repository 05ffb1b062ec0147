----------------------------- MODULE MCRunQueue -----------------------------
(* Instances of RunQueue for TLC. *)
EXTENDS RunQueue, TLC

CONSTANTS r1, r2, r3

TwoRuns == {r1, r2}
ThreeRuns == {r1, r2, r3}

(* Run ids are only compared, and the safety runs have no liveness. *)
Symmetry == Permutations(Runs)
=============================================================================
