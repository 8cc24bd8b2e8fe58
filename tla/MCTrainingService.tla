-------------------------- MODULE MCTrainingService --------------------------
(* TrainingService with requests that are alike.                            *)
EXTENDS TrainingService, TLC

CONSTANTS r1, r2, d1, d2

RequestSymmetry == Permutations(Creations) \cup Permutations(Deletions)
=============================================================================
