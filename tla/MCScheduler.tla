---------------------------- MODULE MCScheduler ----------------------------
(* Instances of Scheduler for TLC.                                          *)
EXTENDS SchedulerRefinement, TLC
CONSTANTS j1, j2, j3

MinOne == [j \in Jobs |-> 1]
MaxTwo == [j \in Jobs |-> 2]

\* MinProc and MaxProc are the same for every job, so jobs are interchangeable.
JobSymmetry == Permutations(Jobs)
=============================================================================
