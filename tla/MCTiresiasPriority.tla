------------------------- MODULE MCTiresiasPriority -------------------------
(* TiresiasPriority with two jobs, each of which needs all the GPUs.        *)
EXTENDS TiresiasPriority, TLC

CONSTANTS j1, j2

TwoEach == [j \in Jobs |-> 2]

JobSymmetry == Permutations(Jobs)
=============================================================================
