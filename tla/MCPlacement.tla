---------------------------- MODULE MCPlacement ----------------------------
(* Instances of Placement for TLC.                                          *)
EXTENDS Placement, TLC
CONSTANTS j1, j2, j3, n1, n2

OneEach   == [n \in Nodes |-> 1]
TwoEach   == [n \in Nodes |-> 2]

\* Jobs, and nodes of one size, are interchangeable.
NodeSymmetry == Permutations(Jobs) \cup Permutations(Nodes)
=============================================================================
