--------------------------- MODULE MCClusterNodes ---------------------------
(* ClusterNodes with two nodes of one or two GPUs.                          *)
EXTENDS ClusterNodes

CONSTANTS n1, n2
=============================================================================
