--------------------------- MODULE MCReschedLoop ---------------------------
(* Instances of ReschedLoop for TLC.                                        *)
EXTENDS ReschedLoop
CONSTANTS h1, h2, t1
=============================================================================
