-------------------------- MODULE MCNodepoolImages --------------------------
(* Two updates: one can be recorded while the other one runs or fails to be *)
(* recorded.  Processes and requests are not bounded.                       *)
EXTENDS NodepoolImages

MCUpdates == 1..2
=============================================================================
