------------------------------ MODULE MCBacklog ------------------------------
(* The backlog by itself: a plan of two rows.                                 *)
EXTENDS Backlog, TLC

CONSTANT p1

MCRows == p1 :> 2
MCProbed == p1 :> {"fp_not_ready"}
=============================================================================
