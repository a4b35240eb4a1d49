------------------------------ MODULE MCNodeTasks ------------------------------
(* Instances of NodeTasks for TLC: the requests are model values. *)
EXTENDS NodeTasks, TLC

CONSTANTS s1, s2, n1, m1
=============================================================================
