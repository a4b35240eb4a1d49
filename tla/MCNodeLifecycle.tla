----------------------------- MODULE MCNodeLifecycle -----------------------------
(* Instances of NodeLifecycle for TLC. *)
EXTENDS NodeLifecycle, TLC

CONSTANTS n1, n2, s1, s2, s3

ServerSymmetry == Permutations(Servers)
=============================================================================
