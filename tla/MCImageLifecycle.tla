---------------------------- MODULE MCImageLifecycle ----------------------------
(* Instances of ImageLifecycle for TLC. *)
EXTENDS ImageLifecycle, TLC
=============================================================================
