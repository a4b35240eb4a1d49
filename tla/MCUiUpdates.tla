------------------------------- MODULE MCUiUpdates -------------------------------
(* Instances of UiUpdates for TLC. *)
EXTENDS UiUpdates, TLC

CONSTANTS t1, t2, w1, w2, m1, m2, m3
=============================================================================
