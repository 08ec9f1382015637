---------------------------- MODULE MCStopControl ----------------------------
(* Small instances of StopControl for TLC.                                   *)
EXTENDS StopControl, TLC

SettleStatuses == {"filled", "cancelled", "aborted"}
Alike == Permutations(Orders)
==============================================================================
