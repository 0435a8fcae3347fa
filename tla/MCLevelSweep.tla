---------------------------- MODULE MCLevelSweep ----------------------------
(* Three levels in one slice, which the breaker can cut short before the last. *)
EXTENDS LevelSweep
=============================================================================
