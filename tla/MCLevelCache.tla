---------------------------- MODULE MCLevelCache ----------------------------
(* A window of two ticks, three receives of a message. *)
EXTENDS LevelCache
=============================================================================
