--------------------------- MODULE MCRobtopLimit ---------------------------
(* One user and two callers; the user's budget refills more slowly than the bucket. *)
EXTENDS RobtopLimit
=============================================================================
