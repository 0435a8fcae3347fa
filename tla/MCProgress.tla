----------------------------- MODULE MCProgress ------------------------------
(* Progress for a new user, on one classic level and one platformer. *)
EXTENDS Progress

CONSTANTS l1, platformer

NoBaselines == {[l \in {} |-> 0]}
=============================================================================
