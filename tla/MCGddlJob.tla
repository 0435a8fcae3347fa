----------------------------- MODULE MCGddlJob -----------------------------
(* Two requests and two invocations at once. *)
EXTENDS GddlJob
=============================================================================
