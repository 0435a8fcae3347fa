--------------------------- MODULE MCVerification ---------------------------
(* Verification with two keys of one address. *)
EXTENDS Verification, TLC

CONSTANTS k1, k2, address

MCAddressOf == k1 :> address @@ k2 :> address

Symmetry == Permutations(Ids) \cup Permutations(Slots) \cup Permutations(Keys)
                \cup Permutations(Secrets)
=============================================================================
