----------------------------- MODULE MCAccounts -----------------------------
(* Accounts on interchangeable emails, Cognito users and accounts. *)
EXTENDS Accounts, TLC

Symmetry ==
    Permutations(Accounts) \cup Permutations(Emails) \cup Permutations(GoogleSubs)
        \cup Permutations(NativeSubs) \cup Permutations(Slots)
=============================================================================
