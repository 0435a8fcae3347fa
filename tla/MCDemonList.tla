----------------------------- MODULE MCDemonList -----------------------------
(* DemonList, and the history read from its log, on a few interchangeable levels. *)
EXTENDS RankHistory, TLC

CONSTANTS l1, l2, l3

MCLevels == {l1, l2, l3}

Apart(f) == \A a, b \in DOMAIN f : f[a] = f[b] => a = b

\* Lists so worn that one drop between the two hardest renumbers them, and users with two
\* levels one unit apart.
MCBaselines ==
    {f \in [MCLevels -> {1, 3, 4}] : Apart(f)}
    \cup {f \in UNION {[S -> {2, 3}] : S \in SUBSET MCLevels} : Cardinality(DOMAIN f) = 2 /\ Apart(f)}

Symmetry == Permutations(MCLevels)
=============================================================================
