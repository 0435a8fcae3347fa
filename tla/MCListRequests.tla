--------------------------- MODULE MCListRequests ---------------------------
(* Two list requests at once on three levels, two of them placed or all, and lists so worn *)
(* that a drop between two entries renumbers them.                                         *)
EXTENDS ListRequests, TLC

CONSTANTS l1, l2, l3

MCLevels == {l1, l2, l3}

MCBaselines ==
    {f \in UNION {[S -> {2, 3, 6}] : S \in SUBSET MCLevels} :
        Cardinality(DOMAIN f) >= 2 /\ \A a, b \in DOMAIN f : f[a] = f[b] => a = b}

Symmetry == Permutations(MCLevels) \cup Permutations(Slots)
=============================================================================
