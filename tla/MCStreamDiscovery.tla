------------------------- MODULE MCStreamDiscovery -------------------------
(* Instances of StreamDiscovery for TLC. *)
EXTENDS StreamDiscovery, TLC

CONSTANTS A, a, B, m1, m2, d1, t1, t2, free, paid, slugA, slugB, p1, p2, r1

MCTierLists == TierLists

(* "A" and "a" have one slug; "B" has its own. *)
MCSlugOf == [s \in Streams |-> IF s = B THEN slugB ELSE slugA]

MCSymmetry == Permutations(Posters)
=============================================================================
