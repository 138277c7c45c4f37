--------------------------- MODULE MCSqlSignalStore ---------------------------
(* Instances of SqlSignalStore for TLC. *)
EXTENDS SqlSignalStore, TLC

CONSTANTS s1, s2, c1, c2

MCSymmetry == Permutations({c1, c2})
=============================================================================
