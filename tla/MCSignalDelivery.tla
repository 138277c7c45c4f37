--------------------------- MODULE MCSignalDelivery ---------------------------
(* Instances of SignalDelivery for TLC. *)
EXTENDS SignalDelivery, TLC

CONSTANTS p1, p2

MCSymmetry == Permutations({p1, p2})
=============================================================================
