----------------------- MODULE MCSubscriptionRoyalty -----------------------
(* Instances of SubscriptionRoyalty for TLC. *)
EXTENDS SubscriptionRoyalty, TLC

CONSTANTS maker, dao, alice, bob, agent

MCSymmetry == Permutations({alice, bob})
=============================================================================
