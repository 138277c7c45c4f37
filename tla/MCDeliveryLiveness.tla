-------------------------- MODULE MCDeliveryLiveness --------------------------
(* The instances of MCDelivery under fairness.  Members lapse and renew; who *)
(* left reads as little as who lapsed.  The client listens with its first   *)
(* key pair, the chain may hold the other.                                  *)
EXTENDS MCDelivery

LapsesOnly ==
  /\ present = joined
  /\ \A w \in Subscribers, s \in Streams : listenKey[w][s] \in {NoKey, 0}

(* Neither this nor Within ever holds up a handler, so that fairness asks   *)
(* for nothing they forbid.                                                 *)
MCFairSpec == MCInit /\ [][MCNext /\ LapsesOnly']_<<vars, part>> /\ Fairness
=============================================================================
