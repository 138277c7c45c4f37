---------------------------- MODULE MCDiscovery ----------------------------
(* Two instances of StreamDiscovery in one: overlapping requests for a      *)
(* private stream, and two public streams that one request at a time        *)
(* describes while a reader looks them up.                                  *)
EXTENDS MCStreamDiscovery

VARIABLE instance

Within ==
  \/ /\ instance = "posts"
     /\ reading' = reading
     /\ \A s \in Streams : streamConfig'[s] # NoAccount =>
          s = A /\ streamConfig'[s].visibility = "private"
  \/ /\ instance = "reader"
     /\ signals' = signals
     /\ \A p, q \in Posters : p # q => Nothing \in {posting'[p], posting'[q]}
     /\ \A s \in Streams : streamConfig'[s] # NoAccount =>
          streamConfig'[s].visibility = "public"

MCInit == Init /\ instance \in {"posts", "reader"}
MCNext == Next /\ Within /\ UNCHANGED instance
MCSpec == MCInit /\ [][MCNext]_<<vars, instance>>
=============================================================================
