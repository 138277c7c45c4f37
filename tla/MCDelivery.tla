----------------------------- MODULE MCDelivery -----------------------------
(***************************************************************************)
(* Two instances of SignalDelivery in one: either the private streams are  *)
(* used, with keys that rotate, or the public ones, on which the same      *)
(* texts come back.  The others stay as they began.                        *)
(***************************************************************************)
EXTENDS MCSignalDelivery

VARIABLE part \* which streams are used

(* Nobody subscribes, registers a key, listens or publishes: nothing else   *)
(* of a stream can change before.                                           *)
Unused(s) ==
  /\ joined[s] = {}
  /\ \A w \in Subscribers : chainKey[s][w] = NoKey /\ listenKey[w][s] = NoKey
  /\ \A p \in Publishers : session[p] # Idle => session[p].stream # s

(* Keys play no role on public streams: none is registered there, and the   *)
(* client listens with any.                                                 *)
Keyless(s) ==
  \A w \in Subscribers : chainKey[s][w] = NoKey /\ listenKey[w][s] \in {NoKey, 0}

Within ==
  \/ part = "private" /\ \A s \in PublicStreams : Unused(s)
  \/ /\ part = "public"
     /\ \A s \in Streams : IF s \in PublicStreams THEN Keyless(s) ELSE Unused(s)
     /\ Cardinality(recorded) <= 1

MCInit == Init /\ part \in {"private", "public"}
MCNext == Next /\ UNCHANGED part /\ Within'
MCSpec == MCInit /\ [][MCNext]_<<vars, part>>
=============================================================================
