---------------------------- MODULE SignalBoard ----------------------------
(***************************************************************************)
(* What the backend's signal store promises: one post per stream, replaced *)
(* as a whole.  A post is a signal together with the keys its symmetric    *)
(* key is wrapped for, and a signal is posted on one stream at a time.     *)
(* SqlSignalStore implements it; SignalDelivery is built on it.            *)
(***************************************************************************)
CONSTANTS
  Streams,
  Signals,  \* stored payloads, known by their signal_hash
  Readers,  \* X25519 public keys, known by their subscriber_id
  NoPost

Posts == [signal : Signals, readers : SUBSET Readers]

VARIABLE post

TypeOK == post \in [Streams -> Posts \cup {NoPost}]

Init == post = [s \in Streams |-> NoPost]

Posted(s, signal) == post[s] # NoPost /\ post[s].signal = signal

Publish(s, signal, readers) ==
  /\ \A other \in Streams \ {s} : ~Posted(other, signal)
  /\ post' = [post EXCEPT ![s] = [signal |-> signal, readers |-> readers]]

Next ==
  \E s \in Streams, signal \in Signals, readers \in SUBSET Readers :
    Publish(s, signal, readers)

Spec == Init /\ [][Next]_post
=============================================================================
