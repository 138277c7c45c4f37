----------------------------- MODULE SignalFeed -----------------------------
(***************************************************************************)
(* What listening promises: a listener is handed only what was announced,  *)
(* and never the same announcement twice.  SignalDelivery implements it.   *)
(***************************************************************************)
EXTENDS Naturals

CONSTANTS Listeners, Announcements

VARIABLES
  announced, \* the announcements made so far
  handed     \* how often each listener was handed each of them

feedVars == <<announced, handed>>

Init ==
  /\ announced = {}
  /\ handed = [l \in Listeners |-> [a \in Announcements |-> 0]]

Announce(a) ==
  /\ announced' = announced \cup {a}
  /\ UNCHANGED handed

Hand(l, a) ==
  /\ a \in announced
  /\ handed[l][a] = 0
  /\ handed' = [handed EXCEPT ![l][a] = 1]
  /\ UNCHANGED announced

Next ==
  \E a \in Announcements :
    \/ Announce(a)
    \/ \E l \in Listeners : Hand(l, a)

Spec == Init /\ [][Next]_feedVars
=============================================================================
