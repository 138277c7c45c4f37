----------------------------- MODULE Membership -----------------------------
(***************************************************************************)
(* What the subscription program promises of one stream's membership,      *)
(* without accounts, prices or passes: a wallet joins once, leaves and     *)
(* returns as it likes, is never forgotten, and the stream's head count    *)
(* follows each of these steps.  SubscriptionRoyalty implements it.        *)
(***************************************************************************)
EXTENDS Integers, FiniteSets

CONSTANTS Groups, People

VARIABLES
  joined,    \* who ever joined each group
  present,   \* who is in it now
  headcount  \* the published number of those

membershipVars == <<joined, present, headcount>>

Init ==
  /\ joined = [g \in Groups |-> {}]
  /\ present = [g \in Groups |-> {}]
  /\ headcount = [g \in Groups |-> 0]

Enter(g, p) ==
  /\ present' = [present EXCEPT ![g] = @ \cup {p}]
  /\ headcount' = [headcount EXCEPT ![g] = @ + 1]

Join(g, p) ==
  /\ p \notin joined[g]
  /\ joined' = [joined EXCEPT ![g] = @ \cup {p}]
  /\ Enter(g, p)

Return(g, p) ==
  /\ p \in joined[g] \ present[g]
  /\ Enter(g, p)
  /\ UNCHANGED joined

Leave(g, p) ==
  /\ p \in present[g]
  /\ present' = [present EXCEPT ![g] = @ \ {p}]
  /\ headcount' = [headcount EXCEPT ![g] = @ - 1]
  /\ UNCHANGED joined

Next == \E g \in Groups, p \in People : Join(g, p) \/ Return(g, p) \/ Leave(g, p)

Spec == Init /\ [][Next]_membershipVars
=============================================================================
