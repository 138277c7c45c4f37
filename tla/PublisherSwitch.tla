-------------------------- MODULE PublisherSwitch --------------------------
(***************************************************************************)
(* An agent's permission to publish on a stream, and who changes it.       *)
(*                                                                         *)
(*   frontend/app/agent/[id]/AgentPageClient.tsx   the switch              *)
(*   mcp-server/src/server.ts   grant_publisher, revoke_publisher,         *)
(*                              publish_signal with delegated              *)
(*   sdk/src/transactions.ts, solana/streamRegistry.ts, publish.ts         *)
(*                                                                         *)
(* One stream, its owner and one agent; the instructions are as in          *)
(* StreamRegistry and SubscriptionRoyalty, on the one account of the agent. *)
(* A transaction that was sent lands at any later moment, fails or expires; *)
(* whoever waits for it may stop waiting before.                           *)
(***************************************************************************)
EXTENDS Web

Instructions == {"grant_publisher", "revoke_publisher", "record_signal_delegated"}
Sent == [does : Instructions, at : {"sent", "landed", "failed", "expired"}]
(* A toggle and the load of the status that ends it, or a load by itself.   *)
Toggles ==
  [at : {"build", "confirm", "account", "answer"},
   does : Instructions \cup {"load"}, tx : Requests \cup {None}, found : BOOLEAN]

(* What stands for nothing is nothing else. *)
ASSUME SwitchAssumption ==
  None \notin Sent \cup Toggles \cup Requests \cup BOOLEAN \cup {"Active", "Revoked"}

VARIABLES
  delegate,  \* the status of the agent's account, None without one
  sent,      \* transactions; the place of one that is over may be taken
  publishActive, \* on the page, None when unavailable
  toggle,    \* None when nothing is under way
  changed,   \* auxiliary: the account changed since the page last read it
  recorded   \* auxiliary: the agent recorded a signal since then

switchVars == <<delegate, sent, publishActive, toggle, changed, recorded>>

SwitchTypeOK ==
  /\ delegate \in {"Active", "Revoked", None}
  /\ sent \in [Requests -> Sent \cup {None}]
  /\ publishActive \in BOOLEAN \cup {None}
  /\ toggle \in Toggles \cup {None}
  /\ changed \in BOOLEAN /\ recorded \in BOOLEAN

NoSwitch ==
  /\ delegate = None /\ sent = [r \in Requests |-> None]
  /\ publishActive = None /\ toggle = None
  /\ changed = FALSE /\ recorded = FALSE

-----------------------------------------------------------------------------
(* Transactions. *)

Sends(r, does) ==
  sent[r] = None /\ sent' = [sent EXCEPT ![r] = [does |-> does, at |-> "sent"]]
Ends(r, how) == sent' = [sent EXCEPT ![r].at = how]
Pending(r) == sent[r] # None /\ sent[r].at = "sent"

(* Of the tools; the backend prepares a signal without asking who will      *)
(* record it.                                                               *)
CallTool(r, does) ==
  Sends(r, does) /\ UNCHANGED <<delegate, publishActive, toggle, changed, recorded>>

Grant(r) ==
  /\ sent[r].does = "grant_publisher"
  /\ delegate' = "Active" /\ UNCHANGED recorded
Revoke(r) ==
  /\ sent[r].does = "revoke_publisher" /\ delegate # None
  /\ delegate' = "Revoked" /\ UNCHANGED recorded
RecordDelegated(r) ==
  /\ sent[r].does = "record_signal_delegated" /\ delegate = "Active"
  /\ recorded' = TRUE /\ UNCHANGED delegate
Land(r) ==
  /\ Pending(r) /\ Ends(r, "landed")
  /\ Grant(r) \/ Revoke(r) \/ RecordDelegated(r)
  /\ changed' = (changed \/ delegate' # delegate)
  /\ UNCHANGED <<publishActive, toggle>>
NeverLand(r) ==
  /\ Pending(r) /\ (Ends(r, "failed") \/ Ends(r, "expired"))
  /\ UNCHANGED <<delegate, publishActive, toggle, changed, recorded>>
Vacate(r) ==
  /\ sent[r] # None /\ ~Pending(r)
  /\ toggle # None => toggle.tx # r
  /\ sent' = [sent EXCEPT ![r] = None]
  /\ UNCHANGED <<delegate, publishActive, toggle, changed, recorded>>

-----------------------------------------------------------------------------
(* The page. *)

ToggleAt(step) == toggle # None /\ toggle.at = step

Loads == [at |-> "account", does |-> "load", tx |-> None, found |-> FALSE]
OpenAgent ==
  /\ publishActive' = None /\ toggle' = Loads
  /\ UNCHANGED <<delegate, sent, changed, recorded>>

(* However a toggle goes, the status is loaded after it. *)
Reloads_Slip == None
Reloads == Loads

TogglePublishAccess ==
  /\ toggle = None /\ publishActive # None
  /\ toggle' = [at |-> "build", tx |-> None, found |-> FALSE,
                does |-> IF publishActive THEN "revoke_publisher" ELSE "grant_publisher"]
  /\ UNCHANGED <<delegate, sent, publishActive, changed, recorded>>

SendToggle(r) ==
  /\ ToggleAt("build") /\ Sends(r, toggle.does)
  /\ toggle' = [toggle EXCEPT !.at = "confirm", !.tx = r]
  /\ UNCHANGED <<delegate, publishActive, changed, recorded>>

(* By the wallet, by the node that simulates it, or for want of an answer.  *)
RefuseToggle ==
  /\ ToggleAt("build") /\ toggle' = Reloads
  /\ UNCHANGED <<delegate, sent, publishActive, changed, recorded>>

(* A transaction that failed is confirmed too; one that did not land may    *)
(* land once the page has given it up.                                      *)
ConfirmToggle ==
  /\ ToggleAt("confirm") /\ toggle' = Reloads
  /\ \/ /\ sent[toggle.tx].at \in {"landed", "failed"}
        /\ publishActive' = (toggle.does = "grant_publisher")
     \/ UNCHANGED publishActive
  /\ UNCHANGED <<delegate, sent, changed, recorded>>

LoadPublisherStatus ==
  /\ ToggleAt("account")
  /\ \/ /\ toggle' = [toggle EXCEPT !.at = "answer", !.found = (delegate = "Active")]
        /\ changed' = FALSE /\ recorded' = FALSE /\ UNCHANGED publishActive
     \/ toggle' = None /\ publishActive' = None /\ UNCHANGED <<changed, recorded>>
  /\ UNCHANGED <<delegate, sent>>

ShowStatus ==
  /\ ToggleAt("answer")
  /\ toggle' = None /\ publishActive' = toggle.found
  /\ UNCHANGED <<delegate, sent, changed, recorded>>

SwitchNext ==
  \/ \E r \in Requests :
       \/ \E does \in Instructions : CallTool(r, does)
       \/ Land(r) \/ NeverLand(r) \/ Vacate(r) \/ SendToggle(r)
  \/ OpenAgent \/ TogglePublishAccess \/ RefuseToggle \/ ConfirmToggle
  \/ LoadPublisherStatus \/ ShowStatus

SwitchSpec == NoSwitch /\ [][SwitchNext]_switchVars

(* Between two toggles the switch shows what the chain has, unless it was    *)
(* changed after the page read it, by a tool or by a transaction the page   *)
(* had given up; and an agent whose access is shown as disabled has          *)
(* recorded nothing since.                                                  *)
SwitchIsHonest ==
  toggle = None /\ publishActive # None /\ ~changed =>
    /\ publishActive <=> delegate = "Active"
    /\ ~publishActive => ~recorded
=============================================================================
