---------------------------- MODULE WalletPanes ----------------------------
(***************************************************************************)
(* What the pages show of the wallet that is connected.                    *)
(*                                                                         *)
(*   frontend/app/feed/FeedClient.tsx      the profiles it follows, the    *)
(*                                         streams it subscribes to        *)
(*   frontend/app/stream/[id]/StreamPageClient.tsx   its subscription, the *)
(*                                         key of that, agents, links      *)
(*   frontend/app/lib/userProfile.tsx      its profile, its follow counts  *)
(*   frontend/app/lib/walletKeyStatus.tsx  whether it registered a key     *)
(*   frontend/app/hooks/useCurrentUserProfileId.ts                         *)
(*   frontend/app/profile/ProfileContent.tsx, components/MyStreamsSection.tsx *)
(*   frontend/app/lib/api/*.ts             the caches in localStorage      *)
(*                                                                         *)
(* They share nothing but the wallet, so a behaviour is of one of them.    *)
(* An effect asks whenever another wallet is connected; what a pane shows  *)
(* until the answer comes, what it does with the answer to a wallet that   *)
(* has left, with a refusal and when the wallet leaves, differs.           *)
(***************************************************************************)
EXTENDS FiniteSets, Page

VARIABLES
  pane,     \* which of them this is
  owners,   \* the wallets whose data it shows
  ownCache, \* the wallet whose answer is in localStorage
  late      \* auxiliary: see OwnDataShown

paneVars == <<wallet, request, pane, owners, ownCache, late>>

(* cached: one wallet's answer is in localStorage and is looked at first.   *)
(* meanwhile: without it, what another wallet left is kept or not.          *)
(* counts: an answer counts while its wallet is connected, when its request *)
(* is the last that was numbered, or always.                                *)
(* refused: what a refused request leaves.                                  *)
Pane(cached, meanwhile, counts, refused) ==
  [cached |-> cached, meanwhile |-> meanwhile, counts |-> counts, refused |-> refused]
FollowingPane == Pane(TRUE, "nothing", "connected", "kept")
SubscribedPane == Pane(TRUE, "kept", "connected", "kept")
SubscriptionPane == Pane(TRUE, "kept", "connected", "nothing")
KeyPane == Pane(FALSE, "kept unless no subscription is known", "connected", "nothing")
AgentsPane == Pane(TRUE, "kept", "connected", "kept")
LinksPane == Pane(TRUE, "kept", "connected", "kept")
CountsPane == Pane(TRUE, "kept", "connected", "kept")
ProfilePane == Pane(FALSE, "kept", "last", "the bare address")
ProfileIdPane == Pane(FALSE, "kept", "connected", "nothing")
WalletKeyPane == Pane(FALSE, "nothing", "last", "nothing")
(* What these two have stays behind an invitation to connect.               *)
ProfilePanels == Pane(TRUE, "kept", "always", "kept")
(* The streams of everybody are in localStorage. *)
MyStreamsPane == Pane(FALSE, "kept unless streams are cached", "always", "kept")

Panes ==
  [following |-> FollowingPane, subscribed |-> SubscribedPane, subscription |-> SubscriptionPane,
   subscriptionKey |-> KeyPane, agents |-> AgentsPane, links |-> LinksPane,
   followCounts |-> CountsPane, profile |-> ProfilePane, profileId |-> ProfileIdPane,
   walletKey |-> WalletKeyPane, panels |-> ProfilePanels, myStreams |-> MyStreamsPane]
Is(trait, value) == Panes[pane][trait] = value

(* live: of the effect of the wallet connected, or the last numbered one.   *)
Fetches == [at : {"fetch", "refresh", "follow", "save"}, by : Wallets, live : BOOLEAN]
(* None is no request. *)
ASSUME PaneAssumption == None \notin Fetches

PaneTypeOK ==
  /\ wallet \in Wallets \cup {None}
  /\ request \in [Requests -> Fetches \cup {None}]
  /\ pane \in DOMAIN Panes /\ owners \subseteq Wallets
  /\ ownCache \in Wallets \cup {None} /\ late \in BOOLEAN

NoPane == pane = "following" /\ owners = {} /\ ownCache = None /\ late = FALSE
PaneInit ==
  /\ wallet = None /\ request = [r \in Requests |-> None]
  /\ pane \in DOMAIN Panes
  /\ owners = {} /\ late = FALSE
  /\ ownCache \in IF Panes[pane].cached THEN Wallets \cup {None} ELSE {None}

Asks(r, at) ==
  [o \in Requests |->
    IF o = r THEN [at |-> at, by |-> wallet', live |-> TRUE]
    ELSE IF request[o] = None \/ request[o].at # "fetch" THEN request[o]
    ELSE [request[o] EXCEPT !.live = FALSE]]
Fetching == \E r \in Requests : request[r] # None /\ request[r].at = "fetch" /\ request[r].live
Foreign(shown) == ~(shown \subseteq {wallet'})

Hit(w) == ownCache = w
ShownAtFirst(w) ==
  IF Hit(w) THEN {{w}}
  ELSE CASE Is("meanwhile", "nothing") -> {{}}
         [] Is("meanwhile", "kept") -> {owners}
         [] Is("meanwhile", "kept unless streams are cached") -> {owners, {w}}
         [] Is("meanwhile", "kept unless no subscription is known") -> {owners, {}}

Connect(r, w) ==
  /\ request[r] = None /\ w # wallet /\ wallet' = w
  /\ owners' \in ShownAtFirst(w)
  /\ late' = (late /\ Foreign(owners'))
  /\ \/ request' = Asks(r, "fetch")
     \/ /\ (pane = "followCounts" /\ Hit(w)) \/ (pane = "subscriptionKey" /\ owners' = {})
        /\ request' = [Asks(r, "fetch") EXCEPT ![r] = None]
  /\ UNCHANGED <<pane, ownCache>>

Disconnect ==
  /\ wallet # None /\ wallet' = None
  /\ IF Is("counts", "always") THEN UNCHANGED <<owners, late>> ELSE owners' = {} /\ late' = FALSE
  /\ request' =
       IF Is("counts", "last") THEN request
       ELSE [r \in Requests |->
              IF request[r] = None \/ request[r].at # "fetch" THEN request[r]
              ELSE [request[r] EXCEPT !.live = FALSE]]
  /\ UNCHANGED <<pane, ownCache>>

(* The effect of the key runs again when a subscription is found, that of   *)
(* the follow counts every 30 s, refresh after a first login.               *)
AskAgain(r) ==
  /\ request[r] = None /\ wallet # None /\ UNCHANGED wallet
  /\ pane \in {"subscriptionKey", "followCounts", "profile"}
  /\ request' = IF pane = "followCounts"
                THEN [request EXCEPT ![r] = [at |-> "fetch", by |-> wallet, live |-> TRUE]]
                ELSE Asks(r, "fetch")
  /\ UNCHANGED <<pane, owners, ownCache, late>>

(* followAuthor, saveProfile; refreshSubscription and refreshAgents, once   *)
(* something was bought or created.                                         *)
ChangeOf(p) ==
  CASE p = "following" -> "follow" [] p = "profile" -> "save" [] OTHER -> "refresh"
Change(r) ==
  /\ request[r] = None /\ wallet # None
  /\ pane \in {"following", "profile", "subscription", "agents"}
  /\ request' = [request EXCEPT ![r] = [at |-> ChangeOf(pane), by |-> wallet, live |-> TRUE]]
  /\ UNCHANGED <<wallet, pane, owners, ownCache, late>>

Applies_Slip(call) == TRUE
Applies(call) == call.live \/ Is("counts", "always")

Answered(r, ok) ==
  /\ request[r] # None /\ request[r].at = "fetch" /\ UNCHANGED wallet
  /\ LET call == request[r]
         shows == Applies(call) /\ (ok \/ ~Is("refused", "kept"))
         unasked == (Is("counts", "always") /\ ~call.live) \/ (Is("counts", "last") /\ wallet = None)
     IN  /\ owners' = IF ~shows THEN owners
                    ELSE IF ok \/ Is("refused", "the bare address") THEN {call.by} ELSE {}
         /\ late' = IF shows THEN unasked
                   ELSE late \/ (call.live /\ ~ok /\ ~(owners \subseteq {call.by}))
         /\ ownCache' = IF ok /\ Panes[pane].cached THEN call.by ELSE ownCache
  /\ request' = [request EXCEPT ![r] = None]
  /\ UNCHANGED pane

(* None of these looks whether its wallet is still the one connected.       *)
Changed(r, ok) ==
  /\ request[r] # None /\ request[r].at # "fetch" /\ UNCHANGED wallet
  /\ LET call == request[r]
     IN  /\ owners' = CASE ok /\ call.at = "follow" -> owners \cup {call.by}
                        [] ok /\ call.at # "follow" -> {call.by}
                        [] ~ok /\ call.at = "refresh" -> {}
                        [] OTHER -> owners
         /\ late' = (late \/ (ok /\ call.by # wallet))
         /\ ownCache' = IF ok /\ call.at = "refresh" THEN call.by ELSE ownCache
  /\ request' = [request EXCEPT ![r] = None]
  /\ UNCHANGED pane

PaneNext ==
  \/ \E r \in Requests :
       \/ \E w \in Wallets : Connect(r, w)
       \/ AskAgain(r) \/ Change(r)
       \/ \E ok \in BOOLEAN : Answered(r, ok) \/ Changed(r, ok)
  \/ Disconnect

PaneSpec == PaneInit /\ [][PaneNext]_paneVars

(* What is shown of a wallet is of the one connected, or that one's has     *)
(* been asked for and is on its way (the panes that are emptied do not show *)
(* another's even then).  late: it came when its wallet had left, to a       *)
(* handler that does not look, or the request for the wallet connected was  *)
(* refused.                                                                 *)
OwnDataShown ==
  \/ late \/ owners \subseteq {wallet}
  \/ ~Is("meanwhile", "nothing") /\ Fetching
  \/ Is("counts", "always") /\ wallet = None
=============================================================================
