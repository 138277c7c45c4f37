---------------------------- MODULE Social_proofs ---------------------------
(***************************************************************************)
(* Theorems about the social service and the pages: the profile of a       *)
(* wallet and what it says with it, what pages show of the wallet          *)
(* connected, the heart of a post and the lists of posts, comments and     *)
(* links.  They hold for all sets of wallets, names and requests, and for  *)
(* pages of any size.                                                      *)
(***************************************************************************)
EXTENDS SocialService, WalletPanes, FeedPage, FiniteSetTheorems, SequenceTheorems,
        TLAPS

-----------------------------------------------------------------------------
(* WalletPanes *)

(* A request that counts was sent for the wallet connected, or for one that *)
(* left and no other came.                                                  *)
CallSound(call, now) ==
  /\ call.at = "fetch" /\ call.live =>
       \/ call.by = now
       \/ Is("counts", "last") /\ now = None
  /\ call.at = "follow" => pane = "following"
PaneInv ==
  /\ PaneTypeOK
  /\ \A r \in Requests : request[r] # None => CallSound(request[r], wallet)
  /\ OwnDataShown

LEMMA PaneFacts ==
  ASSUME pane \in DOMAIN Panes
  PROVE  /\ Is("counts", "last") => ~Is("refused", "kept") /\ ~Is("counts", "always")
         /\ pane = "following" => Is("meanwhile", "nothing") /\ ~Is("counts", "always")
         /\ pane \in {"subscriptionKey", "followCounts", "profile"} => ~Is("meanwhile", "nothing")
         /\ \/ Is("meanwhile", "nothing") \/ Is("meanwhile", "kept")
            \/ Is("meanwhile", "kept unless streams are cached")
            \/ Is("meanwhile", "kept unless no subscription is known")
<1>1. pane \in {"following", "subscribed", "subscription", "subscriptionKey", "agents", "links",
                "followCounts", "profile", "profileId", "walletKey", "panels", "myStreams"}
  BY DEF Panes
<1>2. CASE pane = "following"
  BY <1>2 DEF Is, Panes, Pane, FollowingPane
<1>3. CASE pane = "subscribed"
  BY <1>3 DEF Is, Panes, Pane, SubscribedPane
<1>4. CASE pane = "subscription"
  BY <1>4 DEF Is, Panes, Pane, SubscriptionPane
<1>5. CASE pane = "subscriptionKey"
  BY <1>5 DEF Is, Panes, Pane, KeyPane
<1>6. CASE pane = "agents"
  BY <1>6 DEF Is, Panes, Pane, AgentsPane
<1>7. CASE pane = "links"
  BY <1>7 DEF Is, Panes, Pane, LinksPane
<1>8. CASE pane = "followCounts"
  BY <1>8 DEF Is, Panes, Pane, CountsPane
<1>9. CASE pane = "profile"
  BY <1>9 DEF Is, Panes, Pane, ProfilePane
<1>10. CASE pane = "profileId"
  BY <1>10 DEF Is, Panes, Pane, ProfileIdPane
<1>11. CASE pane = "walletKey"
  BY <1>11 DEF Is, Panes, Pane, WalletKeyPane
<1>12. CASE pane = "panels"
  BY <1>12 DEF Is, Panes, Pane, ProfilePanels
<1>13. CASE pane = "myStreams"
  BY <1>13 DEF Is, Panes, Pane, MyStreamsPane
<1> QED
  BY <1>1, <1>2, <1>3, <1>4, <1>5, <1>6, <1>7, <1>8, <1>9, <1>10, <1>11, <1>12, <1>13

(* Of the requests under way, only the new one counts.                      *)
LEMMA AsksSound ==
  ASSUME PaneInv, NEW r \in Requests, wallet' \in Wallets, UNCHANGED pane
  PROVE  /\ Asks(r, "fetch") \in [Requests -> Fetches \cup {None}]
         /\ Asks(r, "fetch")[r] = [at |-> "fetch", by |-> wallet', live |-> TRUE]
         /\ \A o \in Requests : Asks(r, "fetch")[o] # None => CallSound(Asks(r, "fetch")[o], wallet')
<1> DEFINE new == [at |-> "fetch", by |-> wallet', live |-> TRUE]
<1> DEFINE after(o) == [request[o] EXCEPT !.live = FALSE]
<1> DEFINE all == Asks(r, "fetch")
<1>1. new \in Fetches /\ new.at = "fetch" /\ new.by = wallet'
  BY DEF Fetches
<1>2. \A o \in Requests : request[o] \in Fetches \cup {None}
  BY DEF PaneInv, PaneTypeOK
<1>3. ASSUME NEW o \in Requests, request[o] # None
      PROVE  after(o) \in Fetches /\ after(o).at = request[o].at /\ after(o).live = FALSE
  BY <1>2, <1>3 DEF Fetches
<1>4. /\ all[r] = new
      /\ \A o \in Requests \ {r} :
           all[o] = IF request[o] = None \/ request[o].at # "fetch" THEN request[o] ELSE after(o)
  BY DEF Asks
<1>5. all = [o \in Requests |-> all[o]]
  BY DEF Asks
<1> HIDE DEF new, after, all
<1>6. \A o \in Requests : all[o] \in Fetches \cup {None}
  BY <1>1, <1>2, <1>3, <1>4
<1>7. ASSUME NEW o \in Requests, all[o] # None PROVE CallSound(all[o], wallet')
  <2>1. CASE o = r
    BY <1>1, <1>4, <2>1 DEF CallSound
  <2>2. CASE o # r /\ request[o].at # "fetch"
    <3>1. all[o] = request[o]
      BY <1>4, <2>2
    <3> QED
      BY <1>7, <2>2, <3>1 DEF PaneInv, CallSound
  <2>3. CASE o # r /\ request[o].at = "fetch"
    <3>1. all[o] = after(o) /\ request[o] # None
      BY <1>4, <1>7, <2>3
    <3> QED
      BY <1>3, <2>3, <3>1 DEF CallSound
  <2> QED
    BY <2>1, <2>2, <2>3
<1>8. all \in [Requests -> Fetches \cup {None}]
  BY <1>5, <1>6
<1> QED
  BY <1>4, <1>7, <1>8 DEF new, all

LEMMA ConnectSound ==
  ASSUME PaneInv, NEW r \in Requests, NEW w \in Wallets, Connect(r, w)
  PROVE  PaneInv'
<1>1. /\ wallet' = w /\ UNCHANGED <<pane, ownCache>> /\ owners' \in ShownAtFirst(w)
      /\ late' = (late /\ Foreign(owners'))
  BY DEF Connect
<1>2. /\ owners' \subseteq Wallets
      /\ owners' \subseteq {w} \/ ~Is("meanwhile", "nothing")
      /\ Hit(w) => owners' = {w}
  <2>1. CASE Hit(w)
    BY <1>1, <2>1 DEF ShownAtFirst
  <2>2. CASE ~Hit(w)
    <3>1. owners \subseteq Wallets /\ pane \in DOMAIN Panes
      BY DEF PaneInv, PaneTypeOK
    <3>2. CASE Is("meanwhile", "nothing")
      BY <1>1, <2>2, <3>2 DEF ShownAtFirst, Is
    <3>3. CASE Is("meanwhile", "kept")
      BY <1>1, <2>2, <3>1, <3>3 DEF ShownAtFirst, Is
    <3>4. CASE Is("meanwhile", "kept unless streams are cached")
      BY <1>1, <2>2, <3>1, <3>4 DEF ShownAtFirst, Is
    <3>5. CASE Is("meanwhile", "kept unless no subscription is known")
      BY <1>1, <2>2, <3>1, <3>5 DEF ShownAtFirst, Is
    <3> QED
      BY <2>2, <3>1, <3>2, <3>3, <3>4, <3>5, PaneFacts
  <2> QED
    BY <2>1, <2>2
<1>3. PICK all \in [Requests -> Fetches \cup {None}] :
        /\ all[r] = [at |-> "fetch", by |-> w, live |-> TRUE]
        /\ \A o \in Requests : all[o] # None => CallSound(all[o], wallet')
        /\ \/ request' = all
           \/ request' = [all EXCEPT ![r] = None] /\ owners' \subseteq {w}
  BY <1>1, <1>2, AsksSound DEF Connect
<1>4. PaneTypeOK'
  BY <1>1, <1>2, <1>3 DEF PaneInv, PaneTypeOK
<1>5. (\A o \in Requests : request[o] # None => CallSound(request[o], wallet))'
  BY <1>1, <1>3 DEF CallSound, Is
<1>6. OwnDataShown'
  <2>1. CASE owners' \subseteq {w}
    BY <1>1, <2>1 DEF OwnDataShown
  <2>2. CASE ~(owners' \subseteq {w})
    <3> DEFINE new == [at |-> "fetch", by |-> w, live |-> TRUE]
    <3>1. new \in Fetches /\ new.at = "fetch" /\ new.live
      BY DEF Fetches
    <3>2. request'[r] = new
      BY <1>3, <2>2
    <3> HIDE DEF new
    <3>3. Fetching'
      BY <3>1, <3>2, PaneAssumption DEF Fetching
    <3>4. ~Is("meanwhile", "nothing")'
      BY <1>1, <1>2, <2>2 DEF Is
    <3> QED
      BY <3>3, <3>4 DEF OwnDataShown
  <2> QED
    BY <2>1, <2>2
<1> QED
  BY <1>4, <1>5, <1>6 DEF PaneInv

LEMMA DisconnectSound ==
  ASSUME PaneInv, Disconnect
  PROVE  PaneInv'
<1> DEFINE after(o) == [request[o] EXCEPT !.live = FALSE]
<1>1. /\ wallet' = None /\ UNCHANGED <<pane, ownCache>>
      /\ pane \in DOMAIN Panes /\ owners \subseteq Wallets /\ late \in BOOLEAN
      /\ \A o \in Requests : request[o] \in Fetches \cup {None}
  BY DEF Disconnect, PaneInv, PaneTypeOK
<1>2. /\ owners' \subseteq Wallets /\ late' \in BOOLEAN
      /\ OwnDataShown'
  BY <1>1 DEF Disconnect, OwnDataShown, Is
<1>3. ASSUME NEW o \in Requests, request[o] # None
      PROVE  /\ after(o) \in Fetches /\ CallSound(after(o), None)
             /\ Is("counts", "last") \/ request[o].at # "fetch" => CallSound(request[o], None)
  <2>1. /\ after(o) \in Fetches /\ after(o).at = request[o].at /\ after(o).live = FALSE
        /\ CallSound(request[o], wallet)
    BY <1>1, <1>3 DEF Fetches, PaneInv
  <2> QED
    BY <2>1 DEF CallSound
<1>4. /\ request' \in [Requests -> Fetches \cup {None}]
      /\ \A o \in Requests : request'[o] # None => CallSound(request'[o], None)
  <2>1. CASE Is("counts", "last")
    <3>1. request' = request
      BY <2>1 DEF Disconnect
    <3> QED
      BY <1>3, <2>1, <3>1 DEF PaneInv, PaneTypeOK
  <2>2. CASE ~Is("counts", "last")
    <3>1. request' = [o \in Requests |->
            IF request[o] = None \/ request[o].at # "fetch" THEN request[o] ELSE after(o)]
      BY <2>2 DEF Disconnect
    <3> HIDE DEF after
    <3> QED
      BY <1>1, <1>3, <3>1
  <2> QED
    BY <2>1, <2>2
<1>5. (\A o \in Requests : request[o] # None => CallSound(request[o], wallet))'
  BY <1>1, <1>4 DEF CallSound, Is
<1> QED
  BY <1>1, <1>2, <1>4, <1>5 DEF PaneInv, PaneTypeOK

LEMMA AskSound ==
  ASSUME PaneInv, NEW r \in Requests, AskAgain(r) \/ Change(r)
  PROVE  PaneInv'
<1>1. /\ UNCHANGED <<wallet, pane, owners, ownCache, late>>
      /\ request[r] = None /\ wallet \in Wallets
      /\ PaneTypeOK /\ pane \in DOMAIN Panes
  BY DEF AskAgain, Change, PaneInv, PaneTypeOK
<1>2. ASSUME NEW call, call \in Fetches, CallSound(call, wallet), request' = [request EXCEPT ![r] = call]
      PROVE  /\ request' \in [Requests -> Fetches \cup {None}]
             /\ \A o \in Requests : request'[o] # None => CallSound(request'[o], wallet)
             /\ Fetching => Fetching'
             /\ call.at = "fetch" /\ call.live => Fetching'
  <2>1. request' \in [Requests -> Fetches \cup {None}]
    BY <1>1, <1>2 DEF PaneTypeOK
  <2>2. request'[r] = call /\ \A o \in Requests \ {r} : request'[o] = request[o]
    BY <1>1, <1>2 DEF PaneTypeOK
  <2>3. \A o \in Requests : request'[o] # None => CallSound(request'[o], wallet)
    BY <1>2, <2>2 DEF PaneInv
  <2>4. Fetching => Fetching'
    BY <1>1, <2>2 DEF Fetching
  <2>5. call.at = "fetch" /\ call.live => Fetching'
    BY <1>2, <2>2, PaneAssumption DEF Fetching
  <2> QED
    BY <2>1, <2>3, <2>4, <2>5
<1>3. /\ request' \in [Requests -> Fetches \cup {None}]
      /\ \A o \in Requests : request'[o] # None => CallSound(request'[o], wallet)
      /\ Fetching => Fetching'
  <2> DEFINE fetch == [at |-> "fetch", by |-> wallet, live |-> TRUE]
  <2> DEFINE change == [at |-> ChangeOf(pane), by |-> wallet, live |-> TRUE]
  <2>1. fetch \in Fetches /\ fetch.at = "fetch" /\ fetch.live /\ CallSound(fetch, wallet)
    BY <1>1 DEF Fetches, CallSound
  <2>2. change \in Fetches /\ CallSound(change, wallet)
    <3>1. /\ ChangeOf(pane) \in {"follow", "save", "refresh"}
          /\ ChangeOf(pane) = "follow" => pane = "following"
      BY DEF ChangeOf
    <3> QED
      BY <1>1, <3>1 DEF Fetches, CallSound
  <2>3. CASE request' = Asks(r, "fetch")
    <3>1. /\ request' \in [Requests -> Fetches \cup {None}]
          /\ request'[r] = fetch
          /\ \A o \in Requests : request'[o] # None => CallSound(request'[o], wallet)
      BY <1>1, <2>3, AsksSound
    <3> HIDE DEF fetch
    <3> QED
      BY <2>1, <3>1, PaneAssumption DEF Fetching
  <2>4. CASE request' = [request EXCEPT ![r] = fetch]
    <3> HIDE DEF fetch
    <3> QED
      BY <1>2, <2>1, <2>4
  <2>5. CASE request' = [request EXCEPT ![r] = change]
    <3> HIDE DEF change
    <3> QED
      BY <1>2, <2>2, <2>5
  <2> QED
    BY <2>3, <2>4, <2>5 DEF AskAgain, Change
<1>4. OwnDataShown'
  BY <1>1, <1>3 DEF PaneInv, OwnDataShown, Is
<1>5. (\A o \in Requests : request[o] # None => CallSound(request[o], wallet))'
  BY <1>1, <1>3 DEF CallSound, Is
<1> QED
  BY <1>1, <1>3, <1>4, <1>5 DEF PaneInv, PaneTypeOK

(* A request that ends leaves the others.                                   *)
LEMMA EndsSound ==
  ASSUME PaneInv, NEW r \in Requests, request[r] # None,
         UNCHANGED <<wallet, pane>>, request' = [request EXCEPT ![r] = None],
         owners' \subseteq Wallets, late' \in BOOLEAN, ownCache' \in Wallets \cup {None},
         OwnDataShown'
  PROVE  PaneInv'
<1>1. /\ request' \in [Requests -> Fetches \cup {None}]
      /\ \A o \in Requests : request'[o] # None => request'[o] = request[o]
  BY DEF PaneInv, PaneTypeOK
<1>2. (\A o \in Requests : request[o] # None => CallSound(request[o], wallet))'
  BY <1>1 DEF PaneInv, CallSound, Is
<1> QED
  BY <1>1, <1>2 DEF PaneInv, PaneTypeOK

LEMMA AnsweredSound ==
  ASSUME PaneInv, NEW r \in Requests, NEW ok \in BOOLEAN, Answered(r, ok)
  PROVE  PaneInv'
<1> DEFINE call == request[r]
<1> DEFINE shows == Applies(call) /\ (ok \/ ~Is("refused", "kept"))
<1> DEFINE unasked ==
      (Is("counts", "always") /\ ~call.live) \/ (Is("counts", "last") /\ wallet = None)
<1>1. /\ call # None /\ call \in Fetches /\ call.at = "fetch" /\ CallSound(call, wallet)
      /\ UNCHANGED <<wallet, pane>> /\ request' = [request EXCEPT ![r] = None]
      /\ pane \in DOMAIN Panes /\ owners \subseteq Wallets /\ late \in BOOLEAN
      /\ ownCache \in Wallets \cup {None}
  BY DEF Answered, PaneInv, PaneTypeOK
<1>2. call.by \in Wallets /\ call.live \in BOOLEAN
  BY <1>1 DEF Fetches
<1>3. /\ owners' = IF ~shows THEN owners
                 ELSE IF ok \/ Is("refused", "the bare address") THEN {call.by} ELSE {}
      /\ late' = IF shows THEN unasked
                ELSE late \/ (call.live /\ ~ok /\ ~(owners \subseteq {call.by}))
      /\ ownCache' = IF ok /\ Panes[pane].cached THEN call.by ELSE ownCache
  BY DEF Answered
<1>4. owners' \subseteq Wallets /\ late' \in BOOLEAN /\ ownCache' \in Wallets \cup {None}
  <2>1. owners' \in {owners, {call.by}, {}}
    BY <1>3
  <2>2. late' \in {unasked, late \/ (call.live /\ ~ok /\ ~(owners \subseteq {call.by}))}
    BY <1>3
  <2> QED
    BY <1>1, <1>2, <1>3, <2>1, <2>2
<1>5. OwnDataShown'
  <2>1. CASE shows
    <3>1. owners' \subseteq {call.by} /\ late' = unasked
      BY <1>3, <2>1
    <3>2. call.by = wallet \/ unasked
      BY <1>1, <2>1, PaneFacts DEF CallSound, Applies
    <3> QED
      BY <1>1, <3>1, <3>2 DEF OwnDataShown
  <2>2. CASE ~shows /\ call.live /\ ~ok
    <3>1. owners' = owners /\ late' = (late \/ ~(owners \subseteq {call.by}))
      BY <1>3, <2>2
    <3>2. Is("refused", "kept")
      BY <2>2 DEF Applies
    <3>3. call.by = wallet
      BY <1>1, <2>2, <3>2, PaneFacts DEF CallSound
    <3> QED
      BY <1>1, <3>1, <3>3 DEF OwnDataShown
  <2>3. CASE ~shows /\ ~(call.live /\ ~ok)
    <3>1. owners' = owners /\ late' = late
      BY <1>1, <1>3, <2>3
    <3>2. ~call.live
      BY <2>3 DEF Applies
    <3>3. Fetching => Fetching'
      BY <1>1, <3>2 DEF Fetching, PaneInv, PaneTypeOK
    <3> QED
      BY <1>1, <3>1, <3>3 DEF PaneInv, OwnDataShown, Is
  <2> QED
    BY <2>1, <2>2, <2>3
<1> QED
  BY <1>1, <1>4, <1>5, EndsSound

LEMMA ChangedSound ==
  ASSUME PaneInv, NEW r \in Requests, NEW ok \in BOOLEAN, Changed(r, ok)
  PROVE  PaneInv'
<1> DEFINE call == request[r]
<1>1. /\ call # None /\ call \in Fetches /\ call.at # "fetch" /\ CallSound(call, wallet)
      /\ UNCHANGED <<wallet, pane>> /\ request' = [request EXCEPT ![r] = None]
      /\ pane \in DOMAIN Panes /\ owners \subseteq Wallets /\ late \in BOOLEAN
      /\ ownCache \in Wallets \cup {None}
  BY DEF Changed, PaneInv, PaneTypeOK
<1>2. call.by \in Wallets
  BY <1>1 DEF Fetches
<1>3. /\ owners' = CASE ok /\ call.at = "follow" -> owners \cup {call.by}
                     [] ok /\ call.at # "follow" -> {call.by}
                     [] ~ok /\ call.at = "refresh" -> {}
                     [] OTHER -> owners
      /\ late' = (late \/ (ok /\ call.by # wallet))
      /\ ownCache' = IF ok /\ call.at = "refresh" THEN call.by ELSE ownCache
  BY DEF Changed
<1>4. owners' \subseteq Wallets /\ late' \in BOOLEAN /\ ownCache' \in Wallets \cup {None}
  <2>1. owners' \in {owners, {call.by}, {}, owners \cup {call.by}}
    BY <1>3
  <2> QED
    BY <1>1, <1>2, <1>3, <2>1
<1>5. OwnDataShown'
  <2>1. Fetching => Fetching'
    BY <1>1 DEF Fetching, PaneInv, PaneTypeOK
  <2>2. CASE late'
    BY <2>2 DEF OwnDataShown
  <2>3. CASE ~late' /\ ok /\ call.at = "follow"
    <3>1. owners' = owners \cup {wallet}
      BY <1>3, <2>3
    <3>2. owners \subseteq {wallet}
      BY <1>1, <1>3, <2>3, PaneFacts DEF PaneInv, OwnDataShown, CallSound
    <3> QED
      BY <1>1, <3>1, <3>2 DEF OwnDataShown
  <2>4. CASE ~late' /\ ok /\ call.at # "follow"
    <3>1. owners' = {wallet}
      BY <1>3, <2>4
    <3> QED
      BY <1>1, <3>1 DEF OwnDataShown
  <2>5. CASE ~late' /\ ~ok
    <3>1. owners' \in {{}, owners} /\ late' = late
      BY <1>1, <1>3, <2>5
    <3> QED
      BY <1>1, <2>1, <3>1 DEF PaneInv, OwnDataShown, Is
  <2> QED
    BY <1>3, <2>2, <2>3, <2>4, <2>5
<1> QED
  BY <1>1, <1>4, <1>5, EndsSound

(* Twelve panes: what is shown of a wallet is of the one connected, or what *)
(* it should show is on its way, through requests that overlap in any       *)
(* number and order (FeedClient, StreamPageClient, userProfile, ...).       *)
THEOREM OwnDataCorrect == PaneSpec => []OwnDataShown
<1>1. PaneInit => PaneInv
  BY DEF PaneInit, PaneInv, PaneTypeOK, OwnDataShown
<1>2. PaneInv /\ [PaneNext]_paneVars => PaneInv'
  <2> SUFFICES ASSUME PaneInv, [PaneNext]_paneVars PROVE PaneInv'
    OBVIOUS
  <2>1. CASE PaneNext
    BY <2>1, ConnectSound, DisconnectSound, AskSound, AnsweredSound, ChangedSound DEF PaneNext
  <2>2. CASE UNCHANGED paneVars
    BY <2>2 DEF paneVars, PaneInv, PaneTypeOK, CallSound, OwnDataShown, Fetching, Is
  <2> QED
    BY <2>1, <2>2
<1>3. PaneInv => OwnDataShown
  BY DEF PaneInv
<1> QED
  BY <1>1, <1>2, <1>3, PTL DEF PaneSpec

-----------------------------------------------------------------------------
(* FeedPage: the heart *)

(* The server before and after the press, of a request that nothing         *)
(* overlapped.                                                              *)
PressSound(r) ==
  LET call == request[r]
  IN  call.alone =>
        /\ Busy(r) = {} /\ call.by = wallet /\ (liked <=> ~call.was)
        /\ call.at = "toggle" /\ call.before => (call.was <=> wallet \in likesOn)
        /\ call.at = "count" => (liked <=> wallet \in likesOn)
HeartInv ==
  /\ wallet \in Wallets \cup {None} /\ likesOn \subseteq Wallets
  /\ liked \in BOOLEAN /\ sure \in BOOLEAN
  /\ request \in [Requests -> Presses \cup {None}]
  /\ \A r \in Requests : ~Free(r) => ~sure /\ PressSound(r)
  /\ HeartIsHonest

LEMMA HeartFacts ==
  ASSUME HeartInv, NEW r \in Requests, ~Free(r)
  PROVE  /\ request[r] \in Presses /\ ~sure /\ PressSound(r)
         /\ request[r].by \in Wallets /\ request[r].was \in BOOLEAN
         /\ request[r].before \in BOOLEAN /\ request[r].alone \in BOOLEAN
         /\ request[r].at \in {"toggle", "count"}
<1>1. request[r] \in Presses /\ ~sure /\ PressSound(r)
  BY DEF HeartInv, Free
<1> QED
  BY <1>1 DEF Presses

(* A press that another joins, or whose wallet leaves, is alone no more.    *)
LEMMA NotAlone ==
  ASSUME HeartInv, NEW o \in Requests, ~Free(o)
  PROVE  [request[o] EXCEPT !.alone = FALSE] \in Presses
         /\ ~[request[o] EXCEPT !.alone = FALSE].alone
BY HeartFacts DEF Presses

LEMMA PressKeepsHeart ==
  ASSUME HeartInv, NEW r \in Requests, Press(r)
  PROVE  HeartInv'
<1> DEFINE new == [at |-> "toggle", by |-> wallet, was |-> liked, before |-> sure,
                   alone |-> Busy(r) = {}]
<1> DEFINE after(o) == [request[o] EXCEPT !.alone = FALSE]
<1>1. /\ Free(r) /\ wallet \in Wallets /\ liked' = ~liked /\ sure' = FALSE
      /\ UNCHANGED <<wallet, likesOn>>
      /\ request' = [o \in Requests |-> IF o = r THEN new ELSE IF Free(o) THEN None ELSE after(o)]
  BY DEF Press, Send, HeartInv
<1>2. /\ new \in Presses /\ new.at = "toggle" /\ new.by = wallet /\ new.was = liked
      /\ new.before = sure /\ new.alone = (Busy(r) = {})
  BY <1>1 DEF Presses, HeartInv
<1>3. \A o \in Requests : ~Free(o) => after(o) \in Presses /\ ~after(o).alone
  BY NotAlone
<1> HIDE DEF new, after
<1>4. request' \in [Requests -> Presses \cup {None}]
  BY <1>1, <1>2, <1>3
<1>5. ASSUME NEW o \in Requests, ~Free(o)' PROVE PressSound(o)'
  <2>1. CASE o = r
    <3>1. request'[o] = new
      BY <1>1, <2>1
    <3>2. new.alone => Busy(o)' = {}
      BY <1>1, <1>2, <2>1 DEF Busy, Free
    <3> QED
      BY <1>1, <1>2, <3>1, <3>2 DEF PressSound, HeartInv, HeartIsHonest
  <2>2. CASE o # r
    <3>1. request'[o] = after(o) /\ ~Free(o)
      BY <1>1, <1>5, <2>2 DEF Free
    <3> QED
      BY <1>3, <3>1 DEF PressSound
  <2> QED
    BY <2>1, <2>2
<1> QED
  BY <1>1, <1>4, <1>5 DEF HeartInv, HeartIsHonest

(* The end of a request, or its next await.                                 *)
LEMMA TurnKeepsHeart ==
  ASSUME HeartInv, NEW r \in Requests, ~Free(r), NEW call \in Presses \cup {None}, Turns(r, call),
         UNCHANGED wallet, likesOn' \subseteq Wallets, liked' \in BOOLEAN, sure' \in BOOLEAN,
         ~request[r].alone => sure' = FALSE,
         call # None => call.alone = request[r].alone /\ call.by = request[r].by /\ sure' = FALSE,
         call # None /\ call.alone =>
           (liked' <=> ~call.was) /\ call.at = "count" /\ (liked' <=> call.by \in likesOn'),
         sure' => (liked' <=> wallet \in likesOn')
  PROVE  HeartInv'
<1>1. /\ request \in [Requests -> Presses \cup {None}]
      /\ PressSound(r)
  BY DEF HeartInv
<1>2. /\ request' \in [Requests -> Presses \cup {None}] /\ request'[r] = call
      /\ \A o \in Requests \ {r} : request'[o] = request[o]
  BY <1>1 DEF Turns
<1>3. ASSUME NEW o \in Requests, ~Free(o)' PROVE ~sure' /\ PressSound(o)'
  <2>1. CASE o = r
    <3>1. call # None /\ request'[o] = call
      BY <1>2, <1>3, <2>1 DEF Free
    <3>2. call.alone => Busy(o)' = {} /\ call.by = wallet
      BY <1>1, <1>2, <2>1, <3>1 DEF PressSound, Busy, Free
    <3> QED
      BY <3>1, <3>2 DEF PressSound
  <2>2. CASE o # r
    <3>1. ~Free(o) /\ o \in Busy(r) /\ r \in Busy(o) /\ request'[o] = request[o]
      BY <1>2, <1>3, <2>2 DEF Free, Busy
    <3>2. ~request[r].alone /\ ~request[o].alone
      BY <1>1, <3>1 DEF HeartInv, PressSound
    <3> QED
      BY <3>1, <3>2 DEF PressSound
  <2> QED
    BY <2>1, <2>2
<1> QED
  BY <1>2, <1>3 DEF HeartInv, HeartIsHonest

LEMMA ToggleKeepsHeart ==
  ASSUME HeartInv, NEW r \in Requests, Toggle(r)
  PROVE  HeartInv'
<1> DEFINE call == request[r]
<1> DEFINE after == IF call.was THEN likesOn \ {call.by} ELSE likesOn \cup {call.by}
<1>1. /\ ~Free(r) /\ call.at = "toggle" /\ UNCHANGED wallet
      /\ likesOn \subseteq Wallets /\ liked \in BOOLEAN
  BY DEF Toggle, HeartInv
<1>2. /\ call \in Presses /\ ~sure /\ PressSound(r)
      /\ call.by \in Wallets /\ call.was \in BOOLEAN /\ call.before \in BOOLEAN /\ call.alone \in BOOLEAN
  BY <1>1, HeartFacts
<1>3. after \subseteq Wallets /\ (call.by \in after <=> ~call.was)
  BY <1>1, <1>2
<1>4. CASE /\ likesOn' = after /\ Turns(r, [call EXCEPT !.at = "count"])
           /\ UNCHANGED <<liked, sure>>
  <2> DEFINE next == [call EXCEPT !.at = "count"]
  <2>1. /\ next \in Presses /\ next.at = "count" /\ next.by = call.by /\ next.was = call.was
        /\ next.alone = call.alone
    BY <1>2 DEF Presses
  <2>2. call.alone => (liked <=> ~call.was)
    BY <1>2 DEF PressSound
  <2> HIDE DEF next
  <2>3. Turns(r, next)
    BY <1>4 DEF next
  <2> QED
    BY <1>1, <1>2, <1>3, <1>4, <2>1, <2>2, <2>3, TurnKeepsHeart DEF HeartInv
<1>5. CASE /\ likesOn' \in {likesOn, after} /\ Turns(r, None) /\ liked' = call.was
           /\ sure' = (call.alone /\ call.before /\ likesOn' = likesOn)
  <2>1. sure' => (liked' <=> wallet \in likesOn')
    BY <1>1, <1>2, <1>5 DEF PressSound
  <2> QED
    BY <1>1, <1>2, <1>3, <1>5, <2>1, TurnKeepsHeart
<1> QED
  BY <1>4, <1>5 DEF Toggle, TurnedBack

LEMMA CountKeepsHeart ==
  ASSUME HeartInv, NEW r \in Requests, Count(r)
  PROVE  HeartInv'
<1>1. /\ ~Free(r) /\ request[r].at = "count" /\ Turns(r, None) /\ UNCHANGED <<wallet, likesOn>>
      /\ likesOn \subseteq Wallets /\ liked \in BOOLEAN
      /\ \/ sure' = request[r].alone /\ liked' = liked
         \/ sure' = FALSE /\ liked' = request[r].was
  BY DEF Count, TurnedBack, HeartInv
<1>2. request[r].alone \in BOOLEAN /\ request[r].was \in BOOLEAN /\ PressSound(r)
  BY <1>1, HeartFacts
<1>3. sure' => (liked' <=> wallet \in likesOn')
  BY <1>1, <1>2 DEF PressSound
<1> QED
  BY <1>1, <1>2, <1>3, TurnKeepsHeart

LEMMA SwitchKeepsHeart ==
  ASSUME HeartInv, NEW w \in Wallets \cup {None}, SwitchWallet(w)
  PROVE  HeartInv'
<1> DEFINE after(o) == [request[o] EXCEPT !.alone = FALSE]
<1>1. /\ wallet' = w /\ sure' = FALSE /\ UNCHANGED <<liked, likesOn>>
      /\ request' = [o \in Requests |-> IF Free(o) THEN None ELSE after(o)]
  BY DEF SwitchWallet
<1>2. \A o \in Requests : ~Free(o) => after(o) \in Presses /\ ~after(o).alone
  BY NotAlone
<1> HIDE DEF after
<1>3. request' \in [Requests -> Presses \cup {None}]
  BY <1>1, <1>2
<1>4. \A o \in Requests : ~Free(o)' => PressSound(o)'
  BY <1>1, <1>2 DEF PressSound, Free
<1> QED
  BY <1>1, <1>3, <1>4 DEF HeartInv, HeartIsHonest

(* toggleLike: however presses, their answers, failures and wallets         *)
(* overlap, a press that ran alone and was answered leaves the heart as the *)
(* server has it.                                                           *)
THEOREM HeartCorrect == HeartSpec => []HeartIsHonest
<1>1. HeartInit => HeartInv
  BY DEF HeartInit, HeartInv, HeartIsHonest, Free
<1>2. HeartInv /\ [HeartNext]_feedVars => HeartInv'
  <2> SUFFICES ASSUME HeartInv, [HeartNext]_feedVars PROVE HeartInv'
    OBVIOUS
  <2>1. CASE HeartNext
    BY <2>1, PressKeepsHeart, ToggleKeepsHeart, CountKeepsHeart, SwitchKeepsHeart DEF HeartNext
  <2>2. CASE UNCHANGED feedVars
    BY <2>2 DEF feedVars, heartVars, HeartInv, HeartIsHonest, PressSound, Busy, Free
  <2> QED
    BY <2>1, <2>2
<1>3. HeartInv => HeartIsHonest
  BY DEF HeartInv
<1> QED
  BY <1>1, <1>2, <1>3, PTL DEF HeartSpec

-----------------------------------------------------------------------------
(* FeedPage: a list *)

(* The members of a set of numbers by their rank. *)
RankIn(K, i) == Cardinality({j \in K : j <= i})
NthOf(K, k) == CHOOSE i \in K : RankIn(K, i) = k

(* Ranks are counted from 1 on, and in the order of the numbers.            *)
LEMMA RankFacts ==
  ASSUME NEW n \in Nat, NEW K \in SUBSET (1 .. n)
  PROVE  /\ IsFiniteSet(K) /\ Cardinality(K) \in 0 .. n
         /\ \A i \in K : RankIn(K, i) \in 1 .. Cardinality(K) /\ RankIn(K, i) <= i
         /\ \A i, j \in K : i < j => RankIn(K, i) < RankIn(K, j)
<1>1. \A i \in 0 .. n : IsFiniteSet(1 .. i) /\ Cardinality(1 .. i) = i
  BY FS_Interval
<1>2. IsFiniteSet(K) /\ Cardinality(K) \in 0 .. n
  <2>1. IsFiniteSet(1 .. n) /\ Cardinality(1 .. n) = n
    BY <1>1
  <2>2. IsFiniteSet(K) /\ Cardinality(K) <= n
    BY <2>1, FS_Subset
  <2> QED
    BY <2>2, FS_CardinalityType
<1>3. ASSUME NEW i \in K
      PROVE  RankIn(K, i) \in 1 .. Cardinality(K) /\ RankIn(K, i) <= i
  <2> DEFINE T == {j \in K : j <= i}
  <2>1. i \in 1 .. n /\ T \in SUBSET K /\ i \in T
    OBVIOUS
  <2> HIDE DEF T
  <2>5. T \in SUBSET (1 .. i)
    <3>1. ASSUME NEW m \in T
          PROVE  m \in 1 .. i
      <4>1. m \in 1 .. n /\ m <= i
        BY DEF T
      <4> QED
        BY <2>1, <4>1
    <3> QED
      BY <3>1
  <2>2. IsFiniteSet(T) /\ Cardinality(T) <= Cardinality(K) /\ Cardinality(T) \in Nat
    BY <1>2, <2>1, FS_Subset, FS_CardinalityType
  <2>3. Cardinality(T) # 0
    BY <2>1, <2>2, FS_EmptySet
  <2>4. Cardinality(T) <= i
    <3>1. IsFiniteSet(1 .. i) /\ Cardinality(1 .. i) = i
      BY <1>1, <2>1
    <3> QED
      BY <2>5, <3>1, FS_Subset
  <2> QED
    BY <1>2, <2>2, <2>3, <2>4 DEF RankIn, T
<1>4. ASSUME NEW i \in K, NEW j \in K, i < j
      PROVE  RankIn(K, i) < RankIn(K, j)
  <2> DEFINE T == {m \in K : m <= i}
             U == {m \in K : m <= j}
  <2>6. i \in 1 .. n /\ j \in 1 .. n
    OBVIOUS
  <2>1. T \in SUBSET U /\ j \in U /\ j \notin T /\ U \in SUBSET K
    <3>1. \A m \in K : m <= i => m <= j
      BY <1>4, <2>6
    <3>2. ~(j <= i) /\ j <= j
      BY <1>4, <2>6
    <3>3. T \in SUBSET U /\ U \in SUBSET K
      BY <3>1
    <3> QED
      BY <3>2, <3>3
  <2>2. IsFiniteSet(U)
    BY <1>2, <2>1, FS_Subset
  <2>3. Cardinality(T) <= Cardinality(U) /\ Cardinality(T) # Cardinality(U)
    BY <2>1, <2>2, FS_Subset
  <2>4. Cardinality(T) \in Nat /\ Cardinality(U) \in Nat
    BY <2>1, <2>2, FS_Subset, FS_CardinalityType
  <2> HIDE DEF T, U
  <2>5. Cardinality(T) < Cardinality(U)
    BY <2>3, <2>4
  <2> QED
    BY <2>5 DEF RankIn, T, U
<1> QED
  BY <1>2, <1>3, <1>4

(* The k-th of a set of numbers has rank k, and is k or higher.             *)
LEMMA NthFacts ==
  ASSUME NEW n \in Nat, NEW K \in SUBSET (1 .. n)
  PROVE  /\ \A k \in 1 .. Cardinality(K) : NthOf(K, k) \in K /\ NthOf(K, k) >= k
         /\ \A k, m \in 1 .. Cardinality(K) : k < m => NthOf(K, k) < NthOf(K, m)
         /\ K = 1 .. n => Cardinality(K) = n /\ \A k \in 1 .. n : NthOf(K, k) = k
<1> DEFINE c == Cardinality(K)
           f == [i \in K |-> RankIn(K, i)]
<1>1. IsFiniteSet(K) /\ c \in 0 .. n /\ IsFiniteSet(1 .. c) /\ Cardinality(1 .. c) = c
  <2>1. IsFiniteSet(K) /\ c \in 0 .. n
    BY RankFacts
  <2> HIDE DEF c
  <2>2. c \in Int /\ ~(1 > c) => IsFiniteSet(1 .. c) /\ Cardinality(1 .. c) = c
    BY FS_Interval
  <2>3. 1 > c /\ c \in 0 .. n => c = 0 /\ 1 .. c = {}
    OBVIOUS
  <2>4. IsFiniteSet(1 .. c) /\ Cardinality(1 .. c) = c
    BY <2>1, <2>2, <2>3, FS_EmptySet
  <2> QED
    BY <2>1, <2>4
<1>2. f \in [K -> 1 .. c]
  BY RankFacts
<1>3. \A i, j \in K : f[i] = f[j] => i = j
  BY RankFacts
<1>4. f \in Surjection(K, 1 .. c)
  BY <1>1, <1>2, <1>3, FS_Injection DEF Injection, IsInjective
<1>5. ASSUME NEW k \in 1 .. c
      PROVE  NthOf(K, k) \in K /\ RankIn(K, NthOf(K, k)) = k
  <2>1. PICK i \in K : RankIn(K, i) = k
    BY <1>4 DEF Surjection
  <2> QED
    BY <2>1 DEF NthOf
<1>6. \A k \in 1 .. c : NthOf(K, k) \in K /\ NthOf(K, k) >= k
  BY <1>1, <1>5, RankFacts
<1>7. ASSUME NEW k \in 1 .. c, NEW m \in 1 .. c, k < m
      PROVE  NthOf(K, k) < NthOf(K, m)
  <2>1. NthOf(K, k) \in 1 .. n /\ NthOf(K, m) \in 1 .. n
    BY <1>5
  <2>2. NthOf(K, k) # NthOf(K, m)
    BY <1>1, <1>5, <1>7
  <2>3. CASE NthOf(K, m) < NthOf(K, k)
    <3>1. RankIn(K, NthOf(K, m)) < RankIn(K, NthOf(K, k))
      BY <1>5, <2>3, RankFacts
    <3> QED
      BY <1>1, <1>5, <1>7, <3>1
  <2> QED
    BY <2>1, <2>2, <2>3
<1>8. ASSUME K = 1 .. n
      PROVE  c = n /\ \A k \in 1 .. n : NthOf(K, k) = k
  <2>1. c = n
    BY <1>8, FS_Interval
  <2>2. ASSUME NEW k \in 1 .. n
        PROVE  NthOf(K, k) = k
    <3> DEFINE i == NthOf(K, k)
    <3>1. i \in K /\ RankIn(K, i) = k
      BY <1>5, <2>1
    <3>2. {j \in K : j <= i} = 1 .. i
      BY <1>8, <3>1
    <3>3. RankIn(K, i) = i
      <4>1. i \in 1 .. n /\ Cardinality(1 .. i) = i
        BY <1>8, <3>1, FS_Interval
      <4> QED
        BY <3>2, <4>1 DEF RankIn
    <3> QED
      BY <3>1, <3>3
  <2> QED
    BY <2>1, <2>2
<1> QED
  BY <1>6, <1>7, <1>8

(* The filter of a list: each of its items stood at the same place or       *)
(* further down, in the same order; what was not in the list, is not missed. *)
Place(list, item, k) == NthOf({i \in DOMAIN list : list[i] # item}, k)

LEMMA WithoutFacts ==
  ASSUME NEW S, NEW list \in Seq(S), NEW item
  PROVE  /\ Without(list, item) \in Seq(S) /\ Len(Without(list, item)) <= Len(list)
         /\ \A k \in DOMAIN Without(list, item) :
              /\ k \in Nat /\ Place(list, item, k) \in DOMAIN list
              /\ Place(list, item, k) >= k
              /\ Without(list, item)[k] = list[Place(list, item, k)]
              /\ Without(list, item)[k] # item
         /\ \A k, m \in DOMAIN Without(list, item) :
              k < m => Place(list, item, k) < Place(list, item, m)
         /\ (\A i \in DOMAIN list : list[i] # item) => Without(list, item) = list
<1> DEFINE K == {i \in DOMAIN list : list[i] # item}
           c == Cardinality(K)
<1>1. Len(list) \in Nat /\ DOMAIN list = 1 .. Len(list) /\ K \in SUBSET (1 .. Len(list))
  OBVIOUS
<1>2. c \in Nat
  BY <1>1, RankFacts
<1>3. Without(list, item) = [k \in 1 .. c |-> list[Place(list, item, k)]]
  BY DEF Without, NthOf, RankIn, Place
<1>4. \A k \in 1 .. c : Place(list, item, k) \in K /\ Place(list, item, k) >= k
  BY <1>1, NthFacts DEF Place
<1>5. \A k, m \in 1 .. c : k < m => Place(list, item, k) < Place(list, item, m)
  BY <1>1, NthFacts DEF Place
<1>6. Without(list, item) \in Seq(S)
  <2>1. \A k \in 1 .. c : Place(list, item, k) \in 1 .. Len(list)
    BY <1>1, <1>4
  <2> HIDE DEF K, c
  <2>2. [k \in 1 .. c |-> list[Place(list, item, k)]] \in [1 .. c -> S]
    BY <2>1, ElementOfSeq
  <2> QED
    BY <1>2, <1>3, <2>2, SeqDef
<1>9. (\A i \in DOMAIN list : list[i] # item) => Without(list, item) = list
  <2> SUFFICES ASSUME \A i \in DOMAIN list : list[i] # item
               PROVE  Without(list, item) = list
    OBVIOUS
  <2>1. K = 1 .. Len(list)
    BY <1>1
  <2>2. c = Len(list) /\ \A k \in 1 .. c : Place(list, item, k) = k
    BY <1>1, <2>1, NthFacts DEF Place
  <2>3. list = [k \in 1 .. Len(list) |-> list[k]]
    OBVIOUS
  <2> QED
    BY <1>3, <2>2, <2>3
<1>10. \A k \in 1 .. c : list[Place(list, item, k)] # item /\ Place(list, item, k) \in DOMAIN list
  BY <1>4
<1> HIDE DEF K, c
<1>11. \A k \in 1 .. c : Without(list, item)[k] = list[Place(list, item, k)] /\ k \in Nat
  BY <1>2, <1>3
<1>12. DOMAIN Without(list, item) = 1 .. c
  BY <1>3
<1>13. Len(Without(list, item)) <= Len(list)
  <2>1. c <= Len(list)
    BY <1>1, RankFacts DEF K, c
  <2>2. Len(Without(list, item)) = c
    BY <1>2, <1>6, <1>12, LenProperties
  <2> QED
    BY <2>1, <2>2
<1> QED
  BY <1>4, <1>5, <1>6, <1>9, <1>10, <1>11, <1>12, <1>13

(* An item more. *)
LEMMA AppendFacts ==
  ASSUME NEW S, NEW list \in Seq(S), NEW item
  PROVE  /\ Append(list, item) \in Seq(S \cup {item})
         /\ Len(Append(list, item)) = Len(list) + 1
         /\ DOMAIN Append(list, item) = 1 .. Len(list) + 1
         /\ \A i \in 1 .. Len(list) : Append(list, item)[i] = list[i]
         /\ Append(list, item)[Len(list) + 1] = item
BY AppendProperties

(* A list is the first of another when it agrees with it wherever it has an *)
(* item.                                                                    *)
LEMMA PrefixFacts ==
  ASSUME NEW S, NEW s \in Seq(S), NEW t \in Seq(S)
  PROVE  IsPrefix(s, t) <=> Len(s) <= Len(t) /\ \A i \in 1 .. Len(s) : s[i] = t[i]
<1>1. SubSeq(s, 1, Len(s)) = s
  BY SubSeqFull
<1>2. ASSUME Len(s) <= Len(t)
      PROVE  SubSeq(t, 1, Len(s)) = s <=> \A i \in 1 .. Len(s) : s[i] = t[i]
  <2> DEFINE u == SubSeq(t, 1, Len(s))
  <2>1. \A i \in 1 .. Len(s) : t[i] \in S
    BY <1>2
  <2>2. u \in Seq(S) /\ Len(u) = Len(s) /\ \A i \in 1 .. Len(s) : u[i] = t[i]
    BY <2>1, SubSeqProperties
  <2>3. u = s <=> \A i \in 1 .. Len(s) : s[i] = u[i]
    <3> HIDE DEF u
    <3> QED
      BY <2>2, SeqEqual
  <2> QED
    BY <2>2, <2>3
<1> QED
  BY <1>1, <1>2 DEF IsPrefix

(* Nothing is the first of any list.                                        *)
LEMMA EmptyPrefix ==
  ASSUME NEW S, NEW t \in Seq(S)
  PROVE  IsPrefix(<<>>, t)
<1>1. Len(<<>>) = 0 /\ Len(t) \in Nat
  OBVIOUS
<1>2. SubSeq(<<>>, 1, 0) = <<>> /\ SubSeq(t, 1, 0) = <<>>
  BY SubSeqEmpty
<1> QED
  BY <1>1, <1>2 DEF IsPrefix

(* The end of a page.                                                       *)
LEMMA MinOfTwo ==
  ASSUME NEW m \in Nat, NEW n \in Nat
  PROVE  Min({m, n}) = IF m <= n THEN m ELSE n
BY DEF Min

(* Items are numbered as they are made: the server keeps them in that order.*)
Rising(list) == \A i, j \in DOMAIN list : i < j => list[i] < list[j]
(* What the first p pages of the list, with its n items, may hold.          *)
Whole(list, p, n) ==
  /\ Rising(list)
  /\ \A i \in DOMAIN list : list[i] \in (1 .. made) \ deleted
  /\ ~AtOnce =>
       \A i \in DOMAIN server, j \in DOMAIN list : i > p * PageSize => list[j] < server[i]
  /\ ~cut => /\ IsPrefix(list, server)
             /\ ~AtOnce => \/ Len(list) = p * PageSize
                           \/ Len(list) < p * PageSize /\ Len(list) = n

(* A load that makes the list honest when it is answered, and what it shows. *)
Counts(call) == call.alone /\ (call.page = 1 \/ honest)
ShowsNext(call) == IF call.page = 1 THEN call.answer ELSE shown \o call.answer

(* A request; only comments come in pages.                                  *)
ListCallOK(call) ==
  /\ call \in ListCalls
  /\ call.page # 0 /\ (call.page # 1 => ~AtOnce)
  /\ call.answer \in Seq(1 .. made) /\ call.item \in 0 .. made
ListTyped ==
  /\ box \in Boxes
  /\ request \in [Requests -> ListCalls \cup {None}]
  /\ \A r \in Requests : ~Free(r) => ListCallOK(request[r])
  /\ made \in 0 .. MaxItems /\ server \in Seq(1 .. made) /\ Rising(server)
  /\ Len(server) <= made
  /\ shown \in Seq(0 .. made) /\ total \in Nat /\ page \in Nat \ {0}
  /\ cache \in Seq(1 .. made)
  /\ honest \in BOOLEAN /\ cut \in BOOLEAN
  /\ deleted \subseteq (1 .. made) \ OnServer

(* A load that is alone has no other request beside it.  One that will make *)
(* the list honest shows, when its answer is added, what its pages may hold;*)
(* until it is served it asks for the page that comes next.                 *)
LoadSound(r) ==
  At(r, "load") \/ At(r, "loaded") =>
    /\ request[r].alone => Busy(r) = {}
    /\ Counts(request[r]) =>
         IF request[r].at = "loaded"
         THEN Whole(ShowsNext(request[r]), request[r].page, request[r].of)
         ELSE request[r].page # 1 =>
                request[r].page = page + 1 /\ (~cut => Len(shown) = page * PageSize)
(* What a deletion was served for is gone.  An honest list waits for nothing*)
(* to be posted, and knows of every deletion that was served.               *)
ChangeSound(r) ==
  /\ At(r, "deleted") => request[r].item \in (1 .. made) \ OnServer
  /\ At(r, "delete") => request[r].item # Draft
  /\ honest =>
       /\ ~At(r, "post") /\ ~At(r, "posted")
       /\ At(r, "delete") => cut \/ request[r].item \in OnServer
       /\ At(r, "deleted") => cut
(* What holds between any two steps of a list.                              *)
ListInv ==
  /\ ListTyped
  /\ honest => Whole(shown, page, total)
  /\ \A r \in Requests : LoadSound(r) /\ ChangeSound(r)

-----------------------------------------------------------------------------
(* A list that rises still does when an item is taken out.                  *)
LEMMA RisingWithout ==
  ASSUME NEW S, NEW list \in Seq(S), Rising(list), NEW item
  PROVE  Rising(Without(list, item))
<1> DEFINE others == Without(list, item)
<1>1. \A k \in DOMAIN others :
        Place(list, item, k) \in DOMAIN list /\ others[k] = list[Place(list, item, k)]
  BY WithoutFacts
<1>2. \A k, m \in DOMAIN others : k < m => Place(list, item, k) < Place(list, item, m)
  BY WithoutFacts
<1> HIDE DEF others
<1>3. Rising(others)
  BY <1>1, <1>2 DEF Rising
<1> QED
  BY <1>3 DEF others

LEMMA Bounds ==
  ASSUME NEW p \in Nat \ {0}
  PROVE  /\ (p - 1) * PageSize \in Nat /\ p * PageSize \in Nat
         /\ p * PageSize = (p - 1) * PageSize + PageSize
         /\ (p + 1) * PageSize = p * PageSize + PageSize
BY FeedAssumption

LEMMA TypedFacts ==
  ASSUME ListTyped
  PROVE  /\ Len(server) \in Nat /\ DOMAIN server = 1 .. Len(server)
         /\ \A i \in 1 .. Len(server) : server[i] \in 1 .. made /\ server[i] \in OnServer
         /\ OnServer \subseteq 1 .. made
         /\ Len(shown) \in Nat /\ DOMAIN shown = 1 .. Len(shown)
         /\ \A i \in 1 .. Len(shown) : shown[i] \in 0 .. made
         /\ made \in Nat
<1>1. made \in Nat /\ server \in Seq(1 .. made) /\ shown \in Seq(0 .. made)
  BY FeedAssumption DEF ListTyped
<1>2. Len(server) \in Nat /\ DOMAIN server = 1 .. Len(server)
  BY <1>1
<1>3. \A i \in 1 .. Len(server) : server[i] \in 1 .. made
  BY <1>1, ElementOfSeq
<1>4. Len(shown) \in Nat /\ DOMAIN shown = 1 .. Len(shown)
  BY <1>1
<1>5. \A i \in 1 .. Len(shown) : shown[i] \in 0 .. made
  BY <1>1, ElementOfSeq
<1> QED
  BY <1>1, <1>2, <1>3, <1>4, <1>5 DEF OnServer

(* Somewhere an item is made: it is a higher number than all others, and    *)
(* comes last.                                                              *)
LEMMA WholeGrows ==
  ASSUME ListTyped, ListTyped', NEW list, NEW p \in Nat \ {0}, NEW n \in Nat,
         Whole(list, p, n), list \in Seq(0 .. made),
         made' = made + 1, server' = Append(server, made + 1),
         box' = box, cut' = cut, deleted' = deleted
  PROVE  Whole(list, p, n)'
<1>1. /\ Len(server') = Len(server) + 1 /\ DOMAIN server' = 1 .. Len(server) + 1
      /\ \A i \in 1 .. Len(server) : server'[i] = server[i]
      /\ server'[Len(server) + 1] = made + 1
  BY AppendFacts DEF ListTyped
<1>2. Len(list) \in Nat /\ DOMAIN list = 1 .. Len(list)
  BY LenProperties
<1>3. \A i \in DOMAIN list : list[i] \in 1 .. made /\ list[i] \in (1 .. made') \ deleted'
  BY TypedFacts DEF Whole
<1>4. ~AtOnce' =>
        \A i \in DOMAIN server', j \in DOMAIN list : i > p * PageSize => list[j] < server'[i]
  <2> SUFFICES ASSUME ~AtOnce, NEW i \in DOMAIN server', NEW j \in DOMAIN list, i > p * PageSize
               PROVE  list[j] < server'[i]
    BY DEF AtOnce
  <2>1. CASE i = Len(server) + 1
    BY <1>1, <1>3, <2>1, TypedFacts
  <2>2. CASE i \in 1 .. Len(server)
    BY <1>1, <2>2, TypedFacts DEF Whole
  <2> QED
    BY <1>1, <2>1, <2>2, TypedFacts
<1>5. ~cut' => IsPrefix(list, server')
  <2> SUFFICES ASSUME ~cut PROVE IsPrefix(list, server')
    OBVIOUS
  <2>1. server \in Seq(0 .. made') /\ server' \in Seq(0 .. made') /\ list \in Seq(0 .. made')
    <3>1. made' \in Nat /\ (1 .. made) \subseteq (0 .. made')
          /\ (1 .. made') \subseteq (0 .. made') /\ (0 .. made) \subseteq (0 .. made')
      BY TypedFacts
    <3>2. server \in Seq(1 .. made) /\ server' \in Seq(1 .. made')
      BY DEF ListTyped
    <3> QED
      BY <3>1, <3>2, SeqMonotonic
  <2>2. Len(list) <= Len(server) /\ \A i \in 1 .. Len(list) : list[i] = server[i]
    BY <2>1, PrefixFacts DEF Whole
  <2>3. Len(list) <= Len(server') /\ \A i \in 1 .. Len(list) : list[i] = server'[i]
    BY <1>1, <1>2, <2>2, TypedFacts
  <2> QED
    BY <2>1, <2>3, PrefixFacts
<1> QED
  BY <1>3, <1>4, <1>5 DEF Whole, AtOnce

(* Somewhere an item is deleted. *)
LEMMA WholeShrinks ==
  ASSUME ListTyped, NEW list, NEW p \in Nat \ {0}, NEW n \in Nat,
         Whole(list, p, n), list \in Seq(0 .. made), NEW item,
         made' = made, server' = Without(server, item),
         cut' = (cut \/ item \in OnServer), box' = box, deleted' = deleted
  PROVE  Whole(list, p, n)'
<1>1. server \in Seq(1 .. made)
  BY DEF ListTyped
<1>2. /\ \A k \in DOMAIN server' :
           /\ k \in Nat /\ Place(server, item, k) \in DOMAIN server
           /\ Place(server, item, k) >= k
           /\ server'[k] = server[Place(server, item, k)]
      /\ (\A i \in DOMAIN server : server[i] # item) => server' = server
  BY <1>1, WithoutFacts
<1>3. ~AtOnce' =>
        \A k \in DOMAIN server', j \in DOMAIN list : k > p * PageSize => list[j] < server'[k]
  <2> SUFFICES ASSUME ~AtOnce, NEW k \in DOMAIN server', NEW j \in DOMAIN list, k > p * PageSize
               PROVE  list[j] < server'[k]
    BY DEF AtOnce
  <2> DEFINE i == Place(server, item, k)
  <2>1. i \in DOMAIN server /\ i >= k /\ server[i] = server'[k] /\ k \in Nat
    BY <1>2
  <2> HIDE DEF i
  <2>2. i \in Nat /\ p * PageSize \in Nat
    BY <2>1, TypedFacts, Bounds
  <2>3. i > p * PageSize
    BY <2>1, <2>2
  <2> QED
    BY <2>1, <2>3 DEF Whole
<1>4. ~cut' => ~cut /\ server' = server
  BY <1>2 DEF OnServer
<1> QED
  BY <1>3, <1>4 DEF Whole, AtOnce

(* The page is told that an item is deleted. *)
LEMMA WholeTold ==
  ASSUME ListTyped, NEW list, NEW p, NEW n, NEW m,
         Whole(list, p, n), list \in Seq(0 .. made), NEW item, cut,
         made' = made, server' = server, box' = box, cut' = cut,
         deleted' = deleted \cup {item}
  PROVE  Whole(Without(list, item), p, m)'
<1> DEFINE others == Without(list, item)
<1>1. Rising(others)
  BY RisingWithout DEF Whole
<1>2. \A k \in DOMAIN others :
        others[k] # item /\ \E i \in DOMAIN list : list[i] = others[k]
  <2> SUFFICES ASSUME NEW k \in DOMAIN others
               PROVE  others[k] # item /\ \E i \in DOMAIN list : list[i] = others[k]
    OBVIOUS
  <2>1. Place(list, item, k) \in DOMAIN list /\ others[k] = list[Place(list, item, k)]
        /\ others[k] # item
    BY WithoutFacts
  <2> QED
    BY <2>1
<1> HIDE DEF others
<1>4. \A k \in DOMAIN others : others[k] \in (1 .. made') \ deleted'
  BY <1>2 DEF Whole
<1>5. ~AtOnce' =>
        \A i \in DOMAIN server', j \in DOMAIN others : i > p * PageSize => others[j] < server'[i]
  BY <1>2 DEF Whole, AtOnce
<1>6. Whole(others, p, m)'
  BY <1>1, <1>4, <1>5 DEF Whole
<1> QED
  BY <1>6 DEF others

-----------------------------------------------------------------------------
(* The answer of the server to a load. *)
LEMMA AnswerFacts ==
  ASSUME ListTyped, NEW p \in Nat \ {0}
  PROVE  /\ Answer(p) \in Seq(1 .. made)
         /\ AtOnce => Answer(p) = server
         /\ ~AtOnce =>
              LET before == (p - 1) * PageSize
                  upto == IF p * PageSize <= Len(server) THEN p * PageSize ELSE Len(server)
              IN  /\ Len(Answer(p)) = IF before < upto THEN upto - before ELSE 0
                  /\ \A i \in 1 .. Len(Answer(p)) :
                       before + i \in DOMAIN server /\ Answer(p)[i] = server[before + i]
<1>1. CASE AtOnce
  BY <1>1 DEF AtOnce, Answer, FeedPosts, AgentLinks, ListTyped
<1>2. CASE ~AtOnce
  <2> DEFINE before == (p - 1) * PageSize
             all == p * PageSize
             upto == IF all <= Len(server) THEN all ELSE Len(server)
             cutting == SubSeq(server, before + 1, upto)
  <2>1. before \in Nat /\ all \in Nat /\ all = before + PageSize /\ PageSize \in Nat \ {0}
    BY Bounds, FeedAssumption
  <2>2. Answer(p) = CommentsPage(p)
    BY <1>2 DEF Answer, AtOnce
  <2>3. CommentsPage(p) = SubSeq(server, before + 1, upto)
    BY <2>1, MinOfTwo, TypedFacts DEF CommentsPage
  <2> HIDE DEF before, all
  <2>4. upto \in Nat /\ upto <= Len(server)
    BY <2>1, TypedFacts
  <2> HIDE DEF upto
  <2>5. \A i \in before + 1 .. upto : i \in DOMAIN server /\ server[i] \in 1 .. made
    BY <2>1, <2>4, TypedFacts
  <2>6. /\ cutting \in Seq(1 .. made)
        /\ Len(cutting) = IF before + 1 <= upto THEN upto - (before + 1) + 1 ELSE 0
        /\ \A i \in 1 .. upto - (before + 1) + 1 : cutting[i] = server[before + 1 + i - 1]
    BY <2>1, <2>4, <2>5, SubSeqProperties
  <2> HIDE DEF cutting
  <2>7. Len(cutting) = IF before < upto THEN upto - before ELSE 0
    BY <2>1, <2>4, <2>6
  <2>8. \A i \in 1 .. Len(cutting) : before + i \in DOMAIN server /\ cutting[i] = server[before + i]
    BY <2>1, <2>4, <2>5, <2>6, <2>7
  <2> QED
    BY <1>2, <2>2, <2>3, <2>6, <2>7, <2>8 DEF before, upto, all, cutting
<1> QED
  BY <1>1, <1>2

-----------------------------------------------------------------------------
(* What a request under way may be.                                         *)
LEMMA CallTyped ==
  ASSUME ListTyped, NEW r \in Requests, ~Free(r)
  PROVE  /\ ListCallOK(request[r]) /\ request[r] \in ListCalls
         /\ request[r].page \in Nat \ {0} /\ request[r].of \in Nat
         /\ request[r].alone \in BOOLEAN
         /\ request[r].item \in 0 .. made /\ request[r].answer \in Seq(1 .. made)
         /\ request[r].at \in {"load", "loaded", "post", "posted", "delete", "deleted"}
<1>1. ListCallOK(request[r]) /\ request[r] \in ListCalls
  BY DEF ListTyped, ListCallOK
<1> QED
  BY <1>1, FeedAssumption DEF ListCallOK, ListCalls

(* What a request under way is about, as far as the others can see.         *)
SameCall(o) ==
  /\ Free(o)' <=> Free(o)
  /\ ~Free(o) =>
       /\ ListCallOK(request'[o])
       /\ request'[o].at = request[o].at /\ request'[o].page = request[o].page
       /\ request'[o].answer = request[o].answer /\ request'[o].of = request[o].of
       /\ request'[o].item = request[o].item

(* A request is sent; the others stay what they are, but alone.             *)
LEMMA SendFacts ==
  ASSUME ListTyped, NEW r \in Requests, NEW call, ListCallOK(call), Send(r, call)
  PROVE  /\ request' \in [Requests -> ListCalls \cup {None}]
         /\ request'[r] = call /\ ~Free(r)' /\ Busy(r)' = Busy(r)
         /\ \A o \in Requests \ {r} : SameCall(o) /\ (~Free(o) => ~request'[o].alone)
<1>1. ASSUME NEW o \in Requests \ {r}
      PROVE  /\ request'[o] \in ListCalls \cup {None}
             /\ SameCall(o) /\ (~Free(o) => ~request'[o].alone)
  <2>1. CASE Free(o)
    BY <2>1 DEF Send, Free, SameCall
  <2>2. CASE ~Free(o)
    <3>1. request'[o] = [request[o] EXCEPT !.alone = FALSE]
      BY <2>2 DEF Send
    <3>2. ListCallOK(request[o]) /\ request[o] \in ListCalls
      BY <2>2, CallTyped
    <3>3. /\ request'[o] \in ListCalls /\ ~request'[o].alone
          /\ request'[o].at = request[o].at /\ request'[o].page = request[o].page
          /\ request'[o].answer = request[o].answer /\ request'[o].of = request[o].of
          /\ request'[o].item = request[o].item
      BY <3>1, <3>2 DEF ListCalls
    <3>4. ListCallOK(request'[o])
      BY <3>2, <3>3 DEF ListCallOK
    <3> QED
      BY <2>2, <3>3, <3>4, FeedAssumption DEF SameCall, Free
  <2> QED
    BY <2>1, <2>2
<1>2. request'[r] = call /\ call \in ListCalls
  BY DEF Send, ListCallOK
<1>3. request' \in [Requests -> ListCalls \cup {None}]
  BY <1>1, <1>2 DEF Send
<1>4. ~Free(r)'
  BY <1>2, FeedAssumption DEF Free
<1>5. Busy(r)' = Busy(r)
  BY <1>1 DEF Busy, SameCall
<1> QED
  BY <1>1, <1>2, <1>3, <1>4, <1>5

(* One request takes a step; the others stay what they are.                 *)
LEMMA TurnFacts ==
  ASSUME ListTyped, NEW r \in Requests, NEW call, call = None \/ ListCallOK(call), Turns(r, call)
  PROVE  /\ request' \in [Requests -> ListCalls \cup {None}]
         /\ request'[r] = call /\ Busy(r)' = Busy(r)
         /\ \A o \in Requests \ {r} : SameCall(o) /\ request'[o] = request[o]
<1>1. /\ request' \in [Requests -> ListCalls \cup {None}] /\ request'[r] = call
      /\ \A o \in Requests \ {r} : request'[o] = request[o]
  BY DEF Turns, ListTyped, ListCallOK
<1>2. ASSUME NEW o \in Requests \ {r}
      PROVE  SameCall(o)
  BY <1>1, CallTyped DEF SameCall, Free
<1> QED
  BY <1>1, <1>2 DEF Busy, Free

(* While one request takes a step, the others are told nothing; one of them *)
(* that loads is not alone.                                                 *)
LEMMA OtherCall ==
  ASSUME ListInv, NEW o \in Requests, SameCall(o),
         ~Free(o) /\ request[o].at \in {"load", "loaded"} => ~request'[o].alone,
         made' \in Nat, made <= made', OnServer' \subseteq OnServer \cup {made + 1},
         honest' => honest /\ (cut' \/ (~cut /\ OnServer \subseteq OnServer'))
  PROVE  LoadSound(o)' /\ ChangeSound(o)'
<1> SUFFICES ASSUME ~Free(o), ~Free(o)'
             PROVE  LoadSound(o)' /\ ChangeSound(o)'
  BY DEF LoadSound, ChangeSound, At, SameCall
<1>1. LoadSound(o)'
  BY DEF LoadSound, At, SameCall, Counts
<1>2. At(o, "deleted")' => request'[o].item \in (1 .. made') \ OnServer'
  BY TypedFacts DEF ListInv, ChangeSound, At, SameCall
<1>3. At(o, "delete")' => request'[o].item # Draft
  BY DEF ListInv, ChangeSound, At, SameCall
<1>4. honest' => /\ ~At(o, "post")' /\ ~At(o, "posted")'
                 /\ At(o, "delete")' => cut' \/ request'[o].item \in OnServer'
                 /\ At(o, "deleted")' => cut'
  BY DEF ListInv, ChangeSound, At, SameCall
<1> QED
  BY <1>1, <1>2, <1>3, <1>4 DEF ChangeSound

(* Beside a request under way no load is alone.                             *)
LEMMA Busied ==
  ASSUME ListInv, NEW r \in Requests, ~Free(r), NEW o \in Requests \ {r}, ~Free(o),
         request[o].at \in {"load", "loaded"}
  PROVE  ~request[o].alone
BY DEF ListInv, LoadSound, At, Busy

-----------------------------------------------------------------------------
(* A request as it is sent. *)
LEMMA NewCall ==
  ASSUME ListTyped, NEW at \in {"load", "post", "delete"}
  PROVE  /\ ListCallOK(Call(at)) /\ Call(at).at = at /\ Call(at).page = 1
         /\ Call(at).item = 0 /\ Call(at).answer = <<>> /\ Call(at).of = 0
<1>1. <<>> \in Seq(Items) /\ <<>> \in Seq(1 .. made) /\ 0 \in 0 .. MaxItems /\ 0 \in 0 .. made
  BY FeedAssumption, TypedFacts
<1>2. Call(at) \in ListCalls
  BY <1>1 DEF ListCalls, Call, Draft
<1> QED
  BY <1>1, <1>2 DEF ListCallOK, Call, Draft

LEMMA NewLoad ==
  ASSUME ListTyped, NEW r \in Requests, NEW p \in Nat \ {0}, p # 1 => ~AtOnce
  PROVE  /\ ListCallOK(LoadOf(r, p)) /\ LoadOf(r, p).at = "load" /\ LoadOf(r, p).page = p
         /\ LoadOf(r, p).item = 0 /\ LoadOf(r, p).alone = (Busy(r) = {})
<1> DEFINE new == Call("load")
           alone == Busy(r) = {}
           call == LoadOf(r, p)
<1>1. ListCallOK(new) /\ new.at = "load" /\ new.page = 1 /\ new.item = 0 /\ new \in ListCalls
  BY NewCall DEF ListCallOK
<1>2. alone \in BOOLEAN /\ call = [new EXCEPT !.page = p, !.alone = alone]
  BY DEF LoadOf
<1> HIDE DEF new, call, alone
<1>3. /\ call \in ListCalls /\ call.at = "load" /\ call.page = p /\ call.alone = alone
      /\ call.item = 0 /\ call.answer = new.answer
  BY <1>1, <1>2 DEF ListCalls
<1>4. ListCallOK(call)
  BY <1>1, <1>3 DEF ListCallOK
<1> QED
  BY <1>3, <1>4 DEF call, alone

LEMMA NewDelete ==
  ASSUME ListTyped, NEW i \in 1 .. made,
         NEW call, call = [Call("delete") EXCEPT !.item = i]
  PROVE  ListCallOK(call) /\ call.at = "delete" /\ call.item = i
<1> DEFINE new == Call("delete")
<1>1. ListCallOK(new) /\ new.at = "delete" /\ new.page = 1 /\ new \in ListCalls
  BY NewCall DEF ListCallOK
<1>2. i \in Items /\ i \in 0 .. made
  BY FeedAssumption DEF ListTyped, Items
<1> HIDE DEF new
<1>3. call = [new EXCEPT !.item = i]
  BY DEF new
<1>4. /\ call \in ListCalls /\ call.at = "delete" /\ call.page = new.page
      /\ call.item = i /\ call.answer = new.answer
  BY <1>1, <1>2, <1>3 DEF ListCalls
<1> QED
  BY <1>1, <1>2, <1>4 DEF ListCallOK

LEMMA AllCallsTyped ==
  ASSUME ListTyped, box' = box, made' \in Nat, made <= made',
         \A o \in Requests : ~Free(o)' => ListCallOK(request'[o])
  PROVE  \A o \in Requests : ~Free(o)' => ListCallOK(request[o])'
<1>1. ASSUME NEW o \in Requests, ~Free(o)'
      PROVE  ListCallOK(request[o])'
  <2>1. ListCallOK(request'[o]) /\ made \in Nat
    BY <1>1, TypedFacts
  <2>2. (1 .. made) \subseteq (1 .. made') /\ (0 .. made) \subseteq (0 .. made')
    BY <2>1
  <2>3. request'[o].answer \in Seq(1 .. made')
    BY <2>1, <2>2, SeqMonotonic DEF ListCallOK
  <2> QED
    BY <2>1, <2>2, <2>3 DEF ListCallOK, AtOnce
<1> QED
  BY <1>1

(* One of them takes a step.                                                *)
LEMMA CallsTyped ==
  ASSUME ListTyped, NEW r \in Requests, box' = box, made' \in Nat, made <= made',
         request'[r] = None \/ ListCallOK(request'[r]),
         \A o \in Requests \ {r} : SameCall(o)
  PROVE  \A o \in Requests : ~Free(o)' => ListCallOK(request[o])'
<1>1. ASSUME NEW o \in Requests, ~Free(o)'
      PROVE  ListCallOK(request'[o])
  <2>1. CASE o = r
    BY <1>1, <2>1 DEF Free
  <2>2. CASE o # r
    <3>1. SameCall(o)
      BY <2>2
    <3> QED
      BY <1>1, <3>1 DEF SameCall
  <2> QED
    BY <2>1, <2>2
<1> QED
  BY <1>1, AllCallsTyped

(* Nothing is made meanwhile.                                               *)
LEMMA CallsKept ==
  ASSUME ListTyped, NEW r \in Requests, box' = box, made' = made,
         request'[r] = None \/ ListCallOK(request'[r]),
         \A o \in Requests \ {r} : SameCall(o)
  PROVE  \A o \in Requests : ~Free(o)' => ListCallOK(request[o])'
<1>1. made' \in Nat /\ made <= made'
  BY TypedFacts
<1> QED
  BY <1>1, CallsTyped

(* A load of the first page.                                                *)
LEMMA StartLoadSound ==
  ASSUME ListInv, NEW r \in Requests, NEW first, first \subseteq Seq(0 .. made),
         StartLoad(r, first), page' \in Nat \ {0}
  PROVE  ListInv'
<1> DEFINE call == LoadOf(r, 1)
<1>1. ListTyped
  BY DEF ListInv
<1>3. ListCallOK(call) /\ call.at = "load" /\ call.page = 1 /\ call.item = 0
      /\ call.alone = (Busy(r) = {})
  BY <1>1, NewLoad
<1> HIDE DEF call
<1>4. /\ request' \in [Requests -> ListCalls \cup {None}]
      /\ request'[r] = call /\ ~Free(r)' /\ Busy(r)' = Busy(r)
      /\ \A o \in Requests \ {r} : SameCall(o) /\ (~Free(o) => ~request'[o].alone)
  BY <1>1, <1>3, SendFacts DEF StartLoad, call
<1>5. /\ shown' \in Seq(0 .. made) /\ ~honest' /\ honest' \in BOOLEAN /\ ~cut' /\ cut' \in BOOLEAN
      /\ box' = box /\ server' = server /\ made' = made /\ total' = total
      /\ cache' = cache /\ deleted' = deleted /\ OnServer' = OnServer
  BY DEF StartLoad, OnServer
<1>6. \A o \in Requests : ~Free(o)' => ListCallOK(request[o])'
  <2>1. (request'[r] = None \/ ListCallOK(request'[r])) /\ \A o \in Requests \ {r} : SameCall(o)
    BY <1>3, <1>4
  <2> QED
    BY <1>1, <1>5, <2>1, CallsKept
<1>7. ListTyped'
  BY <1>1, <1>4, <1>5, <1>6 DEF ListTyped
<1>8. LoadSound(r)' /\ ChangeSound(r)'
  BY <1>3, <1>4, <1>5 DEF LoadSound, ChangeSound, At
<1>9. \A o \in Requests \ {r} : LoadSound(o)' /\ ChangeSound(o)'
  BY <1>1, <1>4, <1>5, OtherCall, TypedFacts
<1> QED
  BY <1>5, <1>7, <1>8, <1>9 DEF ListInv

LEMMA CachedTyped ==
  ASSUME ListInv
  PROVE  /\ {shown} \subseteq Seq(0 .. made) /\ {cache} \subseteq Seq(0 .. made)
         /\ {shown, <<>>} \subseteq Seq(0 .. made)
<1>1. shown \in Seq(0 .. made) /\ cache \in Seq(1 .. made) /\ made \in Nat
  BY TypedFacts DEF ListInv, ListTyped
<1>2. (1 .. made) \subseteq (0 .. made)
  BY <1>1
<1>3. cache \in Seq(0 .. made)
  BY <1>1, <1>2, SeqMonotonic
<1> QED
  BY <1>1, <1>3

(* Whichever page it is, and whether or not it is loaded again.             *)
LEMMA AnyLoadSound ==
  ASSUME ListInv, NEW r \in Requests,
         LoadFeed(r) \/ LoadLinks(r) \/ LoadComments(r) \/ LoadPost(r), page' \in Nat \ {0}
  PROVE  ListInv'
<1>1. CASE LoadFeed(r)
  BY <1>1, StartLoadSound, CachedTyped DEF LoadFeed
<1>2. CASE LoadLinks(r)
  BY <1>2, StartLoadSound, CachedTyped DEF LoadLinks
<1>3. CASE LoadComments(r)
  BY <1>3, StartLoadSound, CachedTyped DEF LoadComments
<1>4. CASE LoadPost(r)
  BY <1>4, StartLoadSound, CachedTyped DEF LoadPost
<1> QED
  BY <1>1, <1>2, <1>3, <1>4

(* A load of the page after the last one shown.                             *)
LEMMA LoadMoreSound ==
  ASSUME ListInv, NEW r \in Requests, LoadMore(r)
  PROVE  ListInv'
<1> DEFINE call == LoadOf(r, page + 1)
<1>1. ListTyped /\ page \in Nat \ {0} /\ ~AtOnce
  BY DEF ListInv, ListTyped, LoadMore
<1>3. ListCallOK(call) /\ call.at = "load" /\ call.page = page + 1 /\ call.item = 0
      /\ call.alone = (Busy(r) = {})
  <2>1. page + 1 \in Nat \ {0}
    BY <1>1
  <2> QED
    BY <1>1, <2>1, NewLoad
<1> HIDE DEF call
<1>4. /\ request' \in [Requests -> ListCalls \cup {None}]
      /\ request'[r] = call /\ ~Free(r)' /\ Busy(r)' = Busy(r)
      /\ \A o \in Requests \ {r} : SameCall(o) /\ (~Free(o) => ~request'[o].alone)
  BY <1>1, <1>3, SendFacts DEF LoadMore, call
<1>5. /\ shown' = shown /\ honest' = honest /\ cut' = cut
      /\ box' = box /\ server' = server /\ made' = made /\ total' = total /\ page' = page
      /\ cache' = cache /\ deleted' = deleted /\ OnServer' = OnServer
  BY DEF LoadMore, OnServer
<1>6. \A o \in Requests : ~Free(o)' => ListCallOK(request[o])'
  <2>1. (request'[r] = None \/ ListCallOK(request'[r])) /\ \A o \in Requests \ {r} : SameCall(o)
    BY <1>3, <1>4
  <2> QED
    BY <1>1, <1>5, <2>1, CallsKept
<1>7. ListTyped'
  BY <1>1, <1>4, <1>5, <1>6 DEF ListTyped
<1>8. honest' => Whole(shown, page, total)'
  BY <1>5 DEF ListInv, Whole, AtOnce
<1>9. LoadSound(r)' /\ ChangeSound(r)'
  <2>1. honest /\ ~cut => Len(shown) = page * PageSize
    <3>1. Len(shown) < total /\ total \in Nat /\ Len(shown) \in Nat
      BY <1>1, TypedFacts DEF LoadMore, ListTyped
    <3> QED
      BY <1>1, <3>1 DEF ListInv, Whole
  <2> QED
    BY <1>3, <1>4, <1>5, <2>1 DEF LoadSound, ChangeSound, At, Counts
<1>10. \A o \in Requests \ {r} : LoadSound(o)' /\ ChangeSound(o)'
  <2>1. honest' => honest /\ (cut' \/ (~cut /\ OnServer \subseteq OnServer'))
    BY <1>1, <1>5 DEF ListTyped
  <2> QED
    BY <1>1, <1>4, <1>5, <2>1, OtherCall, TypedFacts
<1> QED
  BY <1>7, <1>8, <1>9, <1>10 DEF ListInv

LEMMA SubmitSound ==
  ASSUME ListInv, NEW r \in Requests, Submit(r)
  PROVE  ListInv'
<1>1. ListTyped /\ total \in Nat /\ shown \in Seq(0 .. made) /\ 0 \in 0 .. made
  BY TypedFacts DEF ListInv, ListTyped
<1> DEFINE call == Call("post")
<1>3. ListCallOK(call) /\ call.at = "post"
  BY <1>1, NewCall
<1> HIDE DEF call
<1>4. /\ request' \in [Requests -> ListCalls \cup {None}]
      /\ request'[r] = call /\ ~Free(r)' /\ Busy(r)' = Busy(r)
      /\ \A o \in Requests \ {r} : SameCall(o) /\ (~Free(o) => ~request'[o].alone)
  BY <1>1, <1>3, SendFacts DEF Submit, call
<1>5. /\ ~honest' /\ honest' \in BOOLEAN /\ cut' = cut
      /\ box' = box /\ server' = server /\ made' = made /\ page' = page
      /\ cache' = cache /\ deleted' = deleted /\ OnServer' = OnServer
  BY DEF Submit, OnServer
<1>6. shown' \in Seq(0 .. made') /\ total' \in Nat
  <2>1. <<Draft>> \in Seq(0 .. made) /\ Draft \in 0 .. made
    BY <1>1 DEF Draft
  <2>2. Append(shown, Draft) \in Seq(0 .. made) /\ <<Draft>> \o shown \in Seq(0 .. made)
    BY <1>1, <2>1, AppendProperties, ConcatProperties
  <2>3. CASE PostContent(r) \/ LinkSubscription(r)
    BY <1>1, <1>5, <2>3 DEF PostContent, LinkSubscription, Waits
  <2>4. CASE PostComment
    <3>1. shown' = Append(shown, Draft) /\ total' = total + 1
      BY <2>4 DEF PostComment
    <3>2. shown' \in Seq(0 .. made)
      BY <2>2, <3>1
    <3> QED
      BY <1>1, <1>5, <3>1, <3>2
  <2>5. CASE SubmitComment
    <3>1. shown' = <<Draft>> \o shown /\ total' = total + 1
      BY <2>5 DEF SubmitComment
    <3>2. shown' \in Seq(0 .. made)
      BY <2>2, <3>1
    <3> QED
      BY <1>1, <1>5, <3>1, <3>2
  <2> QED
    BY <2>3, <2>4, <2>5 DEF Submit
<1>7. \A o \in Requests : ~Free(o)' => ListCallOK(request[o])'
  <2>1. (request'[r] = None \/ ListCallOK(request'[r])) /\ \A o \in Requests \ {r} : SameCall(o)
    BY <1>3, <1>4
  <2> QED
    BY <1>1, <1>5, <2>1, CallsKept
<1>8. ListTyped'
  BY <1>1, <1>4, <1>5, <1>6, <1>7 DEF ListTyped
<1>9. LoadSound(r)' /\ ChangeSound(r)'
  BY <1>3, <1>4, <1>5 DEF LoadSound, ChangeSound, At
<1>10. \A o \in Requests \ {r} : LoadSound(o)' /\ ChangeSound(o)'
  BY <1>1, <1>4, <1>5, OtherCall, TypedFacts
<1> QED
  BY <1>5, <1>8, <1>9, <1>10 DEF ListInv

LEMMA PressDeleteSound ==
  ASSUME ListInv, NEW r \in Requests, NEW i \in Items, PressDelete(r, i)
  PROVE  ListInv'
<1> DEFINE call == [Call("delete") EXCEPT !.item = i]
<1>1. ListTyped /\ i \in 1 .. made /\ made \in Nat
  <2>1. ListTyped
    BY DEF ListInv
  <2>2. i \in {shown[n] : n \in DOMAIN shown} \ {Draft}
    BY DEF PressDelete
  <2> QED
    BY <2>1, <2>2, TypedFacts DEF Draft
<1>3. ListCallOK(call) /\ call.at = "delete" /\ call.item = i
  BY <1>1, NewDelete
<1> HIDE DEF call
<1>4. /\ request' \in [Requests -> ListCalls \cup {None}]
      /\ request'[r] = call /\ ~Free(r)' /\ Busy(r)' = Busy(r)
      /\ \A o \in Requests \ {r} : SameCall(o) /\ (~Free(o) => ~request'[o].alone)
  BY <1>1, <1>3, SendFacts DEF PressDelete, call
<1>5. /\ shown' = shown /\ honest' = honest /\ cut' = cut
      /\ box' = box /\ server' = server /\ made' = made /\ total' = total /\ page' = page
      /\ cache' = cache /\ deleted' = deleted /\ OnServer' = OnServer
  BY DEF PressDelete, OnServer, listVars
<1>6. \A o \in Requests : ~Free(o)' => ListCallOK(request[o])'
  <2>1. (request'[r] = None \/ ListCallOK(request'[r])) /\ \A o \in Requests \ {r} : SameCall(o)
    BY <1>3, <1>4
  <2> QED
    BY <1>1, <1>5, <2>1, CallsKept
<1>7. ListTyped'
  BY <1>1, <1>4, <1>5, <1>6 DEF ListTyped
<1>8. honest' => Whole(shown, page, total)'
  BY <1>5 DEF ListInv, Whole, AtOnce
<1>9. LoadSound(r)' /\ ChangeSound(r)'
  <2>1. honest => cut \/ i \in OnServer
    <3> SUFFICES ASSUME honest, ~cut PROVE i \in OnServer
      OBVIOUS
    <3>1. Whole(shown, page, total) /\ Len(shown) \in Nat /\ DOMAIN shown = 1 .. Len(shown)
      BY <1>1, TypedFacts DEF ListInv
    <3>2. server \in Seq(0 .. made)
      <4>1. server \in Seq(1 .. made) /\ (1 .. made) \subseteq (0 .. made)
        BY <1>1 DEF ListTyped
      <4> QED
        BY <4>1, SeqMonotonic
    <3>3. Len(shown) <= Len(server) /\ \A n \in 1 .. Len(shown) : shown[n] = server[n]
      <4>1. IsPrefix(shown, server) /\ shown \in Seq(0 .. made)
        BY <1>1, <3>1 DEF Whole, ListTyped
      <4> QED
        BY <3>2, <4>1, PrefixFacts
    <3>4. PICK n \in 1 .. Len(shown) : shown[n] = i
      BY <3>1 DEF PressDelete
    <3> QED
      BY <1>1, <3>1, <3>3, <3>4, TypedFacts
  <2> QED
    BY <1>1, <1>3, <1>4, <1>5, <2>1 DEF LoadSound, ChangeSound, At, Draft
<1>10. \A o \in Requests \ {r} : LoadSound(o)' /\ ChangeSound(o)'
  <2>1. honest' => honest /\ (cut' \/ (~cut /\ OnServer \subseteq OnServer'))
    BY <1>1, <1>5 DEF ListTyped
  <2> QED
    BY <1>1, <1>4, <1>5, <2>1, OtherCall, TypedFacts
<1> QED
  BY <1>7, <1>8, <1>9, <1>10 DEF ListInv

-----------------------------------------------------------------------------
(* What an answer is added to, is the pages before it. *)
LEMMA ServedWhole ==
  ASSUME ListTyped, NEW p \in Nat \ {0}, NEW base \in Seq(0 .. made), Rising(base),
         AtOnce => base = <<>>,
         \A i \in DOMAIN base : base[i] \in (1 .. made) \ deleted,
         ~AtOnce => \A i \in DOMAIN server, j \in DOMAIN base :
                      i > (p - 1) * PageSize => base[j] < server[i],
         ~cut => /\ IsPrefix(base, server)
                 /\ ~AtOnce => Len(base) = (p - 1) * PageSize
  PROVE  Whole(base \o Answer(p), p, Len(server))
<1> DEFINE answer == Answer(p)
           list == base \o answer
           b == Len(base)
           n == Len(answer)
           before == IF AtOnce THEN 0 ELSE (p - 1) * PageSize
           all == p * PageSize
<1>1. /\ answer \in Seq(0 .. made) /\ n \in Nat /\ before \in Nat
      /\ \A i \in 1 .. n : before + i \in DOMAIN server /\ answer[i] = server[before + i]
      /\ n = 0 \/ before + n <= Len(server)
      /\ AtOnce => n = Len(server)
      /\ ~AtOnce => /\ all \in Nat /\ all = before + PageSize /\ (n = 0 \/ before + n <= all)
                    /\ before + n = all \/ before + n = Len(server)
                       \/ (n = 0 /\ Len(server) < before)
  <2>1. (1 .. made) \subseteq (0 .. made) /\ answer \in Seq(1 .. made)
    BY AnswerFacts, TypedFacts
  <2>2. answer \in Seq(0 .. made) /\ n \in Nat
    BY <2>1, SeqMonotonic, LenProperties
  <2>3. CASE AtOnce
    BY <2>2, <2>3, AnswerFacts, TypedFacts
  <2>4. CASE ~AtOnce
    <3> DEFINE upto == IF all <= Len(server) THEN all ELSE Len(server)
    <3>1. before = (p - 1) * PageSize /\ before \in Nat /\ all \in Nat
          /\ all = before + PageSize /\ PageSize \in Nat \ {0} /\ Len(server) \in Nat
      BY <2>4, Bounds, TypedFacts, FeedAssumption
    <3>2. /\ n = IF before < upto THEN upto - before ELSE 0
          /\ \A i \in 1 .. n : before + i \in DOMAIN server /\ answer[i] = server[before + i]
      BY <2>4, <3>1, AnswerFacts
    <3> HIDE DEF before, all, n, answer
    <3>3. /\ n = 0 \/ before + n <= Len(server)
          /\ n = 0 \/ before + n <= all
          /\ before + n = all \/ before + n = Len(server) \/ (n = 0 /\ Len(server) < before)
      <4>1. n = IF before < upto THEN upto - before ELSE 0
        BY <3>2
      <4>2. CASE all <= Len(server)
        <5>1. upto = all
          BY <4>2
        <5> HIDE DEF upto
        <5> QED
          BY <3>1, <4>1, <4>2, <5>1
      <4>3. CASE ~(all <= Len(server))
        <5>1. upto = Len(server)
          BY <4>3
        <5> HIDE DEF upto
        <5> QED
          <6>1. CASE before < Len(server)
            BY <3>1, <4>1, <4>3, <5>1, <6>1
          <6>2. CASE ~(before < Len(server))
            <7>1. n = 0
              BY <4>1, <5>1, <6>2
            <7> QED
              BY <3>1, <6>2, <7>1
          <6> QED
            BY <6>1, <6>2
      <4> QED
        BY <4>2, <4>3
    <3> QED
      BY <2>2, <2>4, <3>1, <3>2, <3>3
  <2> QED
    BY <2>3, <2>4
<1>2. /\ b \in Nat /\ list \in Seq(0 .. made) /\ Len(list) = b + n /\ DOMAIN list = 1 .. b + n
      /\ \A i \in 1 .. b : list[i] = base[i]
      /\ \A i \in b + 1 .. b + n : list[i] = answer[i - b]
  BY <1>1, ConcatProperties, LenProperties
<1>3. DOMAIN base = 1 .. b
  BY LenProperties
<1> HIDE DEF answer, list, b, n, before, all
<1>4. \A i \in b + 1 .. b + n :
        /\ before + (i - b) \in DOMAIN server /\ before + (i - b) > before
        /\ list[i] = server[before + (i - b)]
  BY <1>1, <1>2, SMTT(30)
<1>5. Rising(list)
  <2> SUFFICES ASSUME NEW i \in 1 .. b + n, NEW j \in 1 .. b + n, i < j
               PROVE  list[i] < list[j]
    BY <1>2 DEF Rising
  <2>1. CASE j \in 1 .. b
    BY <1>2, <1>3, <2>1 DEF Rising
  <2>2. CASE i \in b + 1 .. b + n
    <3>1. j \in b + 1 .. b + n /\ before + (i - b) < before + (j - b)
      BY <1>1, <1>2, <2>2
    <3> QED
      BY <1>4, <2>2, <3>1 DEF ListTyped, Rising
  <2>3. CASE i \in 1 .. b /\ j \in b + 1 .. b + n
    <3>1. ~AtOnce
      BY <1>2, <2>3 DEF b
    <3>2. list[j] = server[before + (j - b)] /\ before + (j - b) \in DOMAIN server
          /\ before + (j - b) > before /\ before = (p - 1) * PageSize
      BY <1>4, <2>3, <3>1 DEF before
    <3> QED
      BY <1>2, <1>3, <2>3, <3>1, <3>2
  <2> QED
    BY <1>1, <1>2, <2>1, <2>2, <2>3
<1>6. \A i \in DOMAIN list : list[i] \in (1 .. made) \ deleted
  <2> SUFFICES ASSUME NEW i \in 1 .. b + n
               PROVE  list[i] \in (1 .. made) \ deleted
    BY <1>2
  <2>1. CASE i \in 1 .. b
    BY <1>2, <1>3, <2>1
  <2>2. CASE i \in b + 1 .. b + n
    <3>1. list[i] \in OnServer
      BY <1>4, <2>2 DEF OnServer
    <3> QED
      BY <3>1, TypedFacts DEF ListTyped
  <2> QED
    BY <1>1, <1>2, <2>1, <2>2
<1>7. ~AtOnce => \A i \in DOMAIN server, j \in DOMAIN list : i > all => list[j] < server[i]
  <2> SUFFICES ASSUME ~AtOnce, NEW i \in DOMAIN server, NEW j \in 1 .. b + n, i > all
               PROVE  list[j] < server[i]
    BY <1>2
  <2>1. i \in Nat /\ i > before /\ before = (p - 1) * PageSize
    <3>1. before = (p - 1) * PageSize
      BY DEF before
    <3>2. i \in Nat /\ PageSize \in Nat /\ all = before + PageSize /\ before \in Nat
      <4>1. i \in Nat /\ PageSize \in Nat
        BY TypedFacts, FeedAssumption
      <4> QED
        BY <1>1, <4>1
    <3>3. i > before
      BY <3>2
    <3> QED
      BY <3>1, <3>2, <3>3
  <2>2. CASE j \in 1 .. b
    BY <1>2, <1>3, <2>1, <2>2
  <2>3. CASE j \in b + 1 .. b + n
    <3>1. before + (j - b) < i
      BY <1>1, <1>2, <2>1, <2>3
    <3> QED
      BY <1>4, <2>3, <3>1 DEF ListTyped, Rising
  <2> QED
    BY <1>1, <1>2, <2>2, <2>3
<1>8. ASSUME ~cut
      PROVE  /\ IsPrefix(list, server)
             /\ ~AtOnce => Len(list) = all \/ (Len(list) < all /\ Len(list) = Len(server))
  <2>1. server \in Seq(0 .. made) /\ Len(server) \in Nat
    <3>1. (1 .. made) \subseteq (0 .. made) /\ server \in Seq(1 .. made)
      BY TypedFacts DEF ListTyped
    <3> QED
      BY <3>1, SeqMonotonic, LenProperties
  <2>2. b <= Len(server) /\ \A i \in 1 .. b : base[i] = server[i]
    BY <1>8, <2>1, PrefixFacts DEF b
  <2>3. b = before
    BY <1>8, EmptySeq DEF b, before
  <2>4. Len(list) <= Len(server)
    BY <1>1, <1>2, <2>1, <2>2, <2>3
  <2>5. \A i \in 1 .. Len(list) : list[i] = server[i]
    <3> SUFFICES ASSUME NEW i \in 1 .. b + n
                 PROVE  list[i] = server[i]
      BY <1>2
    <3>1. CASE i \in 1 .. b
      BY <1>2, <2>2, <3>1
    <3>2. CASE i \in b + 1 .. b + n
      <4>1. before + (i - b) = i
        BY <1>1, <1>2, <2>3, <3>2
      <4> QED
        BY <1>4, <3>2, <4>1
    <3> QED
      BY <1>1, <1>2, <3>1, <3>2
  <2>6. IsPrefix(list, server)
    BY <1>2, <2>1, <2>4, <2>5, PrefixFacts
  <2>7. ~AtOnce => Len(list) = all \/ (Len(list) < all /\ Len(list) = Len(server))
    BY <1>1, <1>2, <2>1, <2>2, <2>3, FeedAssumption
  <2> QED
    BY <2>6, <2>7
<1> QED
  BY <1>5, <1>6, <1>7, <1>8 DEF Whole, list, answer, all

-----------------------------------------------------------------------------
LEMMA ServeLoadSound ==
  ASSUME ListInv, NEW r \in Requests, ServeLoad(r)
  PROVE  ListInv'
<1> DEFINE call == request[r]
           served == [call EXCEPT !.at = "loaded", !.of = Len(server), !.answer = Answer(call.page)]
<1>1. ListTyped /\ LoadSound(r)
  BY DEF ListInv
<1>2. ~Free(r) /\ call.at = "load" /\ Turns(r, served)
  BY DEF ServeLoad, At
<1>3. /\ ListCallOK(call) /\ call \in ListCalls /\ call.page \in Nat \ {0} /\ call.alone \in BOOLEAN
  BY <1>1, <1>2, CallTyped
<1>4. Answer(call.page) \in Seq(1 .. made) /\ Answer(call.page) \in Seq(Items)
  <2>1. Answer(call.page) \in Seq(1 .. made) /\ (1 .. made) \subseteq Items
    BY <1>1, <1>3, AnswerFacts, FeedAssumption DEF ListTyped, Items
  <2> QED
    BY <2>1, SeqMonotonic
<1>5. Len(server) \in 0 .. MaxItems
  BY <1>1, TypedFacts, FeedAssumption DEF ListTyped
<1> HIDE DEF call
<1>6. /\ served \in ListCalls /\ served.at = "loaded" /\ served.of = Len(server)
      /\ served.answer = Answer(call.page) /\ served.page = call.page
      /\ served.item = call.item /\ served.alone = call.alone
  BY <1>3, <1>4, <1>5 DEF ListCalls
<1> HIDE DEF served
<1>7. ListCallOK(served)
  BY <1>3, <1>4, <1>6 DEF ListCallOK
<1>8. /\ request' \in [Requests -> ListCalls \cup {None}]
      /\ request'[r] = served /\ Busy(r)' = Busy(r)
      /\ \A o \in Requests \ {r} : SameCall(o) /\ request'[o] = request[o]
  BY <1>1, <1>2, <1>7, TurnFacts
<1>9. /\ shown' = shown /\ honest' = honest /\ cut' = cut
      /\ box' = box /\ server' = server /\ made' = made /\ total' = total /\ page' = page
      /\ cache' = cache /\ deleted' = deleted /\ OnServer' = OnServer
  BY DEF ServeLoad, OnServer, listVars
<1>10. \A o \in Requests : ~Free(o)' => ListCallOK(request[o])'
  <2>1. (request'[r] = None \/ ListCallOK(request'[r])) /\ \A o \in Requests \ {r} : SameCall(o)
    BY <1>7, <1>8
  <2> QED
    BY <1>1, <1>9, <2>1, CallsKept
<1>11. ListTyped'
  BY <1>1, <1>8, <1>9, <1>10 DEF ListTyped
<1>12. honest' => Whole(shown, page, total)'
  BY <1>9 DEF ListInv, Whole, AtOnce
<1>13. Counts(call) => Whole(ShowsNext(served), call.page, Len(server))
  <2> SUFFICES ASSUME Counts(call) PROVE Whole(ShowsNext(served), call.page, Len(server))
    OBVIOUS
  <2>1. CASE call.page = 1
    <3>1. <<>> \in Seq(0 .. made) /\ Rising(<<>>) /\ DOMAIN <<>> = {} /\ Len(<<>>) = 0
      BY DEF Rising
    <3>2. IsPrefix(<<>>, server)
      BY <1>1, EmptyPrefix DEF ListTyped
    <3>3. (1 - 1) * PageSize = 0 /\ 1 \in Nat \ {0}
      BY FeedAssumption
    <3>4. Whole(<<>> \o Answer(1), 1, Len(server))
      BY <1>1, <3>1, <3>2, <3>3, ServedWhole
    <3>5. <<>> \o Answer(1) = Answer(1)
      BY <1>4, <2>1, ConcatEmptySeq
    <3> QED
      BY <1>6, <2>1, <3>4, <3>5 DEF ShowsNext
  <2>2. CASE call.page # 1
    <3>1. honest /\ ~AtOnce /\ call.page = page + 1 /\ (~cut => Len(shown) = page * PageSize)
      BY <1>1, <1>2, <1>3, <2>2 DEF Counts, LoadSound, At, ListCallOK, call
    <3>2. Whole(shown, page, total) /\ page \in Nat /\ (page + 1) - 1 = page
          /\ shown \in Seq(0 .. made)
      BY <1>1, <3>1 DEF ListInv, ListTyped
    <3>3. Whole(shown \o Answer(call.page), call.page, Len(server))
      BY <1>1, <1>3, <3>1, <3>2, ServedWhole DEF Whole
    <3> QED
      BY <1>6, <2>2, <3>3 DEF ShowsNext
  <2> QED
    BY <2>1, <2>2
<1>14. LoadSound(r)' /\ ChangeSound(r)'
  <2>1. served.alone => Busy(r)' = {}
    BY <1>1, <1>2, <1>6, <1>8 DEF LoadSound, At, call
  <2>2. Counts(request[r])' => Whole(ShowsNext(served), call.page, Len(server))
    BY <1>6, <1>8, <1>9, <1>13 DEF Counts
  <2>3. Whole(ShowsNext(served), call.page, Len(server)) =>
          Whole(ShowsNext(request[r]), request[r].page, request[r].of)'
    BY <1>6, <1>8, <1>9 DEF Whole, ShowsNext, AtOnce
  <2> QED
    BY <1>6, <1>8, <2>1, <2>2, <2>3 DEF LoadSound, ChangeSound, At
<1>15. \A o \in Requests \ {r} : LoadSound(o)' /\ ChangeSound(o)'
  <2>1. honest' => honest /\ (cut' \/ (~cut /\ OnServer \subseteq OnServer'))
    BY <1>1, <1>9 DEF ListTyped
  <2>2. \A o \in Requests \ {r} :
          ~Free(o) /\ request[o].at \in {"load", "loaded"} => ~request'[o].alone
    BY <1>2, <1>8, Busied
  <2> QED
    BY <1>1, <1>8, <1>9, <2>1, <2>2, OtherCall, TypedFacts
<1> QED
  BY <1>11, <1>12, <1>14, <1>15 DEF ListInv

LEMMA LoadFailsSound ==
  ASSUME ListInv, NEW r \in Requests, LoadFails(r)
  PROVE  ListInv'
<1>1. ListTyped /\ ~Free(r)
  BY DEF ListInv, LoadFails, At
<1>2. /\ request' \in [Requests -> ListCalls \cup {None}]
      /\ request'[r] = None /\ Busy(r)' = Busy(r)
      /\ \A o \in Requests \ {r} : SameCall(o) /\ request'[o] = request[o]
  BY <1>1, TurnFacts DEF LoadFails
<1>3. /\ shown' = shown /\ honest' = honest /\ cut' = cut
      /\ box' = box /\ server' = server /\ made' = made /\ total' = total /\ page' = page
      /\ cache' = cache /\ deleted' = deleted /\ OnServer' = OnServer
  BY DEF LoadFails, OnServer
<1>4. \A o \in Requests : ~Free(o)' => ListCallOK(request[o])'
  <2>1. (request'[r] = None \/ ListCallOK(request'[r])) /\ \A o \in Requests \ {r} : SameCall(o)
    BY <1>2
  <2> QED
    BY <1>1, <1>3, <2>1, CallsKept
<1>5. ListTyped'
  BY <1>1, <1>2, <1>3, <1>4 DEF ListTyped
<1>6. honest' => Whole(shown, page, total)'
  BY <1>3 DEF ListInv, Whole, AtOnce
<1>7. LoadSound(r)' /\ ChangeSound(r)'
  BY <1>2 DEF LoadSound, ChangeSound, At, Free
<1>8. \A o \in Requests \ {r} : LoadSound(o)' /\ ChangeSound(o)'
  <2>1. honest' => honest /\ (cut' \/ (~cut /\ OnServer \subseteq OnServer'))
    BY <1>1, <1>3 DEF ListTyped
  <2>2. \A o \in Requests \ {r} :
          ~Free(o) /\ request[o].at \in {"load", "loaded"} => ~request'[o].alone
    BY <1>1, <1>2, Busied
  <2> QED
    BY <1>1, <1>2, <1>3, <2>1, <2>2, OtherCall, TypedFacts
<1> QED
  BY <1>5, <1>6, <1>7, <1>8 DEF ListInv

(* An answer is shown: the list is honest when the load still is alone.     *)
LEMMA LoadedSound ==
  ASSUME ListInv, NEW r \in Requests, Loaded(r)
  PROVE  ListInv'
<1> DEFINE call == request[r]
<1>1. ListTyped /\ ~Free(r) /\ call.at = "loaded" /\ LoadSound(r)
  BY DEF ListInv, Loaded, At
<1>2. /\ ListCallOK(call) /\ call.page \in Nat \ {0} /\ call.of \in Nat
      /\ call.alone \in BOOLEAN /\ call.answer \in Seq(1 .. made)
  BY <1>1, CallTyped
<1>3. /\ request' \in [Requests -> ListCalls \cup {None}]
      /\ request'[r] = None /\ Busy(r)' = Busy(r)
      /\ \A o \in Requests \ {r} : SameCall(o) /\ request'[o] = request[o]
  BY <1>1, TurnFacts DEF Loaded
<1>4. /\ shown' = ShowsNext(call) /\ honest' = Counts(call) /\ total' = call.of
      /\ page' = call.page /\ cache' = (IF AtOnce THEN call.answer ELSE cache)
      /\ cut' = cut /\ box' = box /\ server' = server /\ made' = made
      /\ deleted' = deleted /\ OnServer' = OnServer
  BY DEF Loaded, OnServer, ShowsNext, Counts
<1> HIDE DEF call
<1>5. ShowsNext(call) \in Seq(0 .. made)
  <2>1. (1 .. made) \subseteq (0 .. made) /\ shown \in Seq(0 .. made)
    BY <1>1, TypedFacts DEF ListTyped
  <2>2. call.answer \in Seq(0 .. made)
    BY <1>2, <2>1, SeqMonotonic
  <2>3. shown \o call.answer \in Seq(0 .. made)
    BY <2>1, <2>2, ConcatProperties
  <2> QED
    BY <2>2, <2>3 DEF ShowsNext
<1>6. \A o \in Requests : ~Free(o)' => ListCallOK(request[o])'
  <2>1. (request'[r] = None \/ ListCallOK(request'[r])) /\ \A o \in Requests \ {r} : SameCall(o)
    BY <1>3
  <2> QED
    BY <1>1, <1>4, <2>1, CallsKept
<1>7. ListTyped'
  <2>1. honest' \in BOOLEAN /\ cache' \in Seq(1 .. made)
    BY <1>1, <1>2, <1>4 DEF Counts, ListTyped
  <2> QED
    BY <1>1, <1>2, <1>3, <1>4, <1>5, <1>6, <2>1 DEF ListTyped
<1>8. honest' => Whole(shown, page, total)'
  <2>1. Counts(call) => Whole(ShowsNext(call), call.page, call.of)
    BY <1>1 DEF LoadSound, At, call
  <2> QED
    BY <1>4, <2>1 DEF Whole, AtOnce
<1>9. LoadSound(r)' /\ ChangeSound(r)'
  BY <1>3 DEF LoadSound, ChangeSound, At, Free
<1>10. \A o \in Requests \ {r} : LoadSound(o)' /\ ChangeSound(o)'
  <2>1. CASE call.alone
    <3>1. Busy(r) = {}
      BY <1>1, <2>1 DEF LoadSound, At, call
    <3>2. \A o \in Requests \ {r} : Free(o)'
      BY <1>3, <3>1 DEF Busy, SameCall
    <3> QED
      BY <3>2 DEF LoadSound, ChangeSound, At
  <2>2. CASE ~call.alone
    <3>1. ~honest'
      BY <1>4, <2>2 DEF Counts
    <3>2. \A o \in Requests \ {r} :
            ~Free(o) /\ request[o].at \in {"load", "loaded"} => ~request'[o].alone
      BY <1>1, <1>3, Busied
    <3> QED
      BY <1>1, <1>3, <1>4, <3>1, <3>2, OtherCall, TypedFacts
  <2> QED
    BY <2>1, <2>2
<1> QED
  BY <1>7, <1>8, <1>9, <1>10 DEF ListInv

-----------------------------------------------------------------------------
(* The server's list once an item is made, or deleted.                      *)
LEMMA MadeTyped ==
  ASSUME ListTyped, made < MaxItems
  PROVE  LET longer == Append(server, made + 1)
         IN  /\ longer \in Seq(1 .. made + 1) /\ Rising(longer) /\ Len(longer) <= made + 1
             /\ {longer[i] : i \in DOMAIN longer} = OnServer \cup {made + 1}
<1> DEFINE longer == Append(server, made + 1)
<1>1. made \in Nat /\ (1 .. made) \cup {made + 1} = 1 .. made + 1 /\ Len(server) \in Nat
      /\ Len(server) <= made /\ server \in Seq(1 .. made) /\ Rising(server)
  BY TypedFacts DEF ListTyped
<1>2. /\ longer \in Seq((1 .. made) \cup {made + 1}) /\ Len(longer) = Len(server) + 1
      /\ DOMAIN longer = 1 .. Len(server) + 1
      /\ \A i \in 1 .. Len(server) : longer[i] = server[i]
      /\ longer[Len(server) + 1] = made + 1
  BY <1>1, AppendFacts
<1> HIDE DEF longer
<1>3. \A i \in DOMAIN longer : (i \in 1 .. Len(server) /\ longer[i] = server[i])
                               \/ (i = Len(server) + 1 /\ longer[i] = made + 1)
  BY <1>1, <1>2
<1>4. Rising(longer)
  <2> SUFFICES ASSUME NEW i \in DOMAIN longer, NEW j \in DOMAIN longer, i < j
               PROVE  longer[i] < longer[j]
    BY DEF Rising
  <2>1. i \in 1 .. Len(server) /\ longer[i] = server[i]
    BY <1>1, <1>2, <1>3
  <2>2. CASE j \in 1 .. Len(server) /\ longer[j] = server[j]
    BY <1>1, <2>1, <2>2, TypedFacts DEF Rising
  <2>3. CASE j = Len(server) + 1 /\ longer[j] = made + 1
    BY <1>1, <2>1, <2>3, TypedFacts
  <2> QED
    BY <1>3, <2>2, <2>3
<1>5. {longer[i] : i \in DOMAIN longer} = OnServer \cup {made + 1}
  <2>1. \A i \in DOMAIN longer : longer[i] \in OnServer \cup {made + 1}
    BY <1>3, TypedFacts
  <2>2. \A x \in OnServer \cup {made + 1} : \E i \in DOMAIN longer : longer[i] = x
    <3>1. \A i \in DOMAIN server : i \in DOMAIN longer /\ longer[i] = server[i]
      BY <1>1, <1>2, TypedFacts
    <3>2. Len(server) + 1 \in DOMAIN longer
      BY <1>1, <1>2
    <3> QED
      BY <1>2, <3>1, <3>2 DEF OnServer
  <2> QED
    BY <2>1, <2>2
<1>6. longer \in Seq(1 .. made + 1) /\ Len(longer) <= made + 1
  BY <1>1, <1>2
<1> QED
  BY <1>4, <1>5, <1>6 DEF longer

LEMMA GoneTyped ==
  ASSUME ListTyped, NEW item
  PROVE  LET shorter == Without(server, item)
         IN  /\ shorter \in Seq(1 .. made) /\ Rising(shorter) /\ Len(shorter) <= made
             /\ {shorter[i] : i \in DOMAIN shorter} \subseteq OnServer \ {item}
             /\ item \notin OnServer => shorter = server
<1> DEFINE shorter == Without(server, item)
<1>1. server \in Seq(1 .. made) /\ Rising(server) /\ Len(server) <= made /\ Len(server) \in Nat
      /\ made \in Nat
  BY TypedFacts DEF ListTyped
<1>2. /\ shorter \in Seq(1 .. made) /\ Len(shorter) <= Len(server)
      /\ \A k \in DOMAIN shorter :
           /\ Place(server, item, k) \in DOMAIN server
           /\ shorter[k] = server[Place(server, item, k)] /\ shorter[k] # item
      /\ (\A i \in DOMAIN server : server[i] # item) => shorter = server
  BY <1>1, WithoutFacts
<1>3. Rising(shorter)
  BY <1>1, RisingWithout
<1> HIDE DEF shorter
<1>4. Len(shorter) <= made
  <2>1. Len(shorter) \in Nat
    BY <1>2, LenProperties
  <2> QED
    BY <1>1, <1>2, <2>1
<1>5. {shorter[i] : i \in DOMAIN shorter} \subseteq OnServer \ {item}
  BY <1>2 DEF OnServer
<1>6. item \notin OnServer => shorter = server
  BY <1>2 DEF OnServer
<1> QED
  BY <1>2, <1>3, <1>4, <1>5, <1>6 DEF shorter

LEMMA PostedSound ==
  ASSUME ListInv, NEW r \in Requests, Posted(r)
  PROVE  ListInv'
<1> DEFINE moved == [request[r] EXCEPT !.at = "posted"]
           carried == made < MaxItems /\ made' = made + 1 /\ server' = Append(server, made + 1)
           kept == UNCHANGED <<server, made>>
<1>1. ListTyped /\ ~Free(r) /\ request[r].at = "post" /\ ~honest /\ made \in Nat
  BY TypedFacts DEF ListInv, Posted, At, ChangeSound
<1>2. \/ carried /\ Turns(r, moved) /\ UNCHANGED <<shown, total>>
      \/ /\ carried \/ kept
         /\ Turns(r, None) /\ shown' = Without(shown, Draft) /\ total' \in {total, Less(total)}
  BY DEF Posted
<1>3. /\ box' = box /\ page' = page /\ cache' = cache /\ honest' = honest /\ cut' = cut
      /\ deleted' = deleted
  BY DEF Posted
<1>4. ListCallOK(moved) /\ moved.at = "posted"
  <2>1. ListCallOK(request[r]) /\ request[r] \in ListCalls
    BY <1>1, CallTyped
  <2>2. /\ moved \in ListCalls /\ moved.at = "posted" /\ moved.page = request[r].page
        /\ moved.answer = request[r].answer /\ moved.item = request[r].item
    BY <2>1 DEF ListCalls
  <2> QED
    BY <2>1, <2>2 DEF ListCallOK
<1> HIDE DEF moved
<1>5. /\ request' \in [Requests -> ListCalls \cup {None}]
      /\ request'[r] \in {moved, None}
      /\ \A o \in Requests \ {r} : SameCall(o) /\ request'[o] = request[o]
  BY <1>1, <1>2, <1>4, TurnFacts
<1>6. /\ made' \in made .. MaxItems /\ server' \in Seq(1 .. made') /\ Rising(server')
      /\ Len(server') <= made' /\ OnServer' \subseteq OnServer \cup {made + 1}
      /\ OnServer' \cap (1 .. made) = OnServer
  <2>1. CASE carried
    <3>1. made' = made + 1 /\ made' \in made .. MaxItems
      BY <1>1, <2>1, FeedAssumption
    <3>2. /\ server' \in Seq(1 .. made + 1) /\ Rising(server') /\ Len(server') <= made + 1
          /\ OnServer' = OnServer \cup {made + 1}
      BY <1>1, <2>1, MadeTyped DEF OnServer
    <3>3. OnServer' \cap (1 .. made) = OnServer
      BY <1>1, <3>2, TypedFacts
    <3> QED
      BY <3>1, <3>2, <3>3
  <2>2. CASE kept
    BY <1>1, <2>2, TypedFacts DEF ListTyped, OnServer
  <2> QED
    BY <1>2, <2>1, <2>2
<1>7. shown' \in Seq(0 .. made') /\ total' \in Nat
  <2>1. shown' \in Seq(0 .. made)
    BY <1>1, <1>2, WithoutFacts DEF ListTyped
  <2>2. (0 .. made) \subseteq (0 .. made')
    BY <1>1, <1>6
  <2>3. total' \in Nat
    BY <1>1, <1>2 DEF ListTyped, Less
  <2> QED
    BY <2>1, <2>2, <2>3, SeqMonotonic
<1>8. \A o \in Requests : ~Free(o)' => ListCallOK(request[o])'
  <2>1. (request'[r] = None \/ ListCallOK(request'[r])) /\ \A o \in Requests \ {r} : SameCall(o)
    BY <1>4, <1>5
  <2>2. made' \in Nat /\ made <= made'
    BY <1>1, <1>6
  <2> QED
    BY <1>1, <1>3, <2>1, <2>2, CallsTyped
<1>9. ListTyped'
  <2>1. deleted' \subseteq (1 .. made') \ OnServer'
    BY <1>1, <1>3, <1>6 DEF ListTyped
  <2>2. cache' \in Seq(1 .. made')
    <3>1. (1 .. made) \subseteq (1 .. made') /\ cache \in Seq(1 .. made)
      BY <1>1, <1>6 DEF ListTyped
    <3> QED
      BY <1>3, <3>1, SeqMonotonic
  <2>3. made' \in 0 .. MaxItems
    BY <1>1, <1>6
  <2> QED
    BY <1>1, <1>3, <1>5, <1>6, <1>7, <1>8, <2>1, <2>2, <2>3 DEF ListTyped
<1>10. LoadSound(r)' /\ ChangeSound(r)'
  BY <1>1, <1>3, <1>4, <1>5 DEF LoadSound, ChangeSound, At, Free
<1>11. \A o \in Requests \ {r} : LoadSound(o)' /\ ChangeSound(o)'
  <2>1. \A o \in Requests \ {r} :
          ~Free(o) /\ request[o].at \in {"load", "loaded"} => ~request'[o].alone
    BY <1>1, <1>5, Busied
  <2> QED
    BY <1>1, <1>3, <1>5, <1>6, <2>1, OtherCall
<1> QED
  BY <1>1, <1>3, <1>9, <1>10, <1>11 DEF ListInv

LEMMA ServeDeleteSound ==
  ASSUME ListInv, NEW r \in Requests, ServeDelete(r)
  PROVE  ListInv'
<1> DEFINE item == request[r].item
           moved == [request[r] EXCEPT !.at = "deleted"]
           gone == server' = Without(server, item) /\ cut' = (cut \/ item \in OnServer)
<1>1. ListTyped /\ ~Free(r) /\ request[r].at = "delete" /\ made \in Nat /\ ChangeSound(r)
  BY TypedFacts DEF ListInv, ServeDelete, At
<1>2. \/ gone /\ (Turns(r, moved) \/ Turns(r, None))
      \/ Turns(r, None) /\ UNCHANGED <<server, cut>>
  BY DEF ServeDelete
<1>3. /\ shown' = shown /\ honest' = honest /\ box' = box /\ made' = made /\ total' = total
      /\ page' = page /\ cache' = cache /\ deleted' = deleted
  BY DEF ServeDelete
<1>4. /\ ListCallOK(moved) /\ moved.at = "deleted" /\ moved.item = item
      /\ item \in 1 .. made /\ (honest => cut \/ item \in OnServer)
  <2>1. ListCallOK(request[r]) /\ request[r] \in ListCalls /\ item \in 0 .. made
    BY <1>1, CallTyped
  <2>2. /\ moved \in ListCalls /\ moved.at = "deleted" /\ moved.page = request[r].page
        /\ moved.answer = request[r].answer /\ moved.item = request[r].item
    BY <2>1 DEF ListCalls
  <2>3. item # 0 /\ (honest => cut \/ item \in OnServer)
    BY <1>1 DEF ChangeSound, At, Draft
  <2> QED
    BY <1>1, <2>1, <2>2, <2>3 DEF ListCallOK
<1>5. /\ request' \in [Requests -> ListCalls \cup {None}]
      /\ request'[r] = None \/ (request'[r] = moved /\ gone)
      /\ \A o \in Requests \ {r} : SameCall(o) /\ request'[o] = request[o]
  BY <1>1, <1>2, <1>4, TurnFacts
<1> HIDE DEF item, moved
<1>6. /\ server' \in Seq(1 .. made) /\ Rising(server') /\ Len(server') <= made
      /\ OnServer' \subseteq OnServer /\ cut' \in BOOLEAN
      /\ gone => item \notin OnServer'
      /\ cut' \/ (~cut /\ OnServer \subseteq OnServer')
  <2>1. CASE gone
    <3>1. /\ server' \in Seq(1 .. made) /\ Rising(server') /\ Len(server') <= made
          /\ OnServer' \subseteq OnServer \ {item}
          /\ item \notin OnServer => server' = server
      BY <1>1, <2>1, GoneTyped DEF OnServer
    <3> QED
      BY <1>1, <2>1, <3>1 DEF ListTyped, OnServer
  <2>2. CASE ~gone /\ UNCHANGED <<server, cut>>
    <3>1. OnServer' = OnServer /\ server' = server /\ cut' = cut
      BY <2>2 DEF OnServer
    <3> QED
      BY <1>1, <2>2, <3>1 DEF ListTyped
  <2> QED
    BY <1>2, <2>1, <2>2
<1>7. \A o \in Requests : ~Free(o)' => ListCallOK(request[o])'
  <2>1. (request'[r] = None \/ ListCallOK(request'[r])) /\ \A o \in Requests \ {r} : SameCall(o)
    BY <1>4, <1>5
  <2> QED
    BY <1>1, <1>3, <2>1, CallsKept
<1>8. ListTyped'
  BY <1>1, <1>3, <1>5, <1>6, <1>7 DEF ListTyped
<1>9. honest' => Whole(shown, page, total)'
  <2> SUFFICES ASSUME honest PROVE Whole(shown, page, total)'
    BY <1>3
  <2>1. Whole(shown, page, total) /\ shown \in Seq(0 .. made) /\ page \in Nat \ {0} /\ total \in Nat
    BY <1>1 DEF ListInv, ListTyped
  <2>2. CASE gone
    BY <1>1, <1>3, <2>1, <2>2, WholeShrinks
  <2>3. CASE UNCHANGED <<server, cut>>
    BY <1>3, <2>1, <2>3 DEF Whole, AtOnce
  <2> QED
    BY <1>2, <2>2, <2>3
<1>10. LoadSound(r)' /\ ChangeSound(r)'
  <2>1. CASE request'[r] = None
    BY <2>1 DEF LoadSound, ChangeSound, At, Free
  <2>2. CASE request'[r] = moved /\ gone
    <3>1. request'[r].at = "deleted" /\ request'[r].item \in (1 .. made') \ OnServer'
          /\ (honest' => cut')
      <4>1. request'[r].at = "deleted" /\ request'[r].item = item
        BY <1>4, <2>2
      <4>2. item \in (1 .. made') \ OnServer'
        BY <1>3, <1>4, <1>6, <2>2
      <4>3. honest' => cut'
        BY <1>3, <1>4, <2>2
      <4> QED
        BY <4>1, <4>2, <4>3
    <3> QED
      BY <3>1 DEF LoadSound, ChangeSound, At
  <2> QED
    BY <1>5, <2>1, <2>2
<1>11. \A o \in Requests \ {r} : LoadSound(o)' /\ ChangeSound(o)'
  <2>1. \A o \in Requests \ {r} :
          ~Free(o) /\ request[o].at \in {"load", "loaded"} => ~request'[o].alone
    BY <1>1, <1>5, Busied
  <2> QED
    BY <1>1, <1>3, <1>5, <1>6, <2>1, OtherCall
<1> QED
  BY <1>8, <1>9, <1>10, <1>11 DEF ListInv

LEMMA DeletedSound ==
  ASSUME ListInv, NEW r \in Requests, Deleted(r)
  PROVE  ListInv'
<1> DEFINE item == request[r].item
<1>1. ListTyped /\ ~Free(r) /\ request[r].at = "deleted" /\ made \in Nat
      /\ item \in (1 .. made) \ OnServer /\ (honest => cut)
  BY TypedFacts DEF ListInv, Deleted, At, ChangeSound
<1>2. /\ request' \in [Requests -> ListCalls \cup {None}]
      /\ request'[r] = None
      /\ \A o \in Requests \ {r} : SameCall(o) /\ request'[o] = request[o]
  BY <1>1, TurnFacts DEF Deleted
<1>3. /\ shown' = Without(shown, item) /\ deleted' = deleted \cup {item}
      /\ honest' = honest /\ cut' = cut /\ box' = box /\ server' = server /\ made' = made
      /\ page' = page /\ cache' = cache /\ OnServer' = OnServer
  BY DEF Deleted, OnServer
<1>4. total' \in Nat
  <2>1. total' \in {total, Less(total)} /\ total \in Nat
    BY <1>1 DEF Deleted, RemovePost, RemoveComment, HandleDeleteComment, ListTyped
  <2> QED
    BY <2>1 DEF Less
<1> HIDE DEF item
<1>5. \A o \in Requests : ~Free(o)' => ListCallOK(request[o])'
  <2>1. (request'[r] = None \/ ListCallOK(request'[r])) /\ \A o \in Requests \ {r} : SameCall(o)
    BY <1>2
  <2> QED
    BY <1>1, <1>3, <2>1, CallsKept
<1>6. ListTyped'
  <2>1. shown' \in Seq(0 .. made)
    BY <1>1, <1>3, WithoutFacts DEF ListTyped
  <2>2. deleted' \subseteq (1 .. made) \ OnServer
    BY <1>1, <1>3 DEF ListTyped
  <2> QED
    BY <1>1, <1>2, <1>3, <1>4, <1>5, <2>1, <2>2 DEF ListTyped
<1>7. honest' => Whole(shown, page, total)'
  <2> SUFFICES ASSUME honest PROVE Whole(shown, page, total)'
    BY <1>3
  <2>1. Whole(shown, page, total) /\ shown \in Seq(0 .. made)
    BY <1>1 DEF ListInv, ListTyped
  <2>2. PICK list, p, n, m, i : list = shown /\ p = page /\ n = total /\ m = total' /\ i = item
    OBVIOUS
  <2>3. Whole(list, p, n) /\ list \in Seq(0 .. made)
    BY <2>1, <2>2
  <2>4. Whole(Without(list, i), p, m)'
    BY <1>1, <1>3, <2>2, <2>3, WholeTold
  <2>5. shown' = Without(list, i) /\ page' = p /\ total' = m
    BY <1>3, <2>2
  <2> QED
    BY <2>4, <2>5 DEF Whole
<1>8. LoadSound(r)' /\ ChangeSound(r)'
  BY <1>2 DEF LoadSound, ChangeSound, At, Free
<1>9. \A o \in Requests \ {r} : LoadSound(o)' /\ ChangeSound(o)'
  <2>1. honest' => honest /\ (cut' \/ (~cut /\ OnServer \subseteq OnServer'))
    BY <1>1, <1>3
  <2>2. \A o \in Requests \ {r} :
          ~Free(o) /\ request[o].at \in {"load", "loaded"} => ~request'[o].alone
    BY <1>1, <1>2, Busied
  <2> QED
    BY <1>1, <1>2, <1>3, <2>1, <2>2, OtherCall
<1> QED
  BY <1>6, <1>7, <1>8, <1>9 DEF ListInv

(* Somebody else, on another page: what is shown and what was answered       *)
(* stays the first of what the server has, or an item was deleted.           *)
LEMMA ElsewhereSound ==
  ASSUME ListInv, Elsewhere
  PROVE  ListInv'
<1> DEFINE carried == made < MaxItems /\ made' = made + 1 /\ server' = Append(server, made + 1)
                      /\ cut' = cut
<1>1. ListTyped /\ made \in Nat
  BY TypedFacts DEF ListInv
<1>2. /\ request' = request /\ box' = box /\ shown' = shown /\ total' = total /\ page' = page
      /\ cache' = cache /\ honest' = honest /\ deleted' = deleted
  BY DEF Elsewhere
<1>3. \/ carried
      \/ \E i \in OnServer : server' = Without(server, i) /\ cut' = TRUE /\ made' = made
  BY DEF Elsewhere
<1>4. \A o \in Requests : SameCall(o) /\ (Free(o)' <=> Free(o))
  BY <1>1, <1>2, CallTyped DEF SameCall, Free
<1>5. /\ made' \in made .. MaxItems /\ server' \in Seq(1 .. made') /\ Rising(server')
      /\ Len(server') <= made' /\ OnServer' \subseteq OnServer \cup {made + 1}
      /\ OnServer' \cap (1 .. made) \subseteq OnServer /\ cut' \in BOOLEAN
      /\ cut' \/ (~cut /\ OnServer \subseteq OnServer')
  <2>1. CASE carried
    <3>1. made' = made + 1 /\ made' \in made .. MaxItems /\ cut' = cut /\ cut \in BOOLEAN
      BY <1>1, <2>1, FeedAssumption DEF ListTyped
    <3>2. /\ server' \in Seq(1 .. made + 1) /\ Rising(server') /\ Len(server') <= made + 1
          /\ OnServer' = OnServer \cup {made + 1}
      BY <1>1, <2>1, MadeTyped DEF OnServer
    <3>3. OnServer' \cap (1 .. made) \subseteq OnServer
      BY <1>1, <3>2
    <3> QED
      BY <3>1, <3>2, <3>3
  <2>2. ASSUME NEW i \in OnServer, server' = Without(server, i), cut' = TRUE, made' = made
        PROVE  /\ made' \in made .. MaxItems /\ server' \in Seq(1 .. made') /\ Rising(server')
               /\ Len(server') <= made' /\ OnServer' \subseteq OnServer /\ cut'
    <3>1. /\ server' \in Seq(1 .. made) /\ Rising(server') /\ Len(server') <= made
          /\ OnServer' \subseteq OnServer \ {i}
      BY <1>1, <2>2, GoneTyped DEF OnServer
    <3>2. made' \in made .. MaxItems
      BY <1>1, <2>2, FeedAssumption DEF ListTyped
    <3> QED
      BY <2>2, <3>1, <3>2
  <2> QED
    BY <1>3, <2>1, <2>2
<1>6. \A o \in Requests : ~Free(o)' => ListCallOK(request[o])'
  <2>1. \A o \in Requests : ~Free(o)' => ListCallOK(request'[o])
    BY <1>4 DEF SameCall
  <2>2. made' \in Nat /\ made <= made'
    BY <1>1, <1>5
  <2> QED
    BY <1>1, <1>2, <2>1, <2>2, AllCallsTyped
<1>7. ListTyped'
  <2>1. (1 .. made) \subseteq (1 .. made') /\ (0 .. made) \subseteq (0 .. made')
    BY <1>1, <1>5
  <2>2. cache' \in Seq(1 .. made') /\ shown' \in Seq(0 .. made')
    BY <1>1, <1>2, <2>1, SeqMonotonic DEF ListTyped
  <2>3. deleted' \subseteq (1 .. made') \ OnServer'
    BY <1>1, <1>2, <1>5, <2>1 DEF ListTyped
  <2>4. made' \in 0 .. MaxItems
    BY <1>1, <1>5
  <2> QED
    BY <1>1, <1>2, <1>5, <1>6, <2>2, <2>3, <2>4 DEF ListTyped
<1>8. ASSUME NEW list \in Seq(0 .. made), NEW p \in Nat \ {0}, NEW n \in Nat, Whole(list, p, n)
      PROVE  Whole(list, p, n)'
  <2>1. CASE carried
    BY <1>1, <1>2, <1>7, <1>8, <2>1, WholeGrows
  <2>2. ASSUME NEW i \in OnServer, server' = Without(server, i), cut' = TRUE, made' = made
        PROVE  Whole(list, p, n)'
    BY <1>1, <1>2, <1>8, <2>2, WholeShrinks
  <2> QED
    BY <1>3, <2>1, <2>2
<1>9. honest' => Whole(shown, page, total)'
  BY <1>1, <1>2, <1>8 DEF ListInv, ListTyped
<1>10. ASSUME NEW r \in Requests
       PROVE  LoadSound(r)' /\ ChangeSound(r)'
  <2> SUFFICES ASSUME ~Free(r), ~Free(r)' PROVE LoadSound(r)' /\ ChangeSound(r)'
    BY <1>4 DEF LoadSound, ChangeSound, At
  <2> DEFINE call == request[r]
  <2>1. /\ ListCallOK(call) /\ call.page \in Nat \ {0} /\ call.of \in Nat
        /\ call.answer \in Seq(1 .. made) /\ LoadSound(r) /\ ChangeSound(r)
    BY <1>1, CallTyped DEF ListInv
  <2>2. ShowsNext(call) \in Seq(0 .. made)
    <3>1. (1 .. made) \subseteq (0 .. made) /\ shown \in Seq(0 .. made)
      BY <1>1 DEF ListTyped
    <3>2. call.answer \in Seq(0 .. made)
      BY <2>1, <3>1, SeqMonotonic
    <3>3. shown \o call.answer \in Seq(0 .. made)
      BY <3>1, <3>2, ConcatProperties
    <3> QED
      BY <3>2, <3>3 DEF ShowsNext
  <2>3. LoadSound(r)'
    <3> SUFFICES ASSUME call.at \in {"load", "loaded"} PROVE LoadSound(r)'
      BY <1>2 DEF LoadSound, At
    <3>1. call.alone => Busy(r)' = {}
      BY <1>2, <2>1 DEF LoadSound, At, Busy, Free
    <3>2. Counts(call)' <=> Counts(call)
      BY <1>2 DEF Counts
    <3>3. CASE call.at = "loaded" /\ Counts(call)
      <4>1. Whole(ShowsNext(call), call.page, call.of)
        BY <2>1, <3>3 DEF LoadSound, At
      <4>2. Whole(ShowsNext(call), call.page, call.of)'
        BY <1>2, <1>8, <2>1, <2>2, <4>1 DEF ShowsNext
      <4> QED
        BY <1>2, <3>1, <3>3, <4>2 DEF LoadSound, At
    <3>4. CASE call.at = "load"
      BY <1>2, <1>5, <2>1, <3>1, <3>4 DEF LoadSound, At, Counts
    <3>5. CASE call.at = "loaded" /\ ~Counts(call)
      BY <1>2, <3>1, <3>2, <3>5 DEF LoadSound, At
    <3> QED
      BY <3>3, <3>4, <3>5
  <2>4. ChangeSound(r)'
    BY <1>1, <1>2, <1>5, <2>1 DEF ChangeSound, At
  <2> QED
    BY <2>3, <2>4
<1> QED
  BY <1>7, <1>9, <1>10 DEF ListInv

(* A page that shows nothing yet, whatever was cached.                      *)
LEMMA InitSound == ListInit => ListInv
<1> SUFFICES ASSUME ListInit PROVE ListInv
  OBVIOUS
<1>1. made \in 0 .. MaxItems /\ made \in Nat /\ server = [i \in 1 .. made |-> i]
  BY FeedAssumption DEF ListInit, Items
<1>2. server \in Seq(1 .. made) /\ Rising(server) /\ Len(server) = made
  <2>1. server \in [1 .. made -> 1 .. made]
    BY <1>1
  <2>2. server \in Seq(1 .. made)
    BY <1>1, <2>1, SeqDef
  <2>3. Len(server) = made
    BY <1>1, <2>2, LenProperties
  <2> QED
    BY <1>1, <2>2, <2>3 DEF Rising
<1>3. cache \in Seq(1 .. made)
  <2>1. <<>> \in Seq(1 .. made)
    OBVIOUS
  <2>2. ASSUME NEW n \in 0 .. made
        PROVE  SubSeq(server, 1, n) \in Seq(1 .. made)
    <3>1. 1 \in Int /\ n \in Int /\ \A i \in 1 .. n : server[i] \in 1 .. made
      BY <1>1
    <3> QED
      BY <3>1, SubSeqProperties
  <2> QED
    BY <2>1, <2>2 DEF ListInit
<1>4. /\ request = [r \in Requests |-> None] /\ box \in Boxes /\ shown = <<>> /\ total = 0
      /\ page = 1 /\ honest = FALSE /\ cut = FALSE /\ deleted = {}
  BY DEF ListInit
<1>5. \A r \in Requests : Free(r)
  BY <1>4 DEF Free
<1>6. ListTyped
  <2>1. <<>> \in Seq(0 .. made) /\ 0 \in Nat /\ 1 \in Nat \ {0} /\ Len(server) <= made
    BY <1>1, <1>2
  <2>2. request \in [Requests -> ListCalls \cup {None}]
    BY <1>4
  <2> QED
    BY <1>1, <1>2, <1>3, <1>4, <1>5, <2>1, <2>2 DEF ListTyped
<1> QED
  BY <1>4, <1>5, <1>6 DEF ListInv, LoadSound, ChangeSound, At

(* A list that counts as loaded alone shows nothing twice and nothing the   *)
(* page was told is deleted, and is the first of what the server has until  *)
(* an item is deleted: for pages of any size and any number of them,        *)
(* however loads, posts and deletions of the page and of others overlap.    *)
THEOREM ListCorrect == ListSpec => []ListIsHonest
<1>1. ListInit => ListInv
  BY InitSound
<1>2. ListInv /\ [ListNext]_feedVars => ListInv'
  <2> SUFFICES ASSUME ListInv, [ListNext]_feedVars PROVE ListInv'
    OBVIOUS
  <2>1. ASSUME NEW r \in Requests, Open(r) PROVE ListInv'
    BY <2>1, AnyLoadSound DEF Open
  <2>2. ASSUME NEW r \in Requests, Reload(r) \/ UnlinkSubscription(r) PROVE ListInv'
    <3>1. page' \in Nat \ {0}
      <4>1. page \in Nat \ {0} /\ 1 \in Nat \ {0}
        BY DEF ListInv, ListTyped
      <4>2. page' \in {page, 1}
        BY <2>2 DEF Reload, UnlinkSubscription
      <4> QED
        BY <4>1, <4>2
    <3> QED
      BY <2>2, <3>1, AnyLoadSound DEF Reload, UnlinkSubscription
  <2>3. CASE UNCHANGED feedVars
    <3>1. /\ request' = request /\ box' = box /\ server' = server /\ made' = made
          /\ shown' = shown /\ total' = total /\ page' = page /\ cache' = cache
          /\ honest' = honest /\ cut' = cut /\ deleted' = deleted
      BY <2>3 DEF feedVars, listVars
    <3>2. ListTyped'
      BY <3>1 DEF ListInv, ListTyped, ListCallOK, AtOnce, Free, OnServer
    <3>3. honest' => Whole(shown, page, total)'
      BY <3>1 DEF ListInv, Whole, AtOnce
    <3>4. \A r \in Requests : LoadSound(r)' /\ ChangeSound(r)'
      <4> SUFFICES ASSUME NEW r \in Requests PROVE LoadSound(r)' /\ ChangeSound(r)'
        OBVIOUS
      <4>1. /\ (At(r, "load") \/ At(r, "loaded"))' <=> At(r, "load") \/ At(r, "loaded")
            /\ request[r]' = request[r] /\ Busy(r)' = Busy(r)
            /\ Counts(request[r])' <=> Counts(request[r])
        BY <3>1 DEF At, Free, Busy, Counts
      <4>2. Whole(ShowsNext(request[r]), request[r].page, request[r].of)'
              <=> Whole(ShowsNext(request[r]), request[r].page, request[r].of)
        BY <3>1 DEF Whole, ShowsNext, AtOnce
      <4>3. LoadSound(r)'
        BY <3>1, <4>1, <4>2 DEF ListInv, LoadSound
      <4>4. ChangeSound(r)'
        BY <3>1 DEF ListInv, ChangeSound, At, Free, OnServer
      <4> QED
        BY <4>3, <4>4
    <3> QED
      BY <3>2, <3>3, <3>4 DEF ListInv
  <2> QED
    BY <2>1, <2>2, <2>3, LoadMoreSound, ServeLoadSound, LoadedSound, LoadFailsSound, SubmitSound,
       PostedSound, ServeDeleteSound, DeletedSound, PressDeleteSound, ElsewhereSound DEF ListNext
<1>3. ListInv => ListIsHonest
  <2> SUFFICES ASSUME ListInv, honest PROVE ListIsHonest
    BY DEF ListIsHonest
  <2>1. Whole(shown, page, total) /\ \A i \in DOMAIN shown : shown[i] \in Nat /\ i \in Nat
    BY TypedFacts DEF ListInv
  <2>2. IsInjective(shown)
    BY <2>1 DEF Whole, Rising, IsInjective
  <2> QED
    BY <2>1, <2>2 DEF Whole, ListIsHonest
<1> QED
  BY <1>1, <1>2, <1>3, PTL DEF ListSpec

-----------------------------------------------------------------------------
(* SocialService *)

(* The profiles of a wallet that are no stream's.                           *)
Own(w) == OwnedBy(w) \ Streams

(* A profile that a request, or the row of a wallet, goes by.               *)
ProfileSound(p, w) ==
  p # None =>
    /\ Exists(p)
    /\ profiles[p].owner = w \/ profiles[p].owner \in troubled
    /\ w \notin troubled => p \in Own(w)

Upserts(call) == call.at \in {"merge", "write"}
(* The requests that hold a profile, those about to write the name they ask *)
(* for, and the logins that wrote it.                                       *)
Resolved(call) ==
  \/ call.at \in {"details", "fetchDetails", "core", "act"}
  \/ Upserts(call) /\ call.then # "user"
Gives(call) == call.asked # None /\ (call.kind = "patch" \/ call.then = "user")
Entered(call) ==
  /\ call.kind = "login" /\ call.asked # None
  /\ call.at \in ProfileSteps \cup {"core"} \/ (Upserts(call) /\ call.then # "user")

KindSound(call) ==
  /\ call.at \in UserSteps => call.kind \in {"get", "patch"}
  /\ call.at = "core" \/ (Upserts(call) /\ call.then = "core") => call.kind \in {"login", "patch"}
  /\ Upserts(call) /\ call.then = "user" => call.kind = "login"
  /\ Resolved(call) => call.put.profile # None

(* What a request may write over a name that was saved.                     *)
NameSound(call, name) ==
  /\ call.cached \in {None, name}
  /\ call.at \in {"fetch", "fetchDetails"} => call.cached = name
  /\ call.at = "merge" /\ ~Gives(call) => call.put.name \in {None, name}
  /\ call.at = "write" /\ ~Gives(call) => call.put.name = name

(* What a request that names its wallet has written so far.                 *)
AskedSound(call) ==
  /\ call.kind = "login" /\ call.asked # None /\ Upserts(call) /\ call.then = "user" =>
       call.put.name = call.asked
  /\ Entered(call) /\ call.alone =>
       /\ users[call.wallet].name = call.asked
       /\ call.at = "merge" => call.put.name = None
       /\ call.at = "write" => call.put.name = call.asked
  /\ call.kind = "patch" /\ call.asked # None /\ Upserts(call) /\ call.then = "end" =>
       /\ call.put.name = call.asked
       /\ call.alone /\ call.wallet \notin troubled =>
            profiles[call.put.profile].name = call.asked

BodySound(call) ==
  /\ KindSound(call) /\ AskedSound(call)
  /\ ProfileSound(call.put.profile, call.wallet)
  /\ call.wallet \notin troubled =>
       /\ call.at = "create" => Own(call.wallet) = {}
       /\ saved[call.wallet] # None => NameSound(call, saved[call.wallet])

RequestSound(s) ==
  /\ BodySound(calls[s])
  /\ calls[s].alone => Others(s, calls[s].wallet) = {}
  /\ calls[s].at = "create" /\ calls[s].wallet \notin troubled => ~Creating(s, calls[s].wallet)

WalletSound(w) ==
  /\ ProfileSound(users[w].profile, w)
  /\ w \notin troubled =>
       /\ \A p, q \in Own(w) : p = q
       /\ \A d \in deeds : d.wallet = w => d.profile \in Own(w)
       /\ saved[w] # None =>
            /\ users[w].name = saved[w]
            /\ \E p \in Own(w) : profiles[p].name = saved[w]

SocialInv ==
  /\ SocialTypeOK
  /\ \A w \in Wallets : WalletSound(w)
  /\ \A s \in Slots : calls[s] # None => RequestSound(s)

LEMMA CallFacts ==
  ASSUME SocialInv, NEW s \in Slots, calls[s] # None
  PROVE  /\ calls[s] \in Calls /\ RequestSound(s)
         /\ calls[s].wallet \in Wallets /\ calls[s].asked \in Names \cup {None}
         /\ calls[s].cached \in Titles /\ calls[s].put \in Rows
         /\ calls[s].put.name \in Titles /\ calls[s].put.profile \in Ids \cup {None}
         /\ calls[s].alone \in BOOLEAN
         /\ calls[s].then \in {"user", "core", "act", "end"}
         /\ WalletSound(calls[s].wallet)
<1>1. calls[s] \in Calls /\ RequestSound(s)
  BY DEF SocialInv, SocialTypeOK
<1>2. calls[s].wallet \in Wallets /\ calls[s].put \in Rows
  BY <1>1 DEF Calls
<1> QED
  BY <1>1, <1>2 DEF Calls, Rows, SocialInv

(* Profiles are made, renamed and never taken away; so what a request goes  *)
(* by stays there.                                                          *)
Grows ==
  /\ troubled \subseteq troubled'
  /\ \A p \in Ids : Exists(p) => Exists(p)' /\ profiles'[p].owner = profiles[p].owner

LEMMA Grown ==
  ASSUME Grows
  PROVE  /\ \A w \in Wallets : Own(w) \subseteq Own(w)'
         /\ \A w \in Wallets, p \in Ids \cup {None} : ProfileSound(p, w) => ProfileSound(p, w)'
<1>1. \A w \in Wallets : Own(w) \subseteq Own(w)'
  BY DEF Grows, Own, OwnedBy
<1>2. ASSUME NEW w \in Wallets, NEW p \in Ids, ProfileSound(p, w), p # None PROVE ProfileSound(p, w)'
  BY <1>1, <1>2 DEF Grows, ProfileSound
<1> QED
  BY <1>1, <1>2 DEF ProfileSound

(* A step of one request leaves what the others have behind them.           *)
LEMMA RequestStep ==
  ASSUME SocialInv, SocialTypeOK', NEW s \in Slots, calls[s] # None,
         NEW w \in Wallets, w = calls[s].wallet,
         NEW next \in Calls \cup {None}, calls' = [calls EXCEPT ![s] = next],
         Grows,
         \A p \in Ids : ~Exists(p) /\ Exists(p)' => profiles'[p].owner = w /\ calls[s].at = "create",
         \A p \in Ids : Exists(p) /\ p # calls[s].put.profile => profiles'[p] = profiles[p],
         \A v \in Wallets \ {w} : users'[v] = users[v] /\ saved'[v] = saved[v],
         \A d \in deeds' : d.wallet # w => d \in deeds,
         saved'[w] \in {saved[w], None} \/ calls[s].alone,
         WalletSound(w)',
         next # None =>
           /\ next.wallet = w /\ next.alone = calls[s].alone /\ BodySound(next)'
           /\ next.at = "create" /\ w \notin troubled' => ~Creating(s, w)
  PROVE  SocialInv'
<1>1. /\ calls[s] \in Calls /\ RequestSound(s) /\ calls \in [Slots -> Calls \cup {None}]
      /\ calls'[s] = next /\ \A o \in Slots \ {s} : calls'[o] = calls[o]
      /\ profiles \in [Ids -> [owner : Wallets, name : Titles \ {None}] \cup {None}]
  BY CallFacts DEF SocialInv, SocialTypeOK
<1>2. \A v \in Wallets, o \in Slots \ {s} : Others(o, v)' \subseteq Others(o, v)
  BY <1>1 DEF Others
<1>3. \A v \in Wallets : Others(s, v)' = Others(s, v)
  BY <1>1 DEF Others
<1>4. ASSUME NEW v \in Wallets, v # w
      PROVE  /\ Own(v)' = Own(v)
             /\ \A p \in Own(v) : v \notin troubled => profiles'[p] = profiles[p]
  <2>1. Own(v)' = Own(v)
    BY <1>4 DEF Own, OwnedBy, Grows
  <2>2. ASSUME NEW p \in Own(v), v \notin troubled PROVE profiles'[p] = profiles[p]
    <3>1. Exists(p) /\ p \in Ids /\ profiles[p].owner = v
      BY DEF Own, OwnedBy
    <3>2. p # calls[s].put.profile
      BY <1>1, <1>4, <2>2, <3>1, SocialAssumption DEF RequestSound, BodySound, ProfileSound
    <3> QED
      BY <3>1, <3>2
  <2> QED
    BY <2>1, <2>2
<1>5. ASSUME NEW v \in Wallets, v # w PROVE WalletSound(v)'
  <2>1. /\ WalletSound(v) /\ users'[v] = users[v] /\ saved'[v] = saved[v]
        /\ users[v].profile \in Ids \cup {None}
    BY <1>5 DEF SocialInv, SocialTypeOK, Rows
  <2>2. ProfileSound(users[v].profile, v)'
    BY <2>1, Grown DEF WalletSound, ProfileSound
  <2>3. v \notin troubled' => v \notin troubled
    BY DEF Grows
  <2> QED
    BY <1>4, <1>5, <2>1, <2>2, <2>3 DEF WalletSound
<1>6. ASSUME NEW o \in Slots, o # s, calls'[o] # None PROVE RequestSound(o)'
  <2> DEFINE call == calls[o]
  <2> DEFINE v == calls[o].wallet
  <2>1. /\ calls'[o] = call /\ call # None /\ RequestSound(o) /\ v \in Wallets
        /\ call.put.profile \in Ids \cup {None} /\ call \in Calls
        /\ call.alone \in BOOLEAN
    BY <1>1, <1>6, CallFacts
  <2>2. v \notin troubled' => v \notin troubled
    BY DEF Grows
  <2>3. v = w => /\ o \in Others(s, w) /\ s \in Others(o, w)
                 /\ ~call.alone /\ ~calls[s].alone
    BY <1>1, <1>6, <2>1 DEF Others, RequestSound
  <2>4. ProfileSound(call.put.profile, v)'
    <3>1. ProfileSound(call.put.profile, v)
      BY <2>1 DEF RequestSound, BodySound
    <3> QED
      BY <2>1, <3>1, Grown, <1>1, <1>6 DEF ProfileSound
  <2>5. AskedSound(calls[o])'
    <3>1. AskedSound(call)
      BY <2>1 DEF RequestSound, BodySound
    <3>2. CASE v = w
      BY <2>1, <2>3, <3>1, <3>2 DEF AskedSound, Entered, Upserts
    <3>3. CASE v # w
      <4>1. users'[v] = users[v]
        BY <2>1, <3>3
      <4>2. v \notin troubled' /\ call.put.profile # None =>
              profiles'[call.put.profile] = profiles[call.put.profile]
        BY <1>4, <2>1, <2>2, <3>3 DEF RequestSound, BodySound, ProfileSound
      <4>3. Upserts(call) /\ call.then = "end" => call.put.profile # None
        BY <2>1 DEF RequestSound, BodySound, KindSound, Resolved
      <4> QED
        BY <2>1, <2>2, <3>1, <4>1, <4>2, <4>3 DEF AskedSound, Entered, Upserts
    <3> QED
      BY <3>2, <3>3
  <2>6. v \notin troubled' /\ call.at = "create" => Own(v)' = {}
    <3>1. SUFFICES ASSUME v \notin troubled', call.at = "create" PROVE Own(v)' = {}
      OBVIOUS
    <3>2. Own(v) = {} /\ ~Creating(o, v)
      BY <2>1, <2>2, <3>1 DEF RequestSound, BodySound
    <3>3. v = w => calls[s].at # "create"
      BY <2>3, <3>2 DEF Creating
    <3> QED
      BY <1>4, <2>1, <3>2, <3>3 DEF Own, OwnedBy, Grows
  <2>7. v \notin troubled' /\ saved'[v] # None => NameSound(call, saved'[v])
    <3>1. saved'[v] # None => saved'[v] = saved[v]
      BY <2>1, <2>3
    <3> QED
      BY <2>1, <2>2, <3>1 DEF RequestSound, BodySound
  <2>8. call.at = "create" /\ v \notin troubled' => ~Creating(o, v)'
    <3>1. SUFFICES ASSUME call.at = "create", v \notin troubled' PROVE ~Creating(o, v)'
      OBVIOUS
    <3>2. ~Creating(o, v)
      BY <2>1, <2>2, <3>1 DEF RequestSound
    <3>3. v = w => Creating(s, w)
      BY <2>3, <3>1 DEF Creating
    <3>4. \A q \in Others(o, v)' : q # s => calls'[q].at # "create"
      BY <1>1, <1>2, <2>1, <3>2, <1>6 DEF Creating, Others
    <3>5. s \in Others(o, v)' => calls'[s].at # "create"
      BY <1>1, <3>1, <3>3 DEF Others
    <3> QED
      BY <3>4, <3>5 DEF Creating
  <2>9. call.alone => Others(o, v)' = {}
    BY <1>2, <1>6, <2>1 DEF RequestSound
  <2>10. BodySound(calls[o])'
    <3>1. KindSound(call)
      BY <2>1 DEF RequestSound, BodySound
    <3> QED
      BY <2>1, <2>4, <2>5, <2>6, <2>7, <3>1
      DEF BodySound, KindSound, NameSound, Upserts, Resolved, Gives, ProfileSound
  <2> QED
    BY <2>1, <2>8, <2>9, <2>10 DEF RequestSound, Creating, Others
<1>7. next # None => RequestSound(s)'
  <2>1. SUFFICES ASSUME next # None PROVE RequestSound(s)'
    OBVIOUS
  <2>2. Creating(s, w)' <=> Creating(s, w)
    BY <1>1, <1>3 DEF Creating, Others
  <2>3. BodySound(calls[s])'
    BY <1>1, <2>1
  <2>4. next.alone => Others(s, w)' = {}
    BY <1>1, <1>3, <2>1 DEF RequestSound
  <2> QED
    BY <1>1, <2>1, <2>2, <2>3, <2>4 DEF RequestSound, Creating, Others
<1> QED
  BY <1>1, <1>5, <1>6, <1>7 DEF SocialInv

(* Steps that leave the tables as they are.                                 *)
LEMMA CallStep ==
  ASSUME SocialInv, NEW s \in Slots, calls[s] # None,
         NEW next \in Calls \cup {None}, calls' = [calls EXCEPT ![s] = next],
         UNCHANGED <<users, profiles, deeds, described, begun, saved>>,
         troubled' \subseteq Wallets, troubled \subseteq troubled',
         next # None =>
           /\ next.wallet = calls[s].wallet /\ next.alone = calls[s].alone
           /\ KindSound(next) /\ AskedSound(next)
           /\ ProfileSound(next.put.profile, next.wallet)'
           /\ calls[s].wallet \notin troubled' =>
                /\ next.at = "create" => Own(calls[s].wallet) = {} /\ ~Creating(s, calls[s].wallet)
                /\ saved[calls[s].wallet] # None => NameSound(next, saved[calls[s].wallet])
  PROVE  SocialInv'
<1>1. PICK w \in Wallets : w = calls[s].wallet
  BY CallFacts
<1>2. WalletSound(w) /\ users[w].profile \in Ids \cup {None}
  BY <1>1 DEF SocialInv, SocialTypeOK, Rows
<1>3. SocialTypeOK'
  BY DEF SocialInv, SocialTypeOK
<1>4. Grows /\ (\A v \in Wallets : Own(v)' = Own(v))
  BY DEF Grows, Exists, Own, OwnedBy
<1>5. WalletSound(w)'
  <2>1. ProfileSound(users[w].profile, w)'
    BY <1>2 DEF WalletSound, ProfileSound, Exists, Own, OwnedBy
  <2> QED
    BY <1>2, <1>4, <2>1 DEF WalletSound
<1>6. next # None => BodySound(next)'
  <2>1. SUFFICES ASSUME next # None PROVE BodySound(next)'
    OBVIOUS
  <2>2. AskedSound(next)'
    BY <2>1 DEF AskedSound, Entered, Upserts
  <2>3. KindSound(next)'
    BY <2>1 DEF KindSound, Resolved, Upserts
  <2>4. next.wallet \notin troubled' =>
          /\ next.at = "create" => Own(next.wallet)' = {}
          /\ saved'[next.wallet] # None => NameSound(next, saved'[next.wallet])
    BY <1>1, <1>4, <2>1
  <2> QED
    BY <2>1, <2>2, <2>3, <2>4 DEF BodySound, NameSound, Gives
<1>7. /\ \A p \in Ids : ~Exists(p) /\ Exists(p)' => profiles'[p].owner = w /\ calls[s].at = "create"
      /\ \A p \in Ids : Exists(p) /\ p # calls[s].put.profile => profiles'[p] = profiles[p]
      /\ \A v \in Wallets \ {w} : users'[v] = users[v] /\ saved'[v] = saved[v]
      /\ \A d \in deeds' : d.wallet # w => d \in deeds
      /\ saved'[w] \in {saved[w], None} \/ calls[s].alone
  BY DEF Exists
<1>8. next # None =>
        /\ next.wallet = w /\ next.alone = calls[s].alone /\ BodySound(next)'
        /\ next.at = "create" /\ w \notin troubled' => ~Creating(s, w)
  BY <1>1, <1>6
<1> QED
  BY <1>1, <1>3, <1>4, <1>5, <1>7, <1>8, RequestStep

(* What a request is at its next await.                                     *)
Same(next, call) ==
  /\ next \in Calls
  /\ next.kind = call.kind /\ next.wallet = call.wallet /\ next.asked = call.asked
  /\ next.alone = call.alone

LEMMA AtFacts ==
  ASSUME NEW call \in Calls,
         NEW step \in ProfileSteps \cup UserSteps \cup {"merge", "write", "core", "act"}
  PROVE  LET next == [call EXCEPT !.at = step]
         IN  /\ Same(next, call) /\ next.at = step /\ next.put = call.put
             /\ next.then = call.then /\ next.cached = call.cached
BY DEF Calls, Same

LEMMA UpsertFacts ==
  ASSUME NEW call \in Calls, NEW name \in Titles, NEW profile \in Ids \cup {None},
         NEW then \in {"user", "core", "act", "end"}
  PROVE  LET next == Upsert(call, name, profile, then)
         IN  /\ Same(next, call) /\ next.at = "merge" /\ next.then = then
             /\ next.put.name = name /\ next.put.profile = profile /\ next.cached = call.cached
<1>1. [name |-> name, profile |-> profile] \in Rows
  BY DEF Rows
<1> QED
  BY <1>1 DEF Calls, Same, Upsert

(* What an upsert of the profile alone writes is no news of the name.       *)
LEMMA ProfileUpsert ==
  ASSUME SocialInv, NEW s \in Slots, calls[s] # None, calls[s].at \in {"lookup", "create"},
         NEW p \in Ids, p # None,
         NEW next, next = Upsert(calls[s], None, p, Rest(calls[s]))
  PROVE  /\ Same(next, calls[s]) /\ next.at = "merge" /\ next.put.profile = p
         /\ next.put.name = None /\ next.cached = calls[s].cached
         /\ KindSound(next) /\ AskedSound(next)
         /\ next.kind = "patch" => next.then # "end"
         /\ \A name : name # None /\ NameSound(calls[s], name) => NameSound(next, name)
<1> DEFINE call == calls[s]
<1>1. /\ call \in Calls /\ KindSound(call) /\ AskedSound(call)
      /\ Rest(call) \in {"core", "act", "end"}
      /\ Rest(call) = "core" => call.kind \in {"login", "patch"}
      /\ call.kind = "login" /\ call.asked # None => Rest(call) # "end"
      /\ call.kind = "patch" => Rest(call) = "core"
  BY CallFacts DEF RequestSound, BodySound, Rest
<1>2. /\ Same(next, call) /\ next.at = "merge" /\ next.then = Rest(call)
      /\ next.put.name = None /\ next.put.profile = p /\ next.cached = call.cached
  <2>1. None \in Titles /\ Rest(call) \in {"user", "core", "act", "end"}
    BY <1>1 DEF Titles
  <2> HIDE DEF call
  <2>2. call = calls[s]
    BY DEF call
  <2> QED
    BY <1>1, <2>1, <2>2, UpsertFacts
<1>3. KindSound(next)
  BY <1>1, <1>2 DEF KindSound, Resolved, Upserts, Same, UserSteps
<1>4. AskedSound(next)
  BY <1>1, <1>2 DEF AskedSound, Entered, Upserts, Same, ProfileSteps
<1>5. \A name : name # None /\ NameSound(call, name) => NameSound(next, name)
  BY <1>2 DEF NameSound
<1> QED
  BY <1>1, <1>2, <1>3, <1>4, <1>5 DEF Same

LEMMA MergeSound ==
  ASSUME SocialInv, NEW s \in Slots, Merge(s)
  PROVE  SocialInv'
<1>1. /\ calls[s] # None /\ calls[s].at = "merge"
      /\ UNCHANGED <<users, profiles, described, deeds, begun, saved, troubled>>
  BY DEF Merge, Go
<1>2. PICK call \in Calls : call = calls[s]
  BY <1>1, CallFacts
<1>3. PICK w \in Wallets : w = call.wallet
  BY <1>2 DEF Calls
<1>4. PICK row \in Rows : row = users[w]
  BY DEF SocialInv, SocialTypeOK
<1>5. /\ call.put \in Rows /\ call.put.name \in Titles /\ call.put.profile \in Ids \cup {None}
      /\ row.name \in Titles /\ row.profile \in Ids \cup {None}
      /\ KindSound(call) /\ AskedSound(call) /\ ProfileSound(call.put.profile, w)
      /\ w \notin troubled /\ saved[w] # None => NameSound(call, saved[w])
      /\ WalletSound(w)
  BY <1>1, <1>2, <1>3, CallFacts DEF RequestSound, BodySound, Rows, SocialInv
<1>6. PICK put \in Rows : put = Merged(call.put, row)
  BY <1>5 DEF Merged, First, Rows
<1>7. /\ put.name = First(call.put.name, row.name)
      /\ put.profile = First(call.put.profile, row.profile)
  BY <1>6 DEF Merged
<1>8. PICK next \in Calls : next = [call EXCEPT !.at = "write", !.put = put]
  BY DEF Calls
<1>9. /\ Same(next, call) /\ next.at = "write" /\ next.put = put /\ next.then = call.then
      /\ next.cached = call.cached
  BY <1>8 DEF Calls, Same
<1>10. calls' = [calls EXCEPT ![s] = next]
  BY <1>2, <1>3, <1>4, <1>6, <1>8 DEF Merge, Go
<1>11. KindSound(next)
  BY <1>1, <1>2, <1>5, <1>7, <1>9 DEF KindSound, Resolved, Upserts, UserSteps, Same, First
<1>12. ProfileSound(put.profile, w)
  BY <1>4, <1>5, <1>7 DEF WalletSound, First
<1>13. AskedSound(next)
  <2>1. /\ Upserts(call) /\ Upserts(next) /\ call.at = "merge"
        /\ Entered(next) => Entered(call)
    BY <1>1, <1>2, <1>9 DEF Upserts, Entered, Same, ProfileSteps
  <2>2. next.kind = "patch" /\ next.asked # None /\ next.then = "end" =>
          put.profile = call.put.profile
    BY <1>5, <1>7, <1>9, <2>1 DEF KindSound, Resolved, First
  <2> QED
    BY <1>3, <1>4, <1>5, <1>7, <1>9, <2>1, <2>2 DEF AskedSound, Same, First
<1>14. w \notin troubled /\ saved[w] # None => NameSound(next, saved[w])
  BY <1>1, <1>2, <1>4, <1>5, <1>7, <1>9 DEF NameSound, WalletSound, Gives, Same, First
<1>15. ProfileSound(put.profile, w)'
  BY <1>1, <1>12 DEF ProfileSound, Exists, Own, OwnedBy
<1>16. /\ next.wallet = calls[s].wallet /\ next.alone = calls[s].alone /\ next.wallet = w
       /\ next.at # "create" /\ troubled' \subseteq Wallets
  BY <1>1, <1>2, <1>3, <1>9 DEF Same, SocialInv, SocialTypeOK
<1> QED
  BY <1>1, <1>2, <1>3, <1>9, <1>10, <1>11, <1>13, <1>14, <1>15, <1>16, CallStep

LEMMA ReadUserSound ==
  ASSUME SocialInv, NEW s \in Slots, ReadUser(s)
  PROVE  SocialInv'
<1>1. /\ calls[s] # None /\ calls[s].at = "user"
      /\ UNCHANGED <<users, profiles, described, deeds, begun, saved, troubled>>
  BY DEF ReadUser, Go
<1>2. PICK call \in Calls : call = calls[s]
  BY <1>1, CallFacts
<1>3. PICK w \in Wallets : w = call.wallet
  BY <1>2 DEF Calls
<1>4. PICK cached \in Ids \cup {None} : cached = users[w].profile
  BY DEF SocialInv, SocialTypeOK, Rows
<1>5. /\ KindSound(call) /\ AskedSound(call)
      /\ w \notin troubled /\ saved[w] # None => NameSound(call, saved[w])
      /\ ProfileSound(cached, w)
  BY <1>1, <1>2, <1>3, <1>4, CallFacts DEF RequestSound, BodySound, WalletSound
<1>6. PICK put \in Rows : put = [NoRow EXCEPT !.profile = cached] /\ put.profile = cached
  <2>1. [name |-> None, profile |-> cached] \in Rows
    BY DEF Rows, Titles
  <2>2. [NoRow EXCEPT !.profile = cached] = [name |-> None, profile |-> cached]
    BY DEF NoRow
  <2> QED
    BY <2>1, <2>2
<1>7. PICK step \in {"lookup", "details"} :
        step = IF cached = None THEN "lookup" ELSE "details"
  OBVIOUS
<1>8. PICK next \in Calls : next = [call EXCEPT !.put = put, !.at = step]
  BY DEF Calls, ProfileSteps
<1>9. /\ Same(next, call) /\ next.at = step /\ next.put = put /\ next.cached = call.cached
  BY <1>8 DEF Calls, Same
<1>10. calls' = [calls EXCEPT ![s] = next]
  BY <1>2, <1>3, <1>4, <1>6, <1>7, <1>8 DEF ReadUser, Go
<1>11. KindSound(next)
  BY <1>5, <1>6, <1>7, <1>9 DEF KindSound, Resolved, Upserts, UserSteps
<1>12. AskedSound(next)
  <2>1. ~Upserts(next) /\ (Entered(next) => Entered(call))
    BY <1>1, <1>2, <1>7, <1>9 DEF Upserts, Entered, Same, ProfileSteps
  <2> QED
    BY <1>5, <1>9, <2>1, <1>7 DEF AskedSound, Same
<1>13. w \notin troubled /\ saved[w] # None => NameSound(next, saved[w])
  BY <1>5, <1>7, <1>9 DEF NameSound
<1>14. ProfileSound(put.profile, w)'
  BY <1>1, <1>5, <1>6 DEF ProfileSound, Exists, Own, OwnedBy
<1>15. /\ next.wallet = calls[s].wallet /\ next.alone = calls[s].alone /\ next.wallet = w
       /\ next.at # "create" /\ troubled' \subseteq Wallets
  BY <1>1, <1>2, <1>3, <1>7, <1>9 DEF Same, SocialInv, SocialTypeOK
<1> QED
  BY <1>1, <1>2, <1>3, <1>9, <1>10, <1>11, <1>12, <1>13, <1>14, <1>15, CallStep

(* The step after the next one, of a request that holds what it did before. *)
LEMMA StepSound ==
  ASSUME SocialInv, NEW s \in Slots, calls[s] # None, calls[s].at \notin {"merge", "write", "core"},
         NEW step \in ProfileSteps \cup UserSteps \cup {"core", "act"},
         calls' = [calls EXCEPT ![s] = [calls[s] EXCEPT !.at = step]],
         UNCHANGED <<users, profiles, described, deeds, begun, saved>>,
         troubled' \subseteq Wallets, troubled \subseteq troubled',
         step \in UserSteps => calls[s].at \in UserSteps,
         step \in {"details", "fetchDetails", "core", "act"} => calls[s].put.profile # None,
         step = "core" => calls[s].kind \in {"login", "patch"} /\ calls[s].at \in ProfileSteps,
         step \in ProfileSteps => calls[s].at \in ProfileSteps \/ calls[s].kind # "login",
         step \in {"fetch", "fetchDetails"} => calls[s].at \in {"fetch", "fetchDetails"},
         step = "create" /\ calls[s].wallet \notin troubled' =>
           Own(calls[s].wallet) = {} /\ ~Creating(s, calls[s].wallet)
  PROVE  SocialInv'
<1>1. PICK call \in Calls : call = calls[s]
  BY CallFacts
<1>2. PICK w \in Wallets : w = call.wallet
  BY DEF Calls
<1>3. /\ KindSound(call) /\ AskedSound(call) /\ ProfileSound(call.put.profile, w)
      /\ w \notin troubled /\ saved[w] # None => NameSound(call, saved[w])
      /\ call.put.profile \in Ids \cup {None}
  BY <1>1, <1>2, CallFacts DEF RequestSound, BodySound
<1>4. PICK next \in Calls : next = [call EXCEPT !.at = step]
  BY DEF Calls
<1>5. /\ Same(next, call) /\ next.at = step /\ next.put = call.put
      /\ next.then = call.then /\ next.cached = call.cached
  BY <1>4 DEF Calls, Same
<1>6. KindSound(next)
  BY <1>1, <1>3, <1>5 DEF KindSound, Resolved, Upserts, Same, UserSteps, ProfileSteps
<1>7. AskedSound(next)
  <2>1. ~Upserts(next) /\ (Entered(next) => Entered(call))
    BY <1>1, <1>5 DEF Upserts, Entered, Same, ProfileSteps, UserSteps
  <2> QED
    BY <1>3, <1>5, <2>1 DEF AskedSound, Same, ProfileSteps, UserSteps
<1>8. w \notin troubled /\ saved[w] # None => NameSound(next, saved[w])
  BY <1>1, <1>3, <1>5 DEF NameSound, ProfileSteps, UserSteps
<1>9. ProfileSound(next.put.profile, w)'
  BY <1>3, <1>5 DEF ProfileSound, Exists, Own, OwnedBy
<1>10. /\ calls' = [calls EXCEPT ![s] = next]
       /\ next.wallet = calls[s].wallet /\ next.alone = calls[s].alone /\ next.wallet = w
       /\ UNCHANGED <<users, profiles, deeds, described, begun, saved>>
  BY <1>1, <1>2, <1>4, <1>5 DEF Same
<1>11. /\ calls[s].wallet \notin troubled' =>
            /\ next.at = "create" => Own(calls[s].wallet) = {} /\ ~Creating(s, calls[s].wallet)
            /\ saved[calls[s].wallet] # None => NameSound(next, saved[calls[s].wallet])
       /\ ProfileSound(next.put.profile, next.wallet)'
  BY <1>1, <1>2, <1>5, <1>8, <1>9, <1>10
<1> QED
  BY <1>6, <1>7, <1>10, <1>11, CallStep

(* A request that ends, whatever trouble it saw.                            *)
LEMMA LeaveSound ==
  ASSUME SocialInv, NEW s \in Slots, calls[s] # None, Leave(s),
         UNCHANGED <<users, profiles, described, deeds, saved>>,
         troubled' \subseteq Wallets, troubled \subseteq troubled'
  PROVE  SocialInv'
BY CallStep DEF Leave

LEMMA DetailsSound ==
  ASSUME SocialInv, NEW s \in Slots, Details(s)
  PROVE  SocialInv'
<1>1. /\ calls[s] # None /\ calls[s].at = "details"
      /\ UNCHANGED <<users, profiles, described, deeds, saved, troubled>>
  BY DEF Details
<1>2. /\ KindSound(calls[s]) /\ calls[s].put.profile # None /\ troubled' \subseteq Wallets
  BY <1>1, CallFacts DEF RequestSound, BodySound, KindSound, Resolved, SocialInv, SocialTypeOK
<1>3. CASE Leave(s)
  BY <1>1, <1>2, <1>3, LeaveSound
<1>4. ASSUME NEW step \in {"core", "act", "lookup"}, Go(s, [calls[s] EXCEPT !.at = step]),
             step = "core" => calls[s].kind \in {"login", "patch"}
      PROVE  SocialInv'
  BY <1>1, <1>2, <1>4, StepSound DEF Go, ProfileSteps, UserSteps
<1>5. CASE Resume(s, calls[s], Rest(calls[s]))
  <2>1. /\ Rest(calls[s]) \in {"end", "core", "act"}
        /\ Rest(calls[s]) = "core" => calls[s].kind \in {"login", "patch"}
    BY DEF Rest
  <2> QED
    BY <1>3, <1>4, <1>5, <2>1 DEF Resume
<1>6. CASE Go(s, Unconfirmed(calls[s]))
  BY <1>4, <1>6 DEF Unconfirmed
<1> QED
  BY <1>5, <1>6 DEF Details

(* A profile that Tapestry gives as the wallet's is its own, when every     *)
(* stream of the wallet is described.                                       *)
LEMMA FoundSound ==
  ASSUME SocialInv, NEW w \in Wallets, NEW p \in UserProfiles(w),
         Trouble(IF Undescribed(w) THEN {w} ELSE {}), UNCHANGED profiles
  PROVE  p \in Ids /\ p # None /\ ProfileSound(p, w)'
<1>1. p \in Ids /\ Exists(p) /\ profiles[p].owner = w /\ p \notin described
  BY DEF UserProfiles, OwnedBy
<1>2. w \notin troubled' => p \notin Streams
  BY <1>1 DEF Trouble, Undescribed, OwnedBy
<1> QED
  BY <1>1, <1>2, SocialAssumption DEF ProfileSound, Own, OwnedBy, Exists

LEMMA LookupSound ==
  ASSUME SocialInv, NEW s \in Slots, Lookup(s)
  PROVE  SocialInv'
<1>1. /\ calls[s] # None /\ calls[s].at = "lookup"
      /\ UNCHANGED <<users, profiles, described, deeds, begun, saved>>
  BY DEF Lookup, Go
<1>2. PICK w \in Wallets : w = calls[s].wallet
  BY <1>1, CallFacts
<1>3. troubled \subseteq Wallets /\ described \subseteq Streams
  BY DEF SocialInv, SocialTypeOK
<1>4. ASSUME NEW p \in UserProfiles(w), Go(s, Upsert(calls[s], None, p, Rest(calls[s]))),
             Trouble(IF Undescribed(w) THEN {w} ELSE {})
      PROVE  SocialInv'
  <2>1. p \in Ids /\ p # None /\ ProfileSound(p, w)'
    BY <1>1, <1>4, FoundSound
  <2>2. PICK next : next = Upsert(calls[s], None, p, Rest(calls[s]))
    OBVIOUS
  <2>3. /\ Same(next, calls[s]) /\ next.at = "merge" /\ next.put.profile = p
        /\ next.put.name = None /\ next.cached = calls[s].cached
        /\ KindSound(next) /\ AskedSound(next)
        /\ \A name : name # None /\ NameSound(calls[s], name) => NameSound(next, name)
    BY <1>1, <2>1, <2>2, ProfileUpsert
  <2>4. w \notin troubled /\ saved[w] # None => NameSound(calls[s], saved[w])
    BY <1>1, <1>2, CallFacts DEF RequestSound, BodySound
  <2>5. troubled' \subseteq Wallets /\ troubled \subseteq troubled'
    BY <1>3, <1>4 DEF Trouble
  <2>6. calls' = [calls EXCEPT ![s] = next]
    BY <1>4, <2>2 DEF Go
  <2> QED
    BY <1>1, <1>2, <2>1, <2>3, <2>4, <2>5, <2>6, CallStep DEF Same
<1>5. ASSUME Go(s, [calls[s] EXCEPT !.at = "create"]),
             troubled' \subseteq Wallets, troubled \subseteq troubled',
             w \notin troubled' => Own(w) = {} /\ ~Creating(s, w)
      PROVE  SocialInv'
  BY <1>1, <1>2, <1>5, StepSound DEF Go, ProfileSteps, UserSteps
<1>6. CASE /\ UserProfiles(w) = {}
           /\ Go(s, [calls[s] EXCEPT !.at = "create"])
           /\ Trouble(IF Creating(s, w) THEN {w} ELSE {})
  <2>1. Own(w) = {}
    BY <1>3, <1>6 DEF Own, UserProfiles
  <2> QED
    BY <1>3, <1>5, <1>6, <2>1 DEF Trouble
<1>7. CASE Go(s, [calls[s] EXCEPT !.at = "create"]) /\ Trouble({w})
  BY <1>3, <1>5, <1>7 DEF Trouble
<1> QED
  BY <1>2, <1>4, <1>6, <1>7 DEF Lookup

(* A request that read the row of its wallet, or the wallet's profile, and  *)
(* asks for no name as a login does.                                        *)
LEMMA ReadSound ==
  ASSUME SocialInv, NEW s \in Slots, calls[s] # None, calls[s].at \in UserSteps,
         NEW name \in Titles, NEW p \in Ids \cup {None},
         NEW step \in {"fetch", "fetchDetails", "core"},
         calls' = [calls EXCEPT ![s] =
           [calls[s] EXCEPT !.at = step, !.cached = name, !.put = [NoRow EXCEPT !.profile = p]]],
         UNCHANGED <<users, profiles, described, deeds, begun, saved>>,
         troubled' \subseteq Wallets, troubled \subseteq troubled',
         NEW w \in Wallets, w = calls[s].wallet, ProfileSound(p, w)',
         step # "fetch" => p # None,
         step = "core" => calls[s].kind = "patch",
         calls[s].wallet \notin troubled /\ saved[calls[s].wallet] # None => name = saved[calls[s].wallet]
  PROVE  SocialInv'
<1>1. PICK call \in Calls : call = calls[s]
  BY CallFacts
<1>2. w = call.wallet
  BY <1>1
<1>3. KindSound(call) /\ call.kind \in {"get", "patch"}
  BY <1>1, CallFacts DEF RequestSound, BodySound, KindSound
<1>4. PICK put \in Rows : put = [NoRow EXCEPT !.profile = p] /\ put.profile = p
  <2>1. [name |-> None, profile |-> p] \in Rows
    BY DEF Rows, Titles
  <2>2. [NoRow EXCEPT !.profile = p] = [name |-> None, profile |-> p]
    BY DEF NoRow
  <2> QED
    BY <2>1, <2>2
<1>5. PICK next \in Calls : next = [call EXCEPT !.at = step, !.cached = name, !.put = put]
  BY DEF Calls, UserSteps
<1>6. /\ Same(next, call) /\ next.at = step /\ next.put = put /\ next.cached = name
  BY <1>5 DEF Calls, Same
<1>7. KindSound(next) /\ AskedSound(next)
  BY <1>1, <1>3, <1>4, <1>6 DEF KindSound, AskedSound, Resolved, Upserts, Entered, Same, UserSteps
<1>8. w \notin troubled /\ saved[w] # None => NameSound(next, saved[w])
  BY <1>1, <1>2, <1>6 DEF NameSound
<1>9. /\ calls' = [calls EXCEPT ![s] = next]
      /\ next.wallet = calls[s].wallet /\ next.alone = calls[s].alone /\ next.wallet = w
      /\ ProfileSound(next.put.profile, w)'
  BY <1>1, <1>2, <1>4, <1>5, <1>6 DEF Same
<1>10. /\ calls[s].wallet \notin troubled' =>
            /\ next.at = "create" => Own(calls[s].wallet) = {} /\ ~Creating(s, calls[s].wallet)
            /\ saved[calls[s].wallet] # None => NameSound(next, saved[calls[s].wallet])
       /\ ProfileSound(next.put.profile, next.wallet)'
  BY <1>1, <1>2, <1>6, <1>8, <1>9
<1> QED
  BY <1>7, <1>9, <1>10, CallStep

LEMMA ReadCachedSound ==
  ASSUME SocialInv, NEW s \in Slots, ReadCached(s)
  PROVE  SocialInv'
<1>1. /\ calls[s] # None /\ calls[s].at = "read"
      /\ UNCHANGED <<users, profiles, described, deeds, begun, saved, troubled>>
  BY DEF ReadCached, Go
<1>2. PICK w \in Wallets : w = calls[s].wallet
  BY <1>1, CallFacts
<1>3. PICK name \in Titles, p \in Ids \cup {None} : name = users[w].name /\ p = users[w].profile
  BY DEF SocialInv, SocialTypeOK, Rows
<1>4. PICK step \in {"fetch", "fetchDetails", "core"} :
        /\ step = CASE p = None -> "fetch"
                    [] p # None /\ calls[s].kind = "patch" -> "core"
                    [] OTHER -> "fetchDetails"
        /\ step # "fetch" => p # None
        /\ step = "core" => calls[s].kind = "patch"
  OBVIOUS
<1>5. calls' = [calls EXCEPT ![s] =
        [calls[s] EXCEPT !.at = step, !.cached = name, !.put = [NoRow EXCEPT !.profile = p]]]
  BY <1>2, <1>3, <1>4 DEF ReadCached, Go
<1>6. WalletSound(w) /\ troubled' \subseteq Wallets
  BY <1>1 DEF SocialInv, SocialTypeOK
<1>7. ProfileSound(p, w)'
  BY <1>1, <1>3, <1>6 DEF WalletSound, ProfileSound, Exists, Own, OwnedBy
<1>8. calls[s].wallet \notin troubled /\ saved[calls[s].wallet] # None => name = saved[calls[s].wallet]
  BY <1>2, <1>3, <1>6 DEF WalletSound
<1> QED
  BY <1>1, <1>2, <1>4, <1>5, <1>6, <1>7, <1>8, ReadSound DEF UserSteps

LEMMA FetchedSound ==
  ASSUME SocialInv, NEW s \in Slots, calls[s] # None, calls[s].at \in {"fetch", "fetchDetails"},
         NEW p \in Ids \cup {None}, Fetched(s, calls[s], p),
         NEW w \in Wallets, w = calls[s].wallet, ProfileSound(p, w)',
         UNCHANGED <<users, profiles, described, deeds, saved>>,
         troubled' \subseteq Wallets, troubled \subseteq troubled'
  PROVE  SocialInv'
<1>1. PICK call \in Calls : call = calls[s]
  BY CallFacts
<1>2. /\ KindSound(call) /\ call.kind \in {"get", "patch"} /\ call.cached \in Titles
      /\ w \notin troubled /\ saved[w] # None => NameSound(call, saved[w])
  BY <1>1, CallFacts DEF RequestSound, BodySound, KindSound, UserSteps
<1>3. CASE call.kind = "patch" /\ p = None
  <2>1. Go(s, [calls[s] EXCEPT !.at = "user"])
    BY <1>1, <1>3 DEF Fetched
  <2> QED
    BY <1>1, <1>3, <2>1, StepSound DEF Go, ProfileSteps, UserSteps
<1>4. CASE call.kind = "patch" /\ p # None
  <2>1. Go(s, [calls[s] EXCEPT !.at = "core", !.put = [NoRow EXCEPT !.profile = p]])
    BY <1>1, <1>4 DEF Fetched
  <2>2. [calls[s] EXCEPT !.at = "core", !.put = [NoRow EXCEPT !.profile = p]] =
        [calls[s] EXCEPT !.at = "core", !.cached = call.cached, !.put = [NoRow EXCEPT !.profile = p]]
    BY <1>1 DEF Calls
  <2>3. /\ calls' = [calls EXCEPT ![s] = [calls[s] EXCEPT
             !.at = "core", !.cached = call.cached, !.put = [NoRow EXCEPT !.profile = p]]]
        /\ UNCHANGED begun
    BY <2>1, <2>2 DEF Go
  <2>4. calls[s].wallet \notin troubled /\ saved[calls[s].wallet] # None =>
          call.cached = saved[calls[s].wallet]
    BY <1>1, <1>2 DEF NameSound
  <2> QED
    BY <1>1, <1>2, <1>4, <2>3, <2>4, ReadSound DEF UserSteps
<1>5. CASE call.kind = "get" /\ p = None
  BY <1>1, <1>5, LeaveSound DEF Fetched
<1>6. CASE call.kind = "get" /\ p # None
  <2>1. Exists(p) /\ p \in Ids
    BY <1>6 DEF ProfileSound, Exists
  <2>2. PICK name \in Titles : name = First(call.cached, profiles[p].name)
    BY <1>2, <2>1 DEF First, SocialInv, SocialTypeOK, Exists
  <2>3. PICK next : next = Upsert(call, name, p, "end")
    OBVIOUS
  <2>4. /\ Same(next, call) /\ next.at = "merge" /\ next.then = "end"
        /\ next.put.name = name /\ next.put.profile = p /\ next.cached = call.cached
    BY <2>1, <2>3, UpsertFacts
  <2>5. calls' = [calls EXCEPT ![s] = next] /\ UNCHANGED begun
    BY <1>1, <1>6, <2>2, <2>3 DEF Fetched, Go
  <2>6. KindSound(next) /\ AskedSound(next)
    BY <1>6, <2>4 DEF KindSound, AskedSound, Resolved, Upserts, Entered, Same, UserSteps
  <2>7. w \notin troubled /\ saved[w] # None => NameSound(next, saved[w])
    BY <1>1, <1>2, <2>2, <2>4 DEF NameSound, First
  <2>8. /\ calls[s].wallet \notin troubled' =>
             /\ next.at = "create" => Own(calls[s].wallet) = {} /\ ~Creating(s, calls[s].wallet)
             /\ saved[calls[s].wallet] # None => NameSound(next, saved[calls[s].wallet])
        /\ ProfileSound(next.put.profile, next.wallet)'
        /\ next \in Calls /\ next.wallet = calls[s].wallet /\ next.alone = calls[s].alone
    BY <1>1, <2>4, <2>7 DEF Same
  <2> QED
    BY <2>5, <2>6, <2>8, CallStep
<1> QED
  BY <1>2, <1>3, <1>4, <1>5, <1>6

LEMMA FetchSound ==
  ASSUME SocialInv, NEW s \in Slots, FetchDetails(s) \/ Fetch(s)
  PROVE  SocialInv'
<1>1. /\ calls[s] # None /\ calls[s].at \in {"fetch", "fetchDetails"}
      /\ UNCHANGED <<users, profiles, described, deeds, saved>>
      /\ troubled \subseteq Wallets
  BY DEF FetchDetails, Fetch, SocialInv, SocialTypeOK
<1>2. PICK w \in Wallets : w = calls[s].wallet
  BY <1>1, CallFacts
<1>3. CASE FetchDetails(s)
  <2>1. UNCHANGED troubled
    BY <1>3 DEF FetchDetails
  <2>2. PICK p \in Ids \cup {None} : p = calls[s].put.profile
    BY <1>1, CallFacts
  <2>3. ProfileSound(p, w)'
    <3>1. ProfileSound(p, w)
      BY <1>1, <1>2, <2>2, CallFacts DEF RequestSound, BodySound
    <3> QED
      BY <1>1, <2>1, <3>1 DEF ProfileSound, Exists, Own, OwnedBy
  <2>4. CASE Fetched(s, calls[s], p)
    BY <1>1, <1>2, <2>1, <2>3, <2>4, FetchedSound
  <2>5. CASE Go(s, [calls[s] EXCEPT !.at = "fetch"])
    BY <1>1, <2>1, <2>5, StepSound DEF Go, UserSteps, ProfileSteps
  <2> QED
    BY <1>3, <2>2, <2>4, <2>5 DEF FetchDetails
<1>4. CASE Fetch(s)
  <2>1. Trouble(IF Undescribed(w) THEN {w} ELSE {})
    BY <1>2, <1>4 DEF Fetch
  <2>2. troubled' \subseteq Wallets /\ troubled \subseteq troubled'
    BY <1>1, <2>1 DEF Trouble
  <2>3. ASSUME NEW p \in UserProfiles(w), Fetched(s, calls[s], p)
        PROVE  SocialInv'
    <3>1. p \in Ids /\ ProfileSound(p, w)'
      BY <1>1, <2>1, FoundSound
    <3> QED
      BY <1>1, <1>2, <2>2, <2>3, <3>1, FetchedSound
  <2>4. CASE Fetched(s, calls[s], None)
    <3>1. ProfileSound(None, w)'
      BY DEF ProfileSound
    <3> QED
      BY <1>1, <1>2, <2>2, <2>4, <3>1, FetchedSound
  <2> QED
    BY <1>2, <1>4, <2>3, <2>4 DEF Fetch
<1> QED
  BY <1>3, <1>4

LEMMA CreateSound ==
  ASSUME SocialInv, NEW s \in Slots, Create(s)
  PROVE  SocialInv'
<1>1. /\ calls[s] # None /\ calls[s].at = "create" /\ UNCHANGED <<users, described, deeds, saved>>
      /\ troubled \subseteq Wallets
      /\ profiles \in [Ids -> [owner : Wallets, name : Titles \ {None}] \cup {None}]
  BY DEF Create, SocialInv, SocialTypeOK
<1>2. PICK w \in Wallets : w = calls[s].wallet
  BY <1>1, CallFacts
<1>3. PICK p \in Ids : p = UsernameOf(calls[s])
  <2>1. calls[s].asked \in Names \cup {None} /\ calls[s].cached \in Titles
    BY <1>1, CallFacts
  <2>2. /\ OwnUsername[w] \in Ids /\ \A n \in Names : Username[n] \in Ids
        /\ \A n \in Titles : n # None /\ n \notin Names => n \in Ids
    BY DEF Ids, Titles
  <2>3. (IF calls[s].kind = "patch" THEN First(calls[s].asked, calls[s].cached) ELSE calls[s].asked) \in Titles
    BY <2>1 DEF First, Titles
  <2> QED
    BY <1>2, <2>2, <2>3 DEF UsernameOf
<1>4. p # None /\ p \in Titles \ {None}
  BY SocialAssumption DEF Titles
<1>5. ASSUME profiles' \in {profiles, Made(p, w)},
             troubled' \subseteq Wallets, troubled \subseteq troubled',
             NEW next \in Calls \cup {None}, calls' = [calls EXCEPT ![s] = next], UNCHANGED begun,
             next # None =>
               /\ next.wallet = w /\ next.alone = calls[s].alone
               /\ KindSound(next) /\ AskedSound(next) /\ next.at # "create"
               /\ next.kind = "patch" => next.then # "end"
               /\ ProfileSound(next.put.profile, w)'
               /\ w \notin troubled /\ saved[w] # None => NameSound(next, saved[w])
      PROVE  SocialInv'
  <2>1. /\ profiles' = profiles \/ (~Exists(p) /\ profiles' = [profiles EXCEPT ![p] = [owner |-> w, name |-> p]])
        /\ [owner |-> w, name |-> p] \in [owner : Wallets, name : Titles \ {None}]
    BY <1>4, <1>5 DEF Made
  <2>2. [owner |-> w, name |-> p] # None
    <3>1. [owner |-> w, name |-> p] \in [owner : Wallets, name : Titles]
      BY <1>4
    <3> QED
      BY <3>1, SocialAssumption
  <2>3. SocialTypeOK'
    BY <1>1, <1>5, <2>1 DEF SocialInv, SocialTypeOK
  <2>4. /\ Grows
        /\ \A q \in Ids : Exists(q) => profiles'[q] = profiles[q]
        /\ \A q \in Ids : ~Exists(q) /\ Exists(q)' => q = p /\ profiles'[q].owner = w
    BY <1>1, <1>5, <2>1, <2>2 DEF Grows, Exists
  <2>5. w \notin troubled' =>
          /\ Own(w) = {} /\ Own(w)' \subseteq {p} /\ saved[w] = None
          /\ \A d \in deeds : d.wallet # w
          /\ users[w].profile = None
    <3>1. SUFFICES ASSUME w \notin troubled'
                   PROVE  /\ Own(w) = {} /\ Own(w)' \subseteq {p} /\ saved[w] = None
                          /\ \A d \in deeds : d.wallet # w
                          /\ users[w].profile = None
      OBVIOUS
    <3>2. Own(w) = {} /\ WalletSound(w) /\ w \notin troubled
      BY <1>1, <1>2, <1>5, <3>1, CallFacts DEF RequestSound, BodySound
    <3>3. Own(w)' \subseteq {p}
      BY <2>4, <3>2 DEF Own, OwnedBy
    <3> QED
      BY <3>2, <3>3 DEF WalletSound, ProfileSound
  <2>6. WalletSound(w)'
    <3>1. ProfileSound(users[w].profile, w)'
      <4>1. ProfileSound(users[w].profile, w) /\ users[w].profile \in Ids \cup {None}
        BY DEF SocialInv, SocialTypeOK, Rows, WalletSound
      <4>2. PICK q \in Ids \cup {None} : q = users[w].profile
        BY <4>1
      <4>3. ProfileSound(q, w)'
        BY <2>4, <4>1, <4>2, Grown
      <4> QED
        BY <1>1, <4>2, <4>3 DEF ProfileSound
    <3> QED
      BY <1>1, <2>5, <3>1 DEF WalletSound
  <2>7. next # None => BodySound(next)'
    <3>1. SUFFICES ASSUME next # None PROVE BodySound(next)'
      OBVIOUS
    <3>2. KindSound(next)' /\ ProfileSound(next.put.profile, next.wallet)'
      BY <1>5, <3>1 DEF KindSound, Resolved, Upserts
    <3>3. AskedSound(next)'
      BY <1>1, <1>5, <3>1 DEF AskedSound, Entered, Upserts
    <3> QED
      BY <1>1, <1>5, <2>5, <3>1, <3>2, <3>3 DEF BodySound
  <2> QED
    BY <1>1, <1>2, <1>5, <2>3, <2>4, <2>6, <2>7, RequestStep
<1>6. CASE /\ profiles' = Made(p, w)
           /\ Trouble((IF p \in Streams THEN {w} ELSE {}) \cup
                      (IF Exists(p) /\ profiles[p].owner # w THEN {w, profiles[p].owner} ELSE {}))
           /\ Go(s, Upsert(calls[s], None, p, Rest(calls[s])))
  <2>1. troubled' \subseteq Wallets /\ troubled \subseteq troubled'
    BY <1>1, <1>6 DEF Trouble, Exists
  <2>2. ProfileSound(p, w)'
    <3>1. CASE Exists(p)
      <4>1. profiles' = profiles
        BY <1>6, <3>1 DEF Made
      <4>2. /\ profiles[p].owner = w \/ (w \in troubled' /\ profiles[p].owner \in troubled')
            /\ w \notin troubled' => p \notin Streams
        BY <1>6, <3>1 DEF Trouble
      <4> QED
        BY <3>1, <4>1, <4>2 DEF ProfileSound, Exists, Own, OwnedBy
    <3>2. CASE ~Exists(p)
      <4> DEFINE fresh == [owner |-> w, name |-> p]
      <4>1. profiles' = [profiles EXCEPT ![p] = fresh]
        BY <1>6, <3>2 DEF Made
      <4>2. fresh \in [owner : Wallets, name : Titles] /\ fresh.owner = w
        BY <1>4
      <4> HIDE DEF fresh
      <4>3. profiles'[p] = fresh /\ fresh # None
        BY <1>1, <4>1, <4>2, SocialAssumption
      <4>4. w \notin troubled' => p \notin Streams
        BY <1>6 DEF Trouble
      <4> QED
        BY <4>2, <4>3, <4>4 DEF ProfileSound, Exists, Own, OwnedBy
    <3> QED
      BY <3>1, <3>2
  <2>3. PICK next : next = Upsert(calls[s], None, p, Rest(calls[s]))
    OBVIOUS
  <2>4. /\ Same(next, calls[s]) /\ next.at = "merge" /\ next.put.profile = p
        /\ KindSound(next) /\ AskedSound(next)
        /\ next.kind = "patch" => next.then # "end"
        /\ \A name : name # None /\ NameSound(calls[s], name) => NameSound(next, name)
    BY <1>1, <1>4, <2>3, ProfileUpsert, SMTT(30)
  <2>5. w \notin troubled /\ saved[w] # None => NameSound(next, saved[w])
    BY <1>1, <1>2, <2>4, CallFacts DEF RequestSound, BodySound
  <2>6. /\ profiles' \in {profiles, Made(p, w)} /\ calls' = [calls EXCEPT ![s] = next]
        /\ UNCHANGED begun /\ next \in Calls \cup {None}
        /\ next.wallet = w /\ next.alone = calls[s].alone
        /\ ProfileSound(next.put.profile, w)'
    BY <1>2, <1>6, <2>2, <2>3, <2>4 DEF Go, Same
  <2> QED
    BY <1>5, <2>1, <2>4, <2>5, <2>6
<1>7. CASE NoProfile(s, calls[s]) /\ profiles' \in {profiles, Made(p, w)} /\ UNCHANGED troubled
  BY <1>1, <1>5, <1>7 DEF NoProfile, Leave
<1> QED
  BY <1>2, <1>3, <1>6, <1>7 DEF Create

LEMMA CoreSound ==
  ASSUME SocialInv, NEW s \in Slots, Core(s)
  PROVE  SocialInv'
<1>1. calls[s] # None /\ calls[s].at = "core" /\ UNCHANGED <<users, described, deeds, troubled>>
  BY DEF Core
<1>2. PICK call \in Calls : call = calls[s]
  BY <1>1, CallFacts
<1>3. PICK w \in Wallets : w = call.wallet
  BY DEF Calls
<1>4. /\ KindSound(call) /\ call.kind \in {"login", "patch"} /\ AskedSound(call)
      /\ call.asked \in Names \cup {None} /\ call.cached \in Titles /\ call.alone \in BOOLEAN
      /\ w \notin troubled /\ saved[w] # None => NameSound(call, saved[w])
      /\ WalletSound(w)
  BY <1>1, <1>2, <1>3, CallFacts DEF RequestSound, BodySound, KindSound
<1>5. PICK p \in Ids : p = call.put.profile /\ p # None /\ ProfileSound(p, w)
  BY <1>1, <1>2, <1>3, <1>4, CallFacts DEF RequestSound, BodySound, KindSound, Resolved
<1>6. /\ profiles \in [Ids -> [owner : Wallets, name : Titles \ {None}] \cup {None}]
      /\ saved \in [Wallets -> Names \cup {None}]
      /\ call.asked # None => call.asked \in Titles \ {None}
      /\ profiles[p] \in [owner : Wallets, name : Titles \ {None}]
  BY <1>4, <1>5 DEF SocialInv, SocialTypeOK, Titles, ProfileSound, Exists
<1> DEFINE renamed == IF call.asked = None THEN profiles ELSE [profiles EXCEPT ![p].name = call.asked]
<1>7. ASSUME NEW keep \in Names \cup {None}, profiles' \in {profiles, renamed},
             saved' = IF call.asked = None THEN saved ELSE [saved EXCEPT ![w] = keep],
             keep # None => /\ keep = call.asked /\ call.kind = "login" /\ call.alone
                            /\ profiles' = renamed,
             NEW next \in Calls \cup {None}, calls' = [calls EXCEPT ![s] = next], UNCHANGED begun,
             next # None =>
               /\ Same(next, call) /\ next.at = "merge" /\ next.then = "end"
               /\ next.put.name = First(call.asked, call.cached) /\ next.put.profile = p
               /\ next.cached = call.cached /\ next.kind = "patch" /\ profiles' = renamed
      PROVE  SocialInv'
  <2> DEFINE named == [profiles[p] EXCEPT !.name = call.asked]
  <2>1. call.asked # None =>
          /\ named \in [owner : Wallets, name : Titles \ {None}]
          /\ named \in [owner : Wallets, name : Titles]
          /\ named.owner = profiles[p].owner /\ named.name = call.asked
    BY <1>6
  <2>2. call.asked # None => renamed = [profiles EXCEPT ![p] = named]
    OBVIOUS
  <2>3. call.asked # None => named # None
    BY <2>1, SocialAssumption
  <2> HIDE DEF named
  <2>4. /\ profiles' \in [Ids -> [owner : Wallets, name : Titles \ {None}] \cup {None}]
        /\ \A q \in Ids \ {p} : profiles'[q] = profiles[q]
        /\ Exists(p)' /\ profiles'[p].owner = profiles[p].owner
        /\ profiles' = renamed /\ call.asked # None => profiles'[p].name = call.asked
        /\ call.asked = None => profiles' = profiles
    BY <1>5, <1>6, <1>7, <2>1, <2>2, <2>3 DEF ProfileSound, Exists
  <2> HIDE DEF renamed
  <2>5. SocialTypeOK'
    BY <1>1, <1>6, <1>7, <2>4 DEF SocialInv, SocialTypeOK
  <2>6. /\ Grows
        /\ \A q \in Ids : ~(~Exists(q) /\ Exists(q)')
        /\ \A v \in Wallets : Own(v)' = Own(v)
    BY <1>1, <1>5, <2>4 DEF Grows, Exists, Own, OwnedBy, ProfileSound
  <2>7. WalletSound(w)'
    <3>1. ProfileSound(users[w].profile, w)'
      <4>1. PICK q \in Ids \cup {None} : q = users[w].profile
        BY DEF SocialInv, SocialTypeOK, Rows
      <4>2. ProfileSound(q, w)'
        BY <1>4, <2>6, <4>1, Grown DEF WalletSound
      <4> QED
        BY <1>1, <4>1, <4>2 DEF ProfileSound
    <3>2. w \notin troubled /\ saved'[w] # None =>
            /\ users[w].name = saved'[w]
            /\ \E q \in Own(w) : profiles'[q].name = saved'[w]
      <4>1. CASE call.asked = None
        BY <1>4, <1>7, <2>4, <4>1 DEF WalletSound
      <4>2. CASE call.asked # None
        <5>1. SUFFICES ASSUME w \notin troubled, keep # None
                       PROVE  users[w].name = keep /\ \E q \in Own(w) : profiles'[q].name = keep
          BY <1>6, <1>7, <4>2
        <5>2. Entered(call)
          BY <1>1, <1>2, <1>7, <4>2, <5>1 DEF Entered
        <5>3. users[w].name = keep
          BY <1>3, <1>4, <1>7, <5>1, <5>2 DEF AskedSound
        <5>4. p \in Own(w) /\ profiles'[p].name = keep
          BY <1>5, <1>7, <2>4, <4>2, <5>1 DEF ProfileSound
        <5> QED
          BY <5>3, <5>4
      <4> QED
        BY <4>1, <4>2
    <3> QED
      BY <1>1, <1>4, <2>6, <3>1, <3>2 DEF WalletSound
  <2>8. next # None => BodySound(next)'
    <3>1. SUFFICES ASSUME next # None PROVE BodySound(next)'
      OBVIOUS
    <3>2. KindSound(next)'
      BY <1>5, <1>7, <3>1 DEF KindSound, Resolved, Upserts, UserSteps
    <3>3. AskedSound(next)'
      BY <1>7, <2>4, <3>1 DEF AskedSound, Entered, Upserts, Same, First
    <3>4. ProfileSound(p, w)'
      BY <1>5, <2>6, Grown
    <3>5. w \notin troubled' /\ saved'[w] # None => NameSound(next, saved'[w])
      <4>1. call.asked # None => saved'[w] = None
        BY <1>6, <1>7, <3>1 DEF Same
      <4> QED
        BY <1>1, <1>4, <1>7, <3>1, <4>1 DEF NameSound, First
    <3> QED
      BY <1>3, <1>7, <3>1, <3>2, <3>3, <3>4, <3>5 DEF BodySound, Same
  <2>9. /\ \A v \in Wallets \ {w} : users'[v] = users[v] /\ saved'[v] = saved[v]
        /\ saved'[w] \in {saved[w], None} \/ calls[s].alone
    BY <1>1, <1>2, <1>6, <1>7
  <2>10. \A q \in Ids : Exists(q) /\ q # calls[s].put.profile => profiles'[q] = profiles[q]
    BY <1>2, <1>5, <2>4
  <2>11. next # None =>
           /\ next.wallet = w /\ next.alone = calls[s].alone /\ next.at # "create"
    BY <1>2, <1>3, <1>7 DEF Same
  <2>12. w = calls[s].wallet /\ (\A d \in deeds' : d.wallet # w => d \in deeds)
    BY <1>1, <1>2, <1>3
  <2> QED
    BY <1>1, <1>7, <2>5, <2>6, <2>7, <2>8, <2>9, <2>10, <2>11, <2>12, RequestStep
<1> DEFINE keep == IF call.kind = "login" /\ call.alone THEN call.asked ELSE None
<1>8. CASE /\ profiles' = renamed /\ call.kind = "login" /\ Leave(s)
           /\ saved' = IF call.asked = None THEN saved ELSE [saved EXCEPT ![w] = keep]
  BY <1>4, <1>7, <1>8 DEF Leave
<1>9. CASE /\ profiles' = renamed /\ call.kind # "login"
           /\ Go(s, Upsert(call, First(call.asked, call.cached), p, "end"))
           /\ saved' = IF call.asked = None THEN saved ELSE [saved EXCEPT ![w] = None]
  <2>1. PICK name \in Titles : name = First(call.asked, call.cached)
    BY <1>4, <1>6 DEF First
  <2>2. PICK next : next = Upsert(call, name, p, "end")
    OBVIOUS
  <2>3. /\ Same(next, call) /\ next.at = "merge" /\ next.then = "end"
        /\ next.put.name = name /\ next.put.profile = p /\ next.cached = call.cached
    BY <2>2, UpsertFacts
  <2>4. /\ calls' = [calls EXCEPT ![s] = next] /\ UNCHANGED begun
        /\ next \in Calls /\ next.kind = "patch"
    BY <1>4, <1>9, <2>1, <2>2, <2>3 DEF Go, Same
  <2> HIDE DEF renamed
  <2> QED
    BY <1>7, <1>9, <2>1, <2>3, <2>4
<1>10. CASE /\ Leave(s) /\ profiles' \in {profiles, renamed}
            /\ saved' = IF call.asked = None THEN saved ELSE [saved EXCEPT ![w] = None]
  BY <1>7, <1>10 DEF Leave
<1> QED
  BY <1>2, <1>3, <1>5, <1>8, <1>9, <1>10 DEF Core

LEMMA WriteSound ==
  ASSUME SocialInv, NEW s \in Slots, Write(s)
  PROVE  SocialInv'
<1>1. calls[s] # None /\ calls[s].at = "write" /\ UNCHANGED <<profiles, described, deeds, troubled>>
  BY DEF Write
<1>2. PICK call \in Calls : call = calls[s]
  BY <1>1, CallFacts
<1>3. PICK w \in Wallets : w = call.wallet
  BY DEF Calls
<1>4. PICK put \in Rows : put = call.put
  BY DEF Calls
<1>5. /\ KindSound(call) /\ AskedSound(call) /\ ProfileSound(put.profile, w)
      /\ call.asked \in Names \cup {None} /\ call.alone \in BOOLEAN
      /\ put.profile \in Ids \cup {None}
      /\ w \notin troubled /\ saved[w] # None => NameSound(call, saved[w])
      /\ call.then \in {"user", "core", "act", "end"} /\ WalletSound(w)
      /\ saved \in [Wallets -> Names \cup {None}] /\ users \in [Wallets -> Rows]
  BY <1>1, <1>2, <1>3, <1>4, CallFacts DEF RequestSound, BodySound, SocialInv, SocialTypeOK
<1>6. /\ users' = [users EXCEPT ![w] = put]
      /\ saved' = IF ~Gives(call) THEN saved
                  ELSE [saved EXCEPT ![w] =
                    IF call.kind = "patch" /\ call.then = "end" /\ call.alone
                    THEN call.asked ELSE None]
      /\ Resume(s, call, call.then)
  BY <1>2, <1>3, <1>4 DEF Write, Gives
<1>7. PICK next \in Calls \cup {None} :
        /\ calls' = [calls EXCEPT ![s] = next] /\ UNCHANGED begun
        /\ IF call.then = "end" THEN next = None
           ELSE /\ Same(next, call) /\ next.at = call.then /\ next.put = put
                /\ next.then = call.then /\ next.cached = call.cached
  <2>1. CASE call.then = "end"
    BY <1>6, <2>1 DEF Resume, Leave
  <2>2. CASE call.then # "end"
    <3>1. PICK next : next = [call EXCEPT !.at = call.then]
      OBVIOUS
    <3>2. /\ Same(next, call) /\ next.at = call.then /\ next.put = put
          /\ next.then = call.then /\ next.cached = call.cached
      BY <1>4, <1>5, <2>2, <3>1, AtFacts DEF ProfileSteps
    <3>3. calls' = [calls EXCEPT ![s] = next] /\ UNCHANGED begun
      BY <1>6, <2>2, <3>1 DEF Resume, Go
    <3> QED
      BY <2>2, <3>2, <3>3 DEF Same
  <2> QED
    BY <2>1, <2>2
<1>8. SocialTypeOK'
  BY <1>1, <1>5, <1>6, <1>7 DEF SocialInv, SocialTypeOK
<1>9. /\ Grows /\ \A v \in Wallets : Own(v)' = Own(v)
      /\ \A q \in Ids : Exists(q)' <=> Exists(q)
  BY <1>1 DEF Grows, Exists, Own, OwnedBy
<1>10. Upserts(call) /\ users'[w] = put
  BY <1>1, <1>2, <1>5, <1>6 DEF Upserts
<1>11. saved'[w] # None /\ Gives(call) =>
         /\ call.kind = "patch" /\ call.then = "end" /\ call.alone /\ saved'[w] = call.asked
  BY <1>5, <1>6
<1>12. ~Gives(call) => saved' = saved
  BY <1>6
<1>13. ProfileSound(put.profile, w)'
  <2>1. PICK q \in Ids \cup {None} : q = put.profile
    BY <1>5
  <2> QED
    BY <1>5, <1>9, <2>1, Grown
<1>14. WalletSound(w)'
  <2>1. ProfileSound(users[w].profile, w)'
    BY <1>10, <1>13
  <2>2. w \notin troubled /\ saved'[w] # None =>
          /\ put.name = saved'[w]
          /\ \E q \in Own(w) : profiles[q].name = saved'[w]
    <3>1. CASE Gives(call)
      <4>1. SUFFICES ASSUME w \notin troubled, saved'[w] # None
                     PROVE  put.name = saved'[w] /\ \E q \in Own(w) : profiles[q].name = saved'[w]
        OBVIOUS
      <4>2. put.name = saved'[w] /\ profiles[put.profile].name = saved'[w]
        BY <1>3, <1>4, <1>5, <1>10, <1>11, <3>1, <4>1 DEF AskedSound, Gives
      <4>3. put.profile \in Own(w)
        BY <1>4, <1>5, <1>10, <1>11, <3>1, <4>1 DEF KindSound, Resolved, ProfileSound
      <4> QED
        BY <4>2, <4>3
    <3>2. CASE ~Gives(call)
      BY <1>1, <1>2, <1>4, <1>5, <1>12, <3>2 DEF NameSound, WalletSound
    <3> QED
      BY <3>1, <3>2
  <2> QED
    BY <1>1, <1>5, <1>9, <1>10, <2>1, <2>2 DEF WalletSound
<1>15. next # None => BodySound(next)'
  <2>1. SUFFICES ASSUME next # None PROVE BodySound(next)'
    OBVIOUS
  <2>2. /\ Same(next, call) /\ next.at = call.then /\ next.put = put /\ next.cached = call.cached
        /\ call.then \in {"user", "core", "act"}
    BY <1>5, <1>7, <2>1
  <2>3. KindSound(next)'
    BY <1>4, <1>5, <1>10, <2>2 DEF KindSound, Resolved, Upserts, UserSteps, Same
  <2>4. AskedSound(next)'
    <3>1. SUFFICES ASSUME Entered(next), next.alone PROVE users'[w].name = next.asked
      BY <1>3, <2>2 DEF AskedSound, Upserts, Same, Entered
    <3>2. put.name = call.asked
      BY <1>1, <1>2, <1>4, <1>5, <1>10, <2>2, <3>1 DEF AskedSound, Entered, Same
    <3> QED
      BY <1>10, <2>2, <3>2 DEF Same
  <2>5. w \notin troubled' /\ saved'[w] # None => NameSound(next, saved'[w])
    BY <1>1, <1>5, <1>11, <1>12, <2>2 DEF NameSound
  <2> QED
    BY <1>3, <1>13, <2>2, <2>3, <2>4, <2>5 DEF BodySound, Same
<1>16. /\ \A v \in Wallets \ {w} : users'[v] = users[v] /\ saved'[v] = saved[v]
       /\ saved'[w] \in {saved[w], None} \/ calls[s].alone
       /\ \A q \in Ids : Exists(q) /\ q # calls[s].put.profile => profiles'[q] = profiles[q]
       /\ w = calls[s].wallet /\ (\A d \in deeds' : d.wallet # w => d \in deeds)
  BY <1>1, <1>2, <1>3, <1>5, <1>6, <1>11, <1>12
<1>17. next # None => next.wallet = w /\ next.alone = calls[s].alone /\ next.at # "create"
  BY <1>2, <1>3, <1>5, <1>7 DEF Same
<1> QED
  BY <1>1, <1>7, <1>8, <1>9, <1>14, <1>15, <1>16, <1>17, RequestStep

LEMMA ActSound ==
  ASSUME SocialInv, NEW s \in Slots, Act(s)
  PROVE  SocialInv'
<1>1. /\ calls[s] # None /\ calls[s].at = "act" /\ Leave(s)
      /\ UNCHANGED <<users, profiles, described, saved, troubled>>
  BY DEF Act
<1>2. PICK w \in Wallets : w = calls[s].wallet
  BY <1>1, CallFacts
<1>3. PICK p \in Ids : p = calls[s].put.profile /\ ProfileSound(p, w) /\ p # None
  BY <1>1, <1>2, CallFacts DEF RequestSound, BodySound, KindSound, Resolved
<1>4. PICK deed \in Deeds : deed.wallet = w /\ deed.profile = p
                            /\ deed = [wallet |-> calls[s].wallet, profile |-> calls[s].put.profile]
  BY <1>2, <1>3 DEF Deeds
<1>5. deeds' \subseteq deeds \cup {deed}
  BY <1>4 DEF Act, Says, TakesBack, Lists
<1>6. SocialTypeOK' /\ WalletSound(w)
  BY <1>1, <1>5 DEF SocialInv, SocialTypeOK, Leave
<1>7. Grows /\ (\A v \in Wallets : Own(v)' = Own(v)) /\ (\A q \in Ids : Exists(q)' <=> Exists(q))
  BY <1>1 DEF Grows, Exists, Own, OwnedBy
<1>8. WalletSound(w)'
  <2>1. ProfileSound(users[w].profile, w)'
    BY <1>1, <1>6 DEF WalletSound, ProfileSound, Exists, Own, OwnedBy
  <2>2. w \notin troubled => \A d \in deeds' : d.wallet = w => d.profile \in Own(w)
    BY <1>3, <1>4, <1>5, <1>6 DEF WalletSound, ProfileSound
  <2> QED
    BY <1>1, <1>6, <1>7, <2>1, <2>2 DEF WalletSound
<1>9. \A d \in deeds' : d.wallet # w => d \in deeds
  BY <1>4, <1>5
<1> QED
  BY <1>1, <1>2, <1>6, <1>7, <1>8, <1>9, RequestStep DEF Leave

(* A stream's profile is nobody's own, and describing it changes no name.   *)
LEMMA StreamSound ==
  ASSUME SocialInv, NEW v \in Wallets, MakeStream(v) \/ DescribeStream(v)
  PROVE  SocialInv'
<1>1. /\ UNCHANGED <<users, deeds, calls, begun, saved, troubled>>
      /\ profiles \in [Ids -> [owner : Wallets, name : Titles \ {None}] \cup {None}]
  BY DEF MakeStream, DescribeStream, SocialInv, SocialTypeOK
<1>2. PICK p \in Ids : p = StreamId[v] /\ p \in Streams /\ p # None /\ p \in Titles
  BY SocialAssumption DEF Streams, Ids, Titles
<1> DEFINE fresh == [owner |-> v, name |-> p]
<1>3. fresh \in [owner : Wallets, name : Titles] /\ fresh \in [owner : Wallets, name : Titles \ {None}]
  BY <1>2
<1>4. \/ profiles' = profiles /\ described' = described \cup {p}
      \/ ~Exists(p) /\ profiles' = [profiles EXCEPT ![p] = fresh] /\ described' = described
  BY <1>2 DEF MakeStream, DescribeStream
<1> HIDE DEF fresh
<1>5. SocialTypeOK'
  BY <1>1, <1>2, <1>3, <1>4 DEF SocialInv, SocialTypeOK
<1>6. \A q \in Ids : Exists(q) => profiles'[q] = profiles[q] /\ Exists(q)'
  BY <1>1, <1>4 DEF Exists
<1>7. Grows
  BY <1>1, <1>6 DEF Grows
<1>8. \A w \in Wallets : Own(w)' = Own(w)
  BY <1>1, <1>2, <1>4 DEF Own, OwnedBy, Exists
<1>9. ASSUME NEW w \in Wallets PROVE WalletSound(w)'
  <2>1. WalletSound(w)
    BY DEF SocialInv
  <2>2. PICK q \in Ids \cup {None} : q = users[w].profile
    BY DEF SocialInv, SocialTypeOK, Rows
  <2>3. ProfileSound(q, w)'
    BY <1>7, <2>1, <2>2, Grown DEF WalletSound
  <2>4. ProfileSound(users[w].profile, w)'
    BY <1>1, <2>2, <2>3
  <2>5. \A o \in Own(w) : profiles'[o] = profiles[o]
    BY <1>6 DEF Own, OwnedBy
  <2> QED
    BY <1>1, <1>8, <2>1, <2>4, <2>5 DEF WalletSound
<1>10. ASSUME NEW s \in Slots, calls[s] # None PROVE RequestSound(s)'
  <2>1. PICK call \in Calls : call = calls[s]
    BY <1>10, CallFacts
  <2>2. PICK w \in Wallets, q \in Ids \cup {None} : w = call.wallet /\ q = call.put.profile
    BY DEF Calls, Rows
  <2>3. RequestSound(s) /\ BodySound(call)
    BY <1>10, <2>1, CallFacts DEF RequestSound
  <2>4. ProfileSound(q, w)'
    BY <1>7, <2>2, <2>3, Grown DEF BodySound
  <2>5. AskedSound(call)'
    <3>1. Upserts(call) /\ call.then = "end" => Exists(q) /\ q \in Ids
      BY <2>2, <2>3, SocialAssumption DEF BodySound, KindSound, Resolved, ProfileSound
    <3> QED
      BY <1>1, <1>6, <2>2, <2>3, <3>1 DEF BodySound, AskedSound, Entered, Upserts
  <2>6. BodySound(call)'
    BY <1>1, <1>8, <2>2, <2>3, <2>4, <2>5 DEF BodySound, KindSound, Resolved, Upserts, NameSound, Gives
  <2> QED
    BY <1>1, <2>1, <2>3, <2>6 DEF RequestSound, Others, Creating
<1> QED
  BY <1>1, <1>5, <1>9, <1>10 DEF SocialInv

(* A new request, and those of its wallet that are alone no more.           *)
LEMMA BeginSound ==
  ASSUME SocialInv, NEW s \in Slots, NEW w \in Wallets,
         NEW kind \in Kinds, NEW asked \in Names \cup {None}, Begin(s, w, kind, asked)
  PROVE  SocialInv'
<1>1. /\ calls[s] = None /\ UNCHANGED <<users, profiles, described, deeds, saved, troubled>>
      /\ begun \in 0 .. MaxRequests /\ begun < MaxRequests /\ begun' = begun + 1
      /\ calls \in [Slots -> Calls \cup {None}]
  BY DEF Begin, SocialInv, SocialTypeOK
<1>2. begun' \in 0 .. MaxRequests
  BY <1>1, SocialAssumption
<1> DEFINE bare == [kind |-> kind, wallet |-> w, asked |-> asked, at |-> "user",
                    cached |-> None, put |-> NoRow, then |-> "end", alone |-> Others(s, w) = {}]
<1> DEFINE new == CASE kind = "login" -> Upsert(bare, asked, None, "user")
                    [] kind \in {"get", "patch"} -> [bare EXCEPT !.at = "read"]
                    [] OTHER -> bare
<1>3. NoRow \in Rows /\ NoRow.profile = None /\ asked \in Titles
  BY DEF NoRow, Rows, Titles
<1>4. /\ bare \in Calls /\ bare.kind = kind /\ bare.wallet = w /\ bare.asked = asked
      /\ bare.at = "user" /\ bare.cached = None /\ bare.put = NoRow
      /\ bare.alone = (Others(s, w) = {})
  BY <1>3 DEF Calls, ProfileSteps, Titles
<1>5. PICK call : call = new
  OBVIOUS
<1>6. calls' = [o \in Slots |->
        IF o = s THEN call
        ELSE IF o \in Others(s, w) THEN [calls[o] EXCEPT !.alone = FALSE] ELSE calls[o]]
  BY <1>5 DEF Begin
<1> HIDE DEF bare
<1>7. /\ Same(call, bare) /\ call.cached = None /\ call.put.profile = None
      /\ \/ kind = "login" /\ call.at = "merge" /\ call.then = "user" /\ call.put.name = asked
         \/ kind \in {"get", "patch"} /\ call.at = "read"
         \/ kind = "act" /\ call.at = "user"
  <2>1. CASE kind = "login"
    <3>1. call = Upsert(bare, asked, None, "user")
      BY <1>5, <2>1
    <3> QED
      BY <1>3, <1>4, <2>1, <3>1, UpsertFacts
  <2>2. CASE kind \in {"get", "patch"}
    <3>1. call = [bare EXCEPT !.at = "read"]
      BY <1>5, <2>2
    <3> QED
      BY <1>3, <1>4, <2>2, <3>1, AtFacts DEF UserSteps
  <2>3. CASE kind = "act"
    <3>1. call = bare
      BY <1>5, <2>3
    <3> QED
      BY <1>3, <1>4, <2>3, <3>1 DEF Same
  <2> QED
    BY <2>1, <2>2, <2>3 DEF Kinds
<1>8. /\ call \in Calls /\ call.kind = kind /\ call.wallet = w /\ call.asked = asked
      /\ call.alone = (Others(s, w) = {})
  BY <1>4, <1>7 DEF Same
<1> HIDE DEF new
<1>9. BodySound(call)'
  <2>1. KindSound(call)
    BY <1>7, <1>8 DEF KindSound, Resolved, Upserts, UserSteps
  <2>2. AskedSound(call)'
    BY <1>7, <1>8 DEF AskedSound, Upserts, Entered, ProfileSteps
  <2>3. \A name : NameSound(call, name)
    BY <1>7, <1>8 DEF NameSound, Gives
  <2> QED
    BY <1>7, <2>1, <2>2, <2>3 DEF BodySound, ProfileSound, KindSound, Resolved, Upserts, NameSound, Gives
<1>10. ASSUME NEW o \in Others(s, w)
       PROVE  /\ o \in Slots /\ o # s /\ calls[o] \in Calls /\ calls[o] # None /\ calls[o].wallet = w
              /\ [calls[o] EXCEPT !.alone = FALSE] \in Calls
              /\ \A field \in {"kind", "wallet", "asked", "at", "cached", "put", "then"} :
                   [calls[o] EXCEPT !.alone = FALSE][field] = calls[o][field]
              /\ ~[calls[o] EXCEPT !.alone = FALSE].alone
  BY <1>1, ZenonT(40) DEF Others, Calls
<1>11. calls' \in [Slots -> Calls \cup {None}]
  BY <1>1, <1>6, <1>8, <1>10
<1>12. \A v \in Wallets : WalletSound(v)'
  BY <1>1 DEF SocialInv, WalletSound, ProfileSound, Exists, Own, OwnedBy
<1>13. /\ \A v \in Wallets, o \in Slots : Others(o, v)' \subseteq Others(o, v) \cup {s}
       /\ Others(s, w)' \subseteq Others(s, w)
       /\ \A v \in Wallets, o \in Slots : v # w => s \notin Others(o, v)'
  BY <1>1, <1>6, <1>8, <1>10 DEF Others
<1>14. ASSUME NEW o \in Slots, o # s, calls'[o] # None PROVE RequestSound(o)'
  <2>1. PICK before \in Calls : before = calls[o]
    BY <1>1, <1>6, <1>10, <1>14
  <2>2. calls[o] # None
    BY <1>6, <1>10, <1>14
  <2>3. PICK after \in Calls : after = calls'[o]
    BY <1>11, <1>14
  <2>4. /\ after.kind = before.kind /\ after.wallet = before.wallet /\ after.asked = before.asked
        /\ after.at = before.at /\ after.cached = before.cached /\ after.put = before.put
        /\ after.then = before.then
        /\ after.alone => before.alone /\ o \notin Others(s, w)
    BY <1>6, <1>10, <1>14, <2>1, <2>3
  <2>5. PICK v \in Wallets : v = before.wallet
    BY DEF Calls
  <2>6. RequestSound(o) /\ BodySound(before)
    BY <2>1, <2>2, CallFacts DEF RequestSound
  <2>7. BodySound(after)'
    <3>1. KindSound(after) /\ \A name : NameSound(before, name) => NameSound(after, name)
      BY <2>4, <2>6 DEF BodySound, KindSound, Resolved, Upserts, NameSound, Gives
    <3>2. AskedSound(after)'
      BY <1>1, <2>4, <2>6 DEF BodySound, AskedSound, Entered, Upserts
    <3>3. ProfileSound(after.put.profile, after.wallet)'
      BY <1>1, <2>4, <2>6 DEF BodySound, ProfileSound, Exists, Own, OwnedBy
    <3>4. (after.wallet \notin troubled =>
            /\ after.at = "create" => Own(after.wallet) = {}
            /\ saved[after.wallet] # None => NameSound(after, saved[after.wallet]))'
      BY <1>1, <2>4, <2>6, <3>1 DEF BodySound, Own, OwnedBy, Exists, NameSound, Gives
    <3> QED
      BY <3>1, <3>2, <3>3, <3>4 DEF BodySound, KindSound, Resolved, Upserts
  <2>8. after.alone => Others(o, v)' = {}
    <3>1. SUFFICES ASSUME after.alone PROVE Others(o, v)' = {}
      OBVIOUS
    <3>2. Others(o, v) = {} /\ o \notin Others(s, w)
      BY <2>1, <2>4, <2>5, <2>6, <3>1 DEF RequestSound
    <3>3. v # w
      BY <1>14, <2>1, <2>2, <2>5, <3>2 DEF Others
    <3> QED
      BY <1>13, <3>2, <3>3
  <2>9. after.at = "create" /\ v \notin troubled => ~Creating(o, v)'
    <3>1. SUFFICES ASSUME after.at = "create", v \notin troubled, NEW q \in Others(o, v)'
                   PROVE  calls'[q].at # "create"
      BY DEF Creating
    <3>2. CASE q = s
      BY <1>6, <1>7, <3>2
    <3>3. CASE q # s
      <4>1. q \in Others(o, v) /\ q \in Slots
        BY <1>13, <3>1, <3>3 DEF Others
      <4>2. calls[q].at # "create"
        BY <2>1, <2>4, <2>5, <2>6, <3>1, <4>1 DEF RequestSound, Creating
      <4> QED
        BY <1>6, <1>10, <3>3, <4>1, <4>2
    <3> QED
      BY <3>2, <3>3
  <2> QED
    BY <1>1, <2>3, <2>4, <2>5, <2>7, <2>8, <2>9 DEF RequestSound
<1>15. RequestSound(s)'
  <2>1. calls'[s] = call /\ (call.alone => Others(s, w)' = {}) /\ call.at # "create"
    BY <1>6, <1>7, <1>8, <1>13
  <2>2. BodySound(calls[s])'
    BY <1>9, <2>1
  <2> QED
    BY <1>8, <2>1, <2>2 DEF RequestSound
<1> QED
  BY <1>1, <1>2, <1>11, <1>12, <1>14, <1>15 DEF SocialInv, SocialTypeOK

LEMMA SocialInvariant == SocialSpec => []SocialInv
<1>1. SocialInit => SocialInv
  <2> SUFFICES ASSUME SocialInit PROVE SocialInv
    OBVIOUS
  <2>1. SocialTypeOK
    BY SocialAssumption DEF SocialInit, SocialTypeOK, NoRow, Rows, Titles
  <2>2. \A w \in Wallets : WalletSound(w)
    BY DEF SocialInit, WalletSound, ProfileSound, NoRow, Own, OwnedBy, Exists
  <2>3. \A s \in Slots : calls[s] = None
    BY DEF SocialInit
  <2> QED
    BY <2>1, <2>2, <2>3 DEF SocialInv
<1>2. SocialInv /\ [SocialNext]_socialVars => SocialInv'
  <2> SUFFICES ASSUME SocialInv, [SocialNext]_socialVars PROVE SocialInv'
    OBVIOUS
  <2>1. ASSUME NEW s \in Slots, NEW w \in Wallets, NEW n \in Names \cup {None},
               Login(s, w, n) \/ PatchUser(s, w, n) \/ Social(s, w, n) \/ GetUser(s, w)
        PROVE  SocialInv'
    <3>1. PICK kind \in Kinds, asked \in Names \cup {None} : Begin(s, w, kind, asked)
      BY <2>1 DEF Login, PatchUser, Social, GetUser, Kinds
    <3> QED
      BY <3>1, BeginSound
  <2>2. ASSUME NEW s \in Slots, NEW w \in Wallets, GetUser(s, w) PROVE SocialInv'
    BY <2>1, <2>2
  <2>3. CASE UNCHANGED socialVars
    <3>1. SocialTypeOK'
      BY <2>3 DEF socialVars, SocialInv, SocialTypeOK
    <3>2. \A w \in Wallets : WalletSound(w)'
      BY <2>3 DEF socialVars, SocialInv, WalletSound, ProfileSound, Exists, Own, OwnedBy
    <3>3. ASSUME NEW s \in Slots, calls[s] # None PROVE RequestSound(s)'
      BY <2>3, <3>3 DEF socialVars, SocialInv, RequestSound, BodySound, KindSound, AskedSound, Entered,
        Resolved, Upserts, NameSound, Gives, ProfileSound, Exists, Own, OwnedBy, Others, Creating
    <3> QED
      BY <2>3, <3>1, <3>2, <3>3 DEF socialVars, SocialInv
  <2> QED
    BY <2>1, <2>2, <2>3, MergeSound, WriteSound, ReadUserSound, DetailsSound, LookupSound, CreateSound,
       ReadCachedSound, FetchSound, CoreSound, ActSound, StreamSound DEF SocialNext
<1> QED
  BY <1>1, <1>2, PTL DEF SocialSpec

(* ensureProfile: whatever any number of requests read before and write     *)
(* after one another, and whatever calls to Tapestry fail, a wallet that    *)
(* met none of the troubles has one profile.                                *)
THEOREM ProfileCorrect == SocialSpec => []OneProfile
<1>1. SocialInv => OneProfile
  <2> SUFFICES ASSUME SocialInv, NEW w \in Wallets \ troubled
               PROVE  Cardinality(OwnedBy(w) \ Streams) <= 1
    BY DEF OneProfile
  <2>1. \A p, q \in Own(w) : p = q
    BY DEF SocialInv, WalletSound
  <2>2. CASE Own(w) = {}
    BY <2>2, FS_EmptySet DEF Own
  <2>3. ASSUME NEW p \in Own(w) PROVE Cardinality(Own(w)) <= 1
    <3>1. Own(w) = {p}
      BY <2>1
    <3> QED
      BY <3>1, FS_Singleton
  <2> QED
    BY <2>2, <2>3 DEF Own
<1> QED
  BY <1>1, SocialInvariant, PTL

(* The profile a request acts for is that of everything its wallet posted,  *)
(* liked, commented and followed before, and the wallet's own.              *)
THEOREM VoiceCorrect == SocialSpec => []OneVoice
<1>1. SocialInv => OneVoice
  <2> SUFFICES ASSUME SocialInv, NEW s \in Slots, calls[s] # None, calls[s].at = "act",
                      calls[s].wallet \notin troubled
               PROVE  /\ \A d \in deeds : d.wallet = calls[s].wallet => d.profile = calls[s].put.profile
                      /\ profiles[calls[s].put.profile].owner = calls[s].wallet
    BY DEF OneVoice
  <2>1. /\ calls[s].put.profile \in Own(calls[s].wallet)
        /\ WalletSound(calls[s].wallet)
    BY CallFacts DEF RequestSound, BodySound, KindSound, Resolved, ProfileSound
  <2> QED
    BY <2>1 DEF WalletSound, Own, OwnedBy
<1> QED
  BY <1>1, SocialInvariant, PTL

(* The name a wallet gave itself in a request that ran alone stays in the   *)
(* table and in Tapestry, whatever upsertUser merges later.                 *)
THEOREM NameCorrect == SocialSpec => []NameIsSaved
<1>1. SocialInv => NameIsSaved
  <2> SUFFICES ASSUME SocialInv, NEW w \in Wallets \ troubled, saved[w] # None
               PROVE  /\ users[w].name = saved[w]
                      /\ users[w].profile # None => profiles[users[w].profile].name = saved[w]
    BY DEF NameIsSaved
  <2> QED
    BY DEF SocialInv, WalletSound, ProfileSound
<1> QED
  BY <1>1, SocialInvariant, PTL
=============================================================================
