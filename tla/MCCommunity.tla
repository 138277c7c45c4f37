---------------------------- MODULE MCCommunity ----------------------------
(* The social service, the pages, the demo seeder, the MCP server's         *)
(* listeners, the readers of signals, the rail and the publish switch share *)
(* no state: a behaviour is of one of them.  The social service serves one  *)
(* wallet two requests at a time, or two wallets one.                       *)
EXTENDS SocialService, SignalReader, FeedPage, WalletPanes, DemoSeed, McpListeners,
  StreamsRail, PublisherSwitch, TLC

CONSTANTS
  a, b, ann, bob, idAnn, idBob, ownA, ownB, streamA, streamB, r1, r2,
  plain, private

MCUsername == [n \in Names |-> IF n = ann THEN idAnn ELSE idBob]
MCOwnUsername == [w \in Wallets |-> IF w = a THEN ownA ELSE ownB]
MCDemoStreams == <<plain, private>>
MCStreamId == [w \in Wallets |-> IF w = a THEN streamA ELSE streamB]

VARIABLE part

pageVars == <<wallet, request>>
ownVars == <<pane, owners, ownCache, late>>
postVars == <<heartVars, listVars>>
loneVars == <<seedVars, listenVars, readerVars, railVars, switchVars>>

NoPage ==
  /\ wallet = None /\ request = [r \in Requests |-> None]
  /\ NoPane /\ NoHeart /\ NoList

MCInit ==
  /\ SocialInit /\ SeedInit /\ NoListener /\ NoRail /\ NoSwitch
  /\ \/ /\ part \in {"two requests", "two wallets", "seed", "listeners", "reader", "rail", "switch"}
        /\ NoPage
     \/ part = "heart" /\ HeartInit /\ NoPane /\ NoList
     \/ part = "own" /\ PaneInit /\ NoHeart /\ NoList
     \/ part = "list" /\ ListInit /\ NoHeart /\ NoPane
  /\ IF part = "reader" THEN ReaderInit ELSE NoReader

(* Two requests of the one wallet that overlap and a third that finds what  *)
(* they left; or one at a time of two wallets, and two in all.              *)
TwoRequests ==
  /\ part = "two requests" /\ SocialNext
  /\ profiles'[streamB] = None /\ \A s \in Slots : calls'[s] # None => calls'[s].wallet = a
  /\ begun' = 3 /\ begun = 2 => \A s \in Slots : calls[s] = None
TwoWallets ==
  /\ part = "two wallets" /\ SocialNext
  /\ begun' <= 2 /\ \E s \in Slots : calls'[s] = None

(* Each part beside the others. *)
MCNext ==
  /\ UNCHANGED part
  /\ \/ (TwoRequests \/ TwoWallets) /\ UNCHANGED <<pageVars, ownVars, postVars, loneVars>>
     \/ part = "own" /\ PaneNext /\ UNCHANGED <<socialVars, postVars, loneVars>>
     \/ part = "heart" /\ HeartNext /\ UNCHANGED <<socialVars, ownVars, loneVars>>
     \/ part = "list" /\ ListNext /\ UNCHANGED <<socialVars, ownVars, loneVars>>
     \/ /\ UNCHANGED <<socialVars, pageVars, ownVars, postVars>>
        /\ \/ /\ part = "seed" /\ SeedNext
              /\ UNCHANGED <<listenVars, readerVars, railVars, switchVars>>
           \/ /\ part = "listeners" /\ ListenNext
              /\ UNCHANGED <<seedVars, readerVars, railVars, switchVars>>
           \/ /\ part = "reader" /\ ReaderNext
              /\ UNCHANGED <<seedVars, listenVars, railVars, switchVars>>
           \/ /\ part = "rail" /\ RailNext
              /\ UNCHANGED <<seedVars, listenVars, readerVars, switchVars>>
           \/ /\ part = "switch" /\ SwitchNext
              /\ UNCHANGED <<seedVars, listenVars, readerVars, railVars>>
MCSpec == MCInit /\ [][MCNext]_<<part, socialVars, pageVars, ownVars, postVars, loneVars>>

(* Of the requests, and of the names with their usernames. *)
Swaps == {r1, r2, ann, bob, idAnn, idBob}
Pairs == {<<r1, r2>>, <<ann, bob>>, <<idAnn, idBob>>}
Partner(x) == CHOOSE y \in Swaps : <<x, y>> \in Pairs \/ <<y, x>> \in Pairs
Symmetric == {{r1, r2}, {ann, bob, idAnn, idBob}}
MCSymmetry ==
  {[x \in Swaps |-> IF \E g \in swapped : x \in g THEN Partner(x) ELSE x] :
     swapped \in SUBSET Symmetric}

=============================================================================
