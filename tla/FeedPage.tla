------------------------------ MODULE FeedPage ------------------------------
(***************************************************************************)
(* The pages that show posts, comments and the links of an agent.          *)
(*                                                                         *)
(*   frontend/app/feed/FeedClient.tsx          the feed                    *)
(*   frontend/app/post/[id]/PostPageClient.tsx one post                    *)
(*   frontend/app/agent/[id]/AgentPageClient.tsx     one agent             *)
(*   frontend/app/lib/api/social.ts, agents.ts the caches in localStorage  *)
(*                                                                         *)
(* Two parts of a page that share nothing but the wallet connected: the    *)
(* heart of a post, and a list.  Each handler is cut at its awaits; a      *)
(* request may be refused, or carried out and its answer lost.             *)
(***************************************************************************)
EXTENDS Naturals, Sequences, FiniteSets, SequencesExt, Page

CONSTANTS
  MaxItems,  \* bound on the posts or comments ever made
  MaxPage,   \* bound on the pages asked for
  PageSize   \* of a page of comments

VARIABLES
  (* the heart *)
  liked, likesOn, \* on the page, and the wallets whose like the server has
  sure,     \* auxiliary: the last press ran alone, was answered and counted
  (* a list *)
  box,      \* which list
  server, made, \* its items on the server, and how many were ever made
  shown, total, page, \* on the page: the items, how many there are, the last page
  cache,    \* posts in localStorage
  loading,
  honest,   \* auxiliary: shown since a load of the first page that ran alone
  cut,      \* auxiliary: since that load was sent an item was deleted
  deleted   \* auxiliary: items the page was told are deleted

heartVars == <<liked, likesOn, sure>>
listVars == <<box, server, made, shown, total, page, cache, loading, honest, cut, deleted>>
feedVars == <<wallet, request, heartVars, listVars>>

Items == 1 .. MaxItems
Boxes == {"posts", "comments of the feed", "comments of the post", "links of the agent"}
Draft == 0

(* was: the heart before the press.  before: whether it was sure then.      *)
Presses ==
  [at : {"toggle", "count"}, by : Wallets, was : BOOLEAN, before : BOOLEAN, alone : BOOLEAN]
(* page: of a load.  answer, of: the items of the page and how many there   *)
(* are.  item: to be deleted.                                               *)
ListCalls ==
  [at : {"load", "loaded", "post", "posted", "delete", "deleted"}, page : Nat,
   answer : Seq(Items), of : 0 .. MaxItems, item : Items \cup {Draft}, alone : BOOLEAN]

(* What the bounds are; and what stands for nothing is nothing else. *)
ASSUME FeedAssumption ==
  /\ MaxItems \in Nat /\ MaxPage \in Nat /\ PageSize \in Nat \ {0}
  /\ None \notin ListCalls

FeedTypeOK ==
  /\ wallet \in Wallets \cup {None}
  /\ request \in [Requests -> Presses \cup ListCalls \cup {None}]
  /\ liked \in BOOLEAN /\ likesOn \subseteq Wallets /\ sure \in BOOLEAN
  /\ box \in Boxes
  /\ server \in Seq(Items) /\ made \in 0 .. MaxItems /\ cache \in Seq(Items)
  /\ shown \in Seq(Items \cup {Draft}) /\ total \in Nat /\ page \in Nat
  /\ loading \in BOOLEAN /\ honest \in BOOLEAN /\ cut \in BOOLEAN
  /\ deleted \subseteq Items

NoHeart == liked = FALSE /\ likesOn = {} /\ sure = FALSE
NoList ==
  /\ box = "posts" /\ server = <<>> /\ made = 0 /\ cut = FALSE /\ deleted = {}
  /\ shown = <<>> /\ total = 0 /\ page = 1 /\ cache = <<>> /\ loading = FALSE /\ honest = FALSE

Free(r) == request[r] = None
Busy(r) == {o \in Requests \ {r} : ~Free(o)}
Turns(r, call) == request' = [request EXCEPT ![r] = call]
(* A request is sent: those under way are alone no more. *)
Send(r, call) ==
  request' = [o \in Requests |->
    IF o = r THEN call
    ELSE IF Free(o) THEN None ELSE [request[o] EXCEPT !.alone = FALSE]]

(***************************************************************************)
(* toggleLike: the heart turns at once, and turns back when the request or *)
(* the one for the count fails.                                            *)
(***************************************************************************)
HeartInit ==
  /\ wallet \in Wallets /\ request = [r \in Requests |-> None]
  /\ liked = FALSE /\ sure = FALSE
  /\ likesOn \in SUBSET Wallets

Press(r) ==
  /\ Free(r) /\ wallet # None
  /\ Send(r, [at |-> "toggle", by |-> wallet, was |-> liked, before |-> sure,
              alone |-> Busy(r) = {}])
  /\ liked' = ~liked /\ sure' = FALSE
  /\ UNCHANGED <<wallet, likesOn, listVars>>

TurnedBack_Slip(call) == liked
TurnedBack(call) == call.was
Toggle(r) ==
  /\ ~Free(r) /\ request[r].at = "toggle"
  /\ LET call == request[r]
         after == IF call.was THEN likesOn \ {call.by} ELSE likesOn \cup {call.by}
     IN  \/ /\ likesOn' = after
            /\ Turns(r, [call EXCEPT !.at = "count"])
            /\ UNCHANGED <<liked, sure>>
         \/ /\ likesOn' \in {likesOn, after}
            /\ Turns(r, None)
            /\ liked' = TurnedBack(call)
            /\ sure' = (call.alone /\ call.before /\ likesOn' = likesOn)
  /\ UNCHANGED <<wallet, listVars>>

Count(r) ==
  /\ ~Free(r) /\ request[r].at = "count"
  /\ \/ sure' = request[r].alone /\ UNCHANGED liked
     \/ sure' = FALSE /\ liked' = TurnedBack(request[r])
  /\ Turns(r, None)
  /\ UNCHANGED <<wallet, likesOn, listVars>>

(* The heart is not told that another wallet is connected. *)
SwitchWallet(w) ==
  /\ w # wallet /\ wallet' = w
  /\ sure' = FALSE
  /\ request' = [r \in Requests |-> IF Free(r) THEN None ELSE [request[r] EXCEPT !.alone = FALSE]]
  /\ UNCHANGED <<liked, likesOn, listVars>>

HeartNext ==
  \/ \E r \in Requests : Press(r) \/ Toggle(r) \/ Count(r)
  \/ \E w \in Wallets \cup {None} : SwitchWallet(w)

HeartSpec == HeartInit /\ [][HeartNext]_feedVars

(***************************************************************************)
(* The list of posts, the comments under one, the links of an agent.       *)
(* Comments come in pages, in the order they were made; the others all at  *)
(* once, and the page sorts them.                                          *)
(***************************************************************************)
AtOnce == box \in {"posts", "links of the agent"}
ListInit ==
  /\ wallet \in Wallets /\ request = [r \in Requests |-> None]
  /\ box \in Boxes
  /\ made \in Items \cup {0} /\ server = [i \in 1 .. made |-> i]
  /\ shown = <<>> /\ total = 0 /\ page = 1 /\ loading = FALSE
  /\ cache \in IF AtOnce THEN {SubSeq(server, 1, n) : n \in 0 .. made} ELSE {<<>>}
  /\ honest = FALSE /\ cut = FALSE /\ deleted = {}

OnServer == {server[i] : i \in DOMAIN server}
FeedPosts == server
AgentLinks == server
CommentsPage_Slip(p) ==
  SubSeq(server, p * PageSize + 1, Min({(p + 1) * PageSize, Len(server)}))
CommentsPage(p) ==
  SubSeq(server, (p - 1) * PageSize + 1, Min({p * PageSize, Len(server)}))
Answer(p) ==
  CASE box = "posts" -> FeedPosts [] box = "links of the agent" -> AgentLinks [] OTHER -> CommentsPage(p)
(* The others of a list, in their order. *)
Without(list, item) ==
  LET kept == {i \in DOMAIN list : list[i] # item}
      Nth(k) == CHOOSE i \in kept : Cardinality({j \in kept : j <= i}) = k
  IN  [k \in 1 .. Cardinality(kept) |-> list[Nth(k)]]
Less(n) == IF n = 0 THEN 0 ELSE n - 1
Call(at) ==
  [at |-> at, page |-> 1, answer |-> <<>>, of |-> 0, item |-> Draft, alone |-> TRUE]
LoadOf(r, p) == [Call("load") EXCEPT !.page = p, !.alone = (Busy(r) = {})]
At(r, step) == ~Free(r) /\ request[r].at = step
listKept == <<wallet, heartVars>>

(* What is cached is shown first, however old; cached links may all be of   *)
(* other agents.  A load of the first page begins a new account of what is  *)
(* deleted.                                                                 *)
StartLoad(r, first) ==
  /\ Send(r, LoadOf(r, 1))
  /\ shown' \in first
  /\ honest' = FALSE /\ cut' = FALSE /\ loading' = TRUE
  /\ UNCHANGED <<listKept, box, server, made, total, cache, deleted>>
LoadFeed(r) ==
  box = "posts" /\ StartLoad(r, IF cache = <<>> THEN {shown} ELSE {cache})
LoadLinks(r) ==
  box = "links of the agent" /\ StartLoad(r, IF cache = <<>> THEN {shown, <<>>} ELSE {cache})
LoadComments(r) == box = "comments of the feed" /\ StartLoad(r, {shown})
LoadPost(r) == box = "comments of the post" /\ StartLoad(r, {shown})

Open(r) ==
  /\ Free(r) /\ page' = 1
  /\ LoadFeed(r) \/ LoadLinks(r) \/ LoadComments(r) \/ LoadPost(r)

(* The feed counts the pages before it asks, and does not keep the button   *)
(* from being pressed again; the page of a post does.                       *)
LoadMore(r) ==
  /\ Free(r) /\ ~AtOnce /\ Len(shown) < total /\ page < MaxPage
  /\ box = "comments of the post" => ~loading
  /\ Send(r, LoadOf(r, page + 1))
  /\ loading' = TRUE
  /\ UNCHANGED <<listKept, box, server, made, shown, total, page, cache, honest, cut, deleted>>

ServeLoad(r) ==
  /\ At(r, "load")
  /\ Turns(r, [request[r] EXCEPT !.at = "loaded", !.of = Len(server),
                                  !.answer = Answer(request[r].page)])
  /\ UNCHANGED <<listKept, listVars>>

Loaded(r) ==
  /\ At(r, "loaded")
  /\ LET call == request[r]
         first == call.page = 1
     IN  /\ shown' = IF first THEN call.answer ELSE shown \o call.answer
         /\ honest' = (call.alone /\ (first \/ honest))
         /\ total' = call.of /\ page' = call.page
         /\ cache' = IF AtOnce THEN call.answer ELSE cache
  /\ loading' = FALSE /\ Turns(r, None)
  /\ UNCHANGED <<listKept, box, server, made, cut, deleted>>

LoadFails(r) ==
  /\ At(r, "load") /\ Turns(r, None) /\ loading' = FALSE
  /\ UNCHANGED <<listKept, box, server, made, shown, total, page, cache, honest, cut, deleted>>

(* A post and a link are waited for, one at a time; a comment is shown at   *)
(* once, by the feed below the others and by the page of a post above.  At  *)
(* most one is on its way.                                                  *)
Waits(r) ==
  /\ \A o \in Busy(r) : request[o].at \notin {"post", "posted"}
  /\ UNCHANGED <<shown, total>>
PostContent(r) == box = "posts" /\ Waits(r)
LinkSubscription(r) == box = "links of the agent" /\ Waits(r)
PostComment ==
  box = "comments of the feed" /\ shown' = Append(shown, Draft) /\ total' = total + 1
SubmitComment ==
  box = "comments of the post" /\ shown' = <<Draft>> \o shown /\ total' = total + 1
Submit(r) ==
  /\ Free(r) /\ Draft \notin {shown[i] : i \in DOMAIN shown}
  /\ PostContent(r) \/ LinkSubscription(r) \/ PostComment \/ SubmitComment
  /\ Send(r, Call("post")) /\ honest' = FALSE
  /\ UNCHANGED <<listKept, box, server, made, page, cache, loading, cut, deleted>>

(* It is refused, or carried out; the answer may be lost. *)
Posted(r) ==
  /\ At(r, "post")
  /\ LET carried == made < MaxItems /\ made' = made + 1 /\ server' = Append(server, made + 1)
         withdrawn ==
           /\ Turns(r, None)
           /\ shown' = Without(shown, Draft)
           /\ total' = IF AtOnce THEN total ELSE Less(total)
     IN  \/ /\ carried
            /\ Turns(r, [request[r] EXCEPT !.at = "posted"])
            /\ UNCHANGED <<shown, total>>
         \/ carried /\ withdrawn
         \/ withdrawn /\ UNCHANGED <<server, made>>
  /\ UNCHANGED <<listKept, box, page, cache, loading, honest, cut, deleted>>

(* Then the list is loaded again. *)
Reload(r) ==
  /\ At(r, "posted")
  /\ LoadFeed(r) \/ LoadLinks(r) \/ LoadComments(r) \/ LoadPost(r)
  /\ page' = IF box = "comments of the post" THEN page ELSE 1

(* The feed keeps the button from being pressed again. *)
PressDelete(r, i) ==
  /\ Free(r) /\ i \in {shown[n] : n \in DOMAIN shown} \ {Draft}
  /\ box \in {"posts", "comments of the feed"} => \A o \in Busy(r) : request[o].item # i
  /\ Send(r, [Call("delete") EXCEPT !.item = i])
  /\ UNCHANGED <<listKept, listVars>>

ServeDelete(r) ==
  /\ At(r, "delete")
  /\ LET i == request[r].item
         gone == server' = Without(server, i) /\ cut' = (cut \/ i \in OnServer)
     IN  \/ gone /\ Turns(r, [request[r] EXCEPT !.at = "deleted"])
         \/ gone /\ Turns(r, None)
         \/ Turns(r, None) /\ UNCHANGED <<server, cut>>
  /\ UNCHANGED <<listKept, box, made, shown, total, page, cache, loading, honest, deleted>>

RemovePost == box = "posts" /\ UNCHANGED total
RemoveComment == box = "comments of the feed" /\ total' = Less(total)
HandleDeleteComment == box = "comments of the post" /\ total' = Less(total)
Deleted(r) ==
  /\ At(r, "deleted")
  /\ RemovePost \/ RemoveComment \/ HandleDeleteComment
  /\ LET i == request[r].item
     IN  shown' = Without(shown, i) /\ deleted' = deleted \cup {i}
  /\ Turns(r, None)
  /\ UNCHANGED <<listKept, box, server, made, page, cache, loading, honest, cut>>
UnlinkSubscription(r) == At(r, "deleted") /\ LoadLinks(r) /\ page' = 1

(* Somebody else, on another page. *)
Elsewhere ==
  /\ \/ /\ made < MaxItems /\ made' = made + 1 /\ server' = Append(server, made + 1)
        /\ UNCHANGED cut
     \/ \E i \in OnServer : server' = Without(server, i) /\ cut' = TRUE /\ UNCHANGED made
  /\ UNCHANGED <<listKept, request, box, shown, total, page, cache, loading, honest, deleted>>

ListNext ==
  \/ \E r \in Requests :
       \/ Open(r) \/ LoadMore(r) \/ ServeLoad(r) \/ Loaded(r) \/ LoadFails(r)
       \/ Submit(r) \/ Posted(r) \/ Reload(r)
       \/ ServeDelete(r) \/ Deleted(r) \/ UnlinkSubscription(r)
       \/ \E i \in Items : PressDelete(r, i)
  \/ Elsewhere

ListSpec == ListInit /\ [][ListNext]_feedVars

(***************************************************************************)
(* Properties                                                              *)
(***************************************************************************)
(* Once a press that ran alone has been answered and counted, the heart is  *)
(* filled exactly when the server has the like; a press that was refused    *)
(* leaves it so.                                                            *)
HeartIsHonest == sure => (liked <=> wallet \in likesOn)

(* What a page shows, from a load that nothing overlapped: nothing twice,   *)
(* nothing that it was told is deleted, and, when nothing was deleted       *)
(* since, the first of what the server has, with none left out.             *)
ListIsHonest ==
  honest =>
    /\ IsInjective(shown)
    /\ \A i \in DOMAIN shown : shown[i] \notin deleted
    /\ cut \/ IsPrefix(shown, server)
=============================================================================
