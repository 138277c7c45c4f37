--------------------------- MODULE SocialService ---------------------------
(***************************************************************************)
(* A wallet's row in the table users, its profile in Tapestry, and what it *)
(* says and does there.                                                    *)
(*                                                                         *)
(*   backend/src/services/SocialService.ts  ensureProfile and the requests *)
(*                                          that begin with it             *)
(*   backend/src/routes.ts                  /users and /social             *)
(*   backend/src/social/SqlUserStore.ts     upsertUser: read, merge, write *)
(*   backend/src/tapestry/TapestryClient.ts, mock.ts                       *)
(*   backend/src/services/TapestryStreamService.ts  the profile of a       *)
(*                                          stream, owned by its wallet    *)
(*                                                                         *)
(* A request runs one await at a time beside the others.  Nothing holds a  *)
(* wallet's requests apart.  Any call to Tapestry may fail, and may have    *)
(* been carried out all the same.                                          *)
(***************************************************************************)
EXTENDS Naturals, FiniteSets, Web

CONSTANTS
  Names,       \* display names
  Username,    \* of a name: lower case, with hyphens
  OwnUsername, \* of a wallet: stream-<first letters>
  StreamId,    \* of a wallet: the profile of the stream it owns
  Slots,       \* requests served at a time
  MaxRequests  \* bound on the requests ever begun

Ids == {Username[n] : n \in Names}
         \cup {OwnUsername[w] : w \in Wallets} \cup {StreamId[w] : w \in Wallets}
Streams == {StreamId[w] : w \in Wallets}
Titles == Names \cup Ids \cup {None}

ASSUME SocialAssumption ==
  /\ DOMAIN Username = Names
  /\ DOMAIN OwnUsername = Wallets /\ DOMAIN StreamId = Wallets
  /\ None \notin Names \cup Ids \cup [owner : Wallets, name : Titles]
  /\ MaxRequests \in Nat

(* display_name and tapestry_profile_id of a row. *)
Rows == [name : Titles, profile : Ids \cup {None}]
NoRow == [name |-> None, profile |-> None]

(* act stands for posting, liking, commenting and following, for taking one *)
(* of these back, and for the lists of what one's own profile follows.      *)
Kinds == {"login", "get", "patch", "act"}
ProfileSteps == {"user", "details", "lookup", "create"}
UserSteps == {"read", "fetchDetails", "fetch"}

(* A request at its next await.  asked: the name in its body.  cached: the  *)
(* name in the row it read first.  put: what it gives upsertUser, and then  *)
(* the row to write; its profile is the one resolved.  then: what follows   *)
(* the write.  alone: no other request of the wallet ran beside it.         *)
Calls ==
  [kind : Kinds, wallet : Wallets, asked : Names \cup {None},
   at : ProfileSteps \cup UserSteps \cup {"merge", "write", "core", "act"},
   cached : Titles, put : Rows, then : {"user", "core", "act", "end"},
   alone : BOOLEAN]

VARIABLES
  users,     \* table users
  profiles,  \* Tapestry: the owner and the name of a profile
  described, \* the stream profiles that hold a content of type stream
  deeds,     \* posts, likes, comments and follows, by profile
  calls,
  begun,     \* how many
  saved,     \* auxiliary: the name a wallet gave itself, undisturbed
  troubled   \* auxiliary: see Trouble

socialVars == <<users, profiles, described, deeds, calls, begun, saved, troubled>>

Deeds == [wallet : Wallets, profile : Ids]

SocialTypeOK ==
  /\ users \in [Wallets -> Rows]
  /\ profiles \in [Ids -> [owner : Wallets, name : Titles \ {None}] \cup {None}]
  /\ described \subseteq Streams
  /\ deeds \subseteq Deeds
  /\ calls \in [Slots -> Calls \cup {None}]
  /\ begun \in 0 .. MaxRequests
  /\ saved \in [Wallets -> Names \cup {None}]
  /\ troubled \subseteq Wallets

SocialInit ==
  /\ users = [w \in Wallets |-> NoRow]
  /\ profiles = [p \in Ids |-> None]
  /\ described = {} /\ deeds = {} /\ troubled = {}
  /\ calls = [s \in Slots |-> None] /\ begun = 0
  /\ saved = [w \in Wallets |-> None]

Exists(p) == profiles[p] # None
OwnedBy(w) == {p \in Ids : Exists(p) /\ profiles[p].owner = w}
First(a, b) == IF a # None THEN a ELSE b
Others(s, w) == {o \in Slots \ {s} : calls[o] # None /\ calls[o].wallet = w}

(* findUserProfileByWallet takes a profile that holds no content of type    *)
(* stream, the first of the twenty it is given.                             *)
UserProfiles_Slip(w) == OwnedBy(w)
UserProfiles(w) == OwnedBy(w) \ described

(***************************************************************************)
(* What a request does next.                                               *)
(***************************************************************************)
Go(s, call) == calls' = [calls EXCEPT ![s] = call] /\ UNCHANGED begun
Leave(s) == calls' = [calls EXCEPT ![s] = None] /\ UNCHANGED begun

(* The rest of the request once ensureProfile has answered. *)
Rest(call) ==
  CASE call.kind = "login" -> IF call.asked = None THEN "end" ELSE "core"
    [] call.kind = "patch" -> "core"
    [] OTHER -> "act"
Resume(s, call, step) ==
  IF step = "end" THEN Leave(s) ELSE Go(s, [call EXCEPT !.at = step])
Upsert(call, name, profile, then) ==
  [call EXCEPT !.at = "merge", !.put = [name |-> name, profile |-> profile], !.then = then]

Begin(s, w, kind, asked) ==
  /\ calls[s] = None
  /\ begun < MaxRequests /\ begun' = begun + 1
  /\ LET bare == [kind |-> kind, wallet |-> w, asked |-> asked, at |-> "user",
                  cached |-> None, put |-> NoRow, then |-> "end",
                  alone |-> Others(s, w) = {}]
         call == CASE kind = "login" -> Upsert(bare, asked, None, "user")
                   [] kind \in {"get", "patch"} -> [bare EXCEPT !.at = "read"]
                   [] OTHER -> bare
     IN  calls' = [o \in Slots |->
           IF o = s THEN call
           ELSE IF o \in Others(s, w) THEN [calls[o] EXCEPT !.alone = FALSE] ELSE calls[o]]
  /\ UNCHANGED <<users, profiles, described, deeds, saved, troubled>>

(* POST /users/login, GET and PATCH /users/:wallet, and the routes under    *)
(* /social.                                                                 *)
Login(s, w, n) == Begin(s, w, "login", n)
GetUser(s, w) == Begin(s, w, "get", None)
PatchUser(s, w, n) == Begin(s, w, "patch", n)
Social(s, w, n) == Begin(s, w, "act", n)

(***************************************************************************)
(* upsertUser: what is not given keeps the value read; the whole row is    *)
(* written in another query.                                               *)
(***************************************************************************)
Merged_Slip(put, row) == [name |-> put.name, profile |-> First(put.profile, row.profile)]
Merged(put, row) ==
  [name |-> First(put.name, row.name), profile |-> First(put.profile, row.profile)]

Merge(s) ==
  /\ calls[s] # None /\ calls[s].at = "merge"
  /\ Go(s, [calls[s] EXCEPT !.at = "write", !.put = Merged(@, users[calls[s].wallet])])
  /\ UNCHANGED <<users, profiles, described, deeds, saved, troubled>>

(* saved: a request that names its wallet has nothing left to do after this, *)
(* or has everything left to do.                                            *)
Write(s) ==
  /\ calls[s] # None /\ calls[s].at = "write"
  /\ LET call == calls[s]
         w == call.wallet
         names == call.asked # None /\ (call.kind = "patch" \/ call.then = "user")
     IN  /\ users' = [users EXCEPT ![w] = call.put]
         /\ saved' = IF ~names THEN saved
                     ELSE [saved EXCEPT ![w] =
                       IF call.kind = "patch" /\ call.then = "end" /\ call.alone
                       THEN call.asked ELSE None]
         /\ Resume(s, call, call.then)
  /\ UNCHANGED <<profiles, described, deeds, troubled>>

(***************************************************************************)
(* ensureProfile.  trouble: what may give a wallet a second profile, or    *)
(* one that is not its own: a lookup that failed, two requests that found  *)
(* nothing and both create, a stream profile not described yet, and a name *)
(* whose profile another wallet, or a stream, has.                         *)
(***************************************************************************)
Trouble(wallets) == troubled' = troubled \cup wallets
Undescribed(w) == (OwnedBy(w) \cap Streams) \ described # {}
Creating(s, w) == \E o \in Others(s, w) : calls[o].at = "create"

ReadUser(s) ==
  /\ calls[s] # None /\ calls[s].at = "user"
  /\ LET call == calls[s]
         cached == users[call.wallet].profile
     IN  Go(s, [call EXCEPT !.put = [NoRow EXCEPT !.profile = cached],
                     !.at = IF cached = None THEN "lookup" ELSE "details"])
  /\ UNCHANGED <<users, profiles, described, deeds, saved, troubled>>

(* The cached profile is asked for; when the answer does not come, the      *)
(* wallet is looked up.                                                     *)
Unconfirmed_Slip(call) == [call EXCEPT !.at = "create"]
Unconfirmed(call) == [call EXCEPT !.at = "lookup"]
Details(s) ==
  /\ calls[s] # None /\ calls[s].at = "details"
  /\ \/ Exists(calls[s].put.profile) /\ Resume(s, calls[s], Rest(calls[s]))
     \/ Go(s, Unconfirmed(calls[s]))
  /\ UNCHANGED <<users, profiles, described, deeds, saved, troubled>>

Lookup(s) ==
  /\ calls[s] # None /\ calls[s].at = "lookup"
  /\ LET call == calls[s]
         w == call.wallet
     IN  \/ \E p \in UserProfiles(w) :
              /\ Go(s, Upsert(call, None, p, Rest(call)))
              /\ Trouble(IF Undescribed(w) THEN {w} ELSE {})
         \/ /\ UserProfiles(w) = {}
            /\ Go(s, [call EXCEPT !.at = "create"])
            /\ Trouble(IF Creating(s, w) THEN {w} ELSE {})
         \/ /\ Go(s, [call EXCEPT !.at = "create"])
            /\ Trouble({w})
  /\ UNCHANGED <<users, profiles, described, deeds, saved>>

(* createProfile finds or creates the profile with the username as its id,  *)
(* whoever owns it.  PATCH asks with the name of the row when it is given   *)
(* none.  A request whose profile cannot be had ends there.                 *)
NoProfile(s, call) == Leave(s)
UsernameOf(call) ==
  LET name == IF call.kind = "patch" THEN First(call.asked, call.cached) ELSE call.asked
  IN  IF name = None THEN OwnUsername[call.wallet]
      ELSE IF name \in Names THEN Username[name] ELSE name
Made(p, w) ==
  IF Exists(p) THEN profiles ELSE [profiles EXCEPT ![p] = [owner |-> w, name |-> p]]
Create(s) ==
  /\ calls[s] # None /\ calls[s].at = "create"
  /\ LET call == calls[s]
         w == call.wallet
         p == UsernameOf(call)
     IN  \/ /\ profiles' = Made(p, w)
            /\ Trouble((IF p \in Streams THEN {w} ELSE {}) \cup
                       (IF Exists(p) /\ profiles[p].owner # w THEN {w, profiles[p].owner} ELSE {}))
            /\ Go(s, Upsert(call, None, p, Rest(call)))
         \/ NoProfile(s, call) /\ profiles' \in {profiles, Made(p, w)} /\ UNCHANGED troubled
  /\ UNCHANGED <<users, described, deeds, saved>>

(***************************************************************************)
(* GET and PATCH /users/:wallet.                                           *)
(***************************************************************************)
ReadCached(s) ==
  /\ calls[s] # None /\ calls[s].at = "read"
  /\ LET call == calls[s]
         row == users[call.wallet]
         at == CASE row.profile = None -> "fetch"
                 [] row.profile # None /\ call.kind = "patch" -> "core"
                 [] OTHER -> "fetchDetails"
     IN  Go(s, [call EXCEPT !.at = at, !.cached = row.name,
                     !.put = [NoRow EXCEPT !.profile = row.profile]])
  /\ UNCHANGED <<users, profiles, described, deeds, saved, troubled>>

(* Which profile is the wallet's: p, or None when it was not to be had.     *)
Fetched(s, call, p) ==
  IF call.kind = "patch"
  THEN Go(s, IF p = None THEN [call EXCEPT !.at = "user"]
                ELSE [call EXCEPT !.at = "core", !.put = [NoRow EXCEPT !.profile = p]])
  ELSE IF p = None THEN Leave(s)
       ELSE Go(s, Upsert(call, First(call.cached, profiles[p].name), p, "end"))

FetchDetails(s) ==
  /\ calls[s] # None /\ calls[s].at = "fetchDetails"
  /\ LET p == calls[s].put.profile
     IN  \/ Exists(p) /\ p \notin described /\ Fetched(s, calls[s], p)
         \/ Go(s, [calls[s] EXCEPT !.at = "fetch"])
  /\ UNCHANGED <<users, profiles, described, deeds, saved, troubled>>

Fetch(s) ==
  /\ calls[s] # None /\ calls[s].at = "fetch"
  /\ LET w == calls[s].wallet
     IN  /\ \/ \E p \in UserProfiles(w) : Fetched(s, calls[s], p)
            \/ Fetched(s, calls[s], None)
         /\ Trouble(IF Undescribed(w) THEN {w} ELSE {})
  /\ UNCHANGED <<users, profiles, described, deeds, saved>>

(* updateProfileCore: of login, the last thing; of PATCH, before the row.   *)
Core(s) ==
  /\ calls[s] # None /\ calls[s].at = "core"
  /\ LET call == calls[s]
         w == call.wallet
         p == call.put.profile
         login == call.kind = "login"
         renamed == IF call.asked = None THEN profiles
                    ELSE [profiles EXCEPT ![p].name = call.asked]
     IN  \/ /\ profiles' = renamed
            /\ IF login THEN Leave(s)
               ELSE Go(s, Upsert(call, First(call.asked, call.cached), p, "end"))
            /\ saved' = IF call.asked = None THEN saved
                        ELSE [saved EXCEPT ![w] = IF login /\ call.alone THEN call.asked ELSE None]
         \/ /\ Leave(s)
            /\ profiles' \in {profiles, renamed}
            /\ saved' = IF call.asked = None THEN saved ELSE [saved EXCEPT ![w] = None]
  /\ UNCHANGED <<users, described, deeds, troubled>>

(* createIntent, createSlashReport, addComment, like, follow: a call that    *)
(* fails may have been carried out; one that meets 404 is made once more.   *)
Says(deed) == deeds' \in {deeds, deeds \cup {deed}}
(* deletePost, deleteComment, unlike: the author of what is taken back is   *)
(* compared with the profile, and a like is removed by it.                  *)
TakesBack(deed) ==
  \E d \in {d \in deeds : d.profile = deed.profile} : deeds' \in {deeds, deeds \ {d}}
(* listFollowingPosts, listFollowingIds, getFollowCountsByWallet *)
Lists == UNCHANGED deeds

Act(s) ==
  /\ calls[s] # None /\ calls[s].at = "act"
  /\ LET deed == [wallet |-> calls[s].wallet, profile |-> calls[s].put.profile]
     IN  Says(deed) \/ TakesBack(deed) \/ Lists
  /\ Leave(s)
  /\ UNCHANGED <<users, profiles, described, saved, troubled>>

(* A stream's profile is made first and described in another call.          *)
MakeStream(w) ==
  /\ ~Exists(StreamId[w])
  /\ profiles' = [profiles EXCEPT ![StreamId[w]] = [owner |-> w, name |-> StreamId[w]]]
  /\ UNCHANGED <<users, described, deeds, calls, begun, saved, troubled>>
DescribeStream(w) ==
  /\ Exists(StreamId[w]) /\ described' = described \cup {StreamId[w]}
  /\ UNCHANGED <<users, profiles, deeds, calls, begun, saved, troubled>>

SocialNext ==
  \/ \E s \in Slots :
       \/ \E w \in Wallets :
            \/ \E n \in Names \cup {None} : Login(s, w, n) \/ PatchUser(s, w, n) \/ Social(s, w, n)
            \/ GetUser(s, w)
       \/ Merge(s) \/ Write(s)
       \/ ReadUser(s) \/ Details(s) \/ Lookup(s) \/ Create(s)
       \/ ReadCached(s) \/ FetchDetails(s) \/ Fetch(s) \/ Core(s) \/ Act(s)
  \/ \E w \in Wallets : MakeStream(w) \/ DescribeStream(w)

SocialSpec == SocialInit /\ [][SocialNext]_socialVars

(***************************************************************************)
(* Properties                                                              *)
(***************************************************************************)
(* ensureProfile gives a wallet one profile, whatever happens to its row:   *)
(* two requests that write it at once, one that reads it before and writes  *)
(* it after another, a cached profile that cannot be confirmed.             *)
OneProfile ==
  \A w \in Wallets \ troubled : Cardinality(OwnedBy(w) \ Streams) <= 1

(* A wallet stays the author of what it posted: the profile a request acts  *)
(* for, as it acts, is that of everything the wallet did before.  So its    *)
(* posts may be deleted and its likes taken back, and nobody else's are.    *)
OneVoice ==
  \A s \in Slots : calls[s] # None /\ calls[s].at = "act" =>
    LET call == calls[s]
    IN  call.wallet \notin troubled =>
          /\ \A d \in deeds : d.wallet = call.wallet => d.profile = call.put.profile
          /\ profiles[call.put.profile].owner = call.wallet

(* The name a wallet gave itself, in a request that ran alone and whose     *)
(* calls all succeeded, is the name in the table and in Tapestry until it   *)
(* gives itself another, whatever is read, posted and merged in between.    *)
NameIsSaved ==
  \A w \in Wallets \ troubled : saved[w] # None =>
    /\ users[w].name = saved[w]
    /\ users[w].profile # None => profiles[users[w].profile].name = saved[w]
=============================================================================
