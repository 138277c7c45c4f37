-------------------------- MODULE StreamDiscovery --------------------------
(***************************************************************************)
(* How a stream becomes visible: the maker registers it on chain, POST     *)
(* /streams copies its description into Tapestry, call by call, and a      *)
(* reader puts the copy together again and holds it against the chain.     *)
(*                                                                         *)
(*   backend/src/routes.ts POST /streams                                   *)
(*   backend/src/services/TapestryStreamService.ts                         *)
(*   backend/src/services/DiscoveryService.ts                              *)
(*   backend/src/services/StreamRegistryClient.ts                          *)
(*                                                                         *)
(* A stream's profile and contents have ids made from the slug of its id.  *)
(* Tapestry finds or creates a content by its id and leaves a found one as *)
(* it was; nothing in the program deletes a stream's contents.  A          *)
(* tiers_hash stands for the list of tiers it was computed from.           *)
(***************************************************************************)
EXTENDS StreamRegistry, FiniteSets, FiniteSetsExt

CONSTANTS
  Slugs, SlugOf,  \* slugify, which is not injective
  Offers,         \* what a tier or a stream may cost
  FreeOffers,     \* the offers whose price parses to 0
  NoOffer,        \* the tier is not in the list
  Posters,        \* POST /streams requests
  Readers,        \* requests that look streams up
  AllStreams,     \* the lookup of GET /streams
  SearchPage,     \* pageSize of searchStreamById
  ListPage,       \* pageSize of listFollowing
  MaxSignals,     \* bound on the newer contents of a stream that are counted
  NoContent, Nothing

TierLists ==
  {l \in [Tiers -> Offers \cup {NoOffer}] : \E t \in Tiers : l[t] # NoOffer}

ASSUME DiscoveryAssumption ==
  /\ SlugOf \in [Streams -> Slugs]
  /\ FreeOffers \subseteq Offers
  /\ NoOffer \notin Offers
  /\ TierLists \subseteq TiersHashes
  /\ AllStreams \notin Streams
  /\ SearchPage \in Nat /\ ListPage \in Nat /\ MaxSignals \in Nat

Metas == [stream : Streams, ownerWallet : Makers, price : Offers]
TierContents == [stream : Streams, offer : Offers]
Profiles ==
  [stream : Streams, ownerWallet : Makers, price : Offers,
   tiers : [Tiers -> Offers \cup {NoOffer}]]
Listings ==
  [stream : Streams, ownerWallet : Makers, price : Offers,
   tiers : TiersHashes, visibility : Visibilities]

(* todo: the tiers still to write, tier: the one being written.  alone: no  *)
(* other request has written under the same slug since this one began.      *)
(* follows: the registry's profile took to following the stream's.          *)
PostPhases == {"createMeta", "updateMeta", "nextTier", "updateTier", "done"}
Posts ==
  [phase : PostPhases, stream : Streams, ownerWallet : Makers, price : Offers,
   tiers : TierLists, todo : SUBSET Tiers, tier : Tiers \cup {Nothing},
   alone : BOOLEAN, follows : BOOLEAN]

(* want: the id asked for.  metas: profiles whose description is still to  *)
(* read; got: descriptions read whose tiers are still to read.             *)
Lookups ==
  [phase : {"search", "list", "fetchFound", "fetchListed"},
   want : Streams \cup {AllStreams}, metas : SUBSET Slugs,
   got : [Slugs -> Metas \cup {NoContent}], profiles : SUBSET Profiles]

ASSUME NothingAssumption ==
  /\ NoContent \notin Metas \cup TierContents
  /\ Nothing \notin Posts \cup Lookups

VARIABLES
  meta,         \* the content stream-<slug>-meta
  tierContent,  \* the contents stream-<slug>-tier-<tier>
  followed,     \* the profiles the registry profile follows
  signals,      \* newer contents that carry the stream's id
  posting,      \* POST /streams requests under way
  reading,      \* lookups under way
  answer        \* what a reader was last answered with

graphVars == <<meta, tierContent, followed, signals>>
vars == <<registryVars, graphVars, posting, reading, answer>>

TypeOK ==
  /\ RegistryTypeOK
  /\ meta \in [Slugs -> Metas \cup {NoContent}]
  /\ tierContent \in [Slugs -> [Tiers -> TierContents \cup {NoContent}]]
  /\ followed \in SUBSET Slugs
  /\ signals \in [Streams -> 0 .. MaxSignals]
  /\ posting \in [Posters -> Posts \cup {Nothing}]
  /\ reading \in [Readers -> Lookups \cup {Nothing}]
  /\ answer \in [Readers -> SUBSET Listings]

Init ==
  /\ RegistryInit
  /\ meta = [g \in Slugs |-> NoContent]
  /\ tierContent = [g \in Slugs |-> [t \in Tiers |-> NoContent]]
  /\ followed = {}
  /\ signals = [s \in Streams |-> 0]
  /\ posting = [p \in Posters |-> Nothing]
  /\ reading = [r \in Readers |-> Nothing]
  /\ answer = [r \in Readers |-> {}]

(***************************************************************************)
(* Posting.  As in SubscriptionRoyalty, a name ending in _Slip is the       *)
(* mistake the definition after it must not make.                           *)
(***************************************************************************)
Listed(tiers) == {t \in Tiers : tiers[t] # NoOffer}

(* Only the stream's own price is looked at. *)
FreeIfPublic_Slip(s, price, tiers) ==
  streamConfig[s].visibility = "public" => price \in FreeOffers

FreeIfPublic(s, price, tiers) ==
  streamConfig[s].visibility = "public" =>
    /\ price \in FreeOffers
    /\ \A t \in Listed(tiers) : tiers[t] \in FreeOffers

OwnedBy(s, wallet) == streamConfig[s].authority = wallet

(* The checks of POST /streams, all on one read of the chain. *)
BeginPost(p, s, wallet, price, tiers) ==
  /\ posting[p] = Nothing
  /\ StreamActive(s)
  /\ FreeIfPublic(s, price, tiers)
  /\ OwnedBy(s, wallet)
  /\ streamConfig[s].tiersHash = tiers
  /\ posting' = [posting EXCEPT ![p] =
       [phase |-> "createMeta", stream |-> s, ownerWallet |-> wallet,
        price |-> price, tiers |-> tiers, todo |-> Listed(tiers),
        tier |-> Nothing, alone |-> TRUE, follows |-> FALSE]]
  /\ UNCHANGED <<registryVars, graphVars, reading, answer>>

SlugAt(p) == SlugOf[posting[p].stream]

At(p, phase) == posting[p] # Nothing /\ posting[p].phase = phase

(* p moves on, and every other request on its slug is not alone any more.  *)
Advance(p, next) ==
  posting' = [q \in Posters |->
    IF q = p THEN next
    ELSE IF posting[q] # Nothing /\ SlugAt(q) = SlugAt(p)
         THEN [posting[q] EXCEPT !.alone = FALSE]
         ELSE posting[q]]

MetaOf(p) ==
  [stream |-> posting[p].stream, ownerWallet |-> posting[p].ownerWallet,
   price |-> posting[p].price]

TierOf(p, t) ==
  [stream |-> posting[p].stream, offer |-> posting[p].tiers[t]]

(* createContent finds or creates. *)
FindOrCreate(found, new) == IF found = NoContent THEN new ELSE found

CreateMeta(p) ==
  /\ At(p, "createMeta")
  /\ meta' = [meta EXCEPT ![SlugAt(p)] = FindOrCreate(@, MetaOf(p))]
  /\ Advance(p, [posting[p] EXCEPT !.phase = "updateMeta"])
  /\ UNCHANGED <<registryVars, tierContent, followed, signals, reading, answer>>

UpdateMeta(p) ==
  /\ At(p, "updateMeta")
  /\ meta' = [meta EXCEPT ![SlugAt(p)] = MetaOf(p)]
  /\ Advance(p, [posting[p] EXCEPT !.phase = "nextTier"])
  /\ UNCHANGED <<registryVars, tierContent, followed, signals, reading, answer>>

CreateTier(p, t) ==
  /\ At(p, "nextTier")
  /\ t \in posting[p].todo
  /\ tierContent' = [tierContent EXCEPT ![SlugAt(p)] =
       [@ EXCEPT ![t] = FindOrCreate(tierContent[SlugAt(p)][t], TierOf(p, t))]]
  /\ Advance(p, [posting[p] EXCEPT !.phase = "updateTier", !.tier = t])
  /\ UNCHANGED <<registryVars, meta, followed, signals, reading, answer>>

(* The update after createContent is taken to be superfluous. *)
UpdateTier_Slip(p) ==
  /\ At(p, "updateTier")
  /\ Advance(p, [posting[p] EXCEPT !.phase = "nextTier", !.tier = Nothing,
                   !.todo = posting[p].todo \ {posting[p].tier}])
  /\ UNCHANGED <<registryVars, graphVars, reading, answer>>

UpdateTier(p) ==
  /\ At(p, "updateTier")
  /\ LET t == posting[p].tier
     IN  /\ tierContent' = [tierContent EXCEPT ![SlugAt(p)] =
              [@ EXCEPT ![t] = TierOf(p, t)]]
         /\ Advance(p, [posting[p] EXCEPT !.phase = "nextTier",
                          !.tier = Nothing, !.todo = posting[p].todo \ {t}])
  /\ UNCHANGED <<registryVars, meta, followed, signals, reading, answer>>

(* The registry profile follows the stream's.  A failure to is ignored, and *)
(* without a registry profile there is nothing to do: the request answers   *)
(* 200 all the same.                                                        *)
FinishPost(p) ==
  /\ At(p, "nextTier")
  /\ posting[p].todo = {}
  /\ \E follows \in BOOLEAN :
       /\ followed' = IF follows THEN followed \cup {SlugAt(p)} ELSE followed
       /\ posting' = [posting EXCEPT ![p] =
            [posting[p] EXCEPT !.phase = "done", !.follows = follows]]
  /\ UNCHANGED <<registryVars, meta, tierContent, signals, reading, answer>>

(* Any other call to Tapestry that throws ends the request with a 500 and  *)
(* leaves what the earlier calls wrote.  A finished request is forgotten.  *)
EndPost(p) ==
  /\ posting[p] # Nothing
  /\ posting' = [posting EXCEPT ![p] = Nothing]
  /\ UNCHANGED <<registryVars, graphVars, reading, answer>>

(* TapestryPublisher: a signal's post carries its stream's id, by which the  *)
(* search finds it.  Its text plays no role here; see social in             *)
(* SignalDelivery.                                                          *)
PostSignal(s) ==
  /\ meta[SlugOf[s]] # NoContent
  /\ signals[s] < MaxSignals
  /\ signals' = [signals EXCEPT ![s] = @ + 1]
  /\ UNCHANGED <<registryVars, meta, tierContent, followed, posting, reading,
                 answer>>

(***************************************************************************)
(* Looking up.                                                             *)
(***************************************************************************)
(* The contents newer than the description that also match the search.    *)
NewerContents(s) ==
  signals[s] + Cardinality({t \in Tiers :
    /\ tierContent[SlugOf[s]][t] # NoContent
    /\ tierContent[SlugOf[s]][t].stream = s})

SearchFinds(s) ==
  /\ meta[SlugOf[s]] # NoContent
  /\ meta[SlugOf[s]].stream = s
  /\ NewerContents(s) < SearchPage

StoredTiers(g) ==
  [t \in Tiers |-> IF tierContent[g][t] = NoContent THEN NoOffer
                   ELSE tierContent[g][t].offer]

ProfileOf(m, g) ==
  [stream |-> m.stream, ownerWallet |-> m.ownerWallet, price |-> m.price,
   tiers |-> StoredTiers(g)]

BeginLookup(r, want) ==
  /\ reading[r] = Nothing
  /\ reading' = [reading EXCEPT ![r] =
       [phase |-> IF want = AllStreams THEN "list" ELSE "search",
        want |-> want, metas |-> {}, got |-> [g \in Slugs |-> NoContent],
        profiles |-> {}]]
  /\ UNCHANGED <<registryVars, graphVars, posting, answer>>

In(r, phase) == reading[r] # Nothing /\ reading[r].phase = phase

Fetching(r) == In(r, "fetchFound") \/ In(r, "fetchListed")

Search(r) ==
  /\ In(r, "search")
  /\ LET s == reading[r].want
     IN  reading' = [reading EXCEPT ![r] =
           IF SearchFinds(s)
           THEN [reading[r] EXCEPT !.phase = "fetchFound", !.metas = {SlugOf[s]}]
           ELSE [reading[r] EXCEPT !.phase = "list"]]
  /\ UNCHANGED <<registryVars, graphVars, posting, answer>>

(* One page of the followed profiles, in an order that is Tapestry's; none *)
(* without a registry profile.                                             *)
ListFollowed(r) ==
  /\ In(r, "list")
  /\ \E page \in SUBSET followed :
       /\ Cardinality(page) <= ListPage
       /\ page = {} \/ Cardinality(page) = ListPage \/ page = followed
       /\ reading' = [reading EXCEPT ![r] =
            [reading[r] EXCEPT !.phase = "fetchListed", !.metas = page]]
  /\ UNCHANGED <<registryVars, graphVars, posting, answer>>

ReadMeta(r, g) ==
  /\ Fetching(r)
  /\ g \in reading[r].metas
  /\ reading' = [reading EXCEPT ![r] =
       [reading[r] EXCEPT !.metas = reading[r].metas \ {g},
          !.got = [reading[r].got EXCEPT ![g] = meta[g]]]]
  /\ UNCHANGED <<registryVars, graphVars, posting, answer>>

ReadTiers(r, g) ==
  /\ Fetching(r)
  /\ reading[r].got[g] # NoContent
  /\ reading' = [reading EXCEPT ![r] =
       [reading[r] EXCEPT !.got = [reading[r].got EXCEPT ![g] = NoContent],
          !.profiles = reading[r].profiles
             \cup {ProfileOf(reading[r].got[g], g)}]]
  /\ UNCHANGED <<registryVars, graphVars, posting, answer>>

(* The hash of the tiers is not compared. *)
Accepted_Slip(profile) == StreamActive(profile.stream)

(* DiscoveryService.attachOnchain: drop, or complete from the chain. *)
Accepted(profile) ==
  /\ StreamActive(profile.stream)
  /\ streamConfig[profile.stream].tiersHash = profile.tiers

Listing(profile) ==
  [stream |-> profile.stream, ownerWallet |-> profile.ownerWallet,
   price |-> profile.price, tiers |-> profile.tiers,
   visibility |-> streamConfig[profile.stream].visibility]

(* The list is not searched for the id. *)
Wanted_Slip(r) == reading[r].profiles

(* What was found by search is not compared with the id asked for. *)
Wanted(r) ==
  IF In(r, "fetchFound") \/ reading[r].want = AllStreams THEN reading[r].profiles
  ELSE {p \in reading[r].profiles : p.stream = reading[r].want}

Answer(r) ==
  /\ Fetching(r)
  /\ reading[r].metas = {}
  /\ \A g \in Slugs : reading[r].got[g] = NoContent
  /\ answer' = [answer EXCEPT ![r] =
       {Listing(p) : p \in {q \in Wanted(r) : Accepted(q)}}]
  /\ reading' = [reading EXCEPT ![r] = Nothing]
  /\ UNCHANGED <<registryVars, graphVars, posting>>

(* One call that fails fails the lookup: the fetches are joined by          *)
(* Promise.all.                                                             *)
FailLookup(r) ==
  /\ reading[r] # Nothing
  /\ reading' = [reading EXCEPT ![r] = Nothing]
  /\ UNCHANGED <<registryVars, graphVars, posting, answer>>

(***************************************************************************)
(* The registry, as far as discovery reads it, and the whole.              *)
(***************************************************************************)
RegistryStep ==
  /\ \E m \in Makers, s \in Streams, hash \in TiersHashes :
       \/ \E dao \in Treasuries, v \in Visibilities :
            CreateStream(m, s, hash, dao, v)
       \/ \E status \in StreamStatuses : UpdateStream(m, s, hash, status)
       \/ SetTiers(m, s, hash)
  /\ UNCHANGED <<graphVars, posting, reading, answer>>

PosterStep(p) ==
  \/ \E s \in Streams, wallet \in Makers, price \in Offers, tiers \in TierLists :
       BeginPost(p, s, wallet, price, tiers)
  \/ CreateMeta(p)
  \/ UpdateMeta(p)
  \/ \E t \in Tiers : CreateTier(p, t)
  \/ UpdateTier(p)
  \/ FinishPost(p)
  \/ EndPost(p)

ReaderStep(r) ==
  \/ \E want \in Streams \cup {AllStreams} : BeginLookup(r, want)
  \/ Search(r)
  \/ ListFollowed(r)
  \/ \E g \in Slugs : ReadMeta(r, g) \/ ReadTiers(r, g)
  \/ Answer(r)
  \/ FailLookup(r)

Next ==
  \/ RegistryStep
  \/ \E p \in Posters : PosterStep(p)
  \/ \E r \in Readers : ReaderStep(r)
  \/ \E s \in Streams : PostSignal(s)

Spec == Init /\ [][Next]_vars

(***************************************************************************)
(* Properties.                                                             *)
(***************************************************************************)
(* A stream whose chain visibility is public is only ever shown with free  *)
(* prices: its own, and those of every tier.  POST /streams checks the     *)
(* tiers it is given, what is shown is put together from many requests,    *)
(* and the tiers the chain vouches for are whatever the maker set.         *)
PublicIsFree ==
  \A r \in Readers : \A l \in answer[r] :
    l.visibility = "public" =>
      /\ l.price \in FreeOffers
      /\ \A t \in Listed(l.tiers) : l.tiers[t] \in FreeOffers

Confirmed(p) ==
  /\ At(p, "done")
  /\ posting[p].alone
  /\ StreamActive(posting[p].stream)
  /\ streamConfig[posting[p].stream].tiersHash = posting[p].tiers

NoTierLeftOver(p) ==
  \A t \in Tiers :
    tierContent[SlugAt(p)][t] # NoContent => t \in Listed(posting[p].tiers)

(* What is stored under the slug is what was posted, and passes the chain.  *)
Described(p) ==
  /\ meta[SlugAt(p)] = MetaOf(p)
  /\ Accepted(ProfileOf(meta[SlugAt(p)], SlugAt(p)))

(* The two ways to it: GET /streams/:id, which searches first, and the list *)
(* of GET /streams, which follows the registry's profile.                   *)
FoundById(p) == Described(p) /\ SearchFinds(posting[p].stream)
OnList(p) == Described(p) /\ SlugAt(p) \in followed

(* A request by which no other wrote under the same slug has, when it       *)
(* answers, made its stream visible, as long as the chain still says what   *)
(* the request was checked against and no tier is stored that it left out:  *)
(* whatever failed or half-finished requests came before it.  Visible by    *)
(* its id while the description is on the search page, and on the list if   *)
(* the follow went through; when it did not, nothing tells the maker.       *)
PostedIsVisible ==
  \A p \in Posters : Confirmed(p) /\ NoTierLeftOver(p) =>
    /\ NewerContents(posting[p].stream) < SearchPage => FoundById(p)
    /\ posting[p].follows => OnList(p)

(* documents/E2E_Website_Flow.md: once a maker has created the stream and   *)
(* the backend has its metadata, "Stream appears in discovery grid".  Here  *)
(* of requests whose follow went through.                                   *)
StreamAppears ==
  \A p \in Posters : Confirmed(p) /\ posting[p].follows => OnList(p)

(* GET /streams/:id answers with the stream it was asked for, or with none. *)
AnswersWhatWasAsked ==
  [][\A r \in Readers :
       answer'[r] # answer[r] /\ reading[r].want # AllStreams =>
         \A l \in answer'[r] : l.stream = reading[r].want]_vars

(* Discovery shows only what the chain holds: torn reads, half-written and  *)
(* stale descriptions, streams that share a slug never show through.        *)
Registered(s) ==
  IF streamConfig[s] = NoAccount THEN NoAccount
  ELSE [authority |-> streamConfig[s].authority,
        visibility |-> streamConfig[s].visibility,
        tiersHash |-> streamConfig[s].tiersHash,
        active |-> streamConfig[s].status = "Active"]

Shown(r) ==
  {[stream |-> l.stream, ownerWallet |-> l.ownerWallet,
    visibility |-> l.visibility, tiers |-> l.tiers] : l \in answer[r]}

Directory ==
  INSTANCE StreamDirectory WITH
    registered <- [s \in Streams |-> Registered(s)],
    shown <- [r \in Readers |-> Shown(r)]

ASSUME DirectoryAssumption == NoAccount \notin Directory!Registrations

ImplementsDirectory == Directory!Spec
=============================================================================
