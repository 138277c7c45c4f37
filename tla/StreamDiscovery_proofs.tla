----------------------- MODULE StreamDiscovery_proofs -----------------------
(* Theorems about StreamDiscovery, for every value of its constants. *)
EXTENDS StreamDiscovery, TLAPS

(* The steps, one disjunct per way the state can change. *)
LEMMA NextCases ==
  ASSUME Next
  PROVE  \/ RegistryStep
         \/ \E p \in Posters : PosterStep(p)
         \/ \E r \in Readers : ReaderStep(r)
         \/ \E s \in Streams : PostSignal(s)
BY DEF Next

(* A request writes only tiers that are in its list. *)
WritesListed ==
  \A p \in Posters : posting[p] # Nothing =>
    /\ posting[p].todo \subseteq Listed(posting[p].tiers)
    /\ posting[p].phase = "updateTier" =>
         posting[p].tier \in Listed(posting[p].tiers)

(* The wallet named as a stream's owner is the one that registered it, in   *)
(* everything that is stored, under way or read.                            *)
Vouched(x) == StreamExists(x.stream) /\ OwnedBy(x.stream, x.ownerWallet)

OwnersVouched ==
  /\ \A g \in Slugs : meta[g] # NoContent => Vouched(meta[g])
  /\ \A p \in Posters : posting[p] # Nothing => Vouched(posting[p])
  /\ \A r \in Readers : reading[r] # Nothing =>
       /\ \A g \in Slugs :
            reading[r].got[g] # NoContent => Vouched(reading[r].got[g])
       /\ \A profile \in reading[r].profiles : Vouched(profile)

(* Only a lookup for one stream searches. *)
SearchesOne ==
  \A r \in Readers : In(r, "search") => reading[r].want \in Streams

DirectoryInv == TypeOK /\ WritesListed /\ SearchesOne /\ OwnersVouched

-----------------------------------------------------------------------------
(* Type correctness. *)

LEMMA RegistryType ==
  ASSUME TypeOK, RegistryStep
  PROVE  TypeOK'
<1> SUFFICES ASSUME NEW m \in Makers, NEW s \in Streams, NEW hash \in TiersHashes,
                    \/ \E dao \in Treasuries, v \in Visibilities :
                         CreateStream(m, s, hash, dao, v)
                    \/ \E status \in StreamStatuses : UpdateStream(m, s, hash, status)
                    \/ SetTiers(m, s, hash),
                    UNCHANGED <<graphVars, posting, reading, answer>>
             PROVE  TypeOK'
  BY DEF RegistryStep
<1> USE DEF TypeOK, RegistryTypeOK, graphVars
<1>1. ASSUME NEW dao \in Treasuries, NEW v \in Visibilities,
             CreateStream(m, s, hash, dao, v)
      PROVE  TypeOK'
  <2>1. [authority |-> m, dao |-> dao, tiersHash |-> hash, visibility |-> v,
         status |-> "Active"] \in StreamConfigs
    BY DEF StreamConfigs, StreamStatuses
  <2> QED
    BY <1>1, <2>1 DEF CreateStream
<1>2. ASSUME NEW status \in StreamStatuses, UpdateStream(m, s, hash, status)
      PROVE  TypeOK'
  <2>1. streamConfig[s] \in StreamConfigs
    BY <1>2 DEF UpdateStream, SignedByAuthority, StreamExists
  <2>2. [streamConfig[s] EXCEPT !.tiersHash = hash, !.status = status] \in StreamConfigs
    BY <2>1 DEF StreamConfigs
  <2>3. streamConfig' = [streamConfig EXCEPT ![s] =
          [streamConfig[s] EXCEPT !.tiersHash = hash, !.status = status]]
    BY <1>2 DEF UpdateStream
  <2> QED
    BY <1>2, <2>2, <2>3 DEF UpdateStream
<1>3. CASE SetTiers(m, s, hash)
  <2>1. streamConfig[s] \in StreamConfigs
    BY <1>3 DEF SetTiers, SignedByAuthority, StreamExists
  <2>2. [streamConfig[s] EXCEPT !.tiersHash = hash] \in StreamConfigs
    BY <2>1 DEF StreamConfigs
  <2>3. streamConfig' = [streamConfig EXCEPT ![s] =
          [streamConfig[s] EXCEPT !.tiersHash = hash]]
    BY <1>3 DEF SetTiers
  <2> QED
    BY <1>3, <2>2, <2>3 DEF SetTiers
<1> QED
  BY <1>1, <1>2, <1>3

LEMMA AdvanceType ==
  ASSUME posting \in [Posters -> Posts \cup {Nothing}],
         NEW p \in Posters, NEW next \in Posts, Advance(p, next)
  PROVE  posting' \in [Posters -> Posts \cup {Nothing}]
<1> SUFFICES ASSUME NEW q \in Posters
             PROVE  (IF q = p THEN next
                     ELSE IF posting[q] # Nothing /\ SlugAt(q) = SlugAt(p)
                          THEN [posting[q] EXCEPT !.alone = FALSE]
                          ELSE posting[q]) \in Posts \cup {Nothing}
  BY DEF Advance
<1>1. ASSUME posting[q] # Nothing
      PROVE  [posting[q] EXCEPT !.alone = FALSE] \in Posts
  BY <1>1 DEF Posts
<1> QED
  BY <1>1

(* What a step of a request writes for itself. *)
LEMMA PostMoves ==
  ASSUME NEW post \in Posts
  PROVE  /\ [post EXCEPT !.phase = "updateMeta"] \in Posts
         /\ [post EXCEPT !.phase = "nextTier"] \in Posts
         /\ \A follows \in BOOLEAN :
              [post EXCEPT !.phase = "done", !.follows = follows] \in Posts
         /\ \A t \in Tiers : [post EXCEPT !.phase = "updateTier", !.tier = t] \in Posts
         /\ \A todo \in SUBSET Tiers :
              [post EXCEPT !.phase = "nextTier", !.tier = Nothing, !.todo = todo] \in Posts
BY DEF Posts, PostPhases

LEMMA TierWrite ==
  ASSUME TypeOK, NEW p \in Posters, posting[p] # Nothing,
         NEW t \in Tiers, posting[p].tiers[t] # NoOffer
  PROVE  /\ SlugAt(p) \in Slugs
         /\ TierOf(p, t) \in TierContents
         /\ MetaOf(p) \in Metas
<1>1. posting[p] \in Posts
  BY DEF TypeOK
<1>2. /\ posting[p].stream \in Streams
      /\ posting[p].ownerWallet \in Makers
      /\ posting[p].price \in Offers
      /\ posting[p].tiers \in [Tiers -> Offers \cup {NoOffer}]
  BY <1>1 DEF Posts, TierLists
<1> QED
  BY <1>2, DiscoveryAssumption DEF SlugAt, TierOf, MetaOf, TierContents, Metas

LEMMA PosterType ==
  ASSUME TypeOK, WritesListed, NEW p \in Posters, PosterStep(p)
  PROVE  TypeOK'
<1> USE DEF TypeOK, graphVars
<1>1. ASSUME NEW s \in Streams, NEW wallet \in Makers, NEW price \in Offers,
             NEW tiers \in TierLists, BeginPost(p, s, wallet, price, tiers)
      PROVE  TypeOK'
  <2>1. [phase |-> "createMeta", stream |-> s, ownerWallet |-> wallet,
         price |-> price, tiers |-> tiers, todo |-> Listed(tiers),
         tier |-> Nothing, alone |-> TRUE, follows |-> FALSE] \in Posts
    BY DEF Posts, PostPhases, Listed
  <2> QED
    BY <1>1, <2>1 DEF BeginPost, registryVars, RegistryTypeOK
<1>2. CASE CreateMeta(p) \/ UpdateMeta(p)
  <2>1. posting[p] # Nothing /\ posting[p] \in Posts
    BY <1>2 DEF CreateMeta, UpdateMeta, At
  <2>2. MetaOf(p) \in Metas
    BY <2>1 DEF MetaOf, Metas, Posts
  <2>3. meta' \in [Slugs -> Metas \cup {NoContent}]
    <3>1. \/ meta' = [meta EXCEPT ![SlugAt(p)] = FindOrCreate(meta[SlugAt(p)], MetaOf(p))]
          \/ meta' = [meta EXCEPT ![SlugAt(p)] = MetaOf(p)]
      BY <1>2 DEF CreateMeta, UpdateMeta
    <3> QED
      BY <2>2, <3>1 DEF FindOrCreate
  <2>4. posting' \in [Posters -> Posts \cup {Nothing}]
    <3>1. \/ Advance(p, [posting[p] EXCEPT !.phase = "updateMeta"])
          \/ Advance(p, [posting[p] EXCEPT !.phase = "nextTier"])
      BY <1>2 DEF CreateMeta, UpdateMeta
    <3> QED
      BY <2>1, <3>1, PostMoves, AdvanceType
  <2> QED
    BY <1>2, <2>3, <2>4 DEF CreateMeta, UpdateMeta, registryVars, RegistryTypeOK
<1>3. ASSUME NEW t \in Tiers, CreateTier(p, t)
      PROVE  TypeOK'
  <2>1. posting[p] # Nothing /\ posting[p] \in Posts /\ t \in Listed(posting[p].tiers)
    BY <1>3 DEF CreateTier, At, WritesListed
  <2>2. SlugAt(p) \in Slugs /\ TierOf(p, t) \in TierContents
    BY <2>1, TierWrite DEF Listed
  <2> DEFINE new == FindOrCreate(tierContent[SlugAt(p)][t], TierOf(p, t))
  <2>3. new \in TierContents \cup {NoContent}
    BY <2>2 DEF FindOrCreate
  <2>4. tierContent' = [tierContent EXCEPT ![SlugAt(p)] =
          [tierContent[SlugAt(p)] EXCEPT ![t] = new]]
    BY <1>3 DEF CreateTier
  <2>5. posting' \in [Posters -> Posts \cup {Nothing}]
    BY <1>3, <2>1, PostMoves, AdvanceType DEF CreateTier
  <2> HIDE DEF new
  <2>6. tierContent' \in [Slugs -> [Tiers -> TierContents \cup {NoContent}]]
    BY <2>2, <2>3, <2>4
  <2> QED
    BY <1>3, <2>5, <2>6 DEF CreateTier, registryVars, RegistryTypeOK
<1>4. CASE UpdateTier(p)
  <2> DEFINE t == posting[p].tier
  <2>1. posting[p] # Nothing /\ posting[p] \in Posts /\ t \in Listed(posting[p].tiers)
    BY <1>4 DEF UpdateTier, At, WritesListed
  <2>2. t \in Tiers /\ SlugAt(p) \in Slugs /\ TierOf(p, t) \in TierContents
    BY <2>1, TierWrite DEF Listed
  <2>3. tierContent' = [tierContent EXCEPT ![SlugAt(p)] =
          [tierContent[SlugAt(p)] EXCEPT ![t] = TierOf(p, t)]]
    BY <1>4 DEF UpdateTier
  <2>4. posting' \in [Posters -> Posts \cup {Nothing}]
    <3>1. posting[p].todo \ {t} \in SUBSET Tiers
      BY <2>1 DEF Posts
    <3>2. Advance(p, [posting[p] EXCEPT !.phase = "nextTier", !.tier = Nothing,
                        !.todo = posting[p].todo \ {t}])
      BY <1>4 DEF UpdateTier
    <3> QED
      BY <2>1, <3>1, <3>2, PostMoves, AdvanceType
  <2> HIDE DEF t
  <2>5. tierContent' \in [Slugs -> [Tiers -> TierContents \cup {NoContent}]]
    BY <2>2, <2>3
  <2> QED
    BY <1>4, <2>4, <2>5 DEF UpdateTier, registryVars, RegistryTypeOK
<1>5. CASE FinishPost(p)
  <2>1. posting[p] # Nothing /\ posting[p] \in Posts
    BY <1>5 DEF FinishPost, At
  <2>2. PICK follows \in BOOLEAN :
          /\ followed' = IF follows THEN followed \cup {SlugAt(p)} ELSE followed
          /\ posting' = [posting EXCEPT ![p] =
               [posting[p] EXCEPT !.phase = "done", !.follows = follows]]
    BY <1>5 DEF FinishPost
  <2>3. [posting[p] EXCEPT !.phase = "done", !.follows = follows] \in Posts
    BY <2>1, PostMoves
  <2>4. SlugAt(p) \in Slugs
    BY <2>1, DiscoveryAssumption DEF SlugAt, Posts
  <2> QED
    BY <1>5, <2>2, <2>3, <2>4 DEF FinishPost, registryVars, RegistryTypeOK
<1>6. CASE EndPost(p)
  BY <1>6 DEF EndPost, registryVars, RegistryTypeOK
<1> QED
  BY <1>1, <1>2, <1>3, <1>4, <1>5, <1>6 DEF PosterStep

(* What a step of a lookup makes of it. *)
LEMMA LookupMoves ==
  ASSUME NEW lookup \in Lookups
  PROVE  /\ [lookup EXCEPT !.phase = "list"] \in Lookups
         /\ \A g \in Slugs :
              [lookup EXCEPT !.phase = "fetchFound", !.metas = {g}] \in Lookups
         /\ \A page \in SUBSET Slugs :
              [lookup EXCEPT !.phase = "fetchListed", !.metas = page] \in Lookups
         /\ \A g \in Slugs, m \in Metas \cup {NoContent} :
              [lookup EXCEPT !.metas = lookup.metas \ {g},
                 !.got = [lookup.got EXCEPT ![g] = m]] \in Lookups
         /\ \A g \in Slugs, profile \in Profiles :
              [lookup EXCEPT !.got = [lookup.got EXCEPT ![g] = NoContent],
                 !.profiles = lookup.profiles \cup {profile}] \in Lookups
BY DEF Lookups

LEMMA ProfileType ==
  ASSUME TypeOK, NEW g \in Slugs, NEW m \in Metas
  PROVE  ProfileOf(m, g) \in Profiles
<1>1. StoredTiers(g) \in [Tiers -> Offers \cup {NoOffer}]
  BY DEF TypeOK, StoredTiers, TierContents
<1> QED
  BY <1>1 DEF ProfileOf, Profiles, Metas

LEMMA ListingType ==
  ASSUME TypeOK, NEW profile \in Profiles, Accepted(profile)
  PROVE  Listing(profile) \in Listings
<1>1. profile.stream \in Streams
  BY DEF Profiles
<1>2. streamConfig[profile.stream] \in StreamConfigs
  BY <1>1 DEF Accepted, StreamActive, StreamExists, TypeOK, RegistryTypeOK
<1>3. profile.tiers \in TiersHashes
  BY <1>2 DEF Accepted, StreamConfigs
<1> QED
  BY <1>1, <1>2, <1>3 DEF Listing, Listings, Profiles, StreamConfigs

LEMMA WantedProfiles ==
  ASSUME TypeOK, NEW r \in Readers, reading[r] # Nothing
  PROVE  Wanted(r) \subseteq reading[r].profiles /\ reading[r].profiles \subseteq Profiles
BY DEF TypeOK, Wanted, Lookups

LEMMA ReaderType ==
  ASSUME TypeOK, SearchesOne, NEW r \in Readers, ReaderStep(r)
  PROVE  TypeOK'
<1> USE DEF graphVars
<1>0. reading[r] # Nothing => reading[r] \in Lookups
  BY DEF TypeOK
<1>a. ASSUME NEW lookup \in Lookups, reading' = [reading EXCEPT ![r] = lookup],
             UNCHANGED <<registryVars, graphVars, posting, answer>>
      PROVE  TypeOK'
  BY <1>a DEF TypeOK, registryVars, RegistryTypeOK
<1>1. ASSUME NEW want \in Streams \cup {AllStreams}, BeginLookup(r, want)
      PROVE  TypeOK'
  <2>1. [phase |-> IF want = AllStreams THEN "list" ELSE "search",
         want |-> want, metas |-> {}, got |-> [g \in Slugs |-> NoContent],
         profiles |-> {}] \in Lookups
    BY DEF Lookups
  <2> QED
    BY <1>1, <1>a, <2>1 DEF BeginLookup
<1>2. CASE Search(r)
  <2>1. reading[r] \in Lookups /\ reading[r].want \in Streams
    BY <1>0, <1>2 DEF Search, In, SearchesOne
  <2>2. SlugOf[reading[r].want] \in Slugs
    BY <2>1, DiscoveryAssumption
  <2>3. CASE SearchFinds(reading[r].want)
    BY <1>2, <1>a, <2>1, <2>2, <2>3, LookupMoves DEF Search
  <2>4. CASE ~SearchFinds(reading[r].want)
    BY <1>2, <1>a, <2>1, <2>4, LookupMoves DEF Search
  <2> QED
    BY <2>3, <2>4
<1>3. CASE ListFollowed(r)
  <2>1. reading[r] \in Lookups
    BY <1>0, <1>3 DEF ListFollowed, In
  <2>2. PICK page \in SUBSET followed :
          reading' = [reading EXCEPT ![r] =
            [reading[r] EXCEPT !.phase = "fetchListed", !.metas = page]]
    BY <1>3 DEF ListFollowed
  <2>3. page \in SUBSET Slugs
    BY <2>2 DEF TypeOK
  <2>4. [reading[r] EXCEPT !.phase = "fetchListed", !.metas = page] \in Lookups
    BY <2>1, <2>3, LookupMoves
  <2> QED
    BY <1>3, <1>a, <2>2, <2>4 DEF ListFollowed
<1>4. ASSUME NEW g \in Slugs, ReadMeta(r, g)
      PROVE  TypeOK'
  <2>1. reading[r] \in Lookups
    BY <1>0, <1>4 DEF ReadMeta, Fetching, In
  <2>2. meta[g] \in Metas \cup {NoContent}
    BY DEF TypeOK
  <2>3. [reading[r] EXCEPT !.metas = reading[r].metas \ {g},
           !.got = [reading[r].got EXCEPT ![g] = meta[g]]] \in Lookups
    BY <2>1, <2>2, LookupMoves
  <2> QED
    BY <1>4, <1>a, <2>3 DEF ReadMeta
<1>5. ASSUME NEW g \in Slugs, ReadTiers(r, g)
      PROVE  TypeOK'
  <2>1. reading[r] \in Lookups
    BY <1>0, <1>5 DEF ReadTiers, Fetching, In
  <2>2. reading[r].got[g] \in Metas
    BY <1>5, <2>1 DEF ReadTiers, Lookups
  <2>3. ProfileOf(reading[r].got[g], g) \in Profiles
    BY <2>2, ProfileType
  <2>4. [reading[r] EXCEPT !.got = [reading[r].got EXCEPT ![g] = NoContent],
           !.profiles = reading[r].profiles
              \cup {ProfileOf(reading[r].got[g], g)}] \in Lookups
    BY <2>1, <2>3, LookupMoves
  <2> QED
    BY <1>5, <1>a, <2>4 DEF ReadTiers
<1>6. CASE Answer(r)
  <2>1. reading[r] # Nothing
    BY <1>6 DEF Answer, Fetching, In
  <2>2. \A profile \in Wanted(r) : Accepted(profile) => Listing(profile) \in Listings
    BY <2>1, WantedProfiles, ListingType
  <2>3. {Listing(profile) : profile \in {q \in Wanted(r) : Accepted(q)}} \in SUBSET Listings
    BY <2>2
  <2>4. answer' \in [Readers -> SUBSET Listings]
    BY <1>6, <2>3 DEF Answer, TypeOK
  <2> QED
    BY <1>6, <2>4 DEF Answer, TypeOK, registryVars, RegistryTypeOK
<1>7. CASE FailLookup(r)
  BY <1>7 DEF FailLookup, TypeOK, registryVars, RegistryTypeOK
<1> QED
  BY <1>1, <1>2, <1>3, <1>4, <1>5, <1>6, <1>7 DEF ReaderStep

LEMMA TypeStep ==
  ASSUME TypeOK, WritesListed, SearchesOne, [Next]_vars
  PROVE  TypeOK'
<1>1. CASE RegistryStep
  BY <1>1, RegistryType
<1>2. CASE \E p \in Posters : PosterStep(p)
  BY <1>2, PosterType
<1>3. CASE \E r \in Readers : ReaderStep(r)
  BY <1>3, ReaderType
<1>4. CASE \E s \in Streams : PostSignal(s)
  BY <1>4, DiscoveryAssumption DEF PostSignal, TypeOK, registryVars, RegistryTypeOK
<1>5. CASE UNCHANGED vars
  BY <1>5 DEF vars, graphVars, TypeOK, registryVars, RegistryTypeOK
<1> QED
  BY <1>1, <1>2, <1>3, <1>4, <1>5, NextCases

-----------------------------------------------------------------------------
(* The rest of the invariant. *)

(* A step of p leaves the other requests as they are, but for "alone". *)
SamePost(q) ==
  \/ posting'[q] = posting[q]
  \/ /\ posting[q] # Nothing
     /\ posting'[q] = [posting[q] EXCEPT !.alone = FALSE]

LEMMA OthersKept ==
  ASSUME TypeOK, NEW p \in Posters, NEW next \in Posts, Advance(p, next)
  PROVE  posting'[p] = next /\ \A q \in Posters \ {p} : SamePost(q)
<1>1. posting'[p] = next
  BY DEF Advance
<1>2. ASSUME NEW q \in Posters \ {p}
      PROVE  SamePost(q)
  <2>1. posting'[q] = IF posting[q] # Nothing /\ SlugAt(q) = SlugAt(p)
                      THEN [posting[q] EXCEPT !.alone = FALSE]
                      ELSE posting[q]
    BY DEF Advance
  <2>2. CASE posting[q] # Nothing /\ SlugAt(q) = SlugAt(p)
    BY <2>1, <2>2, Zenon DEF SamePost
  <2>3. CASE ~(posting[q] # Nothing /\ SlugAt(q) = SlugAt(p))
    BY <2>1, <2>3, Zenon DEF SamePost
  <2> QED
    BY <2>2, <2>3
<1> QED
  BY <1>1, <1>2

(* What a step of a request may make of it. *)
NextPost(p, next) ==
  /\ next \in Posts
  /\ next.todo \subseteq Listed(next.tiers)
  /\ next.phase = "updateTier" => next.tier \in Listed(next.tiers)
  /\ Vouched(next)

LEMMA PosterMoves ==
  ASSUME DirectoryInv, NEW p \in Posters, PosterStep(p)
  PROVE  /\ \A q \in Posters \ {p} : SamePost(q)
         /\ posting'[p] = Nothing \/ NextPost(p, posting'[p])
         /\ \A g \in Slugs : meta'[g] \in {meta[g], MetaOf(p)}
         /\ \A g \in Slugs : meta'[g] = meta[g] \/ posting[p] # Nothing
         /\ UNCHANGED <<streamConfig, reading, answer>>
<1> USE DEF DirectoryInv
<1>0. posting[p] # Nothing => posting[p] \in Posts /\ Vouched(posting[p])
  BY DEF TypeOK, OwnersVouched
<1>1. ASSUME NEW s \in Streams, NEW wallet \in Makers, NEW price \in Offers,
             NEW tiers \in TierLists, BeginPost(p, s, wallet, price, tiers)
      PROVE  /\ \A q \in Posters \ {p} : SamePost(q)
             /\ NextPost(p, posting'[p])
             /\ UNCHANGED <<streamConfig, meta, reading, answer>>
  <2> DEFINE new == [phase |-> "createMeta", stream |-> s, ownerWallet |-> wallet,
                     price |-> price, tiers |-> tiers, todo |-> Listed(tiers),
                     tier |-> Nothing, alone |-> TRUE, follows |-> FALSE]
  <2>1. new \in Posts
    BY DEF Posts, PostPhases, Listed
  <2>2. Vouched(new)
    BY <1>1 DEF BeginPost, StreamActive, Vouched
  <2>3. NextPost(p, new)
    BY <2>1, <2>2 DEF NextPost
  <2>4. posting' = [posting EXCEPT ![p] = new]
    BY <1>1 DEF BeginPost
  <2>5. posting'[p] = new
    BY <2>4 DEF TypeOK
  <2>6. \A q \in Posters \ {p} : posting'[q] = posting[q]
    BY <2>4 DEF TypeOK
  <2> HIDE DEF new
  <2>7. UNCHANGED <<streamConfig, meta, reading, answer>>
    BY <1>1 DEF BeginPost, registryVars, graphVars
  <2>8. \A q \in Posters \ {p} : SamePost(q)
    BY <2>6, Zenon DEF SamePost
  <2> QED
    BY <2>3, <2>5, <2>7, <2>8
<1>2. ASSUME NEW next, Advance(p, next), NextPost(p, next)
      PROVE  (\A q \in Posters \ {p} : SamePost(q)) /\ NextPost(p, posting'[p])
  BY <1>2, OthersKept DEF NextPost
<1>3. CASE CreateMeta(p) \/ UpdateMeta(p)
  <2>1. posting[p] # Nothing /\ posting[p] \in Posts /\ Vouched(posting[p])
    BY <1>0, <1>3 DEF CreateMeta, UpdateMeta, At
  <2>2. PICK phase \in {"updateMeta", "nextTier"} :
          Advance(p, [posting[p] EXCEPT !.phase = phase])
    BY <1>3 DEF CreateMeta, UpdateMeta
  <2> DEFINE next == [posting[p] EXCEPT !.phase = phase]
  <2>3. NextPost(p, next)
    <3>1. next \in Posts
      BY <2>1, PostMoves
    <3>2. /\ next.todo = posting[p].todo /\ next.tiers = posting[p].tiers
          /\ next.phase # "updateTier"
          /\ next.stream = posting[p].stream
          /\ next.ownerWallet = posting[p].ownerWallet
      BY <2>1 DEF Posts
    <3> HIDE DEF next
    <3> QED
      BY <2>1, <3>1, <3>2 DEF NextPost, Vouched, WritesListed
  <2>4. \A g \in Slugs : meta'[g] \in {meta[g], MetaOf(p)}
    <3>1. \/ meta' = [meta EXCEPT ![SlugAt(p)] = FindOrCreate(meta[SlugAt(p)], MetaOf(p))]
          \/ meta' = [meta EXCEPT ![SlugAt(p)] = MetaOf(p)]
      BY <1>3 DEF CreateMeta, UpdateMeta
    <3> QED
      BY <3>1 DEF FindOrCreate, TypeOK
  <2>5. UNCHANGED <<streamConfig, reading, answer>>
    BY <1>3 DEF CreateMeta, UpdateMeta, registryVars
  <2> HIDE DEF next
  <2> QED
    BY <1>2, <2>1, <2>2, <2>3, <2>4, <2>5 DEF next
<1>4. ASSUME NEW t \in Tiers, CreateTier(p, t)
      PROVE  /\ \A q \in Posters \ {p} : SamePost(q)
             /\ NextPost(p, posting'[p])
             /\ UNCHANGED <<streamConfig, meta, reading, answer>>
  <2>1. posting[p] # Nothing /\ posting[p] \in Posts /\ Vouched(posting[p])
    BY <1>0, <1>4 DEF CreateTier, At
  <2> DEFINE next == [posting[p] EXCEPT !.phase = "updateTier", !.tier = t]
  <2>2. next \in Posts
    BY <2>1, PostMoves
  <2>3. /\ next.todo = posting[p].todo /\ next.tiers = posting[p].tiers
        /\ next.tier = t
        /\ next.stream = posting[p].stream
        /\ next.ownerWallet = posting[p].ownerWallet
    BY <2>1 DEF Posts
  <2>4. t \in posting[p].todo /\ Advance(p, next)
    BY <1>4 DEF CreateTier
  <2> HIDE DEF next
  <2>5. NextPost(p, next)
    BY <2>1, <2>2, <2>3, <2>4 DEF NextPost, Vouched, WritesListed
  <2> QED
    BY <1>2, <1>4, <2>4, <2>5 DEF CreateTier, registryVars
<1>5. CASE UpdateTier(p)
  <2>1. posting[p] # Nothing /\ posting[p] \in Posts /\ Vouched(posting[p])
    BY <1>0, <1>5 DEF UpdateTier, At
  <2> DEFINE todo == posting[p].todo \ {posting[p].tier}
             next == [posting[p] EXCEPT !.phase = "nextTier", !.tier = Nothing,
                        !.todo = todo]
  <2>2. next \in Posts
    <3>1. todo \in SUBSET Tiers
      BY <2>1 DEF Posts
    <3> HIDE DEF todo
    <3> QED
      BY <2>1, <3>1, PostMoves
  <2>3. /\ next.todo \subseteq posting[p].todo /\ next.tiers = posting[p].tiers
        /\ next.phase # "updateTier"
        /\ next.stream = posting[p].stream
        /\ next.ownerWallet = posting[p].ownerWallet
    BY <2>1 DEF Posts
  <2>4. Advance(p, next)
    BY <1>5 DEF UpdateTier
  <2> HIDE DEF next
  <2>5. NextPost(p, next)
    BY <2>1, <2>2, <2>3 DEF NextPost, Vouched, WritesListed
  <2> QED
    BY <1>2, <1>5, <2>4, <2>5 DEF UpdateTier, registryVars, TypeOK
<1>6. CASE FinishPost(p)
  <2>1. posting[p] # Nothing /\ posting[p] \in Posts /\ Vouched(posting[p])
    BY <1>0, <1>6 DEF FinishPost, At
  <2>0. PICK follows \in BOOLEAN :
          posting' = [posting EXCEPT ![p] =
            [posting[p] EXCEPT !.phase = "done", !.follows = follows]]
    BY <1>6 DEF FinishPost
  <2> DEFINE next == [posting[p] EXCEPT !.phase = "done", !.follows = follows]
  <2>2. next \in Posts
    BY <2>1, PostMoves
  <2>3. /\ next.todo = posting[p].todo /\ next.tiers = posting[p].tiers
        /\ next.phase # "updateTier"
        /\ next.stream = posting[p].stream
        /\ next.ownerWallet = posting[p].ownerWallet
    BY <2>1 DEF Posts
  <2>4. posting' = [posting EXCEPT ![p] = next]
    BY <2>0
  <2> HIDE DEF next
  <2>5. NextPost(p, next)
    BY <2>1, <2>2, <2>3 DEF NextPost, Vouched, WritesListed
  <2>6. posting'[p] = next /\ \A q \in Posters \ {p} : posting'[q] = posting[q]
    BY <2>4 DEF TypeOK
  <2>7. \A q \in Posters \ {p} : SamePost(q)
    BY <2>6, Zenon DEF SamePost
  <2> QED
    BY <1>6, <2>5, <2>6, <2>7 DEF FinishPost, registryVars
<1>7. CASE EndPost(p)
  <2>1. posting'[p] = Nothing /\ \A q \in Posters \ {p} : posting'[q] = posting[q]
    BY <1>7 DEF EndPost, TypeOK
  <2>2. \A q \in Posters \ {p} : SamePost(q)
    BY <2>1, Zenon DEF SamePost
  <2> QED
    BY <1>7, <2>1, <2>2 DEF EndPost, registryVars, graphVars
<1> QED
  BY <1>1, <1>3, <1>4, <1>5, <1>6, <1>7 DEF PosterStep, CreateMeta, UpdateMeta, At

(* The registry keeps the creator and the visibility of a stream. *)
Kept(s) ==
  streamConfig[s] # NoAccount =>
    /\ streamConfig'[s] # NoAccount
    /\ streamConfig'[s].authority = streamConfig[s].authority
    /\ streamConfig'[s].visibility = streamConfig[s].visibility

LEMMA RegistryKeeps ==
  ASSUME TypeOK, RegistryStep
  PROVE  \A s \in Streams : Kept(s)
<1> SUFFICES ASSUME NEW m \in Makers, NEW s \in Streams, NEW hash \in TiersHashes,
                    \/ \E dao \in Treasuries, v \in Visibilities :
                         CreateStream(m, s, hash, dao, v)
                    \/ \E status \in StreamStatuses : UpdateStream(m, s, hash, status)
                    \/ SetTiers(m, s, hash),
                    NEW q \in Streams
             PROVE  Kept(q)
  BY DEF RegistryStep
<1>0. streamConfig \in [Streams -> StreamConfigs \cup {NoAccount}]
  BY DEF TypeOK, RegistryTypeOK
<1>1. CASE q # s
  <2>1. streamConfig'[q] = streamConfig[q]
    BY <1>0, <1>1 DEF CreateStream, UpdateStream, SetTiers
  <2> QED
    BY <2>1 DEF Kept
<1>2. CASE q = s
  <2>1. ASSUME NEW dao \in Treasuries, NEW v \in Visibilities,
               CreateStream(m, s, hash, dao, v)
        PROVE  Kept(q)
    BY <1>2, <2>1 DEF CreateStream, StreamExists, Kept
  <2>2. ASSUME NEW new \in StreamConfigs, streamConfig[s] \in StreamConfigs,
               streamConfig' = [streamConfig EXCEPT ![s] = new],
               new.authority = streamConfig[s].authority,
               new.visibility = streamConfig[s].visibility
        PROVE  Kept(q)
    BY <1>0, <1>2, <2>2, RegistryAssumption DEF Kept
  <2>3. ASSUME NEW status \in StreamStatuses, UpdateStream(m, s, hash, status)
        PROVE  Kept(q)
    <3>1. streamConfig[s] \in StreamConfigs
      BY <1>0, <2>3 DEF UpdateStream, SignedByAuthority, StreamExists
    <3> DEFINE new == [streamConfig[s] EXCEPT !.tiersHash = hash, !.status = status]
    <3>2. /\ new \in StreamConfigs
          /\ new.authority = streamConfig[s].authority
          /\ new.visibility = streamConfig[s].visibility
      BY <3>1 DEF StreamConfigs
    <3>3. streamConfig' = [streamConfig EXCEPT ![s] = new]
      BY <2>3 DEF UpdateStream
    <3> HIDE DEF new
    <3> QED
      BY <2>2, <3>1, <3>2, <3>3
  <2>4. CASE SetTiers(m, s, hash)
    <3>1. streamConfig[s] \in StreamConfigs
      BY <1>0, <2>4 DEF SetTiers, SignedByAuthority, StreamExists
    <3> DEFINE new == [streamConfig[s] EXCEPT !.tiersHash = hash]
    <3>2. /\ new \in StreamConfigs
          /\ new.authority = streamConfig[s].authority
          /\ new.visibility = streamConfig[s].visibility
      BY <3>1 DEF StreamConfigs
    <3>3. streamConfig' = [streamConfig EXCEPT ![s] = new]
      BY <2>4 DEF SetTiers
    <3> HIDE DEF new
    <3> QED
      BY <2>2, <3>1, <3>2, <3>3
  <2> QED
    BY <2>1, <2>3, <2>4
<1> QED
  BY <1>1, <1>2

LEMMA RegistryInvStep ==
  ASSUME DirectoryInv, RegistryStep
  PROVE  DirectoryInv'
<1> USE DEF DirectoryInv
<1>1. TypeOK'
  BY RegistryType
<1>2. UNCHANGED <<graphVars, posting, reading, answer>>
  BY DEF RegistryStep
<1>3. WritesListed' /\ SearchesOne'
  BY <1>2 DEF WritesListed, SearchesOne, In
<1>4. ASSUME NEW s \in Streams, NEW w, StreamExists(s), OwnedBy(s, w)
      PROVE  StreamExists(s)' /\ OwnedBy(s, w)'
  BY <1>4, RegistryKeeps DEF Kept, StreamExists, OwnedBy
<1>5. OwnersVouched'
  <2>1. \A g \in Slugs : meta[g] # NoContent => meta[g].stream \in Streams
    BY DEF TypeOK, Metas
  <2>2. \A p \in Posters : posting[p] # Nothing => posting[p].stream \in Streams
    BY DEF TypeOK, Posts
  <2>3. \A r \in Readers : reading[r] # Nothing =>
          /\ \A g \in Slugs :
               reading[r].got[g] # NoContent => reading[r].got[g].stream \in Streams
          /\ \A profile \in reading[r].profiles : profile.stream \in Streams
    BY DEF TypeOK, Lookups, Metas, Profiles
  <2> QED
    BY <1>2, <1>4, <2>1, <2>2, <2>3 DEF OwnersVouched, Vouched, graphVars
<1> QED
  BY <1>1, <1>3, <1>5

LEMMA PosterInvStep ==
  ASSUME DirectoryInv, NEW p \in Posters, PosterStep(p)
  PROVE  DirectoryInv'
<1>0. TypeOK' /\ UNCHANGED <<streamConfig, reading, answer>>
  BY PosterType, PosterMoves DEF DirectoryInv
<1>1. ASSUME NEW q \in Posters, posting'[q] # Nothing
      PROVE  /\ posting'[q].todo \subseteq Listed(posting'[q].tiers)
             /\ posting'[q].phase = "updateTier" =>
                  posting'[q].tier \in Listed(posting'[q].tiers)
             /\ Vouched(posting'[q])
  <2>1. CASE q = p
    BY <1>1, <2>1, PosterMoves DEF NextPost
  <2>2. CASE q # p
    <3>1. SamePost(q)
      BY <2>2, PosterMoves
    <3>2. posting[q] # Nothing /\ posting[q] \in Posts
      BY <1>1, <3>1 DEF SamePost, DirectoryInv, TypeOK
    <3>3. /\ posting'[q].todo = posting[q].todo
          /\ posting'[q].tiers = posting[q].tiers
          /\ posting'[q].phase = posting[q].phase
          /\ posting'[q].tier = posting[q].tier
          /\ posting'[q].stream = posting[q].stream
          /\ posting'[q].ownerWallet = posting[q].ownerWallet
      BY <3>1, <3>2 DEF SamePost, Posts
    <3> QED
      BY <3>2, <3>3 DEF DirectoryInv, WritesListed, OwnersVouched, Vouched
  <2> QED
    BY <2>1, <2>2
<1>2. WritesListed' /\ SearchesOne'
  BY <1>0, <1>1 DEF WritesListed, Listed, SearchesOne, In, DirectoryInv
<1>3. ASSUME NEW g \in Slugs, meta'[g] # NoContent
      PROVE  Vouched(meta'[g])
  <2>1. CASE meta'[g] = meta[g]
    BY <1>3, <2>1 DEF DirectoryInv, OwnersVouched
  <2>2. CASE meta'[g] = MetaOf(p) /\ posting[p] # Nothing
    BY <2>2 DEF DirectoryInv, OwnersVouched, Vouched, MetaOf
  <2> QED
    BY <2>1, <2>2, PosterMoves
<1>4. OwnersVouched'
  BY <1>0, <1>1, <1>3 DEF DirectoryInv, OwnersVouched, Vouched, StreamExists, OwnedBy
<1> QED
  BY <1>0, <1>2, <1>4 DEF DirectoryInv

LEMMA ReaderMoves ==
  ASSUME DirectoryInv, NEW r \in Readers, ReaderStep(r)
  PROVE  /\ UNCHANGED <<streamConfig, graphVars, posting>>
         /\ \A q \in Readers \ {r} : reading'[q] = reading[q]
         /\ reading'[r] # Nothing =>
              /\ reading'[r].phase = "search" => reading'[r].want \in Streams
              /\ \A g \in Slugs : reading'[r].got[g] # NoContent =>
                   Vouched(reading'[r].got[g])
              /\ \A profile \in reading'[r].profiles : Vouched(profile)
<1> USE DEF DirectoryInv
<1> DEFINE Good(lookup) ==
             /\ lookup.phase = "search" => lookup.want \in Streams
             /\ \A g \in Slugs : lookup.got[g] # NoContent => Vouched(lookup.got[g])
             /\ \A profile \in lookup.profiles : Vouched(profile)
<1>0. reading[r] # Nothing => reading[r] \in Lookups /\ Good(reading[r])
  BY DEF TypeOK, OwnersVouched, SearchesOne, In
<1>1. ASSUME NEW want \in Streams \cup {AllStreams}, BeginLookup(r, want)
      PROVE  reading'[r] # Nothing => Good(reading'[r])
  <2>1. reading'[r] = [phase |-> IF want = AllStreams THEN "list" ELSE "search",
                       want |-> want, metas |-> {},
                       got |-> [g \in Slugs |-> NoContent], profiles |-> {}]
    BY <1>1 DEF BeginLookup, TypeOK
  <2>2. /\ reading'[r].phase = "search" => reading'[r].want \in Streams
        /\ \A g \in Slugs : reading'[r].got[g] = NoContent
        /\ reading'[r].profiles = {}
    BY <2>1
  <2> QED
    BY <2>2
<1>2. ASSUME Search(r)
      PROVE  reading'[r] # Nothing => Good(reading'[r])
  <2>1. reading[r] \in Lookups /\ Good(reading[r])
    BY <1>0, <1>2 DEF Search, In
  <2>2. reading'[r] = IF SearchFinds(reading[r].want)
          THEN [reading[r] EXCEPT !.phase = "fetchFound", !.metas = {SlugOf[reading[r].want]}]
          ELSE [reading[r] EXCEPT !.phase = "list"]
    BY <1>2 DEF Search, TypeOK
  <2>3. /\ reading'[r].phase # "search"
        /\ reading'[r].got = reading[r].got
        /\ reading'[r].profiles = reading[r].profiles
    BY <2>1, <2>2 DEF Lookups
  <2> QED
    BY <2>1, <2>3
<1>3. ASSUME ListFollowed(r)
      PROVE  reading'[r] # Nothing => Good(reading'[r])
  <2>1. reading[r] \in Lookups /\ Good(reading[r])
    BY <1>0, <1>3 DEF ListFollowed, In
  <2>2. PICK page \in SUBSET followed :
          reading'[r] = [reading[r] EXCEPT !.phase = "fetchListed", !.metas = page]
    BY <1>3 DEF ListFollowed, TypeOK
  <2>3. /\ reading'[r].phase # "search"
        /\ reading'[r].got = reading[r].got
        /\ reading'[r].profiles = reading[r].profiles
    BY <2>1, <2>2 DEF Lookups
  <2> QED
    BY <2>1, <2>3
<1>4. ASSUME NEW g \in Slugs, ReadMeta(r, g)
      PROVE  reading'[r] # Nothing => Good(reading'[r])
  <2>1. reading[r] \in Lookups /\ Good(reading[r]) /\ reading[r].phase # "search"
    BY <1>0, <1>4 DEF ReadMeta, Fetching, In
  <2>2. reading'[r] = [reading[r] EXCEPT !.metas = reading[r].metas \ {g},
                         !.got = [reading[r].got EXCEPT ![g] = meta[g]]]
    BY <1>4 DEF ReadMeta, TypeOK
  <2>3. /\ reading'[r].phase # "search"
        /\ reading'[r].got = [reading[r].got EXCEPT ![g] = meta[g]]
        /\ reading'[r].profiles = reading[r].profiles
    BY <2>1, <2>2 DEF Lookups
  <2>4. reading[r].got \in [Slugs -> Metas \cup {NoContent}]
    BY <2>1 DEF Lookups
  <2>5. meta[g] # NoContent => Vouched(meta[g])
    BY DEF OwnersVouched
  <2>6. \A h \in Slugs : reading'[r].got[h] # NoContent => Vouched(reading'[r].got[h])
    <3> TAKE h \in Slugs
    <3>1. CASE h = g
      BY <2>3, <2>4, <2>5, <3>1
    <3>2. CASE h # g
      BY <2>1, <2>3, <2>4, <3>2
    <3> QED
      BY <3>1, <3>2
  <2> QED
    BY <2>1, <2>3, <2>6
<1>5. ASSUME NEW g \in Slugs, ReadTiers(r, g)
      PROVE  reading'[r] # Nothing => Good(reading'[r])
  <2>1. reading[r] \in Lookups /\ Good(reading[r]) /\ reading[r].phase # "search"
    BY <1>0, <1>5 DEF ReadTiers, Fetching, In
  <2> DEFINE profile == ProfileOf(reading[r].got[g], g)
  <2>2. reading'[r] = [reading[r] EXCEPT
          !.got = [reading[r].got EXCEPT ![g] = NoContent],
          !.profiles = reading[r].profiles \cup {profile}]
    BY <1>5 DEF ReadTiers, TypeOK
  <2>3. Vouched(profile)
    BY <1>5, <2>1 DEF ReadTiers, ProfileOf, Vouched
  <2> HIDE DEF profile
  <2>4. /\ reading'[r].phase # "search"
        /\ reading'[r].got = [reading[r].got EXCEPT ![g] = NoContent]
        /\ reading'[r].profiles = reading[r].profiles \cup {profile}
    BY <2>1, <2>2 DEF Lookups
  <2>5. reading[r].got \in [Slugs -> Metas \cup {NoContent}]
    BY <2>1 DEF Lookups
  <2>6. \A h \in Slugs : reading'[r].got[h] # NoContent => Vouched(reading'[r].got[h])
    <3> TAKE h \in Slugs
    <3>1. CASE h = g
      BY <2>4, <2>5, <3>1
    <3>2. CASE h # g
      BY <2>1, <2>4, <2>5, <3>2
    <3> QED
      BY <3>1, <3>2
  <2> QED
    BY <2>1, <2>3, <2>4, <2>6
<1>6. ASSUME Answer(r) \/ FailLookup(r)
      PROVE  reading'[r] # Nothing => Good(reading'[r])
  BY <1>6 DEF Answer, FailLookup, TypeOK
<1>7. /\ UNCHANGED <<streamConfig, graphVars, posting>>
      /\ \A q \in Readers \ {r} : reading'[q] = reading[q]
  <2>1. UNCHANGED <<registryVars, graphVars, posting>>
    BY DEF ReaderStep, BeginLookup, Search, ListFollowed, ReadMeta, ReadTiers,
           Answer, FailLookup
  <2>2. \E lookup : reading' = [reading EXCEPT ![r] = lookup]
    <3>1. CASE \E want \in Streams \cup {AllStreams} : BeginLookup(r, want)
      BY <3>1, Zenon DEF BeginLookup
    <3>2. CASE Search(r)
      BY <3>2, Zenon DEF Search
    <3>3. CASE ListFollowed(r)
      BY <3>3, Zenon DEF ListFollowed
    <3>4. CASE \E g \in Slugs : ReadMeta(r, g) \/ ReadTiers(r, g)
      BY <3>4, Zenon DEF ReadMeta, ReadTiers
    <3>5. CASE Answer(r) \/ FailLookup(r)
      BY <3>5, Zenon DEF Answer, FailLookup
    <3> QED
      BY <3>1, <3>2, <3>3, <3>4, <3>5 DEF ReaderStep
  <2> QED
    BY <2>1, <2>2 DEF registryVars, TypeOK
<1> HIDE DEF Good
<1>8. reading'[r] # Nothing => Good(reading'[r])
  BY <1>1, <1>2, <1>3, <1>4, <1>5, <1>6 DEF ReaderStep
<1> QED
  BY <1>7, <1>8 DEF Good

LEMMA ReaderInvStep ==
  ASSUME DirectoryInv, NEW r \in Readers, ReaderStep(r)
  PROVE  DirectoryInv'
<1>1. TypeOK'
  BY ReaderType DEF DirectoryInv
<1>2. WritesListed'
  BY ReaderMoves DEF DirectoryInv, WritesListed
<1>3. ASSUME NEW q \in Readers, reading'[q] # Nothing
      PROVE  /\ reading'[q].phase = "search" => reading'[q].want \in Streams
             /\ \A g \in Slugs : reading'[q].got[g] # NoContent =>
                  Vouched(reading'[q].got[g])
             /\ \A profile \in reading'[q].profiles : Vouched(profile)
  <2>1. CASE q = r
    BY <1>3, <2>1, ReaderMoves
  <2>2. CASE q # r
    <3>1. reading'[q] = reading[q]
      BY <2>2, ReaderMoves
    <3> QED
      BY <1>3, <3>1 DEF DirectoryInv, SearchesOne, In, OwnersVouched
  <2> QED
    BY <2>1, <2>2
<1>4. SearchesOne'
  BY <1>3 DEF SearchesOne, In
<1>5. OwnersVouched'
  BY <1>3, ReaderMoves
     DEF DirectoryInv, OwnersVouched, Vouched, StreamExists, OwnedBy, graphVars
<1> QED
  BY <1>1, <1>2, <1>4, <1>5 DEF DirectoryInv

LEMMA DirectoryInvInit == Init => DirectoryInv
<1> SUFFICES ASSUME Init PROVE DirectoryInv
  OBVIOUS
<1>1. TypeOK
  BY DiscoveryAssumption DEF Init, RegistryInit, TypeOK, RegistryTypeOK
<1> QED
  BY <1>1 DEF Init, DirectoryInv, WritesListed, SearchesOne, In, OwnersVouched

LEMMA DirectoryInvStep == DirectoryInv /\ [Next]_vars => DirectoryInv'
<1> SUFFICES ASSUME DirectoryInv, [Next]_vars PROVE DirectoryInv'
  OBVIOUS
<1>1. CASE \E s \in Streams : PostSignal(s)
  <2>1. TypeOK'
    BY TypeStep DEF DirectoryInv
  <2>2. UNCHANGED <<streamConfig, meta, posting, reading>>
    BY <1>1 DEF PostSignal, registryVars
  <2> QED
    BY <2>1, <2>2 DEF DirectoryInv, WritesListed, SearchesOne, In, OwnersVouched,
         Vouched, StreamExists, OwnedBy
<1>2. CASE UNCHANGED vars
  <2>1. TypeOK'
    BY TypeStep DEF DirectoryInv
  <2> QED
    BY <1>2, <2>1 DEF DirectoryInv, WritesListed, SearchesOne, In, OwnersVouched,
         Vouched, StreamExists, OwnedBy, vars, graphVars, registryVars
<1> QED
  BY <1>1, <1>2, NextCases, RegistryInvStep, PosterInvStep, ReaderInvStep

(* Every variable keeps its type. *)
THEOREM TypeCorrect == Spec => []TypeOK
<1>1. DirectoryInv => TypeOK
  BY DEF DirectoryInv
<1> QED
  BY <1>1, DirectoryInvInit, DirectoryInvStep, PTL DEF Spec

-----------------------------------------------------------------------------
(* Refinement. *)

RegisteredNow == [s \in Streams |-> Registered(s)]
ShownNow == [r \in Readers |-> Shown(r)]

LEMMA RegistryRefines ==
  ASSUME DirectoryInv, RegistryStep
  PROVE  \E s \in Streams : Directory!Register(s)
<1>1. PICK m \in Makers, s \in Streams, hash \in TiersHashes :
        \/ \E dao \in Treasuries, v \in Visibilities : CreateStream(m, s, hash, dao, v)
        \/ \E status \in StreamStatuses : UpdateStream(m, s, hash, status)
        \/ SetTiers(m, s, hash)
  BY DEF RegistryStep
<1>2. UNCHANGED answer
  BY DEF RegistryStep
<1>3. streamConfig' \in [Streams -> StreamConfigs \cup {NoAccount}]
  BY RegistryType DEF DirectoryInv, TypeOK, RegistryTypeOK
<1>4. \A q \in Streams \ {s} : streamConfig'[q] = streamConfig[q]
  BY <1>1 DEF CreateStream, UpdateStream, SetTiers, DirectoryInv, TypeOK, RegistryTypeOK
<1>5. streamConfig'[s] # NoAccount
  <2>1. StreamExists(s) => streamConfig'[s] # NoAccount
    BY RegistryKeeps DEF DirectoryInv, Kept, StreamExists
  <2>2. ASSUME NEW dao \in Treasuries, NEW v \in Visibilities,
               CreateStream(m, s, hash, dao, v)
        PROVE  streamConfig'[s] # NoAccount
    <3>1. [authority |-> m, dao |-> dao, tiersHash |-> hash, visibility |-> v,
           status |-> "Active"] \in StreamConfigs
      BY DEF StreamConfigs, StreamStatuses
    <3> QED
      BY <2>2, <3>1, RegistryAssumption
         DEF CreateStream, DirectoryInv, TypeOK, RegistryTypeOK
  <2> QED
    BY <1>1, <2>1, <2>2 DEF UpdateStream, SetTiers, SignedByAuthority
<1>6. Registered(s)' \in Directory!Registrations
  <2>1. streamConfig'[s] \in StreamConfigs
    BY <1>3, <1>5
  <2> QED
    BY <1>5, <2>1 DEF Registered, Directory!Registrations, StreamConfigs
<1>7. Registered(s) # NoAccount =>
        /\ Registered(s)'.authority = Registered(s).authority
        /\ Registered(s)'.visibility = Registered(s).visibility
  <2>1. streamConfig[s] # NoAccount =>
          /\ streamConfig'[s].authority = streamConfig[s].authority
          /\ streamConfig'[s].visibility = streamConfig[s].visibility
    BY RegistryKeeps DEF DirectoryInv, Kept
  <2> QED
    BY <1>5, <2>1 DEF Registered
<1>8. RegisteredNow' = [RegisteredNow EXCEPT ![s] = RegisteredNow'[s]]
  BY <1>4 DEF RegisteredNow, Registered
<1>9. ShownNow' = ShownNow
  BY <1>2 DEF ShownNow, Shown
<1> QED
  BY <1>6, <1>7, <1>8, <1>9 DEF Directory!Register, RegisteredNow, ShownNow

(* Everything in an answer is the entry the registry has for its stream. *)
LEMMA AnswerRefines ==
  ASSUME DirectoryInv, NEW r \in Readers, Answer(r)
  PROVE  \E streams \in SUBSET Streams : Directory!Show(r, streams)
<1> DEFINE chosen == {q \in Wanted(r) : Accepted(q)}
           streams == {profile.stream : profile \in chosen}
           entry(s) == [stream |-> s, ownerWallet |-> Registered(s).authority,
                        visibility |-> Registered(s).visibility,
                        tiers |-> Registered(s).tiersHash]
           view(l) == [stream |-> l.stream, ownerWallet |-> l.ownerWallet,
                       visibility |-> l.visibility, tiers |-> l.tiers]
<1>1. UNCHANGED streamConfig
  BY DEF Answer, registryVars
<1>2. reading[r] # Nothing
  BY DEF Answer, Fetching, In
<1>3. \A profile \in chosen :
        /\ profile \in Profiles /\ profile.stream \in Streams
        /\ Vouched(profile) /\ Accepted(profile)
  <2>1. Wanted(r) \subseteq reading[r].profiles /\ reading[r].profiles \subseteq Profiles
    BY <1>2, WantedProfiles DEF DirectoryInv
  <2> QED
    BY <1>2, <2>1 DEF DirectoryInv, OwnersVouched, Profiles
<1>4. \A profile \in chosen : view(Listing(profile)) = entry(profile.stream)
  BY <1>3 DEF Listing, Vouched, StreamExists, OwnedBy, Accepted, Registered
<1>5. answer' = [answer EXCEPT ![r] = {Listing(profile) : profile \in chosen}]
  BY DEF Answer
<1>6. Shown(r)' = {entry(s) : s \in streams}
  <2>1. answer'[r] = {Listing(profile) : profile \in chosen}
    BY <1>5 DEF DirectoryInv, TypeOK
  <2>2. Shown(r)' = {view(l) : l \in answer'[r]}
    BY DEF Shown
  <2> HIDE DEF chosen, entry, view
  <2>3. ASSUME NEW l \in answer'[r]
        PROVE  view(l) \in {entry(s) : s \in streams}
    <3>1. PICK profile \in chosen : l = Listing(profile)
      BY <2>1, <2>3
    <3>2. view(l) = entry(profile.stream) /\ profile.stream \in streams
      BY <1>4, <3>1
    <3> QED
      BY <3>2
  <2>4. ASSUME NEW s \in streams
        PROVE  entry(s) \in {view(l) : l \in answer'[r]}
    <3>1. PICK profile \in chosen : s = profile.stream
      BY <2>4
    <3>2. entry(s) = view(Listing(profile)) /\ Listing(profile) \in answer'[r]
      BY <1>4, <2>1, <3>1
    <3> QED
      BY <3>2
  <2> QED
    BY <2>2, <2>3, <2>4
<1>7. ShownNow' = [ShownNow EXCEPT ![r] = {entry(s) : s \in streams}]
  <2>1. \A q \in Readers \ {r} : answer'[q] = answer[q]
    BY <1>5 DEF DirectoryInv, TypeOK
  <2>2. \A q \in Readers \ {r} : Shown(q)' = Shown(q)
    BY <2>1 DEF Shown
  <2> HIDE DEF entry, streams
  <2> QED
    BY <1>6, <2>2 DEF ShownNow
<1>8. \A s \in streams : RegisteredNow[s] # NoAccount /\ RegisteredNow[s].active
  <2> SUFFICES ASSUME NEW s \in Streams, streamConfig[s] # NoAccount,
                      streamConfig[s].status = "Active"
               PROVE  RegisteredNow[s] # NoAccount /\ RegisteredNow[s].active
    BY <1>3 DEF Accepted, StreamActive, StreamExists
  <2>1. streamConfig[s] \in StreamConfigs
    BY DEF DirectoryInv, TypeOK, RegistryTypeOK
  <2>2. Registered(s).active
    BY DEF Registered
  <2>3. Registered(s) \in Directory!Registrations
    BY <2>1 DEF Registered, Directory!Registrations, StreamConfigs
  <2>4. Registered(s) # NoAccount
    BY <2>3, DirectoryAssumption
  <2> QED
    BY <2>2, <2>4 DEF RegisteredNow
<1>9. {entry(s) : s \in streams} = {Directory!Entry(s) : s \in streams}
  BY <1>3 DEF Directory!Entry
<1>10. RegisteredNow' = RegisteredNow
  BY <1>1 DEF RegisteredNow, Registered
<1>11. streams \in SUBSET Streams
  BY <1>3
<1> HIDE DEF entry, streams, chosen
<1>12. Directory!Show(r, streams)
  BY <1>7, <1>8, <1>9, <1>10 DEF Directory!Show, Directory!Active, RegisteredNow, ShownNow
<1> QED
  BY <1>11, <1>12

LEMMA DirectoryStep == DirectoryInv /\ [Next]_vars => [Directory!Next]_Directory!vars
<1> SUFFICES ASSUME DirectoryInv, [Next]_vars PROVE [Directory!Next]_Directory!vars
  OBVIOUS
<1>1. CASE RegistryStep
  BY <1>1, RegistryRefines DEF Directory!Next
<1>2. ASSUME NEW r \in Readers, Answer(r)
      PROVE  [Directory!Next]_Directory!vars
  BY <1>2, AnswerRefines DEF Directory!Next
<1>3. CASE UNCHANGED <<streamConfig, answer>>
  BY <1>3 DEF Directory!vars, Registered, Shown
<1>4. ASSUME NEW r \in Readers, ReaderStep(r), ~Answer(r)
      PROVE  UNCHANGED <<streamConfig, answer>>
  BY <1>4 DEF ReaderStep, BeginLookup, Search, ListFollowed, ReadMeta, ReadTiers,
         FailLookup, registryVars
<1>5. ASSUME NEW p \in Posters, PosterStep(p)
      PROVE  UNCHANGED <<streamConfig, answer>>
  BY <1>5, PosterMoves
<1>6. ASSUME NEW s \in Streams, PostSignal(s)
      PROVE  UNCHANGED <<streamConfig, answer>>
  BY <1>6 DEF PostSignal, registryVars
<1>7. CASE UNCHANGED vars
  BY <1>3, <1>7 DEF vars, registryVars
<1> QED
  BY <1>1, <1>2, <1>3, <1>4, <1>5, <1>6, <1>7, NextCases

(* Discovery is a directory of the chain: whatever is half-written, stale,  *)
(* overwritten or read in pieces, what a reader is shown is active, belongs *)
(* to its creator and has the tiers the chain holds.                        *)
THEOREM DirectoryImplemented == Spec => ImplementsDirectory
<1>1. Init => Directory!Init
  BY DEF Init, RegistryInit, Directory!Init, Registered, Shown
<1> QED
  BY <1>1, DirectoryInvInit, DirectoryInvStep, DirectoryStep, PTL
     DEF Spec, ImplementsDirectory, Directory!Spec

-----------------------------------------------------------------------------
(* What a request writes. *)

SameOffer(new, old) ==
  /\ new.stream = old.stream /\ new.ownerWallet = old.ownerWallet
  /\ new.price = old.price /\ new.tiers = old.tiers

LEMMA MetaWrites ==
  ASSUME DirectoryInv, NEW p \in Posters, CreateMeta(p) \/ UpdateMeta(p)
  PROVE  /\ posting[p] # Nothing /\ SameOffer(posting'[p], posting[p])
         /\ posting'[p].todo = posting[p].todo /\ posting'[p].alone = posting[p].alone
         /\ posting'[p].phase \in {"updateMeta", "nextTier"}
         /\ posting[p].phase \in {"createMeta", "updateMeta"}
         /\ posting'[p].phase = "nextTier" => meta'[SlugAt(p)] = MetaOf(p)
         /\ meta'[SlugAt(p)] \in {meta[SlugAt(p)], MetaOf(p)}
         /\ \A g \in Slugs \ {SlugAt(p)} : meta'[g] = meta[g]
         /\ UNCHANGED tierContent
<1>1. posting[p] # Nothing /\ posting[p] \in Posts
  BY DEF CreateMeta, UpdateMeta, At, DirectoryInv, TypeOK
<1>2. SlugAt(p) \in Slugs
  BY <1>1, DiscoveryAssumption DEF SlugAt, Posts
<1>3. PICK phase \in {"updateMeta", "nextTier"} :
        /\ Advance(p, [posting[p] EXCEPT !.phase = phase])
        /\ phase = "nextTier" => UpdateMeta(p)
  BY DEF CreateMeta, UpdateMeta
<1> DEFINE next == [posting[p] EXCEPT !.phase = phase]
<1>4. /\ SameOffer(next, posting[p])
      /\ next.todo = posting[p].todo /\ next.alone = posting[p].alone /\ next.phase = phase
  BY <1>1 DEF Posts, SameOffer
<1>5. Advance(p, next)
  BY <1>3
<1> HIDE DEF next
<1>6. posting'[p] = next
  BY <1>5 DEF Advance
<1>7. posting[p].phase \in {"createMeta", "updateMeta"}
  BY DEF CreateMeta, UpdateMeta, At
<1>8. /\ phase = "nextTier" => meta'[SlugAt(p)] = MetaOf(p)
      /\ meta'[SlugAt(p)] \in {meta[SlugAt(p)], MetaOf(p)}
      /\ \A g \in Slugs \ {SlugAt(p)} : meta'[g] = meta[g]
  <2>1. meta \in [Slugs -> Metas \cup {NoContent}]
    BY DEF DirectoryInv, TypeOK
  <2>2. \/ meta' = [meta EXCEPT ![SlugAt(p)] = FindOrCreate(meta[SlugAt(p)], MetaOf(p))]
        \/ meta' = [meta EXCEPT ![SlugAt(p)] = MetaOf(p)]
    BY DEF CreateMeta, UpdateMeta
  <2>3. UpdateMeta(p) => meta' = [meta EXCEPT ![SlugAt(p)] = MetaOf(p)]
    BY DEF UpdateMeta
  <2> QED
    BY <1>2, <1>3, <2>1, <2>2, <2>3 DEF FindOrCreate
<1>9. UNCHANGED tierContent
  BY DEF CreateMeta, UpdateMeta
<1> QED
  BY <1>1, <1>4, <1>6, <1>7, <1>8, <1>9

LEMMA TierWrites ==
  ASSUME DirectoryInv, NEW p \in Posters, (\E t \in Tiers : CreateTier(p, t)) \/ UpdateTier(p)
  PROVE  /\ posting[p] # Nothing /\ SameOffer(posting'[p], posting[p])
         /\ posting'[p].alone = posting[p].alone
         /\ posting'[p].phase \in {"updateTier", "nextTier"}
         /\ posting[p].phase \in {"updateTier", "nextTier"}
         /\ \E t \in Listed(posting[p].tiers) :
              /\ \/ posting'[p].todo = posting[p].todo /\ t \in posting[p].todo
                 \/ /\ posting'[p].todo = posting[p].todo \ {t}
                    /\ tierContent'[SlugAt(p)][t] = TierOf(p, t)
              /\ tierContent'[SlugAt(p)][t] \in {tierContent[SlugAt(p)][t], TierOf(p, t)}
              /\ \A g \in Slugs, u \in Tiers :
                   g # SlugAt(p) \/ u # t => tierContent'[g][u] = tierContent[g][u]
         /\ UNCHANGED meta
<1>1. posting[p] # Nothing /\ posting[p] \in Posts
  BY DEF CreateTier, UpdateTier, At, DirectoryInv, TypeOK
<1>2. SlugAt(p) \in Slugs
  BY <1>1, DiscoveryAssumption DEF SlugAt, Posts
<1>3. tierContent \in [Slugs -> [Tiers -> TierContents \cup {NoContent}]]
  BY DEF DirectoryInv, TypeOK
<1>4. Listed(posting[p].tiers) \subseteq Tiers
  BY DEF Listed
<1>5. ASSUME NEW t \in Tiers, CreateTier(p, t)
      PROVE  /\ SameOffer(posting'[p], posting[p])
             /\ posting'[p].alone = posting[p].alone
             /\ posting'[p].phase = "updateTier" /\ posting[p].phase = "nextTier"
             /\ t \in Listed(posting[p].tiers)
             /\ posting'[p].todo = posting[p].todo /\ t \in posting[p].todo
             /\ tierContent'[SlugAt(p)][t] \in {tierContent[SlugAt(p)][t], TierOf(p, t)}
             /\ \A g \in Slugs, u \in Tiers :
                  g # SlugAt(p) \/ u # t => tierContent'[g][u] = tierContent[g][u]
  <2> DEFINE next == [posting[p] EXCEPT !.phase = "updateTier", !.tier = t]
             new == FindOrCreate(tierContent[SlugAt(p)][t], TierOf(p, t))
             row == [tierContent[SlugAt(p)] EXCEPT ![t] = new]
  <2>1. /\ SameOffer(next, posting[p])
        /\ next.todo = posting[p].todo /\ next.alone = posting[p].alone
        /\ next.phase = "updateTier"
    BY <1>1 DEF Posts, SameOffer
  <2>2. Advance(p, next) /\ t \in posting[p].todo /\ posting[p].phase = "nextTier"
    BY <1>5 DEF CreateTier, At
  <2>3. tierContent' = [tierContent EXCEPT ![SlugAt(p)] = row]
    BY <1>5 DEF CreateTier
  <2>4. new \in {tierContent[SlugAt(p)][t], TierOf(p, t)}
    BY DEF FindOrCreate
  <2> HIDE DEF next, new
  <2>5. row[t] = new /\ \A u \in Tiers \ {t} : row[u] = tierContent[SlugAt(p)][u]
    BY <1>2, <1>3
  <2> HIDE DEF row
  <2>6. tierContent'[SlugAt(p)] = row /\ \A g \in Slugs \ {SlugAt(p)} : tierContent'[g] = tierContent[g]
    BY <1>2, <1>3, <2>3
  <2>7. posting'[p] = next
    BY <2>2 DEF Advance
  <2>8. t \in Listed(posting[p].tiers)
    BY <1>1, <2>2 DEF DirectoryInv, WritesListed
  <2> QED
    BY <2>1, <2>2, <2>4, <2>5, <2>6, <2>7, <2>8
<1>6. ASSUME UpdateTier(p), NEW t, t = posting[p].tier
      PROVE  /\ SameOffer(posting'[p], posting[p])
             /\ posting'[p].alone = posting[p].alone
             /\ posting'[p].phase = "nextTier" /\ posting[p].phase = "updateTier"
             /\ t \in Listed(posting[p].tiers)
             /\ posting'[p].todo = posting[p].todo \ {t}
             /\ tierContent'[SlugAt(p)][t] = TierOf(p, t)
             /\ \A g \in Slugs, u \in Tiers :
                  g # SlugAt(p) \/ u # t => tierContent'[g][u] = tierContent[g][u]
  <2> DEFINE todo == posting[p].todo \ {t}
             next == [posting[p] EXCEPT !.phase = "nextTier", !.tier = Nothing, !.todo = todo]
             row == [tierContent[SlugAt(p)] EXCEPT ![t] = TierOf(p, t)]
  <2>1. Advance(p, next) /\ posting[p].phase = "updateTier"
    BY <1>6 DEF UpdateTier, At
  <2>2. tierContent' = [tierContent EXCEPT ![SlugAt(p)] = row]
    BY <1>6 DEF UpdateTier
  <2> HIDE DEF todo
  <2>3. /\ SameOffer(next, posting[p])
        /\ next.todo = todo /\ next.alone = posting[p].alone
        /\ next.phase = "nextTier"
    BY <1>1 DEF Posts, SameOffer
  <2> HIDE DEF next
  <2>4. t \in Listed(posting[p].tiers)
    BY <1>1, <1>6, <2>1 DEF DirectoryInv, WritesListed
  <2>5. row[t] = TierOf(p, t) /\ \A u \in Tiers \ {t} : row[u] = tierContent[SlugAt(p)][u]
    BY <1>2, <1>3, <1>4, <2>4
  <2> HIDE DEF row
  <2>6. tierContent'[SlugAt(p)] = row /\ \A g \in Slugs \ {SlugAt(p)} : tierContent'[g] = tierContent[g]
    BY <1>2, <1>3, <2>2
  <2>7. posting'[p] = next
    BY <2>1 DEF Advance
  <2> QED
    BY <2>1, <2>3, <2>4, <2>5, <2>6, <2>7 DEF todo
<1>7. UNCHANGED meta
  BY DEF CreateTier, UpdateTier
<1> QED
  BY <1>1, <1>5, <1>6, <1>7

(* Beginning, finishing and ending write nothing.                           *)
LEMMA QuietSteps ==
  ASSUME DirectoryInv, NEW p \in Posters, PosterStep(p)
  PROVE  \/ CreateMeta(p) \/ UpdateMeta(p) \/ (\E t \in Tiers : CreateTier(p, t)) \/ UpdateTier(p)
         \/ /\ UNCHANGED <<meta, tierContent>>
            /\ \A q \in Posters \ {p} : posting'[q] = posting[q]
            /\ \/ posting'[p] = Nothing
               \/ /\ posting[p] # Nothing /\ SameOffer(posting'[p], posting[p])
                  /\ posting'[p].alone = posting[p].alone
                  /\ posting[p].phase = "nextTier" /\ posting'[p].phase = "done"
                  /\ posting[p].todo = {} /\ posting'[p].todo = {}
               \/ \E s \in Streams, wallet \in Makers, price \in Offers, tiers \in TierLists :
                    /\ BeginPost(p, s, wallet, price, tiers)
                    /\ posting'[p].phase = "createMeta" /\ posting'[p].stream = s
                    /\ posting'[p].price = price /\ posting'[p].tiers = tiers
                    /\ posting'[p].todo = Listed(tiers)
<1>1. posting \in [Posters -> Posts \cup {Nothing}]
  BY DEF DirectoryInv, TypeOK
<1>2. ASSUME NEW s \in Streams, NEW wallet \in Makers, NEW price \in Offers,
             NEW tiers \in TierLists, BeginPost(p, s, wallet, price, tiers)
      PROVE  /\ UNCHANGED <<meta, tierContent>>
             /\ \A q \in Posters \ {p} : posting'[q] = posting[q]
             /\ posting'[p].phase = "createMeta" /\ posting'[p].stream = s
             /\ posting'[p].price = price /\ posting'[p].tiers = tiers
             /\ posting'[p].todo = Listed(tiers)
  BY <1>1, <1>2 DEF BeginPost, graphVars
<1>3. CASE FinishPost(p)
  <2>1. posting[p] # Nothing /\ posting[p] \in Posts /\ posting[p].phase = "nextTier"
        /\ posting[p].todo = {} /\ UNCHANGED <<meta, tierContent>>
    BY <1>1, <1>3 DEF FinishPost, At
  <2>0. PICK follows \in BOOLEAN :
          posting' = [posting EXCEPT ![p] =
            [posting[p] EXCEPT !.phase = "done", !.follows = follows]]
    BY <1>3 DEF FinishPost
  <2> DEFINE next == [posting[p] EXCEPT !.phase = "done", !.follows = follows]
  <2>2. SameOffer(next, posting[p]) /\ next.alone = posting[p].alone
        /\ next.phase = "done" /\ next.todo = {}
    BY <2>1 DEF Posts, SameOffer
  <2>3. posting' = [posting EXCEPT ![p] = next]
    BY <2>0
  <2> HIDE DEF next
  <2>4. posting'[p] = next /\ \A q \in Posters \ {p} : posting'[q] = posting[q]
    BY <1>1, <2>3
  <2> QED
    BY <2>1, <2>2, <2>4
<1>4. CASE EndPost(p)
  BY <1>1, <1>4 DEF EndPost, graphVars
<1> QED
  BY <1>2, <1>3, <1>4 DEF PosterStep

(* A request that is still alone after another's step was left alone by it. *)
LEMMA LeftAlone ==
  ASSUME DirectoryInv, NEW p \in Posters, PosterStep(p), NEW q \in Posters, q # p,
         posting'[q] # Nothing
  PROVE  /\ posting[q] # Nothing /\ SameOffer(posting'[q], posting[q])
         /\ posting'[q].phase = posting[q].phase /\ posting'[q].todo = posting[q].todo
         /\ posting'[q].alone =>
              /\ posting[q].alone
              /\ meta'[SlugAt(q)] = meta[SlugAt(q)]
              /\ tierContent'[SlugAt(q)] = tierContent[SlugAt(q)]
<1>1. /\ posting \in [Posters -> Posts \cup {Nothing}]
      /\ meta \in [Slugs -> Metas \cup {NoContent}]
      /\ tierContent \in [Slugs -> [Tiers -> TierContents \cup {NoContent}]]
  BY DEF DirectoryInv, TypeOK
<1>2. SamePost(q)
  BY PosterMoves
<1>3. posting[q] # Nothing /\ posting[q] \in Posts
  BY <1>1, <1>2 DEF SamePost
<1>4. SlugAt(q) \in Slugs
  BY <1>3, DiscoveryAssumption DEF SlugAt, Posts
<1>5. /\ SameOffer(posting'[q], posting[q])
      /\ posting'[q].phase = posting[q].phase /\ posting'[q].todo = posting[q].todo
      /\ posting'[q].alone => posting[q].alone
  BY <1>2, <1>3 DEF SamePost, SameOffer, Posts
<1>6. ASSUME CreateMeta(p) \/ UpdateMeta(p) \/ (\E t \in Tiers : CreateTier(p, t)) \/ UpdateTier(p),
             posting'[q].alone
      PROVE  SlugAt(q) # SlugAt(p)
  <2>1. PICK next : Advance(p, next)
    BY <1>6, Zenon DEF CreateMeta, UpdateMeta, CreateTier, UpdateTier
  <2>2. posting'[q] = IF posting[q] # Nothing /\ SlugAt(q) = SlugAt(p)
                      THEN [posting[q] EXCEPT !.alone = FALSE] ELSE posting[q]
    BY <2>1 DEF Advance
  <2>3. [posting[q] EXCEPT !.alone = FALSE].alone = FALSE
    BY <1>3 DEF Posts
  <2> QED
    BY <1>3, <1>6, <2>2, <2>3
<1>7. CASE CreateMeta(p) \/ UpdateMeta(p)
  BY <1>3, <1>4, <1>5, <1>6, <1>7, MetaWrites
<1>8. CASE (\E t \in Tiers : CreateTier(p, t)) \/ UpdateTier(p)
  <2>1. ASSUME posting'[q].alone PROVE tierContent'[SlugAt(q)] = tierContent[SlugAt(q)]
    <3>1. \A u \in Tiers : tierContent'[SlugAt(q)][u] = tierContent[SlugAt(q)][u]
      BY <1>4, <1>6, <1>8, <2>1, TierWrites
    <3>2. tierContent' \in [Slugs -> [Tiers -> TierContents \cup {NoContent}]]
      BY PosterType DEF DirectoryInv, TypeOK
    <3> QED
      BY <1>1, <1>4, <3>1, <3>2
  <2> QED
    BY <1>3, <1>5, <1>8, <2>1, TierWrites
<1>9. CASE UNCHANGED <<meta, tierContent>>
  BY <1>3, <1>5, <1>9
<1> QED
  BY <1>7, <1>8, <1>9, QuietSteps

-----------------------------------------------------------------------------
(* What was posted is visible: a request that is alone on its slug finds    *)
(* there what it has written.                                               *)

WrittenSoFar(p) ==
  /\ posting[p].phase \in {"createMeta", "updateMeta"} =>
       posting[p].todo = Listed(posting[p].tiers)
  /\ posting[p].phase = "done" => posting[p].todo = {}
  /\ posting[p].alone /\ posting[p].phase \notin {"createMeta", "updateMeta"} =>
       /\ meta[SlugAt(p)] = MetaOf(p)
       /\ \A t \in Listed(posting[p].tiers) \ posting[p].todo :
            tierContent[SlugAt(p)][t] = TierOf(p, t)

WritesStand == \A p \in Posters : posting[p] # Nothing => WrittenSoFar(p)

LEMMA OwnWrites ==
  ASSUME DirectoryInv, NEW p \in Posters, PosterStep(p), posting'[p] # Nothing,
         posting[p] # Nothing => WrittenSoFar(p)
  PROVE  WrittenSoFar(p)'
<1>1. ASSUME posting[p] # Nothing, SameOffer(posting'[p], posting[p])
      PROVE  /\ SlugAt(p)' = SlugAt(p) /\ MetaOf(p)' = MetaOf(p)
             /\ Listed(posting'[p].tiers) = Listed(posting[p].tiers)
             /\ \A t \in Tiers : TierOf(p, t)' = TierOf(p, t)
  BY <1>1 DEF SameOffer, SlugAt, MetaOf, TierOf
<1>2. posting[p] # Nothing => SlugAt(p) \in Slugs
  BY DiscoveryAssumption DEF SlugAt, Posts, DirectoryInv, TypeOK
<1>3. CASE CreateMeta(p) \/ UpdateMeta(p)
  <2>1. /\ posting[p] # Nothing /\ SameOffer(posting'[p], posting[p])
        /\ posting'[p].todo = posting[p].todo
        /\ posting'[p].phase \in {"updateMeta", "nextTier"}
        /\ posting[p].phase \in {"createMeta", "updateMeta"}
        /\ posting'[p].phase = "nextTier" => meta'[SlugAt(p)] = MetaOf(p)
    BY <1>3, MetaWrites
  <2>2. posting[p].todo = Listed(posting[p].tiers)
    BY <2>1 DEF WrittenSoFar
  <2> QED
    BY <1>1, <2>1, <2>2 DEF WrittenSoFar
<1>4. CASE (\E t \in Tiers : CreateTier(p, t)) \/ UpdateTier(p)
  <2>1. /\ posting[p] # Nothing /\ SameOffer(posting'[p], posting[p])
        /\ posting'[p].alone = posting[p].alone
        /\ posting'[p].phase \in {"updateTier", "nextTier"}
        /\ posting[p].phase \in {"updateTier", "nextTier"}
        /\ UNCHANGED meta
    BY <1>4, TierWrites
  <2>2. PICK t \in Listed(posting[p].tiers) :
          /\ \/ posting'[p].todo = posting[p].todo /\ t \in posting[p].todo
             \/ /\ posting'[p].todo = posting[p].todo \ {t}
                /\ tierContent'[SlugAt(p)][t] = TierOf(p, t)
          /\ \A g \in Slugs, u \in Tiers :
               g # SlugAt(p) \/ u # t => tierContent'[g][u] = tierContent[g][u]
    BY <1>4, TierWrites
  <2>3. Listed(posting[p].tiers) \subseteq Tiers
    BY DEF Listed
  <2>4. ASSUME posting[p].alone, NEW u \in Listed(posting[p].tiers) \ posting'[p].todo
        PROVE  tierContent'[SlugAt(p)][u] = TierOf(p, u)
    <3>1. u # t => tierContent'[SlugAt(p)][u] = tierContent[SlugAt(p)][u]
      BY <1>2, <2>1, <2>2, <2>3
    <3>2. u \notin posting[p].todo => tierContent[SlugAt(p)][u] = TierOf(p, u)
      BY <2>1, <2>4 DEF WrittenSoFar
    <3> QED
      BY <2>2, <3>1, <3>2
  <2> QED
    BY <1>1, <2>1, <2>3, <2>4 DEF WrittenSoFar
<1>5. ASSUME UNCHANGED <<meta, tierContent>>,
             posting[p] # Nothing, SameOffer(posting'[p], posting[p]),
             posting'[p].alone = posting[p].alone,
             posting[p].phase = "nextTier", posting'[p].phase = "done",
             posting[p].todo = {}, posting'[p].todo = {}
      PROVE  WrittenSoFar(p)'
  <2>1. Listed(posting[p].tiers) \subseteq Tiers
    BY DEF Listed
  <2> QED
    BY <1>1, <1>5, <2>1 DEF WrittenSoFar
<1>6. ASSUME posting'[p].phase = "createMeta", posting'[p].todo = Listed(posting'[p].tiers)
      PROVE  WrittenSoFar(p)'
  BY <1>6 DEF WrittenSoFar, Listed
<1> QED
  BY <1>3, <1>4, <1>5, <1>6, QuietSteps

LEMMA WritesStep == DirectoryInv /\ WritesStand /\ [Next]_vars => WritesStand'
<1> SUFFICES ASSUME DirectoryInv, WritesStand, [Next]_vars PROVE WritesStand'
  OBVIOUS
<1>1. UNCHANGED <<meta, tierContent, posting>> => WritesStand'
  BY DEF WritesStand, WrittenSoFar, SlugAt, MetaOf, TierOf, Listed
<1>2. ASSUME NEW p \in Posters, PosterStep(p) PROVE WritesStand'
  <2> SUFFICES ASSUME NEW q \in Posters, posting'[q] # Nothing PROVE WrittenSoFar(q)'
    BY DEF WritesStand
  <2>1. CASE q = p
    BY <1>2, <2>1, OwnWrites DEF WritesStand
  <2>2. CASE q # p
    <3>1. /\ posting[q] # Nothing /\ SameOffer(posting'[q], posting[q])
          /\ posting'[q].phase = posting[q].phase /\ posting'[q].todo = posting[q].todo
          /\ posting'[q].alone =>
               /\ posting[q].alone
               /\ meta'[SlugAt(q)] = meta[SlugAt(q)]
               /\ tierContent'[SlugAt(q)] = tierContent[SlugAt(q)]
      BY <1>2, <2>2, LeftAlone
    <3>2. /\ SlugAt(q)' = SlugAt(q) /\ MetaOf(q)' = MetaOf(q)
          /\ Listed(posting'[q].tiers) = Listed(posting[q].tiers)
          /\ \A t \in Tiers : TierOf(q, t)' = TierOf(q, t)
          /\ Listed(posting[q].tiers) \subseteq Tiers
      BY <3>1 DEF SameOffer, SlugAt, MetaOf, TierOf, Listed
    <3> QED
      BY <3>1, <3>2 DEF WritesStand, WrittenSoFar
  <2> QED
    BY <2>1, <2>2
<1>3. RegistryStep \/ (\E s \in Streams : PostSignal(s)) \/ UNCHANGED vars =>
        UNCHANGED <<meta, tierContent, posting>>
  BY DEF RegistryStep, PostSignal, vars, graphVars
<1>4. ASSUME NEW r \in Readers, ReaderStep(r) PROVE UNCHANGED <<meta, tierContent, posting>>
  BY <1>4, ReaderMoves DEF graphVars
<1> QED
  BY <1>1, <1>2, <1>3, <1>4, NextCases

(* A follow that took is never taken back.                                  *)
FollowsStand ==
  \A p \in Posters :
    posting[p] # Nothing => (posting[p].follows => SlugAt(p) \in followed)

LEMMA PosterFollows ==
  ASSUME DirectoryInv, FollowsStand, NEW p \in Posters, PosterStep(p)
  PROVE  FollowsStand'
<1>1. posting \in [Posters -> Posts \cup {Nothing}]
  BY DEF DirectoryInv, TypeOK
<1>2. followed \subseteq followed'
  BY DEF PosterStep, BeginPost, CreateMeta, UpdateMeta, CreateTier, UpdateTier,
         FinishPost, EndPost, graphVars
<1>3. ASSUME NEW q \in Posters, posting[q] # Nothing, posting'[q] # Nothing,
             posting'[q].stream = posting[q].stream,
             posting'[q].follows = posting[q].follows, posting'[q].follows
      PROVE  SlugAt(q)' \in followed'
  BY <1>2, <1>3 DEF FollowsStand, SlugAt
<1>4. ASSUME NEW q \in Posters \ {p}, posting'[q] # Nothing, posting'[q].follows
      PROVE  SlugAt(q)' \in followed'
  <2>1. SamePost(q)
    BY PosterMoves
  <2>2. /\ posting[q] # Nothing
        /\ posting'[q].stream = posting[q].stream
        /\ posting'[q].follows = posting[q].follows
    BY <1>1, <1>4, <2>1 DEF SamePost, Posts
  <2> QED
    BY <1>3, <1>4, <2>2
<1>5. ASSUME posting'[p] # Nothing, posting'[p].follows
      PROVE  SlugAt(p)' \in followed'
  <2>1. ASSUME NEW next, Advance(p, next), posting[p] # Nothing,
               next.stream = posting[p].stream, next.follows = posting[p].follows
        PROVE  SlugAt(p)' \in followed'
    <3>1. posting'[p] = next
      BY <2>1 DEF Advance
    <3> QED
      BY <1>3, <1>5, <2>1, <3>1
  <2>2. CASE CreateMeta(p) \/ UpdateMeta(p)
    <3>1. posting[p] # Nothing /\ posting[p] \in Posts
      BY <1>1, <2>2 DEF CreateMeta, UpdateMeta, At
    <3>2. PICK phase : Advance(p, [posting[p] EXCEPT !.phase = phase])
      BY <2>2 DEF CreateMeta, UpdateMeta
    <3> DEFINE next == [posting[p] EXCEPT !.phase = phase]
    <3>3. next.stream = posting[p].stream /\ next.follows = posting[p].follows
      BY <3>1 DEF Posts
    <3>4. Advance(p, next)
      BY <3>2
    <3> HIDE DEF next
    <3> QED
      BY <2>1, <3>1, <3>3, <3>4
  <2>3. ASSUME NEW t \in Tiers, CreateTier(p, t)
        PROVE  SlugAt(p)' \in followed'
    <3>1. posting[p] # Nothing /\ posting[p] \in Posts
      BY <1>1, <2>3 DEF CreateTier, At
    <3> DEFINE next == [posting[p] EXCEPT !.phase = "updateTier", !.tier = t]
    <3>2. next.stream = posting[p].stream /\ next.follows = posting[p].follows
      BY <3>1 DEF Posts
    <3>3. Advance(p, next)
      BY <2>3 DEF CreateTier
    <3> HIDE DEF next
    <3> QED
      BY <2>1, <3>1, <3>2, <3>3
  <2>4. CASE UpdateTier(p)
    <3>1. posting[p] # Nothing /\ posting[p] \in Posts
      BY <1>1, <2>4 DEF UpdateTier, At
    <3> DEFINE next == [posting[p] EXCEPT !.phase = "nextTier", !.tier = Nothing,
                          !.todo = posting[p].todo \ {posting[p].tier}]
    <3>2. next.stream = posting[p].stream /\ next.follows = posting[p].follows
      BY <3>1 DEF Posts
    <3>3. Advance(p, next)
      BY <2>4 DEF UpdateTier
    <3> HIDE DEF next
    <3> QED
      BY <2>1, <3>1, <3>2, <3>3
  <2>5. CASE FinishPost(p)
    <3>1. posting[p] # Nothing /\ posting[p] \in Posts
      BY <1>1, <2>5 DEF FinishPost, At
    <3>2. PICK follows \in BOOLEAN :
            /\ followed' = IF follows THEN followed \cup {SlugAt(p)} ELSE followed
            /\ posting' = [posting EXCEPT ![p] =
                 [posting[p] EXCEPT !.phase = "done", !.follows = follows]]
      BY <2>5 DEF FinishPost
    <3> DEFINE next == [posting[p] EXCEPT !.phase = "done", !.follows = follows]
    <3>3. next.stream = posting[p].stream /\ next.follows = follows
      BY <3>1 DEF Posts
    <3>4. posting' = [posting EXCEPT ![p] = next]
      BY <3>2
    <3> HIDE DEF next
    <3>5. posting'[p] = next
      BY <1>1, <3>4
    <3> QED
      BY <1>5, <3>2, <3>3, <3>5 DEF SlugAt
  <2>6. ASSUME NEW s \in Streams, NEW wallet \in Makers, NEW price \in Offers,
               NEW tiers \in TierLists, BeginPost(p, s, wallet, price, tiers)
        PROVE  ~posting'[p].follows
    BY <1>1, <2>6 DEF BeginPost
  <2>7. EndPost(p) => posting'[p] = Nothing
    BY <1>1 DEF EndPost
  <2> QED
    BY <1>5, <2>2, <2>3, <2>4, <2>5, <2>6, <2>7 DEF PosterStep
<1> QED
  BY <1>4, <1>5 DEF FollowsStand

LEMMA FollowsStep == DirectoryInv /\ FollowsStand /\ [Next]_vars => FollowsStand'
<1> SUFFICES ASSUME DirectoryInv, FollowsStand, [Next]_vars PROVE FollowsStand'
  OBVIOUS
<1>1. UNCHANGED <<followed, posting>> => FollowsStand'
  BY DEF FollowsStand, SlugAt
<1>2. RegistryStep \/ (\E s \in Streams : PostSignal(s)) \/ UNCHANGED vars =>
        UNCHANGED <<followed, posting>>
  BY DEF RegistryStep, PostSignal, vars, graphVars
<1>3. ASSUME NEW r \in Readers, ReaderStep(r) PROVE UNCHANGED <<followed, posting>>
  BY <1>3, ReaderMoves DEF graphVars
<1> QED
  BY <1>1, <1>2, <1>3, PosterFollows, NextCases

(* What a request has posted is visible, whatever other requests wrote      *)
(* before it or write under other slugs meanwhile, and with shared slugs:   *)
(* by its id while it is on the search page, and on the registry's list if  *)
(* the request's follow, whose failure the code ignores, went through.      *)
THEOREM PostedCorrect == Spec => []PostedIsVisible
<1>1. Init => WritesStand /\ FollowsStand
  BY DEF Init, WritesStand, FollowsStand
<1>2. DirectoryInv /\ WritesStand /\ FollowsStand => PostedIsVisible
  <2> SUFFICES ASSUME DirectoryInv, WritesStand, FollowsStand, NEW p \in Posters,
                      Confirmed(p), NoTierLeftOver(p)
               PROVE  /\ NewerContents(posting[p].stream) < SearchPage => FoundById(p)
                      /\ posting[p].follows => OnList(p)
    BY DEF PostedIsVisible
  <2>1. /\ posting[p] # Nothing /\ posting[p] \in Posts /\ posting[p].phase = "done"
        /\ posting[p].alone
    BY DEF Confirmed, At, DirectoryInv, TypeOK
  <2>2. /\ meta[SlugAt(p)] = MetaOf(p)
        /\ \A t \in Listed(posting[p].tiers) : tierContent[SlugAt(p)][t] = TierOf(p, t)
    BY <2>1 DEF WritesStand, WrittenSoFar
  <2>3. StoredTiers(SlugAt(p)) = posting[p].tiers
    <3>1. posting[p].tiers \in [Tiers -> Offers \cup {NoOffer}]
      BY <2>1 DEF Posts, TierLists
    <3>2. \A t \in Tiers : StoredTiers(SlugAt(p))[t] = posting[p].tiers[t]
      <4> TAKE t \in Tiers
      <4>1. CASE t \in Listed(posting[p].tiers)
        <5>1. TierOf(p, t) # NoContent
          BY <2>1, <4>1, TierWrite, NothingAssumption DEF Listed, DirectoryInv
        <5>2. TierOf(p, t).offer = posting[p].tiers[t]
          BY DEF TierOf
        <5> QED
          BY <2>2, <4>1, <5>1, <5>2 DEF StoredTiers
      <4>2. CASE t \notin Listed(posting[p].tiers)
        BY <4>2 DEF NoTierLeftOver, StoredTiers, Listed
      <4> QED
        BY <4>1, <4>2
    <3> QED
      BY <3>1, <3>2 DEF StoredTiers
  <2>4. ProfileOf(meta[SlugAt(p)], SlugAt(p)).stream = posting[p].stream
        /\ ProfileOf(meta[SlugAt(p)], SlugAt(p)).tiers = posting[p].tiers
    BY <2>2, <2>3 DEF ProfileOf, MetaOf
  <2>5. Described(p)
    BY <2>2, <2>4 DEF Described, Accepted, Confirmed
  <2>6. meta[SlugOf[posting[p].stream]] # NoContent /\ MetaOf(p).stream = posting[p].stream
    <3>1. MetaOf(p) \in Metas
      BY <2>1 DEF MetaOf, Metas, Posts
    <3> QED
      BY <2>2, <3>1, NothingAssumption DEF SlugAt, MetaOf
  <2>7. NewerContents(posting[p].stream) < SearchPage => SearchFinds(posting[p].stream)
    BY <2>2, <2>6 DEF SearchFinds, SlugAt
  <2>8. posting[p].follows => SlugAt(p) \in followed
    BY <2>1 DEF FollowsStand
  <2> QED
    BY <2>5, <2>7, <2>8 DEF FoundById, OnList
<1> QED
  BY <1>1, <1>2, DirectoryInvInit, DirectoryInvStep, WritesStep, FollowsStep, PTL DEF Spec

-----------------------------------------------------------------------------
(* Public streams are shown with free prices, when no two ids share a slug. *)

DistinctSlugs == \A s, u \in Streams : SlugOf[s] = SlugOf[u] => s = u

Public(s) == streamConfig[s] # NoAccount /\ streamConfig[s].visibility = "public"
FreePrice(x) == Public(x.stream) => x.price \in FreeOffers
FreeTiers(x) == Public(x.stream) => \A t \in Listed(x.tiers) : x.tiers[t] \in FreeOffers
FreeOffer(x) == Public(x.stream) => x.offer \in FreeOffers
Under(g, x) == SlugOf[x.stream] = g

MetasFree == \A g \in Slugs : meta[g] # NoContent => Under(g, meta[g]) /\ FreePrice(meta[g])
TiersFree ==
  \A g \in Slugs, t \in Tiers : tierContent[g][t] # NoContent =>
    /\ Under(g, tierContent[g][t]) /\ FreeOffer(tierContent[g][t])
    /\ StreamExists(tierContent[g][t].stream)
PostsFree == \A p \in Posters : posting[p] # Nothing => FreePrice(posting[p]) /\ FreeTiers(posting[p])
LookupFree(lookup) ==
  /\ \A g \in Slugs : lookup.got[g] # NoContent => Under(g, lookup.got[g]) /\ FreePrice(lookup.got[g])
  /\ \A profile \in lookup.profiles : FreePrice(profile) /\ FreeTiers(profile)
LookupsFree == \A r \in Readers : reading[r] # Nothing => LookupFree(reading[r])

FreeInv == MetasFree /\ TiersFree /\ PostsFree /\ LookupsFree /\ PublicIsFree

(* Registering, repricing and pausing a stream make nothing public that     *)
(* has a description, a request or a lookup.                                *)
LEMMA RegistryFree ==
  ASSUME DirectoryInv, FreeInv, RegistryStep
  PROVE  FreeInv'
<1> USE DEF DirectoryInv, TypeOK
<1>1. UNCHANGED <<meta, tierContent, posting, reading, answer>>
  BY DEF RegistryStep, graphVars
<1>2. ASSUME NEW s \in Streams, StreamExists(s), Public(s)' PROVE Public(s)
  BY <1>2, RegistryKeeps DEF Kept, Public, StreamExists
<1>3. ASSUME NEW x, x.stream \in Streams, StreamExists(x.stream)
      PROVE  /\ FreePrice(x) => FreePrice(x)'
             /\ FreeTiers(x) => FreeTiers(x)'
             /\ FreeOffer(x) => FreeOffer(x)'
  <2>1. Public(x.stream)' => Public(x.stream)
    BY <1>2, <1>3
  <2> QED
    BY <2>1 DEF FreePrice, FreeTiers, FreeOffer, Listed
<1>4. MetasFree'
  <2>1. \A g \in Slugs : meta[g] # NoContent => meta[g].stream \in Streams /\ StreamExists(meta[g].stream)
    BY DEF OwnersVouched, Vouched, Metas
  <2> QED
    BY <1>1, <1>3, <2>1 DEF FreeInv, MetasFree, Under
<1>5. TiersFree'
  <2>1. \A g \in Slugs, t \in Tiers : tierContent[g][t] # NoContent =>
          tierContent[g][t].stream \in Streams /\ StreamExists(tierContent[g][t].stream)
    BY DEF FreeInv, TiersFree, TierContents
  <2>2. \A s \in Streams : StreamExists(s) => StreamExists(s)'
    BY RegistryKeeps DEF Kept, StreamExists
  <2> QED
    BY <1>1, <1>3, <2>1, <2>2 DEF FreeInv, TiersFree, Under
<1>6. PostsFree'
  <2>1. \A p \in Posters : posting[p] # Nothing =>
          posting[p].stream \in Streams /\ StreamExists(posting[p].stream)
    BY DEF OwnersVouched, Vouched, Posts
  <2> QED
    BY <1>1, <1>3, <2>1 DEF FreeInv, PostsFree
<1>7. LookupsFree'
  <2>1. \A r \in Readers : reading[r] # Nothing =>
          /\ \A g \in Slugs : reading[r].got[g] # NoContent =>
               reading[r].got[g].stream \in Streams /\ StreamExists(reading[r].got[g].stream)
          /\ \A profile \in reading[r].profiles :
               profile.stream \in Streams /\ StreamExists(profile.stream)
    BY DEF OwnersVouched, Vouched, Lookups, Metas, Profiles
  <2> QED
    BY <1>1, <1>3, <2>1 DEF FreeInv, LookupsFree, LookupFree, Under
<1>8. PublicIsFree'
  BY <1>1 DEF FreeInv, PublicIsFree, Listed
<1> QED
  BY <1>4, <1>5, <1>6, <1>7, <1>8 DEF FreeInv

LEMMA PosterFree ==
  ASSUME DirectoryInv, FreeInv, NEW p \in Posters, PosterStep(p)
  PROVE  FreeInv'
<1> USE DEF DirectoryInv, TypeOK
<1>1. UNCHANGED <<streamConfig, reading, answer>>
  BY PosterMoves
<1>2. ASSUME posting[p] # Nothing
      PROVE  /\ SlugAt(p) \in Slugs
             /\ Under(SlugAt(p), MetaOf(p)) /\ FreePrice(MetaOf(p))
             /\ \A t \in Listed(posting[p].tiers) :
                  /\ Under(SlugAt(p), TierOf(p, t)) /\ FreeOffer(TierOf(p, t))
                  /\ StreamExists(TierOf(p, t).stream)
  <2>1. posting[p] \in Posts /\ StreamExists(posting[p].stream)
    BY <1>2 DEF OwnersVouched, Vouched
  <2>2. FreePrice(posting[p]) /\ FreeTiers(posting[p])
    BY <1>2 DEF FreeInv, PostsFree
  <2> QED
    BY <2>1, <2>2, DiscoveryAssumption
    DEF SlugAt, MetaOf, TierOf, Under, FreePrice, FreeTiers, FreeOffer, Posts
<1>3. PostsFree'
  <2> SUFFICES ASSUME NEW q \in Posters, posting'[q] # Nothing
               PROVE  FreePrice(posting'[q]) /\ FreeTiers(posting'[q])
    BY <1>1 DEF PostsFree, FreePrice, FreeTiers, Public, Listed
  <2>1. ASSUME posting[q] # Nothing, SameOffer(posting'[q], posting[q])
        PROVE  FreePrice(posting'[q]) /\ FreeTiers(posting'[q])
    BY <2>1 DEF FreeInv, PostsFree, FreePrice, FreeTiers, SameOffer
  <2>2. ASSUME NEW s \in Streams, NEW wallet \in Makers, NEW price \in Offers, NEW tiers \in TierLists,
               BeginPost(p, s, wallet, price, tiers),
               posting'[p].stream = s, posting'[p].price = price, posting'[p].tiers = tiers
        PROVE  FreePrice(posting'[p]) /\ FreeTiers(posting'[p])
    BY <2>2 DEF BeginPost, FreeIfPublic, FreePrice, FreeTiers, Public
  <2>3. CASE q # p
    BY <2>1, <2>3, LeftAlone
  <2>4. CASE q = p
    BY <2>1, <2>2, <2>4, QuietSteps, MetaWrites, TierWrites
  <2> QED
    BY <2>3, <2>4
<1>4. MetasFree'
  <2>1. ASSUME CreateMeta(p) \/ UpdateMeta(p) PROVE MetasFree'
    <3>1. /\ posting[p] # Nothing
          /\ meta'[SlugAt(p)] \in {meta[SlugAt(p)], MetaOf(p)}
          /\ \A g \in Slugs \ {SlugAt(p)} : meta'[g] = meta[g]
      BY <2>1, MetaWrites
    <3>2. \A g \in Slugs : meta'[g] # NoContent => Under(g, meta'[g]) /\ FreePrice(meta'[g])
      BY <1>2, <3>1 DEF FreeInv, MetasFree
    <3> QED
      BY <1>1, <3>2 DEF MetasFree, Under, FreePrice, Public
  <2>2. ASSUME UNCHANGED meta PROVE MetasFree'
    BY <1>1, <2>2 DEF FreeInv, MetasFree, Under, FreePrice, Public
  <2> QED
    BY <2>1, <2>2, QuietSteps, TierWrites
<1>5. TiersFree'
  <2>1. ASSUME (\E t \in Tiers : CreateTier(p, t)) \/ UpdateTier(p) PROVE TiersFree'
    <3>1. PICK t \in Listed(posting[p].tiers) :
            /\ tierContent'[SlugAt(p)][t] \in {tierContent[SlugAt(p)][t], TierOf(p, t)}
            /\ \A g \in Slugs, u \in Tiers :
                 g # SlugAt(p) \/ u # t => tierContent'[g][u] = tierContent[g][u]
      BY <2>1, TierWrites
    <3>2. posting[p] # Nothing /\ t \in Tiers
      BY <2>1, TierWrites DEF Listed
    <3>3. ASSUME NEW g \in Slugs, NEW u \in Tiers, tierContent'[g][u] # NoContent
          PROVE  /\ Under(g, tierContent'[g][u]) /\ FreeOffer(tierContent'[g][u])
                 /\ StreamExists(tierContent'[g][u].stream)
      <4>1. CASE tierContent'[g][u] = tierContent[g][u]
        BY <3>3, <4>1 DEF FreeInv, TiersFree
      <4>2. CASE tierContent'[g][u] # tierContent[g][u]
        BY <1>2, <3>1, <3>2, <4>2
      <4> QED
        BY <4>1, <4>2
    <3> QED
      BY <1>1, <3>3 DEF TiersFree, Under, FreeOffer, Public, StreamExists
  <2>2. ASSUME UNCHANGED tierContent PROVE TiersFree'
    BY <1>1, <2>2 DEF FreeInv, TiersFree, Under, FreeOffer, Public, StreamExists
  <2> QED
    BY <2>1, <2>2, QuietSteps, MetaWrites
<1>6. LookupsFree' /\ PublicIsFree'
  BY <1>1 DEF FreeInv, LookupsFree, LookupFree, PublicIsFree, Under, FreePrice, FreeTiers, Public, Listed
<1> QED
  BY <1>3, <1>4, <1>5, <1>6 DEF FreeInv

(* A profile is put together from contents of one stream.                   *)
LEMMA ProfileFree ==
  ASSUME DistinctSlugs, DirectoryInv, FreeInv, NEW g \in Slugs, NEW m \in Metas,
         Under(g, m), FreePrice(m)
  PROVE  FreePrice(ProfileOf(m, g)) /\ FreeTiers(ProfileOf(m, g))
<1>1. /\ ProfileOf(m, g).stream = m.stream /\ ProfileOf(m, g).price = m.price
      /\ ProfileOf(m, g).tiers = StoredTiers(g)
  BY DEF ProfileOf
<1>2. ASSUME Public(m.stream), NEW t \in Listed(StoredTiers(g))
      PROVE  StoredTiers(g)[t] \in FreeOffers
  <2>1. /\ t \in Tiers /\ tierContent[g][t] # NoContent
        /\ StoredTiers(g)[t] = tierContent[g][t].offer
    BY DEF Listed, StoredTiers
  <2>2. tierContent[g][t].stream = m.stream
    BY <2>1 DEF FreeInv, TiersFree, Under, DistinctSlugs, DirectoryInv, TypeOK, TierContents, Metas
  <2> QED
    BY <1>2, <2>1, <2>2 DEF FreeInv, TiersFree, FreeOffer
<1> QED
  BY <1>1, <1>2 DEF FreePrice, FreeTiers

LEMMA LookupStaysFree ==
  ASSUME DistinctSlugs, DirectoryInv, FreeInv, NEW r \in Readers, ReaderStep(r),
         reading'[r] # Nothing
  PROVE  LookupFree(reading'[r])
<1> USE DEF DirectoryInv
<1>0. reading[r] # Nothing => reading[r] \in Lookups /\ LookupFree(reading[r])
  BY DEF TypeOK, FreeInv, LookupsFree
<1>1. ASSUME NEW want \in Streams \cup {AllStreams}, BeginLookup(r, want)
      PROVE  LookupFree(reading'[r])
  <2>1. reading'[r] = [phase |-> IF want = AllStreams THEN "list" ELSE "search",
                       want |-> want, metas |-> {},
                       got |-> [g \in Slugs |-> NoContent], profiles |-> {}]
    BY <1>1 DEF BeginLookup, TypeOK
  <2>2. (\A g \in Slugs : reading'[r].got[g] = NoContent) /\ reading'[r].profiles = {}
    BY <2>1
  <2> QED
    BY <2>2 DEF LookupFree
<1>2. CASE Search(r) \/ ListFollowed(r)
  <2>1. reading[r] \in Lookups /\ LookupFree(reading[r])
    BY <1>0, <1>2 DEF Search, ListFollowed, In
  <2>2. PICK phase, metas :
          \/ reading'[r] = [reading[r] EXCEPT !.phase = phase, !.metas = metas]
          \/ reading'[r] = [reading[r] EXCEPT !.phase = phase]
    <3>1. CASE Search(r)
      BY <3>1 DEF Search, TypeOK
    <3>2. CASE ListFollowed(r)
      <4>1. PICK page \in SUBSET followed :
              reading'[r] = [reading[r] EXCEPT !.phase = "fetchListed", !.metas = page]
        BY <3>2 DEF ListFollowed, TypeOK
      <4> QED
        BY <4>1
    <3> QED
      BY <1>2, <3>1, <3>2
  <2>3. reading'[r].got = reading[r].got /\ reading'[r].profiles = reading[r].profiles
    BY <2>1, <2>2 DEF Lookups
  <2> QED
    BY <2>1, <2>3 DEF LookupFree
<1>3. ASSUME NEW g \in Slugs, ReadMeta(r, g)
      PROVE  LookupFree(reading'[r])
  <2>1. reading[r] \in Lookups /\ LookupFree(reading[r])
    BY <1>0, <1>3 DEF ReadMeta, Fetching, In
  <2>2. reading'[r] = [reading[r] EXCEPT !.metas = reading[r].metas \ {g},
                         !.got = [reading[r].got EXCEPT ![g] = meta[g]]]
    BY <1>3 DEF ReadMeta, TypeOK
  <2>3. /\ reading'[r].got = [reading[r].got EXCEPT ![g] = meta[g]]
        /\ reading'[r].profiles = reading[r].profiles
    BY <2>1, <2>2 DEF Lookups
  <2>4. reading[r].got \in [Slugs -> Metas \cup {NoContent}]
    BY <2>1 DEF Lookups
  <2>5. meta[g] # NoContent => Under(g, meta[g]) /\ FreePrice(meta[g])
    BY DEF FreeInv, MetasFree
  <2>6. \A h \in Slugs : reading'[r].got[h] # NoContent =>
          Under(h, reading'[r].got[h]) /\ FreePrice(reading'[r].got[h])
    BY <2>1, <2>3, <2>4, <2>5 DEF LookupFree
  <2> QED
    BY <2>1, <2>3, <2>6 DEF LookupFree
<1>4. ASSUME NEW g \in Slugs, ReadTiers(r, g)
      PROVE  LookupFree(reading'[r])
  <2>1. reading[r] \in Lookups /\ LookupFree(reading[r]) /\ reading[r].got[g] # NoContent
    BY <1>0, <1>4 DEF ReadTiers, Fetching, In
  <2>2. reading[r].got \in [Slugs -> Metas \cup {NoContent}] /\ reading[r].got[g] \in Metas
    BY <2>1 DEF Lookups
  <2> DEFINE profile == ProfileOf(reading[r].got[g], g)
  <2>3. reading'[r] = [reading[r] EXCEPT
          !.got = [reading[r].got EXCEPT ![g] = NoContent],
          !.profiles = reading[r].profiles \cup {profile}]
    BY <1>4 DEF ReadTiers, TypeOK
  <2>4. FreePrice(profile) /\ FreeTiers(profile)
    BY <2>1, <2>2, ProfileFree DEF LookupFree
  <2> HIDE DEF profile
  <2>5. /\ reading'[r].got = [reading[r].got EXCEPT ![g] = NoContent]
        /\ reading'[r].profiles = reading[r].profiles \cup {profile}
    BY <2>1, <2>3 DEF Lookups
  <2>6. \A h \in Slugs : reading'[r].got[h] # NoContent =>
          Under(h, reading'[r].got[h]) /\ FreePrice(reading'[r].got[h])
    BY <2>1, <2>2, <2>5 DEF LookupFree
  <2> QED
    BY <2>1, <2>4, <2>5, <2>6 DEF LookupFree
<1>5. Answer(r) \/ FailLookup(r) => reading'[r] = Nothing
  BY DEF Answer, FailLookup, TypeOK
<1> QED
  BY <1>1, <1>2, <1>3, <1>4, <1>5 DEF ReaderStep

(* Only an answer shows anything, and it shows what was put together.       *)
LEMMA AnswerFree ==
  ASSUME DistinctSlugs, DirectoryInv, FreeInv, NEW r \in Readers, ReaderStep(r)
  PROVE  PublicIsFree'
<1> USE DEF DirectoryInv
<1>1. CASE UNCHANGED answer
  BY <1>1 DEF FreeInv, PublicIsFree, Listed
<1>2. CASE Answer(r)
  <2>1. reading[r] # Nothing /\ LookupFree(reading[r])
    BY <1>2 DEF Answer, Fetching, In, FreeInv, LookupsFree
  <2> DEFINE listings == {Listing(q) : q \in {q \in Wanted(r) : Accepted(q)}}
  <2>2. answer' = [answer EXCEPT ![r] = listings]
    BY <1>2 DEF Answer
  <2>3. ASSUME NEW l \in listings, l.visibility = "public"
        PROVE  l.price \in FreeOffers /\ \A t \in Listed(l.tiers) : l.tiers[t] \in FreeOffers
    <3>1. PICK profile \in Wanted(r) : Accepted(profile) /\ l = Listing(profile)
      OBVIOUS
    <3>2. profile \in reading[r].profiles
      BY <2>1, WantedProfiles
    <3>3. /\ l.price = profile.price /\ l.tiers = profile.tiers
          /\ streamConfig[profile.stream].visibility = "public"
      BY <2>3, <3>1 DEF Listing
    <3>4. Public(profile.stream)
      BY <3>1, <3>3 DEF Public, Accepted, StreamActive, StreamExists
    <3> QED
      BY <2>1, <3>2, <3>3, <3>4 DEF LookupFree, FreePrice, FreeTiers
  <2> HIDE DEF listings
  <2>4. \A q \in Readers : answer'[q] = IF q = r THEN listings ELSE answer[q]
    BY <2>2 DEF TypeOK
  <2> QED
    BY <2>3, <2>4 DEF FreeInv, PublicIsFree, Listed
<1> QED
  BY <1>1, <1>2 DEF ReaderStep, BeginLookup, Search, ListFollowed, ReadMeta, ReadTiers, FailLookup

LEMMA FreeStep == DistinctSlugs /\ DirectoryInv /\ FreeInv /\ [Next]_vars => FreeInv'
<1> SUFFICES ASSUME DistinctSlugs, DirectoryInv, FreeInv, [Next]_vars PROVE FreeInv'
  OBVIOUS
<1>1. ASSUME UNCHANGED <<streamConfig, meta, tierContent, posting, reading, answer>> PROVE FreeInv'
  BY <1>1 DEF FreeInv, MetasFree, TiersFree, PostsFree, LookupsFree, LookupFree, PublicIsFree,
     Under, FreePrice, FreeTiers, FreeOffer, Public, StreamExists, Listed
<1>2. (\E s \in Streams : PostSignal(s)) \/ UNCHANGED vars =>
        UNCHANGED <<streamConfig, meta, tierContent, posting, reading, answer>>
  BY DEF PostSignal, vars, graphVars, registryVars
<1>3. ASSUME NEW r \in Readers, ReaderStep(r) PROVE FreeInv'
  <2>1. /\ UNCHANGED <<streamConfig, meta, tierContent, posting>>
        /\ \A q \in Readers \ {r} : reading'[q] = reading[q]
    BY <1>3, ReaderMoves DEF graphVars
  <2>2. \A q \in Readers : reading'[q] # Nothing => LookupFree(reading'[q])
    BY <1>3, <2>1, LookupStaysFree DEF FreeInv, LookupsFree
  <2>3. LookupsFree'
    BY <2>1, <2>2 DEF LookupsFree, LookupFree, Under, FreePrice, FreeTiers, Public, Listed
  <2>4. PublicIsFree'
    BY <1>3, AnswerFree
  <2>5. MetasFree' /\ TiersFree' /\ PostsFree'
    BY <2>1 DEF FreeInv, MetasFree, TiersFree, PostsFree, Under, FreePrice, FreeTiers, FreeOffer,
       Public, StreamExists, Listed
  <2> QED
    BY <2>3, <2>4, <2>5 DEF FreeInv
<1> QED
  BY <1>1, <1>2, <1>3, NextCases, RegistryFree, PosterFree

(* When no two ids share a slug, a stream that is public on chain is only   *)
(* ever shown with free prices, its own and every tier's.                   *)
THEOREM PublicCorrect ==
  ASSUME DistinctSlugs PROVE Spec => []PublicIsFree
<1>1. Init => FreeInv
  BY DEF Init, FreeInv, MetasFree, TiersFree, PostsFree, LookupsFree, PublicIsFree
<1>2. FreeInv => PublicIsFree
  BY DEF FreeInv
<1>3. DirectoryInv /\ FreeInv /\ [Next]_vars => FreeInv'
  BY FreeStep
<1> QED
  BY <1>1, <1>2, <1>3, DirectoryInvInit, DirectoryInvStep, PTL DEF Spec

-----------------------------------------------------------------------------
(* An answer is of the stream that was asked for, when no two ids share a   *)
(* slug.                                                                    *)

(* A lookup begins with nothing, and one that searches reads, under the     *)
(* slug of what it was asked for, contents of streams with that slug.       *)
SearchOfOne(lookup) ==
  /\ lookup.phase = "search" =>
       /\ lookup.profiles = {}
       /\ \A g \in Slugs : lookup.got[g] = NoContent
  /\ lookup.phase = "fetchFound" =>
       /\ lookup.want \in Streams
       /\ lookup.metas \subseteq {SlugOf[lookup.want]}
       /\ \A g \in Slugs : lookup.got[g] # NoContent => g = SlugOf[lookup.want]
       /\ \A profile \in lookup.profiles : SlugOf[profile.stream] = SlugOf[lookup.want]

FindsWhatIsWanted == \A r \in Readers : reading[r] # Nothing => SearchOfOne(reading[r])

LEMMA LookupFinds ==
  ASSUME DistinctSlugs, DirectoryInv, FreeInv, FindsWhatIsWanted,
         NEW r \in Readers, ReaderStep(r), reading'[r] # Nothing
  PROVE  SearchOfOne(reading'[r])
<1> USE DEF DirectoryInv
<1>0. reading[r] # Nothing =>
        /\ reading[r] \in Lookups /\ SearchOfOne(reading[r]) /\ LookupFree(reading[r])
        /\ reading[r].phase = "search" => reading[r].want \in Streams
  BY DEF TypeOK, FindsWhatIsWanted, FreeInv, LookupsFree, SearchesOne, In
<1>1. ASSUME NEW want \in Streams \cup {AllStreams}, BeginLookup(r, want)
      PROVE  SearchOfOne(reading'[r])
  <2>1. reading'[r] = [phase |-> IF want = AllStreams THEN "list" ELSE "search",
                       want |-> want, metas |-> {},
                       got |-> [g \in Slugs |-> NoContent], profiles |-> {}]
    BY <1>1 DEF BeginLookup, TypeOK
  <2>2. /\ \A g \in Slugs : reading'[r].got[g] = NoContent
        /\ reading'[r].profiles = {}
        /\ reading'[r].phase # "fetchFound"
    BY <2>1
  <2> QED
    BY <2>2 DEF SearchOfOne
<1>2. CASE Search(r)
  <2>1. /\ reading[r] \in Lookups /\ SearchOfOne(reading[r])
        /\ reading[r].phase = "search" /\ reading[r].want \in Streams
    BY <1>0, <1>2 DEF Search, In
  <2>2. \/ reading'[r] = [reading[r] EXCEPT !.phase = "fetchFound", !.metas = {SlugOf[reading[r].want]}]
        \/ reading'[r] = [reading[r] EXCEPT !.phase = "list"]
    BY <1>2 DEF Search, TypeOK
  <2>3. /\ reading'[r].got = reading[r].got /\ reading'[r].profiles = reading[r].profiles
        /\ reading'[r].want = reading[r].want
        /\ reading'[r].phase \in {"fetchFound", "list"}
        /\ reading'[r].phase = "fetchFound" => reading'[r].metas = {SlugOf[reading[r].want]}
    BY <2>1, <2>2 DEF Lookups
  <2> QED
    BY <2>1, <2>3 DEF SearchOfOne
<1>3. CASE ListFollowed(r)
  <2>1. reading[r] \in Lookups
    BY <1>0, <1>3 DEF ListFollowed, In
  <2>2. PICK page \in SUBSET followed :
          reading'[r] = [reading[r] EXCEPT !.phase = "fetchListed", !.metas = page]
    BY <1>3 DEF ListFollowed, TypeOK
  <2>3. reading'[r].phase = "fetchListed"
    BY <2>1, <2>2 DEF Lookups
  <2> QED
    BY <2>3 DEF SearchOfOne
<1>4. ASSUME NEW g \in Slugs, ReadMeta(r, g)
      PROVE  SearchOfOne(reading'[r])
  <2>1. /\ reading[r] \in Lookups /\ SearchOfOne(reading[r])
        /\ reading[r].phase \in {"fetchFound", "fetchListed"} /\ g \in reading[r].metas
    BY <1>0, <1>4 DEF ReadMeta, Fetching, In
  <2>2. reading'[r] = [reading[r] EXCEPT !.metas = reading[r].metas \ {g},
                         !.got = [reading[r].got EXCEPT ![g] = meta[g]]]
    BY <1>4 DEF ReadMeta, TypeOK
  <2>3. /\ reading'[r].got = [reading[r].got EXCEPT ![g] = meta[g]]
        /\ reading'[r].metas = reading[r].metas \ {g}
        /\ reading'[r].profiles = reading[r].profiles
        /\ reading'[r].want = reading[r].want /\ reading'[r].phase = reading[r].phase
        /\ reading[r].got \in [Slugs -> Metas \cup {NoContent}]
    BY <2>1, <2>2 DEF Lookups
  <2> QED
    BY <2>1, <2>3 DEF SearchOfOne
<1>5. ASSUME NEW g \in Slugs, ReadTiers(r, g)
      PROVE  SearchOfOne(reading'[r])
  <2>1. /\ reading[r] \in Lookups /\ SearchOfOne(reading[r]) /\ LookupFree(reading[r])
        /\ reading[r].phase \in {"fetchFound", "fetchListed"} /\ reading[r].got[g] # NoContent
    BY <1>0, <1>5 DEF ReadTiers, Fetching, In
  <2> DEFINE profile == ProfileOf(reading[r].got[g], g)
  <2>2. reading'[r] = [reading[r] EXCEPT
          !.got = [reading[r].got EXCEPT ![g] = NoContent],
          !.profiles = reading[r].profiles \cup {profile}]
    BY <1>5 DEF ReadTiers, TypeOK
  <2>3. profile.stream = reading[r].got[g].stream
    BY DEF ProfileOf
  <2>4. SlugOf[profile.stream] = g
    BY <2>1, <2>3 DEF LookupFree, Under
  <2> HIDE DEF profile
  <2>5. /\ reading'[r].got = [reading[r].got EXCEPT ![g] = NoContent]
        /\ reading'[r].profiles = reading[r].profiles \cup {profile}
        /\ reading'[r].metas = reading[r].metas
        /\ reading'[r].want = reading[r].want /\ reading'[r].phase = reading[r].phase
        /\ reading[r].got \in [Slugs -> Metas \cup {NoContent}]
    BY <2>1, <2>2 DEF Lookups
  <2> QED
    BY <2>1, <2>4, <2>5 DEF SearchOfOne
<1>6. Answer(r) \/ FailLookup(r) => reading'[r] = Nothing
  BY DEF Answer, FailLookup, TypeOK
<1> QED
  BY <1>1, <1>2, <1>3, <1>4, <1>5, <1>6 DEF ReaderStep

LEMMA FindsStep ==
  DistinctSlugs /\ DirectoryInv /\ FreeInv /\ FindsWhatIsWanted /\ [Next]_vars =>
    FindsWhatIsWanted'
<1> SUFFICES ASSUME DistinctSlugs, DirectoryInv, FreeInv, FindsWhatIsWanted, [Next]_vars
             PROVE  FindsWhatIsWanted'
  OBVIOUS
<1>1. ASSUME UNCHANGED reading PROVE FindsWhatIsWanted'
  BY <1>1 DEF FindsWhatIsWanted, SearchOfOne
<1>2. RegistryStep \/ (\E s \in Streams : PostSignal(s)) \/ UNCHANGED vars => UNCHANGED reading
  BY DEF RegistryStep, PostSignal, vars
<1>3. ASSUME NEW p \in Posters, PosterStep(p) PROVE UNCHANGED reading
  BY <1>3, PosterMoves DEF DirectoryInv
<1>4. ASSUME NEW r \in Readers, ReaderStep(r) PROVE FindsWhatIsWanted'
  <2>1. \A q \in Readers \ {r} : reading'[q] = reading[q]
    BY <1>4, ReaderMoves
  <2> SUFFICES ASSUME NEW q \in Readers, reading'[q] # Nothing PROVE SearchOfOne(reading'[q])
    BY DEF FindsWhatIsWanted, SearchOfOne
  <2>2. CASE q = r
    BY <1>4, <2>2, LookupFinds
  <2>3. CASE q # r
    BY <2>1, <2>3 DEF FindsWhatIsWanted
  <2> QED
    BY <2>2, <2>3
<1> QED
  BY <1>1, <1>2, <1>3, <1>4, NextCases

(* Whatever was being written between the search, the fetches and the       *)
(* answer, when no two ids share a slug an answer is of the stream that was *)
(* asked for.                                                               *)
THEOREM AskedCorrect ==
  ASSUME DistinctSlugs PROVE Spec => AnswersWhatWasAsked
<1> DEFINE Asked(r) == \A l \in answer'[r] : l.stream = reading[r].want
<1>1. Init => FindsWhatIsWanted /\ FreeInv
  BY DEF Init, FindsWhatIsWanted, FreeInv, MetasFree, TiersFree, PostsFree, LookupsFree, PublicIsFree
<1>2. DirectoryInv /\ FreeInv /\ [Next]_vars => FreeInv'
  BY FreeStep
<1>3. DirectoryInv /\ FreeInv /\ FindsWhatIsWanted /\ [Next]_vars => FindsWhatIsWanted'
  BY FindsStep
<1>4. ASSUME DirectoryInv, FindsWhatIsWanted, NEW r \in Readers, Answer(r),
             reading[r].want # AllStreams
      PROVE  Asked(r)
  <2>1. /\ reading[r] # Nothing /\ reading[r] \in Lookups /\ SearchOfOne(reading[r])
        /\ reading[r].phase \in {"fetchFound", "fetchListed"}
    BY <1>4 DEF Answer, Fetching, In, FindsWhatIsWanted, DirectoryInv, TypeOK
  <2>2. answer'[r] = {Listing(q) : q \in {q \in Wanted(r) : Accepted(q)}}
    BY <1>4 DEF Answer, DirectoryInv, TypeOK
  <2>3. ASSUME NEW q \in Wanted(r) PROVE q.stream = reading[r].want
    <3>1. CASE reading[r].phase = "fetchFound"
      <4>1. q \in reading[r].profiles
        BY <1>4, <2>1, <2>3, WantedProfiles DEF DirectoryInv
      <4>2. q \in Profiles
        BY <2>1, <4>1 DEF Lookups
      <4> QED
        BY <2>1, <3>1, <4>1, <4>2 DEF SearchOfOne, DistinctSlugs, Profiles
    <3>2. CASE reading[r].phase = "fetchListed"
      BY <1>4, <2>3, <3>2 DEF Wanted, In
    <3> QED
      BY <2>1, <3>1, <3>2
  <2>4. \A q : Listing(q).stream = q.stream
    BY DEF Listing
  <2> QED
    BY <2>2, <2>3, <2>4
<1>5. ASSUME DirectoryInv, FindsWhatIsWanted, [Next]_vars, NEW r \in Readers,
             answer'[r] # answer[r], reading[r].want # AllStreams
      PROVE  Asked(r)
  <2>1. RegistryStep \/ (\E s \in Streams : PostSignal(s)) \/ UNCHANGED vars => UNCHANGED answer
    BY DEF RegistryStep, PostSignal, vars
  <2>2. ASSUME NEW p \in Posters, PosterStep(p) PROVE UNCHANGED answer
    BY <2>2, PosterMoves, <1>5 DEF DirectoryInv
  <2>3. ASSUME NEW q \in Readers, ReaderStep(q) PROVE UNCHANGED answer \/ (q = r /\ Answer(r))
    <3>1. UNCHANGED answer \/ Answer(q)
      BY <2>3 DEF ReaderStep, BeginLookup, Search, ListFollowed, ReadMeta, ReadTiers, FailLookup
    <3>2. Answer(q) /\ q # r => answer'[r] = answer[r]
      BY <1>5 DEF Answer, DirectoryInv, TypeOK
    <3> QED
      BY <1>5, <3>1, <3>2
  <2> HIDE DEF Asked
  <2> QED
    BY <1>4, <1>5, <2>1, <2>2, <2>3, NextCases
<1>6. DirectoryInv /\ FindsWhatIsWanted /\ [Next]_vars =>
        [\A r \in Readers :
           answer'[r] # answer[r] /\ reading[r].want # AllStreams =>
             \A l \in answer'[r] : l.stream = reading[r].want]_vars
  BY <1>5
<1> QED
  BY <1>1, <1>2, <1>3, <1>6, DirectoryInvInit, DirectoryInvStep, PTL DEF Spec, AnswersWhatWasAsked
=============================================================================
