--------------------------- MODULE StreamRegistry ---------------------------
(***************************************************************************)
(* The on-chain stream registry: programs/stream_registry/src/lib.rs.      *)
(*                                                                         *)
(* One account per stream (StreamConfig), per stream and tier (TierConfig) *)
(* and per stream and publishing agent (PublisherDelegate).  The address   *)
(* of an account is derived from its keys (a PDA), so each table is a      *)
(* function from keys to an account or to NoAccount.  An instruction is    *)
(* atomic: it runs to its end or leaves no trace, so a failed check of the *)
(* code is a false guard here.                                             *)
(*                                                                         *)
(* The module has no specification of its own: SubscriptionRoyalty extends *)
(* it and runs both programs against the same accounts.                    *)
(***************************************************************************)
EXTENDS Integers

CONSTANTS
  Streams,        \* stream identifiers, one StreamConfig address each
  Makers,         \* wallets that may create streams
  Treasuries,     \* wallets a stream may name as its dao
  Agents,         \* wallets a maker may grant publishing to
  Tiers,          \* tier identifiers
  TiersHashes,    \* values of the 32-byte tiers_hash
  Visibilities,   \* values of the visibility byte
  Prices,         \* values of price_lamports
  Quotas,         \* values of quota and quota_remaining
  EvidenceLevels, \* values of evidence_level
  NoAccount       \* the address holds no account yet

(* NoAccount is told apart from every account the tables may hold. *)
StreamStatuses == {"Inactive", "Active", "Paused"}
TierStatuses == {"Inactive", "Active", "Paused"}
PricingTypes == {"SubscriptionLimited", "SubscriptionUnlimited", "PerSignal"}
PublisherStatuses == {"Revoked", "Active"}

StreamConfigs ==
  [authority : Makers, dao : Treasuries, tiersHash : TiersHashes,
   visibility : Visibilities, status : StreamStatuses]

TierConfigs ==
  [pricing : PricingTypes, evidence : EvidenceLevels, price : Prices,
   quota : Quotas, status : TierStatuses]

PublisherDelegates == [owner : Makers, status : PublisherStatuses]

ASSUME RegistryAssumption ==
  /\ Prices \subseteq Nat
  /\ NoAccount \notin StreamConfigs \cup TierConfigs \cup PublisherDelegates

VARIABLES
  streamConfig,      \* StreamConfig accounts by stream
  tierConfig,        \* TierConfig accounts by stream and tier
  publisherDelegate  \* PublisherDelegate accounts by stream and agent

registryVars == <<streamConfig, tierConfig, publisherDelegate>>

RegistryTypeOK ==
  /\ streamConfig \in [Streams -> StreamConfigs \cup {NoAccount}]
  /\ tierConfig \in [Streams -> [Tiers -> TierConfigs \cup {NoAccount}]]
  /\ publisherDelegate \in
       [Streams -> [Agents -> PublisherDelegates \cup {NoAccount}]]

RegistryInit ==
  /\ streamConfig = [s \in Streams |-> NoAccount]
  /\ tierConfig = [s \in Streams |-> [t \in Tiers |-> NoAccount]]
  /\ publisherDelegate = [s \in Streams |-> [a \in Agents |-> NoAccount]]

StreamExists(s) == streamConfig[s] # NoAccount

StreamActive(s) == StreamExists(s) /\ streamConfig[s].status = "Active"

(* has_one = authority: the signer is the wallet that created the stream. *)
SignedByAuthority(m, s) == StreamExists(s) /\ streamConfig[s].authority = m

DelegateExists(s, a) == publisherDelegate[s][a] # NoAccount

(* init: a stream id is taken by its first creator, for good. *)
CreateStream(m, s, hash, dao, visibility) ==
  /\ ~StreamExists(s)
  /\ streamConfig' = [streamConfig EXCEPT ![s] =
       [authority |-> m, dao |-> dao, tiersHash |-> hash,
        visibility |-> visibility, status |-> "Active"]]
  /\ UNCHANGED <<tierConfig, publisherDelegate>>

UpdateStream(m, s, hash, status) ==
  /\ SignedByAuthority(m, s)
  /\ streamConfig' = [streamConfig EXCEPT ![s] =
       [@ EXCEPT !.tiersHash = hash, !.status = status]]
  /\ UNCHANGED <<tierConfig, publisherDelegate>>

SetTiers(m, s, hash) ==
  /\ SignedByAuthority(m, s)
  /\ streamConfig' = [streamConfig EXCEPT ![s].tiersHash = hash]
  /\ UNCHANGED <<tierConfig, publisherDelegate>>

(* init_if_needed: the same instruction creates a tier and reprices it.  It *)
(* leaves tiers_hash alone: the two are brought together off chain.         *)
UpsertTier(m, s, t, pricing, evidence, price, quota, status) ==
  /\ SignedByAuthority(m, s)
  /\ pricing = "SubscriptionUnlimited"
  /\ tierConfig' = [tierConfig EXCEPT ![s][t] =
       [pricing |-> pricing, evidence |-> evidence, price |-> price,
        quota |-> quota, status |-> status]]
  /\ UNCHANGED <<streamConfig, publisherDelegate>>

GrantPublisher(m, s, a) ==
  /\ SignedByAuthority(m, s)
  /\ publisherDelegate' = [publisherDelegate EXCEPT ![s][a] =
       [owner |-> m, status |-> "Active"]]
  /\ UNCHANGED <<streamConfig, tierConfig>>

RevokePublisher(m, s, a) ==
  /\ SignedByAuthority(m, s)
  /\ DelegateExists(s, a)
  /\ publisherDelegate' = [publisherDelegate EXCEPT ![s][a].status = "Revoked"]
  /\ UNCHANGED <<streamConfig, tierConfig>>

RegistryNext ==
  \E m \in Makers, s \in Streams :
    \/ \E hash \in TiersHashes, dao \in Treasuries, v \in Visibilities :
         CreateStream(m, s, hash, dao, v)
    \/ \E hash \in TiersHashes, status \in StreamStatuses :
         UpdateStream(m, s, hash, status)
    \/ \E hash \in TiersHashes : SetTiers(m, s, hash)
    \/ \E t \in Tiers, pricing \in PricingTypes, evidence \in EvidenceLevels,
          price \in Prices, quota \in Quotas, status \in TierStatuses :
         UpsertTier(m, s, t, pricing, evidence, price, quota, status)
    \/ \E a \in Agents : GrantPublisher(m, s, a)
    \/ \E a \in Agents : RevokePublisher(m, s, a)

=============================================================================
