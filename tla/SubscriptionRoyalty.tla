------------------------ MODULE SubscriptionRoyalty ------------------------
(***************************************************************************)
(* The on-chain subscription program                                       *)
(* (programs/subscription_royalty/src/lib.rs) running beside the stream    *)
(* registry it reads: a transaction of either program is one step.         *)
(*                                                                         *)
(* Left out of the accounts: bumps, rent and the network fee, and the      *)
(* fields of Subscription that copy the tier (pricing type and evidence    *)
(* level).  The four hashes of a SignalRecord are one member of Signals;   *)
(* updated_at of a key account is read by nobody.                          *)
(***************************************************************************)
EXTENDS StreamRegistry, FiniteSets, Functions

CONSTANTS
  Subscribers,     \* wallets that may subscribe
  Expiries,        \* values of the client's expires_at
  Keys,            \* X25519 public keys
  Signals,         \* contents of a record_signal call
  InitialLamports, \* balance each wallet starts with
  MaxU64,          \* u64::MAX, at which the program's arithmetic saturates
  MaxTime          \* bound on the cluster clock

Wallets == Makers \cup Treasuries \cup Agents \cup Subscribers

SubscriptionStatuses == {"Active", "Canceled"}  \* Expired is never assigned

Subscriptions ==
  [tier : Tiers, expiresAt : Expiries, quota : Quotas,
   status : SubscriptionStatuses]

(* The Token-2022 mint of a subscription: tokens minted, all of them in the *)
(* subscriber's own account since the mint is non-transferable, and whether *)
(* the subscription still holds the mint authority.                         *)
Passes == [supply : Nat, mintable : BOOLEAN]

SignalRecords == [signal : Signals, createdAt : 0 .. MaxTime]

ASSUME RoyaltyAssumption ==
  /\ MaxU64 \in Nat
  /\ MaxTime \in Nat
  /\ InitialLamports \in Nat
  /\ \A p \in Prices : p <= MaxU64
  /\ NoAccount \notin Subscriptions \cup Passes \cup SignalRecords \cup Keys \cup Nat

(* A stream id is a 32-byte hash. *)
ASSUME StreamsAssumption == IsFiniteSet(Streams)

(* A stream cannot have 2^64 subscribers. *)
ASSUME SubscribersAssumption ==
  /\ IsFiniteSet(Subscribers)
  /\ Cardinality(Subscribers) <= MaxU64

VARIABLES
  subscription,      \* Subscription accounts by stream and subscriber
  pass,              \* the mint of each subscription
  subscriptionCount, \* StreamState accounts: subscription_count
  lamports,          \* wallet balances
  subscriberKey,     \* SubscriberKey accounts (register_key)
  walletKey,         \* WalletKey accounts (register_wallet_key)
  subscriptionKey,   \* SubscriptionKey accounts (register_subscription_key)
  signalLatest,      \* SignalRecord accounts: one per stream
  now,               \* the cluster clock
  paid               \* auxiliary: the price each subscription was sold at

membershipVars == <<subscription, pass, subscriptionCount, lamports, paid>>
keyVars == <<subscriberKey, walletKey, subscriptionKey>>
royaltyVars == <<membershipVars, keyVars, signalLatest, now>>
vars == <<registryVars, royaltyVars>>

NoAccounts == [s \in Streams |-> [w \in Subscribers |-> NoAccount]]

RoyaltyTypeOK ==
  /\ subscription \in [Streams -> [Subscribers -> Subscriptions \cup {NoAccount}]]
  /\ pass \in [Streams -> [Subscribers -> Passes \cup {NoAccount}]]
  /\ subscriptionCount \in [Streams -> Nat \cup {NoAccount}]
  /\ lamports \in [Wallets -> Nat]
  /\ subscriberKey \in [Streams -> [Subscribers -> Keys \cup {NoAccount}]]
  /\ walletKey \in [Subscribers -> Keys \cup {NoAccount}]
  /\ subscriptionKey \in [Streams -> [Subscribers -> Keys \cup {NoAccount}]]
  /\ signalLatest \in [Streams -> SignalRecords \cup {NoAccount}]
  /\ now \in 0 .. MaxTime
  /\ paid \in [Streams -> [Subscribers -> Prices \cup {NoAccount}]]

(* Every account of both programs holds a value of its declared layout. *)
TypeOK == RegistryTypeOK /\ RoyaltyTypeOK

Init ==
  /\ RegistryInit
  /\ subscription = NoAccounts
  /\ pass = NoAccounts
  /\ subscriptionCount = [s \in Streams |-> NoAccount]
  /\ lamports = [w \in Wallets |-> InitialLamports]
  /\ subscriberKey = NoAccounts
  /\ walletKey = [w \in Subscribers |-> NoAccount]
  /\ subscriptionKey = NoAccounts
  /\ signalLatest = [s \in Streams |-> NoAccount]
  /\ now = 0
  /\ paid = NoAccounts

-----------------------------------------------------------------------------
(* u64 arithmetic as the program writes it, and the split of a price.  Here *)
(* and below, an operator whose name ends in _Slip is not part of the model: *)
(* it is the definition after it as a plausible bug would have it, and the   *)
(* properties are shown to notice.                                           *)

SaturatingAdd(a, b) == IF a + b > MaxU64 THEN MaxU64 ELSE a + b
SaturatingSub(a, b) == IF b > a THEN 0 ELSE a - b
SaturatingMul(a, b) == IF a * b > MaxU64 THEN MaxU64 ELSE a * b

PlatformFeeBps == 100
Fee(price) == SaturatingMul(price, PlatformFeeBps) \div 10000

MakerAmount_Slip(price) == price
MakerAmount(price) == SaturatingSub(price, Fee(price))

Transfer(balances, from, to, amount) ==
  [[balances EXCEPT ![from] = @ - amount] EXCEPT ![to] = @ + amount]

(* The system program refuses a transfer the balance does not cover. *)
Covers_Slip(balance, amount) == TRUE
Covers(balance, amount) == balance >= amount

(* init_if_needed on stream_state, and the default check that follows it. *)
CountOf(s) == IF subscriptionCount[s] = NoAccount THEN 0 ELSE subscriptionCount[s]

IsActive(s, w) ==
  /\ subscription[s][w] # NoAccount
  /\ subscription[s][w].status = "Active"

(* mint_to of one token, then both authorities of the mint are given up. *)
MintOne_Slip(mint) == [supply |-> mint.supply + 1, mintable |-> TRUE]
MintOne(mint) == [supply |-> mint.supply + 1, mintable |-> FALSE]

(* The count moves only when the status does. *)
CountAfterRenew_Slip(s, w) == SaturatingAdd(subscriptionCount[s], 1)
CountAfterRenew(s, w) ==
  IF IsActive(s, w) THEN subscriptionCount[s] ELSE SaturatingAdd(subscriptionCount[s], 1)

CountAfterCancel_Slip(s, w) == SaturatingSub(subscriptionCount[s], 1)
CountAfterCancel(s, w) ==
  IF IsActive(s, w) THEN SaturatingSub(subscriptionCount[s], 1) ELSE subscriptionCount[s]

AfterCancel_Slip(account) == NoAccount
AfterCancel(account) == [account EXCEPT !.status = "Canceled"]

-----------------------------------------------------------------------------
(* Instructions: first the accounts they ask for. *)

(* init: one subscription account per stream and wallet, ever.              *)
SubscribeAccounts(w, s) == subscription[s][w] = NoAccount

(* renew and cancel: the wallet's subscription and the count of its stream. *)
MemberAccounts(w, s) == subscription[s][w] # NoAccount /\ subscriptionCount[s] # NoAccount

(* An account of another stream or tier, or of another program, is refused. *)
TierExists(s, t) == tierConfig[s][t] # NoAccount
IsPublisher(a, s) == DelegateExists(s, a) /\ publisherDelegate[s][a].status = "Active"

(* The transaction names the terms the client read and the two payees; each *)
(* is compared with the registry at the moment the transaction executes.    *)
Subscribe(w, s, t, pricing, evidence, expiresAt, quota, price, maker, treasury) ==
  LET tier == tierConfig[s][t]
      makerPaid == Transfer(lamports, w, maker, MakerAmount(price))
      mint == IF pass[s][w] = NoAccount THEN [supply |-> 0, mintable |-> TRUE]
                                        ELSE pass[s][w]
  IN
  /\ SubscribeAccounts(w, s)
  /\ StreamActive(s)
  /\ TierExists(s, t)
  /\ tier.status = "Active"
  /\ tier.price = price
  /\ tier.pricing = pricing
  /\ tier.evidence = evidence
  /\ tier.quota = quota
  /\ tier.pricing = "SubscriptionUnlimited"
  /\ streamConfig[s].authority = maker
  /\ streamConfig[s].dao = treasury
  /\ Covers(lamports[w], MakerAmount(price))
  /\ Covers(makerPaid[w], Fee(price))
  /\ mint.mintable
  /\ subscription' = [subscription EXCEPT ![s][w] =
       [tier |-> t, expiresAt |-> expiresAt, quota |-> quota,
        status |-> "Active"]]
  /\ lamports' = Transfer(makerPaid, w, treasury, Fee(price))
  /\ subscriptionCount' =
       [subscriptionCount EXCEPT ![s] = SaturatingAdd(CountOf(s), 1)]
  /\ pass' = [pass EXCEPT ![s][w] = MintOne(mint)]
  /\ paid' = [paid EXCEPT ![s][w] = price]
  /\ UNCHANGED <<registryVars, keyVars, signalLatest, now>>

(* The subscriber sets any expiry and quota, pays nothing, and comes back   *)
(* to the count if it had left it.                                          *)
Renew(w, s, expiresAt, quota) ==
  /\ MemberAccounts(w, s)
  /\ subscription' = [subscription EXCEPT ![s][w] =
       [@ EXCEPT !.expiresAt = expiresAt, !.quota = quota, !.status = "Active"]]
  /\ subscriptionCount' = [subscriptionCount EXCEPT ![s] = CountAfterRenew(s, w)]
  /\ UNCHANGED <<registryVars, pass, lamports, paid, keyVars, signalLatest, now>>

Cancel(w, s) ==
  /\ MemberAccounts(w, s)
  /\ subscription' = [subscription EXCEPT ![s][w] = AfterCancel(@)]
  /\ subscriptionCount' = [subscriptionCount EXCEPT ![s] = CountAfterCancel(s, w)]
  /\ UNCHANGED <<registryVars, pass, lamports, paid, keyVars, signalLatest, now>>

RegisterKey(w, s, key) ==
  /\ IsActive(s, w)
  /\ subscriberKey' = [subscriberKey EXCEPT ![s][w] = key]
  /\ UNCHANGED <<registryVars, membershipVars, walletKey, subscriptionKey,
                 signalLatest, now>>

RegisterWalletKey(w, key) ==
  /\ walletKey' = [walletKey EXCEPT ![w] = key]
  /\ UNCHANGED <<registryVars, membershipVars, subscriberKey, subscriptionKey,
                 signalLatest, now>>

(* Neither a subscription nor a registered stream is asked for. *)
RegisterSubscriptionKey(w, s, key) ==
  /\ subscriptionKey' = [subscriptionKey EXCEPT ![s][w] = key]
  /\ UNCHANGED <<registryVars, membershipVars, subscriberKey, walletKey,
                 signalLatest, now>>

(* Both record instructions create stream_state, with a count of zero, and  *)
(* overwrite the one signal_latest account of the stream.                   *)
WriteSignal(s, signal) ==
  /\ StreamActive(s)
  /\ subscriptionCount' = [subscriptionCount EXCEPT ![s] = CountOf(s)]
  /\ signalLatest' = [signalLatest EXCEPT ![s] =
       [signal |-> signal, createdAt |-> now]]
  /\ UNCHANGED <<registryVars, subscription, pass, lamports, paid, keyVars, now>>

RecordSignal(m, s, signal) ==
  /\ SignedByAuthority(m, s)
  /\ WriteSignal(s, signal)

RecordSignalDelegated(a, s, signal) ==
  /\ IsPublisher(a, s)
  /\ WriteSignal(s, signal)

Tick ==
  /\ now < MaxTime
  /\ now' = now + 1
  /\ UNCHANGED <<registryVars, membershipVars, keyVars, signalLatest>>

-----------------------------------------------------------------------------

SubscribeStep ==
  \E w \in Subscribers, s \in Streams, t \in Tiers, pricing \in PricingTypes,
     evidence \in EvidenceLevels, expiresAt \in Expiries, quota \in Quotas,
     price \in Prices, maker \in Makers, treasury \in Treasuries :
    Subscribe(w, s, t, pricing, evidence, expiresAt, quota, price, maker, treasury)

KeyStep ==
  \E w \in Subscribers, key \in Keys :
    \/ RegisterWalletKey(w, key)
    \/ \E s \in Streams : RegisterKey(w, s, key)
    \/ \E s \in Streams : RegisterSubscriptionKey(w, s, key)

SignalStep ==
  \E s \in Streams, signal \in Signals :
    \/ \E m \in Makers : RecordSignal(m, s, signal)
    \/ \E a \in Agents : RecordSignalDelegated(a, s, signal)

Next ==
  \/ RegistryNext /\ UNCHANGED royaltyVars
  \/ SubscribeStep
  \/ \E w \in Subscribers, s \in Streams, expiresAt \in Expiries, quota \in Quotas :
       Renew(w, s, expiresAt, quota)
  \/ \E w \in Subscribers, s \in Streams : Cancel(w, s)
  \/ KeyStep
  \/ SignalStep
  \/ Tick

Spec == Init /\ [][Next]_vars

-----------------------------------------------------------------------------
(* Properties. *)

ActiveSubscribers(s) == {w \in Subscribers : IsActive(s, w)}

(* subscription_count of a stream is the number of its subscriptions whose  *)
(* status is Active, through every order of subscribe, renew, cancel and of *)
(* the record instructions that may create the same account first.          *)
CountMatchesActive ==
  \A s \in Streams : CountOf(s) = Cardinality(ActiveSubscribers(s))

(* A subscription can always be renewed or cancelled: the stream_state      *)
(* account both instructions demand exists once anyone has subscribed, and  *)
(* a wallet owns exactly one pass per subscription, which nobody can mint   *)
(* again.                                                                   *)
OnePassPerSubscription ==
  \A s \in Streams, w \in Subscribers :
    IF subscription[s][w] = NoAccount
    THEN pass[s][w] = NoAccount
    ELSE /\ pass[s][w] = [supply |-> 1, mintable |-> FALSE]
         /\ subscriptionCount[s] # NoAccount

(* What a wallet was charged for a stream: nothing, or one price.           *)
PricePaid(s, w) == IF paid[s][w] = NoAccount THEN 0 ELSE paid[s][w]

Spent(p) ==
  SumFunction([s \in Streams |-> IF p \in Subscribers THEN PricePaid(s, p) ELSE 0])

MakerSales(s) == SumFunction([w \in Subscribers |-> MakerAmount(PricePaid(s, w))])
FeeSales(s) == SumFunction([w \in Subscribers |-> Fee(PricePaid(s, w))])

Royalties(m) ==
  SumFunction([s \in Streams |-> IF SignedByAuthority(m, s) THEN MakerSales(s) ELSE 0])

PaysFeesTo(d, s) == StreamExists(s) /\ streamConfig[s].dao = d

Fees(d) ==
  SumFunction([s \in Streams |-> IF PaysFeesTo(d, s) THEN FeeSales(s) ELSE 0])

(* Every wallet holds what it started with, less one price per subscription *)
(* it ever bought, plus its royalties and its fees: a subscriber is charged *)
(* once per stream whatever it renews or cancels, and nothing is lost to    *)
(* rounding, to saturation or when payer and payee are the same wallet.     *)
LamportsLedger ==
  \A w \in Wallets :
    lamports[w] + Spent(w) = InitialLamports + Royalties(w) + Fees(w)

(* What a subscriber has bought is never sold again under other terms: the  *)
(* tier of a subscription and the price paid for it survive repricing of    *)
(* the tier, pausing of the stream, cancellation and renewal.               *)
TermsAreKept ==
  [][\A s \in Streams, w \in Subscribers :
       subscription[s][w] # NoAccount =>
         /\ subscription[s][w]' # NoAccount
         /\ subscription'[s][w].tier = subscription[s][w].tier
         /\ paid'[s][w] = paid[s][w]]_vars

(* Seen through its subscription accounts alone, the program is the         *)
(* membership book of Membership.tla.                                       *)
EverSubscribed(s) == {w \in Subscribers : subscription[s][w] # NoAccount}

Book == INSTANCE Membership WITH
  Groups <- Streams,
  People <- Subscribers,
  joined <- [s \in Streams |-> EverSubscribed(s)],
  present <- [s \in Streams |-> ActiveSubscribers(s)],
  headcount <- [s \in Streams |-> CountOf(s)]

ImplementsMembership == Book!Spec
=============================================================================
