--------------------- MODULE SubscriptionRoyalty_proofs ---------------------
(* Theorems about SubscriptionRoyalty, for every value of its constants. *)
EXTENDS SubscriptionRoyalty, FiniteSetTheorems, WellFoundedInduction, TLAPS

LEMMA FeeType ==
  ASSUME NEW price \in Prices
  PROVE  Fee(price) \in Nat /\ MakerAmount(price) \in Nat
BY RegistryAssumption, RoyaltyAssumption
   DEF Fee, MakerAmount, SaturatingMul, SaturatingSub, PlatformFeeBps

LEMMA RegistryStepType ==
  ASSUME RegistryTypeOK, RegistryNext
  PROVE  RegistryTypeOK'
<1> USE DEF RegistryTypeOK, SignedByAuthority, StreamExists, StreamConfigs,
            TierConfigs, PublisherDelegates, StreamStatuses, TierStatuses,
            PricingTypes, PublisherStatuses
<1>1. ASSUME NEW m \in Makers, NEW s \in Streams, NEW hash \in TiersHashes,
             NEW dao \in Treasuries, NEW v \in Visibilities,
             CreateStream(m, s, hash, dao, v)
      PROVE  RegistryTypeOK'
  BY <1>1 DEF CreateStream
<1>2. ASSUME NEW m \in Makers, NEW s \in Streams, NEW hash \in TiersHashes,
             NEW status \in StreamStatuses, UpdateStream(m, s, hash, status)
      PROVE  RegistryTypeOK'
  <2>1. streamConfig[s] \in StreamConfigs
    BY <1>2 DEF UpdateStream
  <2> QED
    BY <1>2, <2>1 DEF UpdateStream
<1>3. ASSUME NEW m \in Makers, NEW s \in Streams, NEW hash \in TiersHashes,
             SetTiers(m, s, hash)
      PROVE  RegistryTypeOK'
  BY <1>3 DEF SetTiers
<1>4. ASSUME NEW m \in Makers, NEW s \in Streams, NEW t \in Tiers,
             NEW pricing \in PricingTypes, NEW evidence \in EvidenceLevels,
             NEW price \in Prices, NEW quota \in Quotas,
             NEW status \in TierStatuses,
             UpsertTier(m, s, t, pricing, evidence, price, quota, status)
      PROVE  RegistryTypeOK'
  BY <1>4 DEF UpsertTier
<1>5. ASSUME NEW m \in Makers, NEW s \in Streams, NEW a \in Agents,
             GrantPublisher(m, s, a)
      PROVE  RegistryTypeOK'
  BY <1>5 DEF GrantPublisher
<1>6. ASSUME NEW m \in Makers, NEW s \in Streams, NEW a \in Agents,
             RevokePublisher(m, s, a)
      PROVE  RegistryTypeOK'
  BY <1>6 DEF RevokePublisher, DelegateExists
<1> QED
  BY <1>1, <1>2, <1>3, <1>4, <1>5, <1>6 DEF RegistryNext

LEMMA TransferType ==
  ASSUME NEW balances \in [Wallets -> Nat], NEW from \in Wallets,
         NEW to \in Wallets, NEW amount \in Nat, balances[from] >= amount
  PROVE  Transfer(balances, from, to, amount) \in [Wallets -> Nat]
<1> DEFINE drawn == [balances EXCEPT ![from] = @ - amount]
<1>1. drawn \in [Wallets -> Nat]
  OBVIOUS
<1>2. Transfer(balances, from, to, amount) = [drawn EXCEPT ![to] = @ + amount]
  BY DEF Transfer
<1> HIDE DEF drawn
<1> QED
  BY <1>1, <1>2

(* The wallets of a subscribe transaction all have a balance, and the guards *)
(* keep the balances natural numbers.                                        *)
LEMMA SubscribeType ==
  ASSUME TypeOK,
         NEW w \in Subscribers, NEW s \in Streams, NEW t \in Tiers,
         NEW pricing \in PricingTypes, NEW evidence \in EvidenceLevels,
         NEW expiresAt \in Expiries, NEW quota \in Quotas, NEW price \in Prices,
         NEW maker \in Makers, NEW treasury \in Treasuries,
         Subscribe(w, s, t, pricing, evidence, expiresAt, quota, price, maker, treasury)
  PROVE  TypeOK'
<1> USE DEF TypeOK, RoyaltyTypeOK
<1>1. lamports' \in [Wallets -> Nat]
  <2>1. w \in Wallets /\ maker \in Wallets /\ treasury \in Wallets
    BY DEF Wallets
  <2>2. Fee(price) \in Nat /\ MakerAmount(price) \in Nat
    BY FeeType
  <2> DEFINE makerPaid == Transfer(lamports, w, maker, MakerAmount(price))
  <2>3. /\ lamports[w] >= MakerAmount(price)
        /\ makerPaid[w] >= Fee(price)
        /\ lamports' = Transfer(makerPaid, w, treasury, Fee(price))
    BY DEF Subscribe, Covers
  <2>4. makerPaid \in [Wallets -> Nat]
    BY <2>1, <2>2, <2>3, TransferType
  <2> HIDE DEF makerPaid
  <2> QED
    BY <2>1, <2>2, <2>3, <2>4, TransferType
<1>2. subscription' \in [Streams -> [Subscribers -> Subscriptions \cup {NoAccount}]]
  BY DEF Subscribe, Subscriptions, SubscriptionStatuses
<1>3. pass' \in [Streams -> [Subscribers -> Passes \cup {NoAccount}]]
  BY DEF Subscribe, Passes, MintOne
<1>4. subscriptionCount' \in [Streams -> Nat \cup {NoAccount}]
  BY RoyaltyAssumption DEF Subscribe, CountOf, SaturatingAdd
<1> QED
  BY <1>1, <1>2, <1>3, <1>4 DEF Subscribe, RegistryTypeOK, keyVars, registryVars

(* What renew and cancel leave in the account they write. *)
LEMMA RenewedAccount ==
  ASSUME TypeOK, NEW w \in Subscribers, NEW s \in Streams,
         NEW expiresAt \in Expiries, NEW quota \in Quotas,
         Renew(w, s, expiresAt, quota)
  PROVE  subscription'[s][w] \in Subscriptions /\ subscription'[s][w].status = "Active"
<1>1. subscription[s][w] \in Subscriptions
  BY DEF Renew, MemberAccounts, TypeOK, RoyaltyTypeOK
<1>2. subscription'[s][w] = [subscription[s][w] EXCEPT
        !.expiresAt = expiresAt, !.quota = quota, !.status = "Active"]
  BY DEF Renew, TypeOK, RoyaltyTypeOK
<1> QED
  BY <1>1, <1>2 DEF Subscriptions, SubscriptionStatuses

LEMMA CanceledAccount ==
  ASSUME TypeOK, NEW w \in Subscribers, NEW s \in Streams, Cancel(w, s)
  PROVE  subscription'[s][w] \in Subscriptions /\ subscription'[s][w].status = "Canceled"
<1>1. subscription[s][w] \in Subscriptions
  BY DEF Cancel, MemberAccounts, TypeOK, RoyaltyTypeOK
<1>2. subscription'[s][w] = [subscription[s][w] EXCEPT !.status = "Canceled"]
  BY DEF Cancel, AfterCancel, TypeOK, RoyaltyTypeOK
<1> QED
  BY <1>1, <1>2 DEF Subscriptions, SubscriptionStatuses

LEMMA RenewType ==
  ASSUME TypeOK,
         NEW w \in Subscribers, NEW s \in Streams,
         NEW expiresAt \in Expiries, NEW quota \in Quotas,
         Renew(w, s, expiresAt, quota)
  PROVE  TypeOK'
<1> USE DEF TypeOK, RoyaltyTypeOK, Renew, MemberAccounts, keyVars, registryVars
<1>1. subscription' \in [Streams -> [Subscribers -> Subscriptions \cup {NoAccount}]]
  <2>1. subscription[s][w] \in Subscriptions
    OBVIOUS
  <2> QED
    BY <2>1 DEF Subscriptions, SubscriptionStatuses
<1>2. subscriptionCount' \in [Streams -> Nat \cup {NoAccount}]
  BY RoyaltyAssumption DEF CountAfterRenew, SaturatingAdd
<1> QED
  BY <1>1, <1>2 DEF RegistryTypeOK

LEMMA CancelType ==
  ASSUME TypeOK, NEW w \in Subscribers, NEW s \in Streams, Cancel(w, s)
  PROVE  TypeOK'
<1> USE DEF TypeOK, RoyaltyTypeOK, Cancel, MemberAccounts, keyVars, registryVars
<1>1. subscription' \in [Streams -> [Subscribers -> Subscriptions \cup {NoAccount}]]
  <2>1. subscription[s][w] \in Subscriptions
    OBVIOUS
  <2> QED
    BY <2>1 DEF Subscriptions, SubscriptionStatuses, AfterCancel
<1>2. subscriptionCount' \in [Streams -> Nat \cup {NoAccount}]
  BY RoyaltyAssumption DEF CountAfterCancel, SaturatingSub
<1> QED
  BY <1>1, <1>2 DEF RegistryTypeOK

LEMMA KeyStepType ==
  ASSUME TypeOK, KeyStep
  PROVE  TypeOK'
<1> USE DEF TypeOK, RegistryTypeOK, RoyaltyTypeOK, membershipVars, registryVars
<1>1. ASSUME NEW w \in Subscribers, NEW key \in Keys, RegisterWalletKey(w, key)
      PROVE  TypeOK'
  BY <1>1 DEF RegisterWalletKey
<1>2. ASSUME NEW w \in Subscribers, NEW key \in Keys, NEW s \in Streams,
             RegisterKey(w, s, key)
      PROVE  TypeOK'
  BY <1>2 DEF RegisterKey
<1>3. ASSUME NEW w \in Subscribers, NEW key \in Keys, NEW s \in Streams,
             RegisterSubscriptionKey(w, s, key)
      PROVE  TypeOK'
  BY <1>3 DEF RegisterSubscriptionKey
<1> QED
  BY <1>1, <1>2, <1>3 DEF KeyStep

LEMMA WriteSignalType ==
  ASSUME TypeOK, NEW s \in Streams, NEW signal \in Signals, WriteSignal(s, signal)
  PROVE  TypeOK'
<1> USE DEF TypeOK, RoyaltyTypeOK, WriteSignal, keyVars, registryVars
<1>1. subscriptionCount' \in [Streams -> Nat \cup {NoAccount}]
  BY DEF CountOf
<1>2. signalLatest' \in [Streams -> SignalRecords \cup {NoAccount}]
  BY DEF SignalRecords
<1> QED
  BY <1>1, <1>2 DEF RegistryTypeOK

(* A step of the program is one of seven: the case split every proof below   *)
(* starts from.                                                              *)
LEMMA NextCases ==
  ASSUME [Next]_vars
  PROVE  \/ RegistryNext /\ UNCHANGED royaltyVars
         \/ SubscribeStep
         \/ \E w \in Subscribers, s \in Streams, expiresAt \in Expiries, quota \in Quotas :
              Renew(w, s, expiresAt, quota)
         \/ \E w \in Subscribers, s \in Streams : Cancel(w, s)
         \/ KeyStep
         \/ \E s \in Streams, signal \in Signals : WriteSignal(s, signal)
         \/ Tick
         \/ UNCHANGED vars
BY DEF Next, SignalStep, RecordSignal, RecordSignalDelegated

LEMMA InitType == Init => TypeOK
BY RoyaltyAssumption, RegistryAssumption
   DEF Init, RegistryInit, TypeOK, RegistryTypeOK, RoyaltyTypeOK, NoAccounts

LEMMA StepType == TypeOK /\ [Next]_vars => TypeOK'
<1> SUFFICES ASSUME TypeOK, [Next]_vars PROVE TypeOK'
  OBVIOUS
<1>1. ASSUME RegistryNext, UNCHANGED royaltyVars PROVE TypeOK'
  BY <1>1, RegistryStepType
     DEF TypeOK, RoyaltyTypeOK, royaltyVars, membershipVars, keyVars
<1>2. ASSUME Tick PROVE TypeOK'
  BY <1>2, RoyaltyAssumption DEF Tick, TypeOK, RegistryTypeOK, RoyaltyTypeOK, registryVars,
              membershipVars, keyVars
<1>3. ASSUME UNCHANGED vars PROVE TypeOK'
  BY <1>3 DEF TypeOK, RegistryTypeOK, RoyaltyTypeOK, vars, registryVars,
              royaltyVars, membershipVars, keyVars
<1>4. ASSUME SubscribeStep PROVE TypeOK'
  BY <1>4, SubscribeType DEF SubscribeStep
<1> QED
  BY <1>1, <1>2, <1>3, <1>4, RenewType, CancelType, KeyStepType,
     WriteSignalType, NextCases

(* Every account of both programs keeps the layout it is declared with.     *)
THEOREM TypeCorrect == Spec => []TypeOK
<1> QED
  BY InitType, StepType, PTL DEF Spec

-----------------------------------------------------------------------------
(* The subscriber count. *)

LEMMA ActiveIsFinite ==
  ASSUME NEW s \in Streams
  PROVE  /\ IsFiniteSet(ActiveSubscribers(s))
         /\ Cardinality(ActiveSubscribers(s)) \in Nat
<1>1. ActiveSubscribers(s) \in SUBSET Subscribers
  BY DEF ActiveSubscribers
<1> QED
  BY <1>1, SubscribersAssumption, FS_Subset, FS_CardinalityType

(* Saturation never bites: a wallet that joins the active ones leaves them  *)
(* no more numerous than the subscribers there are.                         *)
LEMMA RoomForOneMore ==
  ASSUME NEW s \in Streams, NEW w \in Subscribers, w \notin ActiveSubscribers(s)
  PROVE  /\ Cardinality(ActiveSubscribers(s) \cup {w}) = Cardinality(ActiveSubscribers(s)) + 1
         /\ SaturatingAdd(Cardinality(ActiveSubscribers(s)), 1)
              = Cardinality(ActiveSubscribers(s)) + 1
<1> DEFINE more == ActiveSubscribers(s) \cup {w}
<1>1. more \in SUBSET Subscribers
  BY DEF ActiveSubscribers
<1>2. Cardinality(more) = Cardinality(ActiveSubscribers(s)) + 1
  BY ActiveIsFinite, FS_AddElement
<1>3. Cardinality(more) <= Cardinality(Subscribers)
  BY <1>1, SubscribersAssumption, FS_Subset
<1>4. Cardinality(Subscribers) \in Nat
  BY SubscribersAssumption, FS_CardinalityType
<1> QED
  BY <1>2, <1>3, <1>4, ActiveIsFinite, SubscribersAssumption, RoyaltyAssumption
     DEF SaturatingAdd

(* Accounts of the streams a step does not name are as they were, and so is *)
(* what they say of the membership.                                         *)
OthersKept(s) ==
  \A r \in Streams \ {s} :
    subscription'[r] = subscription[r] /\ subscriptionCount'[r] = subscriptionCount[r]

LEMMA OtherPages ==
  ASSUME NEW s \in Streams, OthersKept(s), NEW r \in Streams \ {s}
  PROVE  /\ EverSubscribed(r)' = EverSubscribed(r)
         /\ ActiveSubscribers(r)' = ActiveSubscribers(r)
         /\ CountOf(r)' = CountOf(r)
BY DEF OthersKept, EverSubscribed, ActiveSubscribers, IsActive, CountOf

(* subscribe adds the wallet to both sets of its stream and one to the count. *)
LEMMA SubscribePage ==
  ASSUME TypeOK, CountMatchesActive,
         NEW w \in Subscribers, NEW s \in Streams, NEW t \in Tiers,
         NEW pricing \in PricingTypes, NEW evidence \in EvidenceLevels,
         NEW expiresAt \in Expiries, NEW quota \in Quotas, NEW price \in Prices,
         NEW maker \in Makers, NEW treasury \in Treasuries,
         Subscribe(w, s, t, pricing, evidence, expiresAt, quota, price, maker, treasury)
  PROVE  /\ OthersKept(s)
         /\ w \notin EverSubscribed(s) /\ w \notin ActiveSubscribers(s)
         /\ EverSubscribed(s)' = EverSubscribed(s) \cup {w}
         /\ ActiveSubscribers(s)' = ActiveSubscribers(s) \cup {w}
         /\ CountOf(s)' = CountOf(s) + 1
<1>1. OthersKept(s)
  BY DEF TypeOK, RoyaltyTypeOK, Subscribe, OthersKept
<1>2. w \notin EverSubscribed(s) /\ w \notin ActiveSubscribers(s)
  BY DEF Subscribe, SubscribeAccounts, EverSubscribed, ActiveSubscribers, IsActive
<1>3. subscription'[s] = [subscription[s] EXCEPT ![w] =
        [tier |-> t, expiresAt |-> expiresAt, quota |-> quota, status |-> "Active"]]
  BY DEF Subscribe, TypeOK, RoyaltyTypeOK
<1>4. subscription'[s][w] \in Subscriptions
  BY <1>3 DEF TypeOK, RoyaltyTypeOK, Subscriptions, SubscriptionStatuses
<1>5. /\ EverSubscribed(s)' = EverSubscribed(s) \cup {w}
      /\ ActiveSubscribers(s)' = ActiveSubscribers(s) \cup {w}
  BY <1>3, <1>4, RoyaltyAssumption
     DEF EverSubscribed, ActiveSubscribers, IsActive, TypeOK, RoyaltyTypeOK
<1>6. subscriptionCount'[s] = SaturatingAdd(CountOf(s), 1)
  BY DEF Subscribe, TypeOK, RoyaltyTypeOK
<1>7. CountOf(s) = Cardinality(ActiveSubscribers(s))
  BY DEF CountMatchesActive
<1>8. subscriptionCount'[s] = CountOf(s) + 1
  BY <1>2, <1>6, <1>7, RoomForOneMore
<1>9. CountOf(s)' = CountOf(s) + 1
  BY <1>7, <1>8, ActiveIsFinite, RoyaltyAssumption DEF CountOf
<1> QED
  BY <1>1, <1>2, <1>5, <1>9

(* renew brings the wallet back, and counts it, if it was not active. *)
LEMMA RenewPage ==
  ASSUME TypeOK, CountMatchesActive,
         NEW w \in Subscribers, NEW s \in Streams,
         NEW expiresAt \in Expiries, NEW quota \in Quotas,
         Renew(w, s, expiresAt, quota)
  PROVE  /\ OthersKept(s)
         /\ w \in EverSubscribed(s)
         /\ EverSubscribed(s)' = EverSubscribed(s)
         /\ ActiveSubscribers(s)' = ActiveSubscribers(s) \cup {w}
         /\ CountOf(s)' = IF w \in ActiveSubscribers(s) THEN CountOf(s) ELSE CountOf(s) + 1
<1>1. OthersKept(s)
  BY DEF TypeOK, RoyaltyTypeOK, Renew, OthersKept
<1>2. w \in EverSubscribed(s)
  BY DEF Renew, MemberAccounts, EverSubscribed
<1>3. \A v \in Subscribers \ {w} : subscription'[s][v] = subscription[s][v]
  BY DEF Renew, TypeOK, RoyaltyTypeOK
<1>4. subscription'[s][w] \in Subscriptions /\ subscription'[s][w].status = "Active"
  BY RenewedAccount
<1>5. /\ EverSubscribed(s)' = EverSubscribed(s)
      /\ ActiveSubscribers(s)' = ActiveSubscribers(s) \cup {w}
  BY <1>2, <1>3, <1>4, RoyaltyAssumption DEF EverSubscribed, ActiveSubscribers, IsActive
<1>6. /\ subscriptionCount'[s] = CountAfterRenew(s, w)
      /\ subscriptionCount[s] = CountOf(s)
  BY DEF Renew, MemberAccounts, TypeOK, RoyaltyTypeOK, CountOf
<1>7. CountOf(s) = Cardinality(ActiveSubscribers(s)) /\ CountOf(s) \in Nat
  BY ActiveIsFinite DEF CountMatchesActive
<1>8. CASE IsActive(s, w)
  <2>1. w \in ActiveSubscribers(s)
    BY <1>8 DEF ActiveSubscribers
  <2> QED
    BY <1>1, <1>2, <1>5, <1>6, <1>7, <1>8, <2>1, RoyaltyAssumption
       DEF CountOf, CountAfterRenew
<1>9. CASE ~IsActive(s, w)
  <2>1. w \notin ActiveSubscribers(s)
    BY <1>9 DEF ActiveSubscribers
  <2>2. subscriptionCount'[s] = CountOf(s) + 1
    BY <1>6, <1>7, <1>9, <2>1, RoomForOneMore DEF CountAfterRenew
  <2>3. CountOf(s)' = CountOf(s) + 1
    BY <1>7, <2>2, RoyaltyAssumption DEF CountOf
  <2> QED
    BY <1>1, <1>2, <1>5, <2>1, <2>3
<1> QED
  BY <1>8, <1>9

(* cancel takes the wallet out, and off the count, if it was active. *)
LEMMA CancelPage ==
  ASSUME TypeOK, CountMatchesActive,
         NEW w \in Subscribers, NEW s \in Streams, Cancel(w, s)
  PROVE  /\ OthersKept(s)
         /\ EverSubscribed(s)' = EverSubscribed(s)
         /\ ActiveSubscribers(s)' = ActiveSubscribers(s) \ {w}
         /\ CountOf(s)' = IF w \in ActiveSubscribers(s) THEN CountOf(s) - 1 ELSE CountOf(s)
<1>1. OthersKept(s)
  BY DEF TypeOK, RoyaltyTypeOK, Cancel, OthersKept
<1>2. subscription[s][w] # NoAccount
  BY DEF Cancel, MemberAccounts
<1>3. \A v \in Subscribers \ {w} : subscription'[s][v] = subscription[s][v]
  BY DEF Cancel, TypeOK, RoyaltyTypeOK
<1>4. subscription'[s][w] \in Subscriptions /\ subscription'[s][w].status = "Canceled"
  BY CanceledAccount
<1>5. /\ EverSubscribed(s)' = EverSubscribed(s)
      /\ ActiveSubscribers(s)' = ActiveSubscribers(s) \ {w}
  BY <1>2, <1>3, <1>4, RoyaltyAssumption DEF EverSubscribed, ActiveSubscribers, IsActive
<1>6. /\ subscriptionCount'[s] = CountAfterCancel(s, w)
      /\ subscriptionCount[s] = CountOf(s)
  BY DEF Cancel, MemberAccounts, TypeOK, RoyaltyTypeOK, CountOf
<1>7. CountOf(s) = Cardinality(ActiveSubscribers(s)) /\ CountOf(s) \in Nat
  BY ActiveIsFinite DEF CountMatchesActive
<1>8. CASE IsActive(s, w)
  <2>1. w \in ActiveSubscribers(s)
    BY <1>8 DEF ActiveSubscribers
  <2>2. CountOf(s) # 0
    BY <1>7, <2>1, ActiveIsFinite, FS_EmptySet
  <2>3. CountOf(s)' = CountOf(s) - 1
    BY <1>6, <1>7, <1>8, <2>2, RoyaltyAssumption DEF CountOf, CountAfterCancel, SaturatingSub
  <2> QED
    BY <1>1, <1>5, <2>1, <2>3
<1>9. CASE ~IsActive(s, w)
  <2>1. w \notin ActiveSubscribers(s)
    BY <1>9 DEF ActiveSubscribers
  <2> QED
    BY <1>1, <1>5, <1>6, <1>7, <1>9, <2>1, RoyaltyAssumption DEF CountOf, CountAfterCancel
<1> QED
  BY <1>8, <1>9

(* The other steps change no membership. *)
LEMMA OtherSteps ==
  ASSUME TypeOK,
         \/ \E s \in Streams, signal \in Signals : WriteSignal(s, signal)
         \/ KeyStep \/ Tick \/ UNCHANGED vars \/ UNCHANGED royaltyVars
  PROVE  subscription' = subscription /\ \A s \in Streams : CountOf(s)' = CountOf(s)
<1>1. ASSUME NEW s \in Streams, NEW signal \in Signals, WriteSignal(s, signal)
      PROVE  subscription' = subscription /\ \A r \in Streams : CountOf(r)' = CountOf(r)
  BY <1>1, RoyaltyAssumption DEF WriteSignal, CountOf, TypeOK, RoyaltyTypeOK
<1>2. ASSUME KeyStep \/ Tick \/ UNCHANGED vars \/ UNCHANGED royaltyVars
      PROVE  UNCHANGED <<subscription, subscriptionCount>>
  BY <1>2 DEF KeyStep, RegisterKey, RegisterWalletKey, RegisterSubscriptionKey,
              Tick, vars, royaltyVars, membershipVars
<1> QED
  BY <1>1, <1>2 DEF CountOf

(* Both sides of the count equation move together on the stream of a step.  *)
LEMMA CountMoves ==
  ASSUME TypeOK, CountMatchesActive, NEW s \in Streams, OthersKept(s),
         CountOf(s)' = Cardinality(ActiveSubscribers(s)')
  PROVE  CountMatchesActive'
BY OtherPages DEF CountMatchesActive

(* subscription_count is, in every reachable state, the number of active    *)
(* subscriptions.  With TypeOK the invariant is inductive as it stands.     *)
THEOREM CountCorrect == Spec => []CountMatchesActive
<1>1. Init => CountMatchesActive
  <2> SUFFICES ASSUME Init, NEW s \in Streams
               PROVE  CountOf(s) = Cardinality(ActiveSubscribers(s))
    BY DEF CountMatchesActive
  <2>1. ActiveSubscribers(s) = {}
    BY DEF Init, NoAccounts, ActiveSubscribers, IsActive
  <2> QED
    BY <2>1, FS_EmptySet DEF Init, CountOf
<1>2. TypeOK /\ CountMatchesActive /\ [Next]_vars => CountMatchesActive'
  <2> SUFFICES ASSUME TypeOK, CountMatchesActive, [Next]_vars
               PROVE  CountMatchesActive'
    OBVIOUS
  <2>1. ASSUME SubscribeStep PROVE CountMatchesActive'
    <3>1. PICK s \in Streams, w \in Subscribers :
            /\ OthersKept(s) /\ w \notin ActiveSubscribers(s)
            /\ ActiveSubscribers(s)' = ActiveSubscribers(s) \cup {w}
            /\ CountOf(s)' = CountOf(s) + 1
      BY <2>1, SubscribePage DEF SubscribeStep
    <3> QED
      BY <3>1, RoomForOneMore, CountMoves DEF CountMatchesActive
  <2>2. ASSUME NEW w \in Subscribers, NEW s \in Streams,
               NEW expiresAt \in Expiries, NEW quota \in Quotas,
               Renew(w, s, expiresAt, quota)
        PROVE  CountMatchesActive'
    <3>1. CASE w \in ActiveSubscribers(s)
      <4>1. ActiveSubscribers(s)' = ActiveSubscribers(s)
        BY <2>2, <3>1, RenewPage
      <4> QED
        BY <2>2, <3>1, <4>1, RenewPage, CountMoves DEF CountMatchesActive
    <3>2. CASE w \notin ActiveSubscribers(s)
      BY <2>2, <3>2, RenewPage, RoomForOneMore, CountMoves DEF CountMatchesActive
    <3> QED
      BY <3>1, <3>2
  <2>3. ASSUME NEW w \in Subscribers, NEW s \in Streams, Cancel(w, s)
        PROVE  CountMatchesActive'
    <3>1. Cardinality(ActiveSubscribers(s) \ {w}) =
            IF w \in ActiveSubscribers(s) THEN Cardinality(ActiveSubscribers(s)) - 1
                                          ELSE Cardinality(ActiveSubscribers(s))
      BY ActiveIsFinite, FS_RemoveElement
    <3> QED
      BY <2>3, <3>1, CancelPage, CountMoves DEF CountMatchesActive
  <2>4. ASSUME subscription' = subscription,
               \A s \in Streams : CountOf(s)' = CountOf(s)
        PROVE  CountMatchesActive'
    BY <2>4 DEF CountMatchesActive, ActiveSubscribers, IsActive
  <2> QED
    BY <2>1, <2>2, <2>3, <2>4, OtherSteps, NextCases
<1> QED
  BY <1>1, <1>2, TypeCorrect, PTL DEF Spec

-----------------------------------------------------------------------------
(* Passes. *)

(* Every subscription holds one pass, for good, and can always be renewed   *)
(* or cancelled since its stream_state account exists.  mint_to needs the   *)
(* mint authority, which the subscription has only in the transaction that  *)
(* creates it: the invariant gives the empty mint Subscribe starts from.    *)
THEOREM OnePassCorrect == Spec => []OnePassPerSubscription
<1>1. Init => OnePassPerSubscription
  BY DEF Init, NoAccounts, OnePassPerSubscription
<1>2. TypeOK /\ OnePassPerSubscription /\ [Next]_vars => OnePassPerSubscription'
  <2> SUFFICES ASSUME TypeOK, OnePassPerSubscription, [Next]_vars
               PROVE  OnePassPerSubscription'
    OBVIOUS
  <2> USE DEF OnePassPerSubscription, TypeOK, RoyaltyTypeOK
  <2>1. ASSUME UNCHANGED <<subscription, pass, subscriptionCount>>
        PROVE  OnePassPerSubscription'
    BY <2>1
  <2>2. ASSUME SubscribeStep PROVE OnePassPerSubscription'
    <3>1. PICK w \in Subscribers, s \in Streams, t \in Tiers,
               pricing \in PricingTypes, evidence \in EvidenceLevels,
               expiresAt \in Expiries, quota \in Quotas, price \in Prices,
               maker \in Makers, treasury \in Treasuries :
            Subscribe(w, s, t, pricing, evidence, expiresAt, quota, price,
                      maker, treasury)
      BY <2>2 DEF SubscribeStep
    <3>2. pass' = [pass EXCEPT ![s][w] = [supply |-> 1, mintable |-> FALSE]]
      <4>1. pass[s][w] = NoAccount
        BY <3>1 DEF Subscribe
      <4>2. pass' = [pass EXCEPT ![s][w] = MintOne([supply |-> 0, mintable |-> TRUE])]
        BY <3>1, <4>1 DEF Subscribe
      <4>3. MintOne([supply |-> 0, mintable |-> TRUE]) = [supply |-> 1, mintable |-> FALSE]
        BY DEF MintOne
      <4> QED
        BY <4>2, <4>3
    <3>3. /\ subscriptionCount'[s] # NoAccount
          /\ \A r \in Streams \ {s} : subscriptionCount'[r] = subscriptionCount[r]
      BY <3>1, RoyaltyAssumption DEF Subscribe, SubscribeAccounts, CountOf, SaturatingAdd
    <3>4. subscription'[s][w] \in Subscriptions
      BY <3>1 DEF Subscribe, Subscriptions, SubscriptionStatuses
    <3>5. \A r \in Streams, v \in Subscribers :
            r # s \/ v # w => subscription'[r][v] = subscription[r][v]
      BY <3>1 DEF Subscribe
    <3> QED
      BY <3>2, <3>3, <3>4, <3>5, RoyaltyAssumption
  <2>3. ASSUME NEW w \in Subscribers, NEW s \in Streams,
               subscription[s][w] # NoAccount, subscription'[s][w] \in Subscriptions,
               \A r \in Streams, v \in Subscribers :
                 r # s \/ v # w => subscription'[r][v] = subscription[r][v],
               \A r \in Streams :
                 subscriptionCount[r] # NoAccount => subscriptionCount'[r] # NoAccount,
               pass' = pass
        PROVE  OnePassPerSubscription'
    <3>1. subscription'[s][w] # NoAccount
      BY <2>3, RoyaltyAssumption
    <3>2. \A r \in Streams, v \in Subscribers :
            subscription'[r][v] = NoAccount <=> subscription[r][v] = NoAccount
      BY <2>3, <3>1
    <3> QED
      BY <2>3, <3>2
  <2>4. ASSUME NEW w \in Subscribers, NEW s \in Streams,
               NEW expiresAt \in Expiries, NEW quota \in Quotas,
               Renew(w, s, expiresAt, quota)
        PROVE  OnePassPerSubscription'
    <3>1. \A r \in Streams :
            subscriptionCount[r] # NoAccount => subscriptionCount'[r] # NoAccount
      BY <2>4, RoyaltyAssumption DEF Renew, MemberAccounts, CountAfterRenew, SaturatingAdd
    <3> QED
      BY <2>3, <2>4, <3>1, RenewedAccount DEF Renew, MemberAccounts
  <2>5. ASSUME NEW w \in Subscribers, NEW s \in Streams, Cancel(w, s)
        PROVE  OnePassPerSubscription'
    <3>1. \A r \in Streams :
            subscriptionCount[r] # NoAccount => subscriptionCount'[r] # NoAccount
      BY <2>5, RoyaltyAssumption DEF Cancel, MemberAccounts, CountAfterCancel, SaturatingSub
    <3> QED
      BY <2>3, <2>5, <3>1, CanceledAccount DEF Cancel, MemberAccounts
  <2>6. ASSUME NEW s \in Streams, NEW signal \in Signals, WriteSignal(s, signal)
        PROVE  OnePassPerSubscription'
    BY <2>6, RoyaltyAssumption DEF WriteSignal, CountOf
  <2>7. ASSUME KeyStep \/ Tick \/ UNCHANGED vars \/ UNCHANGED royaltyVars
        PROVE  OnePassPerSubscription'
    BY <2>1, <2>7 DEF KeyStep, RegisterKey, RegisterWalletKey,
         RegisterSubscriptionKey, Tick, vars, royaltyVars, membershipVars
  <2> QED
    BY <2>2, <2>4, <2>5, <2>6, <2>7, NextCases
<1> QED
  BY <1>1, <1>2, TypeCorrect, PTL DEF Spec

-----------------------------------------------------------------------------
(* Sums over finite sets: what SumFunction of the community modules returns. *)

(* A set of finite subsets that takes in the empty set, and every other set  *)
(* once it holds that set less the member CHOOSE picks, holds them all: the  *)
(* induction sums over finite sets need, with a set for the predicate.       *)
Picked(T) == CHOOSE x \in T : TRUE

LEMMA SubsetInduction ==
  ASSUME NEW S, IsFiniteSet(S), NEW X, {} \in X,
         \A T \in SUBSET S : T # {} /\ T \ {Picked(T)} \in X => T \in X
  PROVE  SUBSET S \subseteq X
<1> DEFINE left == (SUBSET S) \ X
<1> SUFFICES ASSUME left # {} PROVE FALSE
  OBVIOUS
<1>1. IsWellFoundedOn(StrictSubsetOrdering(S), SUBSET S)
  BY FS_StrictSubsetOrderingWellFounded, FS_FiniteSubsetsOfFinite
<1>2. PICK T \in left : \A U \in left : <<U, T>> \notin StrictSubsetOrdering(S)
  <2> HIDE DEF left
  <2>1. left \subseteq SUBSET S
    BY DEF left
  <2> QED
    BY <1>1, <2>1, WFMin
<1>3. T # {}
  OBVIOUS
<1>4. Picked(T) \in T
  BY <1>3 DEF Picked
<1>5. <<T \ {Picked(T)}, T>> \in StrictSubsetOrdering(S)
  BY <1>4 DEF StrictSubsetOrdering
<1> QED
  BY <1>2, <1>3, <1>5

LessThan == {ss \in Nat \X Nat : ss[1] < ss[2]}

LEMMA NatSets ==
  ASSUME NEW T, 0 \in T, \A n \in Nat : n \in T => n + 1 \in T
  PROVE  Nat \subseteq T
<1> SUFFICES ASSUME Nat \ T # {} PROVE FALSE
  OBVIOUS
<1>1. IsWellFoundedOn(LessThan, Nat)
  BY NatLessThanWellFounded DEF OpToRel, LessThan
<1>2. PICK x \in Nat \ T : \A y \in Nat \ T : <<y, x>> \notin LessThan
  BY <1>1, WFMin
<1>3. x # 0 /\ x - 1 \in Nat
  OBVIOUS
<1>4. <<x - 1, x>> \in LessThan
  BY <1>3 DEF LessThan
<1> QED
  BY <1>2, <1>3, <1>4

(* The recursion equation of a sum of f, at the sets of D. *)
SumsTo(f, h, D) ==
  \A T \in D : h[T] = IF T = {} THEN 0 ELSE f[Picked(T)] + h[T \ {Picked(T)}]

(* The community modules define the sum as some function that satisfies the  *)
(* equation; there is one, built up one cardinality at a time.               *)
LEMMA SomeSum ==
  ASSUME NEW S, IsFiniteSet(S), NEW f
  PROVE  \E h : h = [T \in SUBSET S |-> h[T]] /\ SumsTo(f, h, SUBSET S)
<1> DEFINE upTo(n) == {T \in SUBSET S : Cardinality(T) <= n}
           solves(n, h) == h = [T \in upTo(n) |-> h[T]] /\ SumsTo(f, h, upTo(n))
           solved == {n \in Nat : \E h : solves(n, h)}
<1>1. \A T \in SUBSET S : IsFiniteSet(T) /\ Cardinality(T) \in Nat
  BY FS_Subset, FS_CardinalityType
<1>2. 0 \in solved
  <2>1. upTo(0) = {{}}
    BY <1>1, FS_EmptySet
  <2>2. solves(0, [T \in upTo(0) |-> 0])
    BY <2>1 DEF SumsTo
  <2> QED
    BY <2>2
<1>3. ASSUME NEW n \in Nat, n \in solved PROVE n + 1 \in solved
  <2>1. PICK h : solves(n, h)
    BY <1>3
  <2> DEFINE g == [T \in upTo(n + 1) |->
                     IF T = {} THEN 0 ELSE f[Picked(T)] + h[T \ {Picked(T)}]]
  <2>2. ASSUME NEW T \in upTo(n + 1), T # {}
        PROVE  T \ {Picked(T)} \in upTo(n) /\ T \ {Picked(T)} \in upTo(n + 1)
    <3>1. Picked(T) \in T
      BY <2>2 DEF Picked
    <3> QED
      BY <1>1, <3>1, FS_RemoveElement
  <2>3. ASSUME NEW U \in upTo(n) PROVE U \in upTo(n + 1) /\ g[U] = h[U]
    <3>1. U \in upTo(n + 1)
      BY <1>1
    <3>2. h[U] = IF U = {} THEN 0 ELSE f[Picked(U)] + h[U \ {Picked(U)}]
      BY <2>1 DEF SumsTo
    <3> HIDE DEF upTo
    <3> QED
      BY <3>1, <3>2
  <2>4. SumsTo(f, g, upTo(n + 1))
    <3> SUFFICES ASSUME NEW T \in upTo(n + 1)
                 PROVE  g[T] = IF T = {} THEN 0 ELSE f[Picked(T)] + g[T \ {Picked(T)}]
      BY DEF SumsTo
    <3>1. g[T] = IF T = {} THEN 0 ELSE f[Picked(T)] + h[T \ {Picked(T)}]
      OBVIOUS
    <3>2. T # {} => g[T \ {Picked(T)}] = h[T \ {Picked(T)}]
      BY <2>2, <2>3
    <3> HIDE DEF g, upTo
    <3> QED
      BY <3>1, <3>2
  <2>5. g = [T \in upTo(n + 1) |-> g[T]]
    OBVIOUS
  <2> HIDE DEF g, upTo
  <2> QED
    BY <2>4, <2>5
<1>4. Cardinality(S) \in solved
  <2> HIDE DEF solved
  <2>1. Nat \subseteq solved
    BY <1>2, <1>3, NatSets
  <2> QED
    BY <1>1, <2>1
<1>5. upTo(Cardinality(S)) = SUBSET S
  BY FS_Subset
<1> QED
  BY <1>4, <1>5

LEMMA SumSolves ==
  ASSUME NEW S, IsFiniteSet(S), NEW f
  PROVE  \E h : SumsTo(f, h, SUBSET S) /\ SumFunctionOnSet(f, S) = h[S]
<1> DEFINE solves(h) == h = [T \in SUBSET S |->
             IF T = {} THEN 0
             ELSE f[CHOOSE x \in T : TRUE] + h[T \ {CHOOSE x \in T : TRUE}]]
<1>1. \E h : solves(h)
  <2>1. PICK h : h = [T \in SUBSET S |-> h[T]] /\ SumsTo(f, h, SUBSET S)
    BY SomeSum
  <2>2. solves(h)
    BY <2>1 DEF SumsTo, Picked
  <2> HIDE DEF solves
  <2> QED
    BY <2>2
<1> DEFINE sum == CHOOSE h : solves(h)
<1>2. solves(sum)
  <2> HIDE DEF solves
  <2> QED
    BY <1>1
<1>3. SumFunctionOnSet(f, S) = sum[S]
  BY DEF SumFunctionOnSet, FoldFunctionOnSet, MapThenFoldSet
<1> HIDE DEF sum
<1>4. SumsTo(f, sum, SUBSET S)
  BY <1>2 DEF SumsTo, Picked
<1> QED
  BY <1>3, <1>4

(* A sum of integers is an integer, of naturals a natural, of zeroes zero.  *)
LEMMA SumType ==
  ASSUME NEW S, IsFiniteSet(S), NEW f \in [S -> Nat]
  PROVE  SumFunction(f) \in Nat
<1>1. PICK h : SumsTo(f, h, SUBSET S) /\ SumFunctionOnSet(f, S) = h[S]
  BY SumSolves
<1> DEFINE X == {T \in SUBSET S : h[T] \in Nat}
<1>2. {} \in X
  BY <1>1 DEF SumsTo
<1>3. ASSUME NEW T \in SUBSET S, T # {}, T \ {Picked(T)} \in X PROVE T \in X
  <2>1. Picked(T) \in S
    BY <1>3 DEF Picked
  <2> QED
    BY <1>1, <1>3, <2>1 DEF SumsTo
<1> HIDE DEF X
<1>4. S \in X
  BY <1>2, <1>3, SubsetInduction
<1> QED
  BY <1>1, <1>4 DEF X, SumFunction

LEMMA SumOfZeroes ==
  ASSUME NEW S, IsFiniteSet(S), NEW f, f = [x \in S |-> 0]
  PROVE  SumFunction(f) = 0
<1>1. PICK h : SumsTo(f, h, SUBSET S) /\ SumFunctionOnSet(f, S) = h[S]
  BY SumSolves
<1> DEFINE X == {T \in SUBSET S : h[T] = 0}
<1>2. {} \in X
  BY <1>1 DEF SumsTo
<1>3. ASSUME NEW T \in SUBSET S, T # {}, T \ {Picked(T)} \in X PROVE T \in X
  <2>1. Picked(T) \in S
    BY <1>3 DEF Picked
  <2>2. f[Picked(T)] = 0 /\ h[T \ {Picked(T)}] = 0
    BY <1>3, <2>1
  <2> QED
    BY <1>1, <1>3, <2>2 DEF SumsTo
<1> HIDE DEF X
<1>4. S \in X
  BY <1>2, <1>3, SubsetInduction
<1>5. DOMAIN f = S
  OBVIOUS
<1> QED
  BY <1>1, <1>4, <1>5 DEF X, SumFunction

(* Raising one entry by d raises the sum by d. *)
LEMMA SumWithOneRaised ==
  ASSUME NEW S, IsFiniteSet(S), NEW f \in [S -> Nat], NEW g \in [S -> Nat],
         NEW x \in S, NEW d \in Nat, g[x] = f[x] + d,
         \A y \in S \ {x} : g[y] = f[y]
  PROVE  SumFunction(g) = SumFunction(f) + d
<1>1. PICK h : SumsTo(f, h, SUBSET S) /\ SumFunctionOnSet(f, S) = h[S]
  BY SumSolves
<1>2. PICK k : SumsTo(g, k, SUBSET S) /\ SumFunctionOnSet(g, S) = k[S]
  BY SumSolves
<1> DEFINE X == {T \in SUBSET S : /\ h[T] \in Nat
                                  /\ k[T] = IF x \in T THEN h[T] + d ELSE h[T]}
<1>3. {} \in X
  <2>1. h[{}] = 0 /\ k[{}] = 0
    BY <1>1, <1>2 DEF SumsTo
  <2> QED
    BY <2>1
<1>4. ASSUME NEW T \in SUBSET S, T # {}, T \ {Picked(T)} \in X PROVE T \in X
  <2>1. Picked(T) \in S /\ Picked(T) \in T
    BY <1>4 DEF Picked
  <2> DEFINE y == Picked(T)
             U == T \ {y}
  <2>2. h[T] = f[y] + h[U] /\ k[T] = g[y] + k[U]
    BY <1>1, <1>2, <1>4 DEF SumsTo
  <2>3. /\ h[U] \in Nat
        /\ k[U] = IF x \in U THEN h[U] + d ELSE h[U]
    BY <1>4
  <2>4. f[y] \in Nat /\ g[y] = IF y = x THEN f[y] + d ELSE f[y]
    BY <2>1
  <2>5. x \in T <=> x \in U \/ y = x
    BY <2>1
  <2>6. ~(x \in U /\ y = x)
    OBVIOUS
  <2> HIDE DEF y, U
  <2> QED
    BY <2>2, <2>3, <2>4, <2>5, <2>6
<1> HIDE DEF X
<1>5. S \in X
  BY <1>3, <1>4, SubsetInduction
<1> QED
  BY <1>1, <1>2, <1>5 DEF X, SumFunction

-----------------------------------------------------------------------------
(* The ledger.  The invariant adds to it where a price can have been paid: a *)
(* wallet subscribes once per stream and a stream is created once, so that a *)
(* sale raises one entry of the sums from zero, and the payees a sale is     *)
(* booked to are those it was booked to.                                     *)

SoldHere ==
  \A s \in Streams, w \in Subscribers :
    paid[s][w] # NoAccount => subscription[s][w] # NoAccount /\ StreamExists(s)

LedgerInv == SoldHere /\ LamportsLedger

(* A price splits without remainder, also where the fee saturates.          *)
LEMMA PriceSplits ==
  ASSUME NEW price \in Nat, price = 0 \/ price \in Prices
  PROVE  /\ Fee(price) \in Nat /\ MakerAmount(price) \in Nat
         /\ price = MakerAmount(price) + Fee(price)
         /\ price = 0 => Fee(price) = 0 /\ MakerAmount(price) = 0
<1>1. SaturatingMul(price, PlatformFeeBps) \in 0 .. price * 100
  BY RoyaltyAssumption DEF SaturatingMul, PlatformFeeBps
<1>2. Fee(price) \in 0 .. price
  BY <1>1 DEF Fee
<1> QED
  BY <1>2 DEF MakerAmount, SaturatingSub

LEMMA PricePaidType ==
  ASSUME TypeOK, NEW s \in Streams, NEW w \in Subscribers
  PROVE  /\ PricePaid(s, w) \in Nat
         /\ Fee(PricePaid(s, w)) \in Nat /\ MakerAmount(PricePaid(s, w)) \in Nat
<1>1. /\ PricePaid(s, w) \in Nat
      /\ PricePaid(s, w) = 0 \/ PricePaid(s, w) \in Prices
  BY RegistryAssumption DEF PricePaid, TypeOK, RoyaltyTypeOK
<1> QED
  BY <1>1, PriceSplits

LEMMA SalesType ==
  ASSUME TypeOK, NEW s \in Streams
  PROVE  MakerSales(s) \in Nat /\ FeeSales(s) \in Nat
BY PricePaidType, SubscribersAssumption, SumType DEF MakerSales, FeeSales

LEMMA LedgerType ==
  ASSUME TypeOK, NEW p
  PROVE  Spent(p) \in Nat /\ Royalties(p) \in Nat /\ Fees(p) \in Nat
BY PricePaidType, SalesType, StreamsAssumption, SumType DEF Spent, Royalties, Fees

(* A transaction that sells nothing and pays nobody leaves the ledger alone  *)
(* if it keeps who is paid for every stream something was sold on.           *)
LEMMA NoSale ==
  ASSUME TypeOK, TypeOK', LedgerInv, UNCHANGED <<paid, lamports>>,
         \A s \in Streams, w \in Subscribers :
           subscription[s][w] # NoAccount => subscription'[s][w] # NoAccount,
         \A s \in Streams : StreamExists(s) =>
           /\ StreamExists(s)'
           /\ streamConfig'[s].authority = streamConfig[s].authority
           /\ streamConfig'[s].dao = streamConfig[s].dao
  PROVE  LedgerInv'
<1>1. SoldHere'
  BY DEF LedgerInv, SoldHere
<1>2. \A s \in Streams, w \in Subscribers : PricePaid(s, w)' = PricePaid(s, w)
  BY DEF PricePaid
<1>3. \A p : Spent(p)' = Spent(p)
  BY <1>2 DEF Spent
<1>4. \A s \in Streams : MakerSales(s)' = MakerSales(s) /\ FeeSales(s)' = FeeSales(s)
  BY <1>2 DEF MakerSales, FeeSales
<1>5. ASSUME NEW s \in Streams, ~StreamExists(s)
      PROVE  MakerSales(s) = 0 /\ FeeSales(s) = 0
  <2>1. \A w \in Subscribers : PricePaid(s, w) = 0
    BY <1>5 DEF LedgerInv, SoldHere, PricePaid
  <2>2. \A w \in Subscribers : MakerAmount(PricePaid(s, w)) = 0 /\ Fee(PricePaid(s, w)) = 0
    BY <2>1, PriceSplits
  <2> QED
    BY <2>2, SubscribersAssumption, SumOfZeroes DEF MakerSales, FeeSales
<1>6. ASSUME NEW p PROVE Royalties(p)' = Royalties(p)
  <2>1. \A s \in Streams :
          (IF SignedByAuthority(p, s) THEN MakerSales(s) ELSE 0)' =
          IF SignedByAuthority(p, s) THEN MakerSales(s) ELSE 0
    BY <1>4, <1>5 DEF SignedByAuthority, StreamExists
  <2> QED
    BY <2>1 DEF Royalties
<1>7. ASSUME NEW p PROVE Fees(p)' = Fees(p)
  <2>1. \A s \in Streams :
          (IF PaysFeesTo(p, s) THEN FeeSales(s) ELSE 0)' =
          IF PaysFeesTo(p, s) THEN FeeSales(s) ELSE 0
    BY <1>4, <1>5 DEF PaysFeesTo, StreamExists
  <2> QED
    BY <2>1 DEF Fees
<1> QED
  BY <1>1, <1>3, <1>6, <1>7 DEF LedgerInv, LamportsLedger

(* A sale is one price more on the payer's side, one maker's amount and one  *)
(* fee more on the payees'.                                                  *)
LEMMA SaleIsBooked ==
  ASSUME TypeOK, TypeOK', SoldHere,
         NEW w \in Subscribers, NEW s \in Streams, NEW t \in Tiers,
         NEW pricing \in PricingTypes, NEW evidence \in EvidenceLevels,
         NEW expiresAt \in Expiries, NEW quota \in Quotas, NEW price \in Prices,
         NEW maker \in Makers, NEW treasury \in Treasuries,
         Subscribe(w, s, t, pricing, evidence, expiresAt, quota, price, maker, treasury),
         NEW p
  PROVE  /\ Spent(p)' = Spent(p) + IF p = w THEN price ELSE 0
         /\ Royalties(p)' = Royalties(p) + IF p = maker THEN MakerAmount(price) ELSE 0
         /\ Fees(p)' = Fees(p) + IF p = treasury THEN Fee(price) ELSE 0
<1>1. /\ paid[s][w] = NoAccount
      /\ paid' = [paid EXCEPT ![s][w] = price]
      /\ streamConfig' = streamConfig
      /\ StreamExists(s)
      /\ streamConfig[s].authority = maker /\ streamConfig[s].dao = treasury
  BY DEF Subscribe, SubscribeAccounts, SoldHere, StreamActive, registryVars
<1>2. price \in Nat /\ price # NoAccount /\ Fee(price) \in Nat /\ MakerAmount(price) \in Nat
  BY RegistryAssumption, RoyaltyAssumption, PriceSplits
<1>3. /\ PricePaid(s, w) = 0 /\ PricePaid(s, w)' = price
      /\ \A r \in Streams, v \in Subscribers :
           r # s \/ v # w => PricePaid(r, v)' = PricePaid(r, v)
  BY <1>1, <1>2 DEF PricePaid, TypeOK, RoyaltyTypeOK
<1>4. /\ Fee(PricePaid(s, w)) = 0 /\ MakerAmount(PricePaid(s, w)) = 0
      /\ Fee(PricePaid(s, w)') = Fee(price)
      /\ MakerAmount(PricePaid(s, w)') = MakerAmount(price)
  BY <1>3, PriceSplits
<1>5. \A r \in Streams, v \in Subscribers :
        /\ PricePaid(r, v) \in Nat /\ PricePaid(r, v)' \in Nat
        /\ Fee(PricePaid(r, v)) \in Nat /\ Fee(PricePaid(r, v)') \in Nat
        /\ MakerAmount(PricePaid(r, v)) \in Nat /\ MakerAmount(PricePaid(r, v)') \in Nat
  <2>1. \A r \in Streams, v \in Subscribers :
          /\ PricePaid(r, v)' \in Nat
          /\ PricePaid(r, v)' = 0 \/ PricePaid(r, v)' \in Prices
    <3>1. paid' \in [Streams -> [Subscribers -> Prices \cup {NoAccount}]]
      BY DEF TypeOK, RoyaltyTypeOK
    <3> QED
      BY <3>1, RegistryAssumption DEF PricePaid
  <2> QED
    BY <2>1, PricePaidType, PriceSplits
<1>6. /\ MakerSales(s)' = MakerSales(s) + MakerAmount(price)
      /\ FeeSales(s)' = FeeSales(s) + Fee(price)
  <2> DEFINE f == [v \in Subscribers |-> MakerAmount(PricePaid(s, v))]
             g == [v \in Subscribers |-> MakerAmount(PricePaid(s, v)')]
             j == [v \in Subscribers |-> Fee(PricePaid(s, v))]
             k == [v \in Subscribers |-> Fee(PricePaid(s, v)')]
  <2>1. /\ f \in [Subscribers -> Nat] /\ g \in [Subscribers -> Nat]
        /\ j \in [Subscribers -> Nat] /\ k \in [Subscribers -> Nat]
    BY <1>5
  <2>2. /\ g[w] = f[w] + MakerAmount(price) /\ \A v \in Subscribers \ {w} : g[v] = f[v]
        /\ k[w] = j[w] + Fee(price) /\ \A v \in Subscribers \ {w} : k[v] = j[v]
    BY <1>2, <1>3, <1>4
  <2>3. /\ MakerSales(s) = SumFunction(f) /\ MakerSales(s)' = SumFunction(g)
        /\ FeeSales(s) = SumFunction(j) /\ FeeSales(s)' = SumFunction(k)
    BY DEF MakerSales, FeeSales
  <2> HIDE DEF f, g, j, k
  <2> QED
    BY <1>2, <2>1, <2>2, <2>3, SubscribersAssumption, SumWithOneRaised
<1>7. \A r \in Streams \ {s} : MakerSales(r)' = MakerSales(r) /\ FeeSales(r)' = FeeSales(r)
  BY <1>3 DEF MakerSales, FeeSales
<1>8. \A r \in Streams : MakerSales(r) \in Nat /\ FeeSales(r) \in Nat
  BY SalesType
<1>9. Spent(p)' = Spent(p) + IF p = w THEN price ELSE 0
  <2> DEFINE f == [r \in Streams |-> IF p \in Subscribers THEN PricePaid(r, p) ELSE 0]
             g == [r \in Streams |-> IF p \in Subscribers THEN PricePaid(r, p)' ELSE 0]
             d == IF p = w THEN price ELSE 0
  <2>1. f \in [Streams -> Nat] /\ g \in [Streams -> Nat] /\ d \in Nat
    BY <1>2, <1>5
  <2>2. g[s] = f[s] + d /\ \A r \in Streams \ {s} : g[r] = f[r]
    BY <1>2, <1>3, <1>5
  <2>3. Spent(p) = SumFunction(f) /\ Spent(p)' = SumFunction(g)
    BY DEF Spent
  <2> HIDE DEF f, g, d
  <2>4. Spent(p)' = Spent(p) + d
    BY <2>1, <2>2, <2>3, StreamsAssumption, SumWithOneRaised
  <2> QED
    BY <2>4 DEF d
<1>10. \A r \in Streams :
         /\ SignedByAuthority(p, r)' = SignedByAuthority(p, r)
         /\ PaysFeesTo(p, r)' = PaysFeesTo(p, r)
  BY <1>1 DEF SignedByAuthority, PaysFeesTo, StreamExists
<1>11. (SignedByAuthority(p, s) <=> p = maker) /\ (PaysFeesTo(p, s) <=> p = treasury)
  BY <1>1 DEF SignedByAuthority, PaysFeesTo
<1>12. Royalties(p)' = Royalties(p) + IF p = maker THEN MakerAmount(price) ELSE 0
  <2> DEFINE f == [r \in Streams |-> IF SignedByAuthority(p, r) THEN MakerSales(r) ELSE 0]
             g == [r \in Streams |-> IF SignedByAuthority(p, r) THEN MakerSales(r)' ELSE 0]
             d == IF p = maker THEN MakerAmount(price) ELSE 0
  <2>1. f \in [Streams -> Nat] /\ g \in [Streams -> Nat] /\ d \in Nat
    BY <1>2, <1>6, <1>7, <1>8
  <2>2. g[s] = f[s] + d /\ \A r \in Streams \ {s} : g[r] = f[r]
    BY <1>2, <1>6, <1>7, <1>8, <1>11
  <2>3. Royalties(p) = SumFunction(f) /\ Royalties(p)' = SumFunction(g)
    BY <1>10 DEF Royalties
  <2> HIDE DEF f, g, d
  <2>4. Royalties(p)' = Royalties(p) + d
    BY <2>1, <2>2, <2>3, StreamsAssumption, SumWithOneRaised
  <2> QED
    BY <2>4 DEF d
<1>13. Fees(p)' = Fees(p) + IF p = treasury THEN Fee(price) ELSE 0
  <2> DEFINE f == [r \in Streams |-> IF PaysFeesTo(p, r) THEN FeeSales(r) ELSE 0]
             g == [r \in Streams |-> IF PaysFeesTo(p, r) THEN FeeSales(r)' ELSE 0]
             d == IF p = treasury THEN Fee(price) ELSE 0
  <2>1. f \in [Streams -> Nat] /\ g \in [Streams -> Nat] /\ d \in Nat
    BY <1>2, <1>6, <1>7, <1>8
  <2>2. g[s] = f[s] + d /\ \A r \in Streams \ {s} : g[r] = f[r]
    BY <1>2, <1>6, <1>7, <1>8, <1>11
  <2>3. Fees(p) = SumFunction(f) /\ Fees(p)' = SumFunction(g)
    BY <1>10 DEF Fees
  <2> HIDE DEF f, g, d
  <2>4. Fees(p)' = Fees(p) + d
    BY <2>1, <2>2, <2>3, StreamsAssumption, SumWithOneRaised
  <2> QED
    BY <2>4 DEF d
<1> QED
  BY <1>9, <1>12, <1>13

LEMMA SaleKeepsLedger ==
  ASSUME TypeOK, TypeOK', LedgerInv,
         NEW w \in Subscribers, NEW s \in Streams, NEW t \in Tiers,
         NEW pricing \in PricingTypes, NEW evidence \in EvidenceLevels,
         NEW expiresAt \in Expiries, NEW quota \in Quotas, NEW price \in Prices,
         NEW maker \in Makers, NEW treasury \in Treasuries,
         Subscribe(w, s, t, pricing, evidence, expiresAt, quota, price, maker, treasury)
  PROVE  LedgerInv'
<1>1. SoldHere'
  <2>1. subscription'[s][w] # NoAccount
    <3>1. subscription'[s][w] = [tier |-> t, expiresAt |-> expiresAt, quota |-> quota,
                                 status |-> "Active"]
      BY DEF Subscribe, TypeOK, RoyaltyTypeOK
    <3> QED
      BY <3>1, RoyaltyAssumption DEF Subscriptions, SubscriptionStatuses
  <2>2. /\ StreamExists(s) /\ streamConfig' = streamConfig
        /\ \A r \in Streams, v \in Subscribers : r # s \/ v # w =>
             paid'[r][v] = paid[r][v] /\ subscription'[r][v] = subscription[r][v]
    BY DEF Subscribe, StreamActive, registryVars, TypeOK, RoyaltyTypeOK
  <2> QED
    BY <2>1, <2>2 DEF LedgerInv, SoldHere, StreamExists
<1>2. ASSUME NEW p \in Wallets
      PROVE  lamports'[p] = lamports[p] - (IF p = w THEN price ELSE 0)
                              + (IF p = maker THEN MakerAmount(price) ELSE 0)
                              + (IF p = treasury THEN Fee(price) ELSE 0)
  <2>1. w \in Wallets /\ maker \in Wallets /\ treasury \in Wallets
    BY DEF Wallets
  <2>2. /\ Fee(price) \in Nat /\ MakerAmount(price) \in Nat /\ price \in Nat
        /\ price = MakerAmount(price) + Fee(price)
    BY RegistryAssumption, PriceSplits
  <2>3. lamports \in [Wallets -> Nat]
    BY DEF TypeOK, RoyaltyTypeOK
  <2> DEFINE makerPaid == Transfer(lamports, w, maker, MakerAmount(price))
  <2>4. /\ makerPaid \in [Wallets -> Int]
        /\ makerPaid[p] = lamports[p] - (IF p = w THEN MakerAmount(price) ELSE 0)
                            + (IF p = maker THEN MakerAmount(price) ELSE 0)
    BY <2>1, <2>2, <2>3 DEF Transfer
  <2>5. lamports' = Transfer(makerPaid, w, treasury, Fee(price))
    BY DEF Subscribe
  <2> HIDE DEF makerPaid
  <2>6. lamports'[p] = makerPaid[p] - (IF p = w THEN Fee(price) ELSE 0)
                         + (IF p = treasury THEN Fee(price) ELSE 0)
    BY <2>1, <2>2, <2>4, <2>5 DEF Transfer
  <2> QED
    BY <2>2, <2>3, <2>4, <2>6
<1>3. LamportsLedger'
  <2> SUFFICES ASSUME NEW p \in Wallets
               PROVE  lamports'[p] + Spent(p)' = InitialLamports + Royalties(p)' + Fees(p)'
    BY DEF LamportsLedger
  <2>1. lamports[p] + Spent(p) = InitialLamports + Royalties(p) + Fees(p)
    BY DEF LedgerInv, LamportsLedger
  <2>2. /\ lamports[p] \in Nat /\ price \in Nat /\ InitialLamports \in Nat
        /\ Fee(price) \in Nat /\ MakerAmount(price) \in Nat
    BY RegistryAssumption, RoyaltyAssumption, PriceSplits DEF TypeOK, RoyaltyTypeOK
  <2>3. Spent(p) \in Nat /\ Royalties(p) \in Nat /\ Fees(p) \in Nat
    BY LedgerType
  <2>4. /\ Spent(p)' = Spent(p) + IF p = w THEN price ELSE 0
        /\ Royalties(p)' = Royalties(p) + IF p = maker THEN MakerAmount(price) ELSE 0
        /\ Fees(p)' = Fees(p) + IF p = treasury THEN Fee(price) ELSE 0
    BY SaleIsBooked DEF LedgerInv
  <2> QED
    BY <1>2, <2>1, <2>2, <2>3, <2>4
<1> QED
  BY <1>1, <1>3 DEF LedgerInv

(* A registry instruction never changes who is paid for a stream.           *)
LEMMA PayeesKept ==
  ASSUME TypeOK, RegistryNext, NEW s \in Streams, StreamExists(s)
  PROVE  /\ StreamExists(s)'
         /\ streamConfig'[s].authority = streamConfig[s].authority
         /\ streamConfig'[s].dao = streamConfig[s].dao
<1> USE DEF StreamExists, TypeOK, RegistryTypeOK
<1>1. streamConfig[s] \in StreamConfigs
  OBVIOUS
<1>2. ASSUME NEW account \in StreamConfigs,
             account.authority = streamConfig[s].authority,
             account.dao = streamConfig[s].dao, streamConfig'[s] = account
      PROVE  /\ StreamExists(s)'
             /\ streamConfig'[s].authority = streamConfig[s].authority
             /\ streamConfig'[s].dao = streamConfig[s].dao
  BY <1>2, RegistryAssumption
<1>3. PICK m \in Makers, r \in Streams :
        \/ \E hash \in TiersHashes, dao \in Treasuries, v \in Visibilities :
             CreateStream(m, r, hash, dao, v)
        \/ \E hash \in TiersHashes, status \in StreamStatuses :
             UpdateStream(m, r, hash, status)
        \/ \E hash \in TiersHashes : SetTiers(m, r, hash)
        \/ streamConfig' = streamConfig
  BY DEF RegistryNext, UpsertTier, GrantPublisher, RevokePublisher
<1>4. CASE \/ streamConfig' = streamConfig
           \/ \E hash \in TiersHashes, dao \in Treasuries, v \in Visibilities :
                CreateStream(m, r, hash, dao, v)
  <2>1. streamConfig'[s] = streamConfig[s]
    BY <1>4 DEF CreateStream
  <2> QED
    BY <2>1
<1>5. CASE \E hash \in TiersHashes, status \in StreamStatuses :
             UpdateStream(m, r, hash, status)
  <2>1. PICK hash \in TiersHashes, status \in StreamStatuses :
          UpdateStream(m, r, hash, status)
    BY <1>5
  <2> DEFINE account == [streamConfig[s] EXCEPT !.tiersHash = hash, !.status = status]
  <2>2. /\ account \in StreamConfigs
        /\ account.authority = streamConfig[s].authority /\ account.dao = streamConfig[s].dao
    BY <1>1 DEF StreamConfigs
  <2>3. streamConfig'[s] = IF s = r THEN account ELSE streamConfig[s]
    BY <2>1 DEF UpdateStream
  <2> HIDE DEF account
  <2> QED
    BY <1>1, <1>2, <2>2, <2>3
<1>6. CASE \E hash \in TiersHashes : SetTiers(m, r, hash)
  <2>1. PICK hash \in TiersHashes : SetTiers(m, r, hash)
    BY <1>6
  <2> DEFINE account == [streamConfig[s] EXCEPT !.tiersHash = hash]
  <2>2. /\ account \in StreamConfigs
        /\ account.authority = streamConfig[s].authority /\ account.dao = streamConfig[s].dao
    BY <1>1 DEF StreamConfigs
  <2>3. streamConfig'[s] = IF s = r THEN account ELSE streamConfig[s]
    BY <2>1 DEF SetTiers
  <2> HIDE DEF account
  <2> QED
    BY <1>1, <1>2, <2>2, <2>3
<1> QED
  BY <1>3, <1>4, <1>5, <1>6

(* No lamport is lost or invented: every wallet holds what it started with,  *)
(* less one price per stream it ever subscribed to, plus its royalties and   *)
(* fees, whatever the payer and the payees have in common.                   *)
THEOREM LedgerCorrect == Spec => []LamportsLedger
<1>1. Init => LedgerInv
  <2> SUFFICES ASSUME Init PROVE LedgerInv
    OBVIOUS
  <2>1. \A s \in Streams, w \in Subscribers : PricePaid(s, w) = 0
    BY DEF Init, NoAccounts, PricePaid
  <2>2. ASSUME NEW p PROVE Spent(p) = 0
    <3>1. [s \in Streams |-> IF p \in Subscribers THEN PricePaid(s, p) ELSE 0]
            = [s \in Streams |-> 0]
      BY <2>1
    <3> QED
      BY <3>1, StreamsAssumption, SumOfZeroes DEF Spent
  <2>3. ASSUME NEW p PROVE Royalties(p) = 0 /\ Fees(p) = 0
    <3>1. /\ [s \in Streams |-> IF SignedByAuthority(p, s) THEN MakerSales(s) ELSE 0]
               = [s \in Streams |-> 0]
          /\ [s \in Streams |-> IF PaysFeesTo(p, s) THEN FeeSales(s) ELSE 0]
               = [s \in Streams |-> 0]
      BY DEF Init, RegistryInit, SignedByAuthority, PaysFeesTo, StreamExists
    <3> QED
      BY <3>1, StreamsAssumption, SumOfZeroes DEF Royalties, Fees
  <2>4. SoldHere
    BY DEF Init, NoAccounts, SoldHere
  <2> QED
    BY <2>2, <2>3, <2>4, RoyaltyAssumption DEF LedgerInv, LamportsLedger, Init
<1>2. TypeOK /\ TypeOK' /\ LedgerInv /\ [Next]_vars => LedgerInv'
  <2> SUFFICES ASSUME TypeOK, TypeOK', LedgerInv, [Next]_vars PROVE LedgerInv'
    OBVIOUS
  <2>1. ASSUME SubscribeStep PROVE LedgerInv'
    BY <2>1, SaleKeepsLedger DEF SubscribeStep
  <2>2. ASSUME RegistryNext, UNCHANGED royaltyVars PROVE LedgerInv'
    <3>1. UNCHANGED <<subscription, paid, lamports>>
      BY <2>2 DEF royaltyVars, membershipVars
    <3> QED
      BY <2>2, <3>1, PayeesKept, NoSale
  <2>3. ASSUME UNCHANGED <<streamConfig, subscription, paid, lamports>> PROVE LedgerInv'
    BY <2>3, NoSale DEF StreamExists
  <2>4. ASSUME NEW w \in Subscribers, NEW s \in Streams,
               subscription'[s][w] \in Subscriptions,
               \A r \in Streams, v \in Subscribers :
                 r # s \/ v # w => subscription'[r][v] = subscription[r][v],
               UNCHANGED <<streamConfig, paid, lamports>>
        PROVE  LedgerInv'
    <3>1. \A r \in Streams, v \in Subscribers :
            subscription[r][v] # NoAccount => subscription'[r][v] # NoAccount
      BY <2>4, RoyaltyAssumption
    <3> QED
      BY <2>4, <3>1, NoSale DEF StreamExists
  <2>5. ASSUME NEW w \in Subscribers, NEW s \in Streams,
               NEW expiresAt \in Expiries, NEW quota \in Quotas,
               Renew(w, s, expiresAt, quota)
        PROVE  LedgerInv'
    BY <2>4, <2>5, RenewedAccount DEF Renew, registryVars, TypeOK, RoyaltyTypeOK
  <2>6. ASSUME NEW w \in Subscribers, NEW s \in Streams, Cancel(w, s)
        PROVE  LedgerInv'
    BY <2>4, <2>6, CanceledAccount DEF Cancel, registryVars, TypeOK, RoyaltyTypeOK
  <2>7. ASSUME NEW s \in Streams, NEW signal \in Signals, WriteSignal(s, signal)
        PROVE  LedgerInv'
    BY <2>3, <2>7 DEF WriteSignal, registryVars
  <2>8. ASSUME KeyStep \/ Tick \/ UNCHANGED vars PROVE LedgerInv'
    BY <2>3, <2>8 DEF KeyStep, RegisterKey, RegisterWalletKey,
         RegisterSubscriptionKey, Tick, vars, royaltyVars, membershipVars, registryVars
  <2> QED
    BY <2>1, <2>2, <2>5, <2>6, <2>7, <2>8, NextCases
<1> QED
  BY <1>1, <1>2, TypeCorrect, PTL DEF Spec, LedgerInv

-----------------------------------------------------------------------------
(* The program implements the membership book. *)

(* Every transaction is a step of the book or leaves it alone: subscribe is *)
(* Join, renew of a cancelled subscription is Return, cancel of an active   *)
(* one is Leave.                                                            *)
THEOREM MembershipImplemented == Spec => ImplementsMembership
<1>1. Init => Book!Init
  <2> SUFFICES ASSUME Init PROVE Book!Init
    OBVIOUS
  <2>1. ASSUME NEW s \in Streams
        PROVE  EverSubscribed(s) = {} /\ ActiveSubscribers(s) = {} /\ CountOf(s) = 0
    BY DEF Init, NoAccounts, EverSubscribed, ActiveSubscribers, IsActive, CountOf
  <2> QED
    BY <2>1 DEF Book!Init
<1>2. TypeOK /\ CountMatchesActive /\ [Next]_vars => [Book!Next]_(Book!membershipVars)
  <2> SUFFICES ASSUME TypeOK, CountMatchesActive, [Next]_vars
               PROVE  [Book!Next]_(Book!membershipVars)
    OBVIOUS
  <2>1. ASSUME SubscribeStep PROVE Book!Next
    <3>1. PICK s \in Streams, w \in Subscribers :
            /\ OthersKept(s) /\ w \notin EverSubscribed(s)
            /\ EverSubscribed(s)' = EverSubscribed(s) \cup {w}
            /\ ActiveSubscribers(s)' = ActiveSubscribers(s) \cup {w}
            /\ CountOf(s)' = CountOf(s) + 1
      BY <2>1, SubscribePage DEF SubscribeStep
    <3>2. Book!Join(s, w)
      BY <3>1, OtherPages DEF Book!Join, Book!Enter
    <3> QED
      BY <3>2 DEF Book!Next
  <2>2. ASSUME NEW w \in Subscribers, NEW s \in Streams,
               NEW expiresAt \in Expiries, NEW quota \in Quotas,
               Renew(w, s, expiresAt, quota)
        PROVE  Book!Next \/ UNCHANGED Book!membershipVars
    <3>1. CASE w \in ActiveSubscribers(s)
      <4>1. ActiveSubscribers(s)' = ActiveSubscribers(s) /\ CountOf(s)' = CountOf(s)
        BY <2>2, <3>1, RenewPage
      <4> QED
        BY <2>2, <4>1, RenewPage, OtherPages DEF Book!membershipVars
    <3>2. CASE w \notin ActiveSubscribers(s)
      <4>1. Book!Return(s, w)
        BY <2>2, <3>2, RenewPage, OtherPages DEF Book!Return, Book!Enter
      <4> QED
        BY <4>1 DEF Book!Next
    <3> QED
      BY <3>1, <3>2
  <2>3. ASSUME NEW w \in Subscribers, NEW s \in Streams, Cancel(w, s)
        PROVE  Book!Next \/ UNCHANGED Book!membershipVars
    <3>1. CASE w \in ActiveSubscribers(s)
      <4>1. Book!Leave(s, w)
        BY <2>3, <3>1, CancelPage, OtherPages DEF Book!Leave
      <4> QED
        BY <4>1 DEF Book!Next
    <3>2. CASE w \notin ActiveSubscribers(s)
      <4>1. ActiveSubscribers(s)' = ActiveSubscribers(s) /\ CountOf(s)' = CountOf(s)
        BY <2>3, <3>2, CancelPage
      <4> QED
        BY <2>3, <4>1, CancelPage, OtherPages DEF Book!membershipVars
    <3> QED
      BY <3>1, <3>2
  <2>4. ASSUME subscription' = subscription,
               \A s \in Streams : CountOf(s)' = CountOf(s)
        PROVE  UNCHANGED Book!membershipVars
    BY <2>4 DEF Book!membershipVars, EverSubscribed, ActiveSubscribers, IsActive
  <2> QED
    BY <2>1, <2>2, <2>3, <2>4, OtherSteps, NextCases
<1> QED
  BY <1>1, <1>2, TypeCorrect, CountCorrect, PTL DEF Spec, ImplementsMembership, Book!Spec

-----------------------------------------------------------------------------
(* Terms. *)

(* What a subscription was bought as stays: no instruction of either        *)
(* program writes the tier of an account that exists, closes it, or sells   *)
(* the subscription once more.                                              *)
THEOREM TermsCorrect == Spec => TermsAreKept
<1> DEFINE Terms(s, w) ==
             subscription[s][w] # NoAccount =>
               /\ subscription'[s][w] # NoAccount
               /\ subscription'[s][w].tier = subscription[s][w].tier
               /\ paid'[s][w] = paid[s][w]
<1>1. TypeOK /\ [Next]_vars => \A s \in Streams, w \in Subscribers : Terms(s, w)
  <2> SUFFICES ASSUME TypeOK, [Next]_vars, NEW s \in Streams, NEW w \in Subscribers,
                      subscription[s][w] # NoAccount
               PROVE  Terms(s, w)
    OBVIOUS
  <2> USE DEF TypeOK, RoyaltyTypeOK
  <2>1. subscription[s][w] \in Subscriptions
    OBVIOUS
  <2>2. ASSUME UNCHANGED <<subscription, paid>> PROVE Terms(s, w)
    BY <2>2
  <2>3. ASSUME NEW v \in Subscribers, NEW r \in Streams, r # s \/ v # w,
               NEW account, NEW price,
               subscription' = [subscription EXCEPT ![r][v] = account],
               paid' = paid \/ paid' = [paid EXCEPT ![r][v] = price]
        PROVE  Terms(s, w)
    BY <2>3
  <2>4. ASSUME SubscribeStep PROVE Terms(s, w)
    <3>1. PICK v \in Subscribers, r \in Streams, t \in Tiers, pricing \in PricingTypes,
               evidence \in EvidenceLevels, expiresAt \in Expiries, quota \in Quotas,
               price \in Prices, maker \in Makers, treasury \in Treasuries :
            Subscribe(v, r, t, pricing, evidence, expiresAt, quota, price, maker, treasury)
      BY <2>4 DEF SubscribeStep
    <3>2. r # s \/ v # w
      BY <3>1 DEF Subscribe, SubscribeAccounts
    <3> QED
      BY <2>3, <3>1, <3>2 DEF Subscribe
  <2>5. ASSUME NEW v \in Subscribers, NEW r \in Streams, NEW expiresAt \in Expiries,
               NEW quota \in Quotas, Renew(v, r, expiresAt, quota)
        PROVE  Terms(s, w)
    <3>1. CASE r # s \/ v # w
      BY <2>3, <2>5, <3>1 DEF Renew
    <3>2. CASE r = s /\ v = w
      <4>1. /\ subscription'[s][w] = [subscription[s][w] EXCEPT
                 !.expiresAt = expiresAt, !.quota = quota, !.status = "Active"]
            /\ paid' = paid
        BY <2>5, <3>2 DEF Renew
      <4>2. subscription'[s][w] # NoAccount
        BY <2>5, <3>2, RenewedAccount, RoyaltyAssumption
      <4>3. subscription'[s][w].tier = subscription[s][w].tier
        BY <2>1, <4>1 DEF Subscriptions
      <4> QED
        BY <4>1, <4>2, <4>3
    <3> QED
      BY <3>1, <3>2
  <2>6. ASSUME NEW v \in Subscribers, NEW r \in Streams, Cancel(v, r)
        PROVE  Terms(s, w)
    <3>1. CASE r # s \/ v # w
      BY <2>3, <2>6, <3>1 DEF Cancel
    <3>2. CASE r = s /\ v = w
      <4>1. /\ subscription'[s][w] = [subscription[s][w] EXCEPT !.status = "Canceled"]
            /\ paid' = paid
        BY <2>6, <3>2 DEF Cancel, AfterCancel
      <4>2. subscription'[s][w] # NoAccount
        BY <2>6, <3>2, CanceledAccount, RoyaltyAssumption
      <4>3. subscription'[s][w].tier = subscription[s][w].tier
        BY <2>1, <4>1 DEF Subscriptions
      <4> QED
        BY <4>1, <4>2, <4>3
    <3> QED
      BY <3>1, <3>2
  <2>7. ASSUME \/ UNCHANGED royaltyVars
               \/ KeyStep
               \/ \E r \in Streams, signal \in Signals : WriteSignal(r, signal)
               \/ Tick
               \/ UNCHANGED vars
        PROVE  UNCHANGED <<subscription, paid>>
    BY <2>7 DEF KeyStep, RegisterKey, RegisterWalletKey, RegisterSubscriptionKey,
         WriteSignal, Tick, vars, royaltyVars, membershipVars
  <2> HIDE DEF Terms
  <2> QED
    BY <2>2, <2>4, <2>5, <2>6, <2>7, NextCases
<1>2. TypeOK /\ [Next]_vars =>
        [\A s \in Streams, w \in Subscribers :
           subscription[s][w] # NoAccount =>
             /\ subscription[s][w]' # NoAccount
             /\ subscription'[s][w].tier = subscription[s][w].tier
             /\ paid'[s][w] = paid[s][w]]_vars
  BY <1>1
<1> QED
  BY <1>2, TypeCorrect, PTL DEF Spec, TermsAreKept
=============================================================================
