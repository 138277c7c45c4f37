------------------------- MODULE ClientFlows_proofs -------------------------
(* Theorems about ClientFlows, for every set of clients and every cast. *)
EXTENDS ClientFlows, SubscriptionRoyalty_proofs, SequenceTheorems

-----------------------------------------------------------------------------
(* Transactions: what is in one, and what Send, Land and Fail do to txs. *)

TxRecords == [op : Ops, fate : Fates]

LEMMA CreateFields ==
  ASSUME NEW op \in Ops, op.kind \in {"create", "tiers"}
  PROVE  op.by \in Makers /\ op.stream \in Streams /\ op.offer \in Offers
BY DEF Ops, CreateOp, TiersOp, SubscribeOp, RenewOp, CancelOp, KeyOp, WalletKeyOp

LEMMA SubscribeFields ==
  ASSUME NEW op \in Ops, op.kind = "subscribe"
  PROVE  op.by \in Subscribers /\ op.stream \in Streams /\ op.terms \in Terms
BY DEF Ops, CreateOp, TiersOp, SubscribeOp, RenewOp, CancelOp, KeyOp, WalletKeyOp

LEMMA MemberFields ==
  ASSUME NEW op \in Ops, op.kind \in {"renew", "cancel"}
  PROVE  op.by \in Subscribers /\ op.stream \in Streams
BY DEF Ops, CreateOp, TiersOp, SubscribeOp, RenewOp, CancelOp, KeyOp, WalletKeyOp

LEMMA KeyFields ==
  ASSUME NEW op \in Ops
  PROVE  /\ op.kind = "key" => op.by \in Subscribers /\ op.stream \in Streams /\ op.key \in Keys
         /\ op.kind = "walletKey" => op.by \in Subscribers /\ op.key \in Keys
BY DEF Ops, CreateOp, TiersOp, SubscribeOp, RenewOp, CancelOp, KeyOp, WalletKeyOp

(* A client's transaction is one of the programs' own instructions.         *)
LEMMA ExecuteIsStep ==
  ASSUME NEW op \in Ops, ExecuteRegistry(op) \/ ExecuteRoyalty(op)
  PROVE  Next
<1>1. CASE ExecuteRegistry(op)
  <2>1. op.by \in Makers /\ op.stream \in Streams /\ op.offer \in Offers
    BY <1>1, CreateFields DEF ExecuteRegistry
  <2>2. op.offer.price \in Prices /\ op.offer.visibility \in Visibilities
    BY <2>1 DEF Offers
  <2>3. op.by \in Treasuries /\ op.offer.price \in TiersHashes
    BY <2>1, <2>2, TransactionsAssumption
  <2>4. UNCHANGED royaltyVars
    BY <1>1 DEF ExecuteRegistry
  <2>5. CASE CreateStream(op.by, op.stream, op.offer.price, op.by, op.offer.visibility)
    BY <2>1, <2>2, <2>3, <2>4, <2>5 DEF Next, RegistryNext
  <2>6. CASE UpsertTier(op.by, op.stream, TierId, "SubscriptionUnlimited",
                        Evidence, op.offer.price, NoQuota, "Active")
    <3>1. TierId \in Tiers /\ Evidence \in EvidenceLevels /\ NoQuota \in Quotas
          /\ "SubscriptionUnlimited" \in PricingTypes /\ "Active" \in TierStatuses
      BY TransactionsAssumption DEF PricingTypes, TierStatuses
    <3> QED
      BY <2>1, <2>2, <2>4, <2>6, <3>1 DEF Next, RegistryNext
  <2> QED
    BY <1>1, <2>5, <2>6 DEF ExecuteRegistry
<1>2. CASE op.kind = "subscribe" /\ ExecuteRoyalty(op)
  <2>1. op.by \in Subscribers /\ op.stream \in Streams /\ op.terms \in Terms
    BY <1>2, SubscribeFields
  <2>2. op.terms.price \in Prices /\ op.terms.maker \in Makers /\ op.terms.treasury \in Treasuries
    BY <2>1 DEF Terms
  <2>3. TierId \in Tiers /\ Evidence \in EvidenceLevels /\ NoQuota \in Quotas
        /\ Expiry \in Expiries /\ "SubscriptionUnlimited" \in PricingTypes
    BY TransactionsAssumption DEF PricingTypes
  <2>4. Subscribe(op.by, op.stream, TierId, "SubscriptionUnlimited", Evidence,
                  Expiry, NoQuota, op.terms.price, op.terms.maker, op.terms.treasury)
    BY <1>2 DEF ExecuteRoyalty
  <2> QED
    BY <2>1, <2>2, <2>3, <2>4 DEF Next, SubscribeStep
<1>3. CASE op.kind \in {"renew", "cancel"} /\ ExecuteRoyalty(op)
  <2>1. op.by \in Subscribers /\ op.stream \in Streams /\ Expiry \in Expiries /\ NoQuota \in Quotas
    BY <1>3, MemberFields, TransactionsAssumption
  <2> QED
    BY <1>3, <2>1 DEF ExecuteRoyalty, Next
<1>4. CASE op.kind \in {"key", "walletKey"} /\ ExecuteRoyalty(op)
  BY <1>4, KeyFields DEF ExecuteRoyalty, Next, KeyStep
<1> QED
  BY <1>1, <1>2, <1>3, <1>4 DEF ExecuteRoyalty

LEMMA TxsAre ==
  ASSUME TransactionsTypeOK
  PROVE  /\ Len(txs) \in Nat /\ DOMAIN txs = 1 .. Len(txs) /\ Len(txs) <= MaxSends
         /\ \A i \in DOMAIN txs : /\ i \in 1 .. MaxSends
                                  /\ txs[i] \in TxRecords
                                  /\ txs[i].op \in Ops /\ txs[i].fate \in Fates
<1>1. txs \in Seq(TxRecords)
  BY DEF TransactionsTypeOK, TxRecords
<1>2. Len(txs) \in Nat /\ DOMAIN txs = 1 .. Len(txs) /\ txs \in [1 .. Len(txs) -> TxRecords]
  BY <1>1, LenProperties
<1> QED
  BY <1>2, TransactionsAssumption DEF TransactionsTypeOK, TxRecords

LEMMA SendAppends ==
  ASSUME TransactionsTypeOK, NEW op \in Ops, Send(op)
  PROVE  /\ TransactionsTypeOK'
         /\ NextTx \in 1 .. MaxSends /\ NextTx \notin DOMAIN txs
         /\ (DOMAIN txs)' = DOMAIN txs \cup {NextTx}
         /\ \A i \in DOMAIN txs : txs'[i] = txs[i]
         /\ txs'[NextTx].op = op /\ txs'[NextTx].fate = "sent"
<1> DEFINE tx == [op |-> op, fate |-> "sent"]
<1>1. tx \in TxRecords /\ tx.op = op /\ tx.fate = "sent"
  BY DEF TxRecords, Fates
<1>2. txs' = Append(txs, tx) /\ Len(txs) < MaxSends
  BY DEF Send
<1>3. txs \in Seq(TxRecords)
  BY DEF TransactionsTypeOK, TxRecords
<1> HIDE DEF tx
<1>4. /\ txs' \in Seq(TxRecords) /\ Len(txs') = Len(txs) + 1
      /\ \A i \in 1 .. Len(txs) : txs'[i] = txs[i]
      /\ txs'[Len(txs) + 1] = tx
  BY <1>1, <1>2, <1>3, AppendProperties
<1>5. Len(txs) \in Nat /\ DOMAIN txs = 1 .. Len(txs)
  BY TxsAre
<1>6. DOMAIN txs' = 1 .. Len(txs) + 1
  BY <1>4, LenProperties
<1>7. 1 .. Len(txs) + 1 = 1 .. Len(txs) \cup {Len(txs) + 1}
  BY <1>5
<1>8. NextTx \in 1 .. MaxSends /\ NextTx \notin 1 .. Len(txs)
  BY <1>2, <1>5, TransactionsAssumption DEF NextTx
<1>9. TransactionsTypeOK'
  BY <1>2, <1>4, <1>5, TransactionsAssumption DEF TransactionsTypeOK, TxRecords
<1> QED
  BY <1>1, <1>4, <1>5, <1>6, <1>7, <1>8, <1>9 DEF NextTx

LEMMA FateChanges ==
  ASSUME TransactionsTypeOK, NEW i \in DOMAIN txs, NEW fate \in Fates,
         txs' = [txs EXCEPT ![i].fate = fate]
  PROVE  /\ TransactionsTypeOK'
         /\ (DOMAIN txs)' = DOMAIN txs
         /\ \A j \in DOMAIN txs : txs'[j].op = txs[j].op
         /\ \A j \in DOMAIN txs \ {i} : txs'[j] = txs[j]
         /\ txs'[i].fate = fate
<1> DEFINE tx == [txs[i] EXCEPT !.fate = fate]
<1>1. txs[i] \in TxRecords
  BY TxsAre
<1>2. tx \in TxRecords /\ tx.op = txs[i].op /\ tx.fate = fate
  BY <1>1 DEF TxRecords
<1>3. txs' = [txs EXCEPT ![i] = tx]
  OBVIOUS
<1> HIDE DEF tx
<1>4. txs \in Seq(TxRecords) /\ i \in 1 .. Len(txs) /\ DOMAIN txs = 1 .. Len(txs)
  BY TxsAre DEF TransactionsTypeOK, TxRecords
<1>5. /\ txs' \in Seq(TxRecords) /\ Len(txs') = Len(txs)
      /\ \A j \in 1 .. Len(txs) : txs'[j] = IF j = i THEN tx ELSE txs[j]
  BY <1>2, <1>3, <1>4, ExceptSeq
<1>6. DOMAIN txs' = 1 .. Len(txs)
  BY <1>5, LenProperties
<1>7. TransactionsTypeOK'
  BY <1>5 DEF TransactionsTypeOK, TxRecords
<1> QED
  BY <1>2, <1>4, <1>5, <1>6, <1>7

-----------------------------------------------------------------------------
(* What the programs never take back: a stream's authority and visibility,  *)
(* a subscription account, a key account.                                   *)

AccountsKept ==
  /\ \A s \in Streams : StreamExists(s) =>
       /\ streamConfig'[s] # NoAccount
       /\ streamConfig'[s].authority = streamConfig[s].authority
       /\ streamConfig'[s].visibility = streamConfig[s].visibility
  /\ \A s \in Streams, w \in Subscribers :
       /\ subscription[s][w] # NoAccount => subscription'[s][w] # NoAccount
       /\ subscriptionKey[s][w] # NoAccount => subscriptionKey'[s][w] # NoAccount

LEMMA ConfigKept ==
  ASSUME TypeOK, RegistryNext, NEW s \in Streams, StreamExists(s)
  PROVE  /\ streamConfig'[s] # NoAccount
         /\ streamConfig'[s].authority = streamConfig[s].authority
         /\ streamConfig'[s].visibility = streamConfig[s].visibility
<1> USE DEF TypeOK, RegistryTypeOK
<1>1. streamConfig[s] \in StreamConfigs
  BY DEF StreamExists
<1>2. ASSUME NEW m \in Makers, NEW r \in Streams, NEW hash \in TiersHashes,
             NEW dao \in Treasuries, NEW v \in Visibilities, CreateStream(m, r, hash, dao, v)
      PROVE  streamConfig'[s] = streamConfig[s]
  BY <1>2 DEF CreateStream
<1>3. ASSUME NEW m \in Makers, NEW r \in Streams, NEW hash \in TiersHashes,
             NEW status \in StreamStatuses, UpdateStream(m, r, hash, status)
      PROVE  /\ streamConfig'[s] \in StreamConfigs
             /\ streamConfig'[s].authority = streamConfig[s].authority
             /\ streamConfig'[s].visibility = streamConfig[s].visibility
  <2>1. CASE r = s
    <3>1. streamConfig'[s] = [streamConfig[s] EXCEPT !.tiersHash = hash, !.status = status]
      BY <1>3, <2>1 DEF UpdateStream
    <3> QED
      BY <1>1, <3>1 DEF StreamConfigs
  <2>2. CASE r # s
    BY <1>1, <1>3, <2>2 DEF UpdateStream
  <2> QED
    BY <2>1, <2>2
<1>4. ASSUME NEW m \in Makers, NEW r \in Streams, NEW hash \in TiersHashes, SetTiers(m, r, hash)
      PROVE  /\ streamConfig'[s] \in StreamConfigs
             /\ streamConfig'[s].authority = streamConfig[s].authority
             /\ streamConfig'[s].visibility = streamConfig[s].visibility
  <2>1. CASE r = s
    <3>1. streamConfig'[s] = [streamConfig[s] EXCEPT !.tiersHash = hash]
      BY <1>4, <2>1 DEF SetTiers
    <3> QED
      BY <1>1, <3>1 DEF StreamConfigs
  <2>2. CASE r # s
    BY <1>1, <1>4, <2>2 DEF SetTiers
  <2> QED
    BY <2>1, <2>2
<1>5. \/ streamConfig'[s] = streamConfig[s]
      \/ /\ streamConfig'[s] \in StreamConfigs
         /\ streamConfig'[s].authority = streamConfig[s].authority
         /\ streamConfig'[s].visibility = streamConfig[s].visibility
  BY <1>2, <1>3, <1>4 DEF RegistryNext, UpsertTier, GrantPublisher, RevokePublisher
<1> QED
  BY <1>1, <1>5, RegistryAssumption

LEMMA ChainKeeps == TypeOK /\ [Next]_vars => AccountsKept
<1> SUFFICES ASSUME TypeOK, [Next]_vars PROVE AccountsKept
  OBVIOUS
<1> DEFINE Config == \A s \in Streams : StreamExists(s) =>
             /\ streamConfig'[s] # NoAccount
             /\ streamConfig'[s].authority = streamConfig[s].authority
             /\ streamConfig'[s].visibility = streamConfig[s].visibility
           Member == \A s \in Streams, w \in Subscribers :
             subscription[s][w] # NoAccount => subscription'[s][w] # NoAccount
           Key == \A s \in Streams, w \in Subscribers :
             subscriptionKey[s][w] # NoAccount => subscriptionKey'[s][w] # NoAccount
<1>1. streamConfig' = streamConfig => Config
  BY DEF StreamExists
<1>2. subscription' = subscription => Member
  OBVIOUS
<1>3. subscriptionKey' = subscriptionKey => Key
  OBVIOUS
<1>4. RegistryNext => Config
  BY ConfigKept
<1>5. ASSUME NEW w \in Subscribers, NEW s \in Streams,
             subscription'[s][w] \in Subscriptions,
             \A r \in Streams, v \in Subscribers :
               r # s \/ v # w => subscription'[r][v] = subscription[r][v]
      PROVE  Member
  BY <1>5, RoyaltyAssumption
<1>6. ASSUME NEW w \in Subscribers, NEW s \in Streams, NEW expiresAt \in Expiries,
             NEW quota \in Quotas, Renew(w, s, expiresAt, quota)
      PROVE  Member
  <2>1. \A r \in Streams, v \in Subscribers :
          r # s \/ v # w => subscription'[r][v] = subscription[r][v]
    BY <1>6 DEF Renew, TypeOK, RoyaltyTypeOK
  <2> QED
    BY <1>5, <1>6, <2>1, RenewedAccount
<1>7. ASSUME NEW w \in Subscribers, NEW s \in Streams, Cancel(w, s)
      PROVE  Member
  <2>1. \A r \in Streams, v \in Subscribers :
          r # s \/ v # w => subscription'[r][v] = subscription[r][v]
    BY <1>7 DEF Cancel, TypeOK, RoyaltyTypeOK
  <2> QED
    BY <1>5, <1>7, <2>1, CanceledAccount
<1>8. SubscribeStep => Member
  <2> SUFFICES ASSUME NEW w \in Subscribers, NEW s \in Streams, NEW t \in Tiers,
                      NEW pricing \in PricingTypes, NEW evidence \in EvidenceLevels,
                      NEW expiresAt \in Expiries, NEW quota \in Quotas, NEW price \in Prices,
                      NEW maker \in Makers, NEW treasury \in Treasuries,
                      Subscribe(w, s, t, pricing, evidence, expiresAt, quota, price,
                                maker, treasury)
               PROVE  Member
    BY DEF SubscribeStep
  <2>1. subscription'[s][w] \in Subscriptions
    BY DEF Subscribe, Subscriptions, SubscriptionStatuses, TypeOK, RoyaltyTypeOK
  <2>2. \A r \in Streams, v \in Subscribers :
          r # s \/ v # w => subscription'[r][v] = subscription[r][v]
    BY DEF Subscribe, TypeOK, RoyaltyTypeOK
  <2> QED
    BY <1>5, <2>1, <2>2
<1>9. KeyStep => Key
  <2>1. ASSUME NEW w \in Subscribers, NEW key \in Keys, NEW s \in Streams,
               RegisterSubscriptionKey(w, s, key)
        PROVE  Key
    <3>1. \A r \in Streams, v \in Subscribers :
            subscriptionKey'[r][v] \in {key, subscriptionKey[r][v]}
      BY <2>1 DEF RegisterSubscriptionKey, TypeOK, RoyaltyTypeOK
    <3> QED
      BY <3>1, RoyaltyAssumption
  <2> QED
    BY <1>3, <2>1 DEF KeyStep, RegisterWalletKey, RegisterKey
<1> HIDE DEF Config, Member, Key
<1>10. Config
  <2>1. SubscribeStep => UNCHANGED registryVars
    BY DEF SubscribeStep, Subscribe
  <2>2. KeyStep => UNCHANGED registryVars
    BY DEF KeyStep, RegisterKey, RegisterWalletKey, RegisterSubscriptionKey
  <2>3. \A w, s, expiresAt, quota :
          Renew(w, s, expiresAt, quota) \/ Cancel(w, s) => UNCHANGED registryVars
    BY DEF Renew, Cancel
  <2>4. (\E s, signal : WriteSignal(s, signal)) \/ Tick \/ UNCHANGED vars => UNCHANGED registryVars
    BY DEF WriteSignal, Tick, vars
  <2>5. RegistryNext \/ UNCHANGED registryVars
    BY <2>1, <2>2, <2>3, <2>4, NextCases
  <2> QED
    BY <1>1, <1>4, <2>5 DEF registryVars
<1>11. Member
  BY <1>2, <1>6, <1>7, <1>8, NextCases DEF KeyStep, RegisterKey, RegisterWalletKey,
     RegisterSubscriptionKey, WriteSignal, Tick, vars, royaltyVars, membershipVars
<1>12. Key
  <2>1. SubscribeStep => UNCHANGED keyVars
    BY DEF SubscribeStep, Subscribe
  <2>2. \A w, s, expiresAt, quota :
          Renew(w, s, expiresAt, quota) \/ Cancel(w, s) => UNCHANGED keyVars
    BY DEF Renew, Cancel
  <2>3. (\E s, signal : WriteSignal(s, signal)) \/ Tick => UNCHANGED keyVars
    BY DEF WriteSignal, Tick
  <2>4. UNCHANGED vars \/ UNCHANGED royaltyVars => UNCHANGED keyVars
    BY DEF vars, royaltyVars
  <2>5. KeyStep \/ UNCHANGED keyVars
    BY <2>1, <2>2, <2>3, <2>4, NextCases
  <2> QED
    BY <1>3, <1>9, <2>5 DEF keyVars
<1> QED
  BY <1>10, <1>11, <1>12 DEF AccountsKept, Config, Member, Key

-----------------------------------------------------------------------------
(* Types.  A pass under way has an offer, a purchase under way has terms:   *)
(* this makes what they send a transaction.                                 *)

PassHasOffer == \A c \in Registrars : ~RegisterAt(c, "idle") => OfferOf(c) \in Offers
PurchaseHasTerms == \A c \in Buyers : ~BuyAt(c, "idle") => buying[c].shown \in Terms

ConnectedSince == \A c \in Pages : connected[c] \in since[c]

FlowsTyped == FlowsTypeOK /\ PassHasOffer /\ PurchaseHasTerms /\ ConnectedSince

(* The wallet a client signs with is one of those it has had.               *)
LEMMA SignerIsKnown ==
  ASSUME FlowsTyped, NEW c \in Clients, WalletOf[c] \in Subscribers
  PROVE  Signer(c) \in Subscribers /\ Signer(c) \in Signers(c) /\ Signers(c) \subseteq Subscribers
BY DEF FlowsTyped, FlowsTypeOK, WalletsTypeOK, ConnectedSince, Signer, Signers

(* Another wallet is added to those a page has had, until the page is left. *)
LEMMA WalletsMove ==
  ASSUME FlowsTyped
  PROVE  /\ \A c \in Pages, w \in Subscribers : ChangeWallet(c, w) =>
              /\ WalletsTypeOK' /\ ConnectedSince'
              /\ \A d \in Pages : since[d] \subseteq since'[d]
         /\ \A c \in Clients : Forget(c) =>
              /\ WalletsTypeOK' /\ ConnectedSince'
              /\ \A d \in Pages \ {c} : since'[d] = since[d]
         /\ UNCHANGED walletVars => WalletsTypeOK' /\ ConnectedSince'
<1> USE DEF FlowsTyped, FlowsTypeOK, WalletsTypeOK, ConnectedSince
<1>1. ASSUME NEW c \in Pages, NEW w \in Subscribers, ChangeWallet(c, w)
      PROVE  /\ WalletsTypeOK' /\ ConnectedSince'
             /\ \A d \in Pages : since[d] \subseteq since'[d]
  BY <1>1 DEF ChangeWallet
<1>2. ASSUME NEW c \in Clients, Forget(c)
      PROVE  /\ WalletsTypeOK' /\ ConnectedSince'
             /\ \A d \in Pages \ {c} : since'[d] = since[d]
  BY <1>2 DEF Forget
<1>3. ASSUME UNCHANGED walletVars PROVE WalletsTypeOK' /\ ConnectedSince'
  BY <1>3 DEF walletVars
<1> QED
  BY <1>1, <1>2, <1>3

LEMMA RegisterGoes ==
  ASSUME RegisterTypeOK, PassHasOffer, NEW c \in Registrars, NEW step \in RegisterSteps,
         step = "idle" \/ ~RegisterAt(c, "idle"), Go(c, step), UNCHANGED <<listing, lister>>
  PROVE  RegisterTypeOK' /\ PassHasOffer'
<1>1. registering[c] \in Registrations
  BY DEF RegisterTypeOK
<1> DEFINE pending == [registering[c] EXCEPT !.step = step]
<1>2. pending \in Registrations /\ pending.step = step /\ pending.offer = registering[c].offer
  BY <1>1 DEF Registrations
<1>3. registering' = [registering EXCEPT ![c] = pending]
  BY DEF Go
<1> HIDE DEF pending
<1>4. RegisterTypeOK'
  BY <1>2, <1>3 DEF RegisterTypeOK
<1>5. PassHasOffer'
  BY <1>2, <1>3 DEF PassHasOffer, RegisterAt, OfferOf, RegisterTypeOK
<1> QED
  BY <1>4, <1>5

LEMMA PassChanges ==
  ASSUME RegisterTypeOK, PassHasOffer, NEW c \in Registrars, NEW pending \in Registrations,
         registering' = [registering EXCEPT ![c] = pending],
         pending.step = "idle" \/ pending.offer \in Offers, UNCHANGED <<listing, lister>>
  PROVE  RegisterTypeOK' /\ PassHasOffer'
<1>1. RegisterTypeOK'
  BY DEF RegisterTypeOK
<1>2. PassHasOffer'
  BY DEF PassHasOffer, RegisterAt, OfferOf, RegisterTypeOK
<1> QED
  BY <1>1, <1>2

LEMMA RegisterType ==
  ASSUME FlowsTyped, NEW c \in Registrars, RegisterStep(c)
  PROVE  /\ RegisterTypeOK' /\ PassHasOffer' /\ UNCHANGED vars
         /\ \/ UNCHANGED txs
            \/ \E op \in Ops : Send(op) /\ op.kind \in {"create", "tiers"}
<1> USE DEF FlowsTyped, FlowsTypeOK
<1>1. registering[c] \in Registrations /\ WalletOf[c] \in Makers /\ OffersOf[c] \subseteq Offers
  BY RegisterAssumption DEF RegisterTypeOK
<1>2. StreamOf(c) \in Streams
  BY <1>1 DEF StreamOf, Registrations
<1>3. ASSUME ~RegisterAt(c, "idle")
      PROVE  /\ OfferOf(c) \in Offers
             /\ \A step \in RegisterSteps : Go(c, step) /\ UNCHANGED <<listing, lister>> =>
                  RegisterTypeOK' /\ PassHasOffer'
  BY <1>3, RegisterGoes DEF PassHasOffer
<1>4. CASE \E s \in Streams, offer \in OffersOf[c] : BeginRegister(c, s, offer)
  <2> SUFFICES ASSUME NEW s \in Streams, NEW offer \in OffersOf[c], BeginRegister(c, s, offer)
               PROVE  RegisterTypeOK' /\ PassHasOffer' /\ UNCHANGED vars /\ UNCHANGED txs
    BY <1>4
  <2> DEFINE step == IF c \in LooksFirst /\ StreamExists(s) THEN "tier" ELSE "create"
             pending == [step |-> step, stream |-> s, offer |-> offer, create |-> 0, tier |-> 0]
  <2>1. step \in RegisterSteps
    BY DEF RegisterSteps
  <2>2. registering' = [registering EXCEPT ![c] = pending] /\ UNCHANGED <<vars, txs, listing, lister>>
    BY DEF BeginRegister
  <2> HIDE DEF step
  <2>3. 0 \in 0 .. MaxSends
    BY TransactionsAssumption
  <2>4. pending \in Registrations /\ pending.offer \in Offers
    BY <1>1, <2>1, <2>3 DEF Registrations
  <2> HIDE DEF pending
  <2> QED
    BY <2>2, <2>4, PassChanges
<1>5. CASE SendCreate(c)
  <2>1. RegisterAt(c, "create") /\ OfferOf(c) \in Offers
    BY <1>3, <1>5 DEF SendCreate, RegisterAt
  <2>2. CreateOp(WalletOf[c], StreamOf(c), OfferOf(c)) \in Ops
    BY <1>1, <1>2, <2>1 DEF Ops
  <2>3. NextTx \in 0 .. MaxSends
    BY <1>5, <2>2, SendAppends DEF SendCreate
  <2> DEFINE step == IF c \in AwaitsStream THEN "confirm" ELSE "tier"
             pending == [registering[c] EXCEPT !.create = NextTx, !.step = step]
  <2>4. step \in RegisterSteps
    BY DEF RegisterSteps
  <2>5. registering' = [registering EXCEPT ![c] = pending] /\ UNCHANGED <<vars, listing, lister>>
    BY <1>5 DEF SendCreate
  <2> HIDE DEF step
  <2>6. pending \in Registrations /\ pending.offer = OfferOf(c)
    BY <1>1, <2>3, <2>4 DEF Registrations, OfferOf
  <2> HIDE DEF pending
  <2>7. RegisterTypeOK' /\ PassHasOffer'
    BY <2>1, <2>5, <2>6, PassChanges
  <2> QED
    BY <1>5, <2>2, <2>5, <2>7 DEF SendCreate, CreateOp
<1>6. CASE ConfirmCreate(c) \/ StreamAppears(c) \/ SkipTier(c) \/ ConfirmTier(c)
  BY <1>3, <1>6 DEF ConfirmCreate, StreamAppears, SkipTier, ConfirmTier, RegisterAt, RegisterSteps
<1>7. CASE SendTier(c)
  <2>1. RegisterAt(c, "tier") /\ OfferOf(c) \in Offers
    BY <1>3, <1>7 DEF SendTier, RegisterAt
  <2>2. TiersOp(WalletOf[c], StreamOf(c), OfferOf(c)) \in Ops
    BY <1>1, <1>2, <2>1 DEF Ops
  <2>3. NextTx \in 0 .. MaxSends
    BY <1>7, <2>2, SendAppends DEF SendTier
  <2> DEFINE pending == [registering[c] EXCEPT !.tier = NextTx, !.step = AfterTier(c)]
  <2>4. AfterTier(c) \in RegisterSteps
    BY DEF RegisterSteps, AfterTier
  <2>5. registering' = [registering EXCEPT ![c] = pending] /\ UNCHANGED <<vars, listing, lister>>
    BY <1>7 DEF SendTier
  <2>6. pending \in Registrations /\ pending.offer = OfferOf(c)
    BY <1>1, <2>3, <2>4 DEF Registrations, OfferOf
  <2> HIDE DEF pending
  <2>7. RegisterTypeOK' /\ PassHasOffer'
    BY <2>1, <2>5, <2>6, PassChanges
  <2> QED
    BY <1>7, <2>2, <2>5, <2>7 DEF SendTier, TiersOp
<1>8. CASE Post(c)
  <2>1. OfferOf(c) \in Offers /\ Go(c, "done") /\ UNCHANGED <<vars, txs>>
    BY <1>3, <1>8 DEF Post, RegisterAt
  <2>2. listing' \in [Streams -> Offers \cup {NoOffer}] /\ lister' \in [Streams -> Registrars \cup {NoOffer}]
    BY <1>2, <1>8, <2>1 DEF Post, RegisterTypeOK
  <2> DEFINE pending == [registering[c] EXCEPT !.step = "done"]
  <2>3. pending \in Registrations /\ pending.step = "done" /\ pending.offer = OfferOf(c)
    BY <1>1 DEF Registrations, RegisterSteps, OfferOf
  <2>4. registering' = [registering EXCEPT ![c] = pending]
    BY <2>1 DEF Go
  <2> HIDE DEF pending
  <2>5. RegisterTypeOK'
    BY <2>2, <2>3, <2>4 DEF RegisterTypeOK
  <2>6. PassHasOffer'
    BY <2>1, <2>3, <2>4 DEF PassHasOffer, RegisterAt, OfferOf, RegisterTypeOK
  <2> QED
    BY <2>1, <2>5, <2>6
<1>9. CASE LeaveRegister(c)
  <2> DEFINE pending == [registering[c] EXCEPT
                           !.step = "idle", !.offer = NoOffer, !.create = 0, !.tier = 0]
  <2>1. registering' = [registering EXCEPT ![c] = pending] /\ UNCHANGED <<vars, txs, listing, lister>>
    BY <1>9 DEF LeaveRegister
  <2>2. 0 \in 0 .. MaxSends
    BY TransactionsAssumption
  <2>3. pending \in Registrations /\ pending.step = "idle"
    BY <1>1, <2>2 DEF Registrations, RegisterSteps
  <2> HIDE DEF pending
  <2> QED
    BY <2>1, <2>3, PassChanges
<1> QED
  BY <1>4, <1>5, <1>6, <1>7, <1>8, <1>9 DEF RegisterStep

LEMMA PurchaseChanges ==
  ASSUME SubscribeTypeOK, PurchaseHasTerms, NEW c \in Buyers, NEW purchase \in Purchases,
         buying' = [buying EXCEPT ![c] = purchase],
         purchase.step = "idle" \/ purchase.shown \in Terms
  PROVE  buying' \in [Buyers -> Purchases] /\ PurchaseHasTerms'
<1>1. buying' \in [Buyers -> Purchases]
  BY DEF SubscribeTypeOK
<1>2. PurchaseHasTerms'
  BY DEF PurchaseHasTerms, BuyAt, SubscribeTypeOK
<1> QED
  BY <1>1, <1>2

LEMMA ShownTerms ==
  ASSUME TypeOK, RegisterTypeOK, NEW s \in Streams, IsShown(s)
  PROVE  TermsShown(s) \in Terms /\ StreamExists(s) /\ listing[s] \in Offers
<1>1. listing[s] \in Offers
  BY DEF IsShown, RegisterTypeOK
<1>2. StreamExists(s) /\ streamConfig[s] \in StreamConfigs
  BY DEF IsShown, StreamActive, StreamExists, TypeOK, RegistryTypeOK
<1> QED
  BY <1>1, <1>2 DEF TermsShown, Terms, Offers, StreamConfigs

LEMMA BuyType ==
  ASSUME FlowsTyped, NEW c \in Buyers, BuyStep(c)
  PROVE  /\ SubscribeTypeOK' /\ PurchaseHasTerms' /\ UNCHANGED <<vars, registerVars>>
         /\ WalletsTypeOK' /\ ConnectedSince'
         /\ \A d \in Pages \ {c} : since'[d] = since[d]
         /\ \/ UNCHANGED txs
            \/ \E op \in Ops : Send(op)
<1>0. /\ WalletsTypeOK' /\ ConnectedSince'
      /\ \A d \in Pages \ {c} : since'[d] = since[d]
  BY WalletsMove, SubscribeAssumption DEF BuyStep, LeaveStream, walletVars
<1> SUFFICES /\ SubscribeTypeOK' /\ PurchaseHasTerms' /\ UNCHANGED <<vars, registerVars>>
             /\ \/ UNCHANGED txs
                \/ \E op \in Ops : Send(op)
  BY <1>0
<1> USE DEF FlowsTyped, FlowsTypeOK
<1>1. buying[c] \in Purchases /\ Buyer(c) \in Subscribers /\ Signers(c) \subseteq Subscribers
  BY SubscribeAssumption, SignerIsKnown DEF SubscribeTypeOK, Buyer
<1>2. Bought(c) \in Streams
  BY <1>1 DEF Bought, Purchases
<1>3. 0 \in 0 .. MaxSends
  BY TransactionsAssumption
<1>4. ~BuyAt(c, "idle") => buying[c].shown \in Terms
  BY DEF PurchaseHasTerms
<1>5. CASE \E s \in Streams : LookAt(c, s)
  <2> SUFFICES ASSUME NEW s \in Streams, LookAt(c, s)
               PROVE  SubscribeTypeOK' /\ PurchaseHasTerms' /\ UNCHANGED <<vars, registerVars, txs>>
    BY <1>5
  <2>1. PICK price \in Prices :
          buying' = [buying EXCEPT ![c] =
            [step |-> "shown", stream |-> s, shown |-> [TermsShown(s) EXCEPT !.price = price],
             subscribed |-> FALSE, keyed |-> FALSE, tx |-> 0]]
    BY DEF LookAt
  <2> DEFINE terms == [TermsShown(s) EXCEPT !.price = price]
             purchase == [step |-> "shown", stream |-> s, shown |-> terms,
                          subscribed |-> FALSE, keyed |-> FALSE, tx |-> 0]
  <2>2. TermsShown(s) \in Terms
    BY ShownTerms DEF LookAt
  <2>3. terms \in Terms
    BY <2>2 DEF Terms
  <2>4. buying' = [buying EXCEPT ![c] = purchase]
    BY <2>1
  <2> HIDE DEF terms
  <2>5. purchase \in Purchases /\ purchase.shown \in Terms
    BY <1>3, <2>3 DEF Purchases, BuySteps
  <2> HIDE DEF purchase
  <2> QED
    BY <2>4, <2>5, PurchaseChanges DEF LookAt, SubscribeTypeOK
<1>6. CASE UseCache(c)
  <2> DEFINE purchase == [buying[c] EXCEPT !.subscribed = TRUE]
  <2>1. purchase \in Purchases /\ purchase.shown = buying[c].shown
    BY <1>1 DEF Purchases
  <2>2. buying' = [buying EXCEPT ![c] = purchase]
    BY <1>6 DEF UseCache
  <2> HIDE DEF purchase
  <2>3. buying[c].shown \in Terms
    BY <1>4, <1>6 DEF UseCache, BuyAt
  <2> QED
    BY <1>6, <2>1, <2>2, <2>3, PurchaseChanges DEF UseCache, SubscribeTypeOK
<1>7. CASE \E w \in Signers(c) : FetchSubscriptions(c, w)
  <2>0. PICK w \in Signers(c) : FetchSubscriptions(c, w)
    BY <1>7
  <2> DEFINE active == {s \in Streams : IsActive(s, w)}
             subscribed == (buying[c].subscribed \/ (w = Buyer(c) /\ Bought(c) \in active))
             purchase == [buying[c] EXCEPT !.subscribed = subscribed]
  <2>1. buying' = [buying EXCEPT ![c] = purchase]
        /\ cached' = [v \in Subscribers |-> IF v = w THEN active ELSE {}]
        /\ UNCHANGED <<vars, txs, registerVars, agreed>>
    BY <2>0 DEF FetchSubscriptions
  <2>2. subscribed \in BOOLEAN /\ active \subseteq Streams
    OBVIOUS
  <2> HIDE DEF active, subscribed
  <2>3. purchase \in Purchases /\ purchase.shown = buying[c].shown
    BY <1>1, <2>2 DEF Purchases
  <2>4. cached' \in [Subscribers -> SUBSET Streams]
    BY <2>1, <2>2
  <2> HIDE DEF purchase
  <2>5. buying[c].shown \in Terms
    BY <1>4, <2>0 DEF FetchSubscriptions
  <2> QED
    BY <2>1, <2>3, <2>4, <2>5, PurchaseChanges DEF SubscribeTypeOK
<1>8. CASE CheckKey(c)
  <2> DEFINE purchase == [buying[c] EXCEPT !.keyed = HasKey(c)]
  <2>1. buying' = [buying EXCEPT ![c] = purchase]
    BY <1>8 DEF CheckKey
  <2>2. HasKey(c) \in BOOLEAN
    BY DEF HasKey
  <2>3. purchase \in Purchases /\ purchase.shown = buying[c].shown
    BY <1>1, <2>2 DEF Purchases
  <2> HIDE DEF purchase
  <2>4. buying[c].shown \in Terms
    BY <1>4, <1>8 DEF CheckKey, BuyAt
  <2> QED
    BY <1>8, <2>1, <2>3, <2>4, PurchaseChanges DEF CheckKey, SubscribeTypeOK
<1>9. CASE PressSubscribe(c)
  <2>1. buying[c].shown \in Terms
    BY <1>4, <1>9 DEF PressSubscribe, BuyAt
  <2>2. BuiltFrom(c) \in Terms
    BY <1>2, <1>9, <2>1, ShownTerms DEF BuiltFrom, PressSubscribe, MayPress
  <2> DEFINE op == SubscribeOp(Buyer(c), Bought(c), BuiltFrom(c))
  <2>3. op \in Ops
    BY <1>1, <1>2, <2>2 DEF Ops
  <2>4. Send(op) /\ UNCHANGED <<vars, registerVars, cached>>
    BY <1>9 DEF PressSubscribe
  <2> HIDE DEF op
  <2>5. NextTx \in 1 .. MaxSends /\ NextTx \in 0 .. MaxSends
    <3>1. NextTx \in 1 .. MaxSends
      BY <2>3, <2>4, SendAppends
    <3>2. \A i \in 1 .. MaxSends : i \in 0 .. MaxSends
      BY TransactionsAssumption
    <3> QED
      BY <3>1, <3>2
  <2> DEFINE purchase == [buying[c] EXCEPT !.step = AfterSubscribe(c), !.tx = NextTx]
             sale == [by |-> c, price |-> buying[c].shown.price]
  <2>6. buying' = [buying EXCEPT ![c] = purchase] /\ agreed' = [agreed EXCEPT ![NextTx] = sale]
    BY <1>9 DEF PressSubscribe
  <2>7. AfterSubscribe(c) \in BuySteps
    BY DEF AfterSubscribe, BuySteps
  <2>8. purchase \in Purchases /\ purchase.shown = buying[c].shown
    BY <1>1, <2>5, <2>7 DEF Purchases
  <2>9. sale \in [by : Buyers, price : Prices]
    BY <2>1 DEF Terms
  <2> HIDE DEF purchase, sale
  <2>10. agreed' \in [1 .. MaxSends -> [by : Buyers, price : Prices] \cup {NoTerms}]
    BY <2>5, <2>6, <2>9 DEF SubscribeTypeOK
  <2>11. buying' \in [Buyers -> Purchases] /\ PurchaseHasTerms'
    BY <2>1, <2>6, <2>8, PurchaseChanges
  <2> QED
    BY <2>3, <2>4, <2>10, <2>11 DEF SubscribeTypeOK
<1>10. CASE ConfirmSubscribe(c)
  <2> DEFINE step == IF c \in AsksBackend THEN "register" ELSE "shown"
             purchase == [buying[c] EXCEPT !.step = step, !.subscribed = c \in Servers]
  <2>1. buying' = [buying EXCEPT ![c] = purchase]
    BY <1>10 DEF ConfirmSubscribe
  <2>2. step \in BuySteps /\ (c \in Servers) \in BOOLEAN
    BY DEF BuySteps
  <2> HIDE DEF step
  <2>3. purchase \in Purchases /\ purchase.shown = buying[c].shown
    BY <1>1, <2>2 DEF Purchases
  <2> HIDE DEF purchase
  <2>4. buying[c].shown \in Terms
    BY <1>4, <1>10 DEF ConfirmSubscribe, BuyAt
  <2> QED
    BY <1>10, <2>1, <2>3, <2>4, PurchaseChanges DEF ConfirmSubscribe, SubscribeTypeOK
<1>11. CASE RegisterSubscription(c)
  <2> DEFINE keyed == IF c \in SubscribeForms THEN buying[c].keyed ELSE HasKey(c)
             purchase == [buying[c] EXCEPT !.step = "shown", !.subscribed = TRUE, !.keyed = keyed]
  <2>1. buying' = [buying EXCEPT ![c] = purchase]
    BY <1>11 DEF RegisterSubscription
  <2>2. keyed \in BOOLEAN
    BY <1>1 DEF HasKey, Purchases
  <2> HIDE DEF keyed
  <2>3. purchase \in Purchases /\ purchase.shown = buying[c].shown
    BY <1>1, <2>2 DEF Purchases, BuySteps
  <2> HIDE DEF purchase
  <2>4. buying[c].shown \in Terms
    BY <1>4, <1>11 DEF RegisterSubscription, BuyAt
  <2> QED
    BY <1>11, <2>1, <2>3, <2>4, PurchaseChanges DEF RegisterSubscription, SubscribeTypeOK
<1>12. CASE FailPurchase(c)
  <2> DEFINE purchase == [buying[c] EXCEPT !.step = "shown"]
  <2>1. buying' = [buying EXCEPT ![c] = purchase]
    BY <1>12 DEF FailPurchase
  <2>2. purchase \in Purchases /\ purchase.shown = buying[c].shown
    BY <1>1 DEF Purchases, BuySteps
  <2> HIDE DEF purchase
  <2>3. buying[c].shown \in Terms
    BY <1>4, <1>12 DEF FailPurchase, BuyAt
  <2> QED
    BY <1>12, <2>1, <2>2, <2>3, PurchaseChanges DEF FailPurchase, SubscribeTypeOK
<1>13. CASE LeaveStream(c)
  <2> DEFINE purchase == [buying[c] EXCEPT !.step = "idle", !.shown = NoTerms,
                            !.subscribed = FALSE, !.keyed = FALSE, !.tx = 0]
  <2>1. buying' = [buying EXCEPT ![c] = purchase]
    BY <1>13 DEF LeaveStream
  <2>2. purchase \in Purchases /\ purchase.step = "idle"
    BY <1>1, <1>3 DEF Purchases, BuySteps
  <2> HIDE DEF purchase
  <2> QED
    BY <1>13, <2>1, <2>2, PurchaseChanges DEF LeaveStream, SubscribeTypeOK
<1>14. CASE \E s \in Streams : ServerSend(c, s)
  <2> SUFFICES ASSUME NEW s \in Streams, ServerSend(c, s)
               PROVE  /\ SubscribeTypeOK' /\ PurchaseHasTerms' /\ UNCHANGED <<vars, registerVars>>
                      /\ \E op \in Ops : Send(op)
    BY <1>14
  <2>1. RenewOp(Buyer(c), s) \in Ops /\ CancelOp(Buyer(c), s) \in Ops
    BY <1>1 DEF Ops
  <2>2. UNCHANGED <<buying, cached, agreed>> /\ UNCHANGED <<vars, registerVars>>
    BY DEF ServerSend, buyVars
  <2> QED
    BY <2>1, <2>2 DEF ServerSend, SubscribeTypeOK, PurchaseHasTerms, BuyAt
<1> QED
  BY <1>5, <1>6, <1>7, <1>8, <1>9, <1>10, <1>11, <1>12, <1>13, <1>14 DEF BuyStep

LEMMA KeyType ==
  ASSUME FlowsTyped, NEW c \in KeyClients, KeyClientStep(c)
  PROVE  /\ KeyTypeOK' /\ UNCHANGED vars
         /\ WalletsTypeOK' /\ ConnectedSince'
         /\ \A d \in Pages \ {c} : since'[d] = since[d]
         /\ \/ UNCHANGED txs
            \/ \E op \in Ops : Send(op) /\ op.kind \in {"key", "walletKey"}
<1>0. /\ WalletsTypeOK' /\ ConnectedSince'
      /\ \A d \in Pages \ {c} : since'[d] = since[d]
  BY WalletsMove, KeyAssumption DEF KeyClientStep, CloseKeys, walletVars
<1> SUFFICES /\ KeyTypeOK' /\ UNCHANGED vars
             /\ \/ UNCHANGED txs
                \/ \E op \in Ops : Send(op) /\ op.kind \in {"key", "walletKey"}
  BY <1>0
<1> USE DEF FlowsTyped, FlowsTypeOK
<1>1. keying[c] \in KeyForms /\ Signer(c) \in Subscribers
  BY KeyAssumption, SignerIsKnown DEF KeyTypeOK
<1>2. keying[c].stream \in Streams /\ keying[c].entered \in Keys \cup {NoKey}
  BY <1>1 DEF KeyForms
<1>3. 0 \in 0 .. MaxSends
  BY TransactionsAssumption
<1>4. ASSUME NEW form \in KeyForms, keying' = [keying EXCEPT ![c] = form]
      PROVE  KeyTypeOK'
  BY <1>4 DEF KeyTypeOK
<1>5. \A s \in Streams : Closed(s) \in KeyForms
  BY <1>3 DEF Closed, KeyForms, KeySteps
<1>6. \A s \in Streams : subscriptionKey[s][Signer(c)] \in Keys \cup {NoAccount}
  BY <1>1 DEF TypeOK, RoyaltyTypeOK
<1>7. CASE \E s \in Streams : OpenKeys(c, s)
  <2> SUFFICES ASSUME NEW s \in Streams, OpenKeys(c, s)
               PROVE  KeyTypeOK' /\ UNCHANGED vars /\ UNCHANGED txs
    BY <1>7
  <2> DEFINE shown == ShownAtFirst(c, subscriptionKey[s][Signer(c)])
             form == [Closed(s) EXCEPT !.step = "open", !.shown = shown]
  <2>1. shown \in Keys \cup {NoKey}
    BY <1>6 DEF ShownAtFirst
  <2> HIDE DEF shown
  <2>2. form \in KeyForms
    <3>1. Closed(s) \in KeyForms
      BY <1>5
    <3> QED
      BY <2>1, <3>1 DEF KeyForms, KeySteps
  <2>3. keying' = [keying EXCEPT ![c] = form]
    BY DEF OpenKeys, shown
  <2> QED
    BY <1>4, <2>2, <2>3 DEF OpenKeys
<1>8. CASE \E key \in Keys : SubmitKey(c, key)
  <2> SUFFICES ASSUME NEW key \in Keys, SubmitKey(c, key)
               PROVE  /\ KeyTypeOK' /\ UNCHANGED vars
                      /\ \E op \in Ops : Send(op) /\ op.kind \in {"key", "walletKey"}
    BY <1>8
  <2> DEFINE op == IF c \in WalletTools THEN WalletKeyOp(Signer(c), key)
                   ELSE KeyOp(Signer(c), keying[c].stream, key)
             step == IF c \in KeyPages THEN "sync" ELSE "confirm"
             form == [keying[c] EXCEPT !.step = step, !.entered = key, !.tx = NextTx]
  <2>1. op \in Ops /\ op.kind \in {"key", "walletKey"}
    BY <1>1, <1>2 DEF Ops, WalletKeyOp, KeyOp
  <2>2. Send(op) /\ UNCHANGED vars /\ keying' = [keying EXCEPT ![c] = form]
    BY DEF SubmitKey
  <2> HIDE DEF op
  <2>3. NextTx \in 0 .. MaxSends
    <3>1. NextTx \in 1 .. MaxSends
      BY <2>1, <2>2, SendAppends
    <3>2. \A i \in 1 .. MaxSends : i \in 0 .. MaxSends
      BY TransactionsAssumption
    <3> QED
      BY <3>1, <3>2
  <2>4. step \in KeySteps
    BY DEF KeySteps
  <2> HIDE DEF step
  <2>5. form \in KeyForms
    BY <1>1, <2>3, <2>4 DEF KeyForms
  <2> QED
    BY <1>4, <2>1, <2>2, <2>5
<1>9. CASE ConfirmKey(c)
  <2> DEFINE step == IF c \in WalletTools THEN "open" ELSE "sync"
             form == [keying[c] EXCEPT !.step = step]
  <2>1. keying' = [keying EXCEPT ![c] = form] /\ step \in KeySteps
    BY <1>9 DEF ConfirmKey, KeySteps
  <2> HIDE DEF step
  <2>2. form \in KeyForms
    BY <1>1, <2>1 DEF KeyForms
  <2> QED
    BY <1>4, <1>9, <2>1, <2>2 DEF ConfirmKey
<1>10. CASE SyncKey(c)
  <2> DEFINE shown == IF c \in KeyPages THEN keying[c].entered ELSE Account(c)
             form == [keying[c] EXCEPT !.step = "open", !.entered = NoKey, !.tx = 0, !.shown = shown]
  <2>0. c \notin KeyPages => Account(c) # NoAccount
    BY <1>10, KeyAssumption DEF SyncKey, MaySync, Account, Payer, Signer, KeyClients
  <2>1. shown \in Keys \cup {NoKey}
    BY <1>2, <1>6, <2>0 DEF Account
  <2>2. keying' = [keying EXCEPT ![c] = form]
    BY <1>10 DEF SyncKey
  <2> HIDE DEF shown
  <2>3. form \in KeyForms
    BY <1>1, <1>3, <2>1 DEF KeyForms, KeySteps
  <2> QED
    BY <1>4, <1>10, <2>2, <2>3 DEF SyncKey
<1>11. CASE FailKey(c)
  <2> DEFINE form == [keying[c] EXCEPT !.step = "open", !.tx = 0]
  <2>1. keying' = [keying EXCEPT ![c] = form]
    BY <1>11 DEF FailKey
  <2>2. form \in KeyForms
    BY <1>1, <1>3 DEF KeyForms, KeySteps
  <2> QED
    BY <1>4, <1>11, <2>1, <2>2 DEF FailKey
<1>12. CASE CloseKeys(c)
  BY <1>2, <1>4, <1>5, <1>12 DEF CloseKeys
<1>13. CASE LookAgain(c)
  <2> DEFINE shown == ShownAtFirst(c, Account(c))
             form == [keying[c] EXCEPT !.shown = shown]
  <2>1. shown \in Keys \cup {NoKey}
    BY <1>2, <1>6 DEF ShownAtFirst, Account
  <2>2. keying' = [keying EXCEPT ![c] = form]
    BY <1>13 DEF LookAgain
  <2> HIDE DEF shown
  <2>3. form \in KeyForms
    BY <1>1, <2>1 DEF KeyForms
  <2> QED
    BY <1>4, <1>13, <2>2, <2>3 DEF LookAgain
<1> QED
  BY <1>7, <1>8, <1>9, <1>10, <1>11, <1>12, <1>13 DEF KeyClientStep

(* A step of the flows is a step of the network, of a client, or of somebody *)
(* else; the last two send nothing or one transaction.                      *)
LEMMA LandIsStep ==
  ASSUME FlowsTyped, NEW i \in DOMAIN txs, Land(i)
  PROVE  Next /\ TransactionsTypeOK'
<1>1. TransactionsTypeOK
  BY DEF FlowsTyped, FlowsTypeOK
<1>2. txs[i].op \in Ops
  BY <1>1, TxsAre
<1>3. PICK op \in Ops : op = txs[i].op
  BY <1>2
<1>4. Next
  BY <1>3, ExecuteIsStep DEF Land
<1>5. TransactionsTypeOK'
  BY <1>1, FateChanges DEF Land, Fates
<1> QED
  BY <1>4, <1>5

LEMMA FailIsStutter ==
  ASSUME FlowsTyped, NEW i \in DOMAIN txs, Fail(i)
  PROVE  UNCHANGED vars /\ TransactionsTypeOK'
BY FateChanges DEF Fail, Fates, FlowsTyped, FlowsTypeOK

LEMMA FlowCases ==
  ASSUME [FlowsNext]_allVars
  PROVE  \/ \E i \in DOMAIN txs :
              (Land(i) \/ Fail(i)) /\ UNCHANGED <<walletVars, registerVars, buyVars, keying, cast, directs>>
         \/ \E c \in Registrars :
              RegisterStep(c) /\ UNCHANGED <<walletVars, buyVars, keying, cast, directs>>
         \/ \E c \in Buyers : BuyStep(c) /\ UNCHANGED <<keying, cast, directs>>
         \/ \E c \in KeyClients :
              KeyClientStep(c) /\ UNCHANGED <<registerVars, buyVars, cast, directs>>
         \/ /\ Next /\ directs < MaxDirect /\ directs' = directs + 1
            /\ UNCHANGED <<txs, walletVars, registerVars, buyVars, keying, cast>>
         \/ \E c \in Pages, w \in Subscribers :
              /\ ChangeWallet(c, w)
              /\ UNCHANGED <<vars, txs, registerVars, buyVars, keying, cast, directs>>
         \/ UNCHANGED allVars
BY DEF FlowsNext, NetworkStep, ClientStep, WalletStep, DirectStep

LEMMA SendType ==
  ASSUME FlowsTyped, UNCHANGED txs \/ \E op \in Ops : Send(op)
  PROVE  TransactionsTypeOK'
<1>1. TransactionsTypeOK
  BY DEF FlowsTyped, FlowsTypeOK
<1>2. CASE UNCHANGED txs
  BY <1>1, <1>2 DEF TransactionsTypeOK
<1>3. CASE \E op \in Ops : Send(op)
  BY <1>1, <1>3, SendAppends
<1> QED
  BY <1>2, <1>3

LEMMA RestKept ==
  ASSUME FlowsTyped
  PROVE  /\ UNCHANGED registerVars => RegisterTypeOK' /\ PassHasOffer'
         /\ UNCHANGED buyVars => SubscribeTypeOK' /\ PurchaseHasTerms'
         /\ UNCHANGED keying => KeyTypeOK'
         /\ UNCHANGED vars => TypeOK'
         /\ UNCHANGED walletVars => WalletsTypeOK' /\ ConnectedSince'
         /\ UNCHANGED <<cast, directs>> => cast' \in Casts /\ directs' \in 0 .. MaxDirect
<1>1. UNCHANGED registerVars => RegisterTypeOK' /\ PassHasOffer'
  BY DEF FlowsTyped, FlowsTypeOK, registerVars, RegisterTypeOK, PassHasOffer, RegisterAt, OfferOf
<1>2. UNCHANGED buyVars => SubscribeTypeOK' /\ PurchaseHasTerms'
  BY DEF FlowsTyped, FlowsTypeOK, buyVars, SubscribeTypeOK, PurchaseHasTerms, BuyAt
<1>3. UNCHANGED keying => KeyTypeOK'
  BY DEF FlowsTyped, FlowsTypeOK, KeyTypeOK
<1>4. UNCHANGED vars => TypeOK'
  BY StepType DEF FlowsTyped, FlowsTypeOK
<1>5. UNCHANGED <<cast, directs>> => cast' \in Casts /\ directs' \in 0 .. MaxDirect
  BY DEF FlowsTyped, FlowsTypeOK
<1> QED
  BY <1>1, <1>2, <1>3, <1>4, <1>5, WalletsMove

LEMMA FlowsStepType == FlowsTyped /\ [FlowsNext]_allVars => FlowsTyped' /\ [Next]_vars
<1> SUFFICES ASSUME FlowsTyped, [FlowsNext]_allVars PROVE FlowsTyped' /\ [Next]_vars
  OBVIOUS
<1> DEFINE Goal == FlowsTyped' /\ [Next]_vars
<1>1. ASSUME [Next]_vars, TransactionsTypeOK', RegisterTypeOK', PassHasOffer',
             SubscribeTypeOK', PurchaseHasTerms', KeyTypeOK', WalletsTypeOK', ConnectedSince',
             cast' \in Casts, directs' \in 0 .. MaxDirect
      PROVE  Goal
  <2>1. TypeOK'
    BY <1>1, StepType DEF FlowsTyped, FlowsTypeOK
  <2> QED
    BY <1>1, <2>1 DEF FlowsTyped, FlowsTypeOK
<1>2. ASSUME NEW i \in DOMAIN txs, Land(i) \/ Fail(i),
             UNCHANGED <<walletVars, registerVars, buyVars, keying, cast, directs>>
      PROVE  Goal
  BY <1>1, <1>2, LandIsStep, FailIsStutter, RestKept
<1>3. ASSUME NEW c \in Registrars, RegisterStep(c),
             UNCHANGED <<walletVars, buyVars, keying, cast, directs>>
      PROVE  Goal
  BY <1>1, <1>3, RegisterType, SendType, RestKept
<1>4. ASSUME NEW c \in Buyers, BuyStep(c), UNCHANGED <<keying, cast, directs>>
      PROVE  Goal
  BY <1>1, <1>4, BuyType, SendType, RestKept
<1>5. ASSUME NEW c \in KeyClients, KeyClientStep(c),
             UNCHANGED <<registerVars, buyVars, cast, directs>>
      PROVE  Goal
  BY <1>1, <1>5, KeyType, SendType, RestKept
<1>6. ASSUME Next, directs < MaxDirect, directs' = directs + 1,
             UNCHANGED <<txs, walletVars, registerVars, buyVars, keying, cast>>
      PROVE  Goal
  <2>1. directs' \in 0 .. MaxDirect /\ cast' \in Casts
    BY <1>6, FlowsAssumption DEF FlowsTyped, FlowsTypeOK
  <2> QED
    BY <1>1, <1>6, <2>1, SendType, RestKept
<1>7. ASSUME UNCHANGED allVars PROVE Goal
  BY <1>1, <1>7, SendType, RestKept DEF allVars, flowVars
<1>8. ASSUME NEW c \in Pages, NEW w \in Subscribers, ChangeWallet(c, w),
             UNCHANGED <<vars, txs, registerVars, buyVars, keying, cast, directs>>
      PROVE  Goal
  BY <1>1, <1>8, SendType, RestKept, WalletsMove
<1> HIDE DEF Goal
<1>9. Goal
  BY <1>2, <1>3, <1>4, <1>5, <1>6, <1>7, <1>8, FlowCases
<1> QED
  BY <1>9 DEF Goal

(* What a page knows of its wallets it forgets only when it is left.        *)
LEMMA SignersGrow ==
  ASSUME FlowsTyped, [FlowsNext]_allVars, NEW c \in Clients,
         ~(c \in Buyers /\ LeaveStream(c)), ~(c \in KeyClients /\ CloseKeys(c))
  PROVE  Signers(c) \subseteq Signers(c)'
<1>1. c \in Pages => since[c] \subseteq since'[c]
  <2> SUFFICES ASSUME c \in Pages PROVE since[c] \subseteq since'[c]
    OBVIOUS
  <2>1. ASSUME NEW d \in Buyers, BuyStep(d) PROVE since[c] \subseteq since'[c]
    BY <2>1, BuyType DEF BuyStep, walletVars
  <2>2. ASSUME NEW d \in KeyClients, KeyClientStep(d) PROVE since[c] \subseteq since'[c]
    BY <2>2, KeyType DEF KeyClientStep, walletVars
  <2> QED
    BY <2>1, <2>2, FlowCases, WalletsMove DEF allVars, flowVars, walletVars
<1> QED
  BY <1>1 DEF Signers

LEMMA SignersKept ==
  ASSUME FlowsTyped, [FlowsNext]_allVars
  PROVE  /\ \A c \in Buyers : buying'[c] = buying[c] => Signers(c) \subseteq Signers(c)'
         /\ \A c \in KeyClients : keying'[c] = keying[c] => Signers(c) \subseteq Signers(c)'
         /\ \A c \in Buyers \cup KeyClients : Signers(c) \cup Signers(c)' \subseteq Subscribers
<1>1. ASSUME NEW c \in Buyers, buying'[c] = buying[c] PROVE Signers(c) \subseteq Signers(c)'
  <2>1. c \in Clients /\ c \notin KeyClients
    BY SubscribeAssumption, FlowsAssumption
  <2>2. buying \in [Buyers -> Purchases]
    BY DEF FlowsTyped, FlowsTypeOK, SubscribeTypeOK
  <2>3. ASSUME LeaveStream(c) PROVE FALSE
    <3>1. buying'[c].step = "idle" /\ buying[c].step # "idle"
      BY <2>2, <2>3 DEF LeaveStream, BuyAt, Purchases
    <3> QED
      BY <1>1, <3>1
  <2> QED
    BY <2>1, <2>3, SignersGrow
<1>2. ASSUME NEW c \in KeyClients, keying'[c] = keying[c] PROVE Signers(c) \subseteq Signers(c)'
  <2>1. c \in Clients /\ c \notin Buyers
    BY KeyAssumption, FlowsAssumption
  <2>2. keying \in [KeyClients -> KeyForms]
    BY DEF FlowsTyped, FlowsTypeOK, KeyTypeOK
  <2>3. ASSUME CloseKeys(c) PROVE FALSE
    <3>1. keying'[c].step = "closed" /\ keying[c].step # "closed"
      BY <2>2, <2>3 DEF CloseKeys, KeyAt, Closed
    <3> QED
      BY <1>2, <3>1
  <2> QED
    BY <2>1, <2>3, SignersGrow
<1>3. WalletsTypeOK /\ WalletsTypeOK'
  BY FlowsStepType DEF FlowsTyped, FlowsTypeOK
<1>4. \A c \in Buyers \cup KeyClients : Signers(c) \cup Signers(c)' \subseteq Subscribers
  BY <1>3, SubscribeAssumption, KeyAssumption DEF WalletsTypeOK, Signers
<1> QED
  BY <1>1, <1>2, <1>4

LEMMA FlowsInitType == FlowsInit => FlowsTyped
<1> SUFFICES ASSUME FlowsInit PROVE FlowsTyped
  OBVIOUS
<1> USE DEF FlowsInit
<1>1. TypeOK
  BY InitType
<1>2. TransactionsTypeOK
  <2>1. txs = <<>> /\ MaxSends \in Nat
    BY TransactionsAssumption DEF TransactionsInit
  <2>2. <<>> \in Seq([op : Ops, fate : Fates]) /\ Len(<<>>) = 0
    OBVIOUS
  <2> QED
    BY <2>1, <2>2 DEF TransactionsTypeOK
<1>3. cast \in Casts /\ directs \in 0 .. MaxDirect
  BY FlowsAssumption
<1> DEFINE first == CHOOSE s \in Streams : TRUE
<1>4. first \in Streams /\ 0 \in 0 .. MaxSends
  BY TransactionsAssumption
<1> HIDE DEF first
<1>5. RegisterTypeOK /\ PassHasOffer
  <2> DEFINE pending == [step |-> "idle", stream |-> first, offer |-> NoOffer,
                         create |-> 0, tier |-> 0]
  <2>1. registering = [c \in Registrars |-> pending]
    BY DEF RegisterInit, first
  <2>2. pending \in Registrations /\ pending.step = "idle"
    BY <1>4 DEF Registrations, RegisterSteps
  <2> HIDE DEF pending
  <2>3. registering \in [Registrars -> Registrations] /\ PassHasOffer
    BY <2>1, <2>2 DEF PassHasOffer, RegisterAt
  <2>4. /\ listing \in [Streams -> Offers \cup {NoOffer}]
        /\ lister \in [Streams -> Registrars \cup {NoOffer}]
    BY DEF RegisterInit
  <2> QED
    BY <2>3, <2>4 DEF RegisterTypeOK
<1>6. SubscribeTypeOK /\ PurchaseHasTerms
  <2> DEFINE purchase == [step |-> "idle", stream |-> first, shown |-> NoTerms,
                          subscribed |-> FALSE, keyed |-> FALSE, tx |-> 0]
  <2>1. buying = [c \in Buyers |-> purchase]
    BY DEF SubscribeInit, first
  <2>2. purchase \in Purchases /\ purchase.step = "idle"
    BY <1>4 DEF Purchases, BuySteps
  <2> HIDE DEF purchase
  <2>3. buying \in [Buyers -> Purchases] /\ PurchaseHasTerms
    BY <2>1, <2>2 DEF PurchaseHasTerms, BuyAt
  <2>4. /\ cached \in [Subscribers -> SUBSET Streams]
        /\ agreed \in [1 .. MaxSends -> [by : Buyers, price : Prices] \cup {NoTerms}]
    BY DEF SubscribeInit
  <2> QED
    BY <2>3, <2>4 DEF SubscribeTypeOK
<1>7. KeyTypeOK
  BY <1>4 DEF KeyInit, KeyTypeOK, Closed, KeyForms, KeySteps, first
<1>8. WalletsTypeOK /\ ConnectedSince
  BY TransactionsAssumption DEF TransactionsInit, WalletsTypeOK, ConnectedSince
<1> QED
  BY <1>1, <1>2, <1>3, <1>5, <1>6, <1>7, <1>8 DEF FlowsTyped, FlowsTypeOK

(* Clients, transactions, accounts and the listing keep their types.        *)
THEOREM FlowsTypeCorrect == FlowsSpec => []FlowsTypeOK
<1>1. FlowsTyped => FlowsTypeOK
  BY DEF FlowsTyped
<1> QED
  BY <1>1, FlowsInitType, FlowsStepType, PTL DEF FlowsSpec

(* Whatever its clients do, the chain behaves as the two programs say: what *)
(* is proved of SubscriptionRoyalty holds of every behaviour of the flows.  *)
THEOREM ProgramsImplemented == FlowsSpec => Spec
<1>1. FlowsInit => Init
  BY DEF FlowsInit
<1> QED
  BY <1>1, FlowsInitType, FlowsStepType, PTL DEF FlowsSpec, Spec

-----------------------------------------------------------------------------
(* Listings. *)

ListedInv ==
  \A s \in Streams : listing[s] # NoOffer =>
    /\ lister[s] \in Registrars
    /\ lister[s] \notin Seeders => SignedByAuthority(WalletOf[lister[s]], s)

LEMMA PostLists ==
  ASSUME FlowsTyped, ListedInv, NEW c \in Registrars, Post(c)
  PROVE  ListedInv'
<1> USE DEF FlowsTyped, FlowsTypeOK
<1>1. StreamOf(c) \in Streams
  BY RegisterAssumption DEF RegisterTypeOK, StreamOf, Registrations
<1>2. /\ lister'[StreamOf(c)] = c
      /\ \A s \in Streams \ {StreamOf(c)} : lister'[s] = lister[s] /\ listing'[s] = listing[s]
      /\ streamConfig' = streamConfig
  BY <1>1 DEF Post, RegisterTypeOK, vars, registryVars
<1>3. c \notin Seeders => SignedByAuthority(WalletOf[c], StreamOf(c))
  BY DEF Post, MayList, SignedByAuthority, StreamActive
<1>4. PICK s \in Streams : s = StreamOf(c)
  BY <1>1
<1> QED
  BY <1>2, <1>3, <1>4 DEF ListedInv, SignedByAuthority, StreamExists

LEMMA ListedStep == FlowsTyped /\ ListedInv /\ [FlowsNext]_allVars => ListedInv'
<1> SUFFICES ASSUME FlowsTyped, ListedInv, [FlowsNext]_allVars PROVE ListedInv'
  OBVIOUS
<1>1. [Next]_vars /\ TypeOK
  BY FlowsStepType DEF FlowsTyped, FlowsTypeOK
<1>2. AccountsKept
  BY <1>1, ChainKeeps
<1>3. ASSUME UNCHANGED <<listing, lister>> PROVE ListedInv'
  BY <1>2, <1>3 DEF ListedInv, SignedByAuthority, StreamExists, AccountsKept
<1>4. ASSUME NEW c \in Registrars, RegisterStep(c) PROVE ListedInv'
  BY <1>3, <1>4, PostLists DEF RegisterStep, BeginRegister, SendCreate, ConfirmCreate, StreamAppears,
     SendTier, SkipTier, ConfirmTier, LeaveRegister
<1>5. ASSUME NEW c \in Buyers, BuyStep(c) PROVE UNCHANGED <<listing, lister>>
  BY <1>5, BuyType DEF registerVars
<1> QED
  BY <1>3, <1>4, <1>5, FlowCases DEF registerVars, allVars, flowVars

(* Nobody lists another's stream: it is the authority who passes the check  *)
(* of POST /streams, and a stream never changes its authority.              *)
THEOREM ListedCorrect == FlowsSpec => []ListedByOwner
<1>1. FlowsInit => ListedInv
  BY DEF FlowsInit, RegisterInit, ListedInv
<1>2. ListedInv => ListedByOwner
  BY DEF ListedInv, ListedByOwner
<1> QED
  BY <1>1, <1>2, FlowsInitType, FlowsStepType, ListedStep, PTL DEF FlowsSpec

(* Transactions are kept as they were sent, and land in a step of their own. *)
LEMMA TxsMove ==
  ASSUME FlowsTyped, [FlowsNext]_allVars, NEW i \in DOMAIN txs
  PROVE  /\ i \in DOMAIN txs' /\ txs'[i].op = txs[i].op
         /\ txs'[i].fate = txs[i].fate \/ Land(i) \/ Fail(i)
<1> USE DEF FlowsTyped, FlowsTypeOK
<1> DEFINE Goal == /\ i \in DOMAIN txs' /\ txs'[i].op = txs[i].op
                   /\ txs'[i].fate = txs[i].fate \/ Land(i) \/ Fail(i)
<1>1. ASSUME NEW j \in DOMAIN txs, Land(j) \/ Fail(j) PROVE Goal
  <2>1. PICK fate \in Fates : txs' = [txs EXCEPT ![j].fate = fate]
    BY <1>1 DEF Land, Fail, Fates
  <2>2. i \in DOMAIN txs' /\ txs'[i].op = txs[i].op /\ (i # j => txs'[i] = txs[i])
    BY <2>1, FateChanges
  <2> QED
    BY <1>1, <2>2
<1>2. ASSUME NEW op \in Ops, Send(op) PROVE Goal
  BY <1>2, SendAppends
<1>3. ASSUME UNCHANGED txs PROVE Goal
  BY <1>3
<1> HIDE DEF Goal
<1>4. ASSUME NEW c \in Registrars, RegisterStep(c) PROVE Goal
  BY <1>2, <1>3, <1>4, RegisterType
<1>5. ASSUME NEW c \in Buyers, BuyStep(c) PROVE Goal
  BY <1>2, <1>3, <1>5, BuyType
<1>6. ASSUME NEW c \in KeyClients, KeyClientStep(c) PROVE Goal
  BY <1>2, <1>3, <1>6, KeyType
<1>7. Goal
  BY <1>1, <1>3, <1>4, <1>5, <1>6, FlowCases DEF allVars, flowVars
<1> QED
  BY <1>7 DEF Goal

-----------------------------------------------------------------------------
(* Keys. *)

(* A page on its way waits for a transaction of a wallet it has had.        *)
KeySent(c) ==
  keying[c].step \in {"confirm", "sync"} /\ c \in Pages =>
    keying[c].tx \in DOMAIN txs /\ txs[keying[c].tx].op.by \in Signers(c)

KeyInv == RegisteredKeyExists /\ \A c \in KeyClients : KeySent(c)

LEMMA KeyStepSends ==
  ASSUME FlowsTyped, [FlowsNext]_allVars, NEW c \in KeyClients, KeySent(c), KeyClientStep(c)
  PROVE  KeySent(c)'
<1> USE DEF FlowsTyped, FlowsTypeOK
<1>1. keying[c] \in KeyForms /\ Signer(c) \in Subscribers /\ Signer(c) \in Signers(c)
  BY SignerIsKnown, KeyAssumption DEF KeyTypeOK
<1>2. CASE keying'[c].step \notin {"confirm", "sync"}
  BY <1>2 DEF KeySent
<1>3. CASE \E key \in Keys : SubmitKey(c, key) /\ UNCHANGED walletVars
  <2>1. PICK key \in Keys : SubmitKey(c, key)
    BY <1>3
  <2> DEFINE op == IF c \in WalletTools THEN WalletKeyOp(Signer(c), key)
                   ELSE KeyOp(Signer(c), keying[c].stream, key)
  <2>2. op \in Ops /\ op.by = Signer(c)
    BY <1>1 DEF Ops, WalletKeyOp, KeyOp, KeyForms
  <2>3. Send(op) /\ keying'[c].tx = NextTx
    BY <1>1, <2>1 DEF SubmitKey, KeyTypeOK, KeyForms
  <2> HIDE DEF op
  <2>4. NextTx \in DOMAIN txs' /\ txs'[NextTx].op = op
    BY <2>2, <2>3, SendAppends
  <2>5. Signers(c)' = Signers(c)
    BY <1>3 DEF walletVars, Signers
  <2> QED
    BY <1>1, <2>2, <2>3, <2>4, <2>5 DEF KeySent
<1>4. CASE ConfirmKey(c) /\ UNCHANGED walletVars
  <2>1. keying'[c].tx = keying[c].tx /\ keying[c].step = "confirm" /\ UNCHANGED txs
    BY <1>1, <1>4 DEF ConfirmKey, KeyAt, KeyTypeOK, KeyForms
  <2>2. Signers(c)' = Signers(c)
    BY <1>4 DEF walletVars, Signers
  <2> QED
    BY <2>1, <2>2 DEF KeySent
<1>5. CASE LookAgain(c) /\ UNCHANGED walletVars
  <2>1. keying'[c].tx = keying[c].tx /\ keying'[c].step = keying[c].step /\ UNCHANGED txs
    BY <1>1, <1>5 DEF LookAgain, KeyTypeOK, KeyForms
  <2>2. Signers(c)' = Signers(c)
    BY <1>5 DEF walletVars, Signers
  <2> QED
    BY <2>1, <2>2 DEF KeySent
<1>6. CASE \E s \in Streams : OpenKeys(c, s)
  BY <1>2, <1>6 DEF OpenKeys, KeyTypeOK, Closed
<1>7. CASE SyncKey(c) \/ FailKey(c)
  <2>1. keying'[c].step = "open"
    BY <1>1, <1>7 DEF SyncKey, FailKey, KeyTypeOK, KeyForms
  <2> QED
    BY <1>2, <2>1
<1>8. CASE CloseKeys(c)
  BY <1>2, <1>8 DEF CloseKeys, KeyTypeOK, Closed
<1> QED
  BY <1>3, <1>4, <1>5, <1>6, <1>7, <1>8 DEF KeyClientStep

LEMMA KeyStepShows ==
  ASSUME FlowsTyped, KeyInv, NEW c \in KeyClients, KeyClientStep(c),
         c \in KeyPages \cup KeyTools, keying'[c].shown # NoKey
  PROVE  /\ \E w \in Signers(c) : subscriptionKey[keying'[c].stream][w] # NoAccount
         /\ UNCHANGED walletVars
<1> USE DEF FlowsTyped, FlowsTypeOK
<1>1. keying[c] \in KeyForms /\ Signer(c) \in Signers(c)
  BY SignerIsKnown, KeyAssumption DEF KeyTypeOK
<1>7. ~CloseKeys(c)
  <2> SUFFICES ASSUME CloseKeys(c) PROVE FALSE
    OBVIOUS
  <2>1. keying'[c] = Closed(keying[c].stream)
    BY DEF CloseKeys, KeyTypeOK
  <2> QED
    BY <2>1 DEF Closed
<1> SUFFICES \E w \in Signers(c) : subscriptionKey[keying'[c].stream][w] # NoAccount
  BY <1>7 DEF KeyClientStep
<1>2. keying[c].shown # NoKey =>
        \E w \in Signers(c) : subscriptionKey[keying[c].stream][w] # NoAccount
  BY DEF KeyInv, RegisteredKeyExists
<1>8. CASE LookAgain(c)
  <2> DEFINE key == ShownAtFirst(c, Account(c))
  <2>1. keying'[c].stream = keying[c].stream /\ keying'[c].shown = key
    BY <1>1, <1>8 DEF LookAgain, KeyTypeOK, KeyForms
  <2> QED
    BY <1>1, <2>1 DEF ShownAtFirst, Account
<1>3. CASE \E s \in Streams : OpenKeys(c, s)
  <2>1. PICK s \in Streams : OpenKeys(c, s)
    BY <1>3
  <2> DEFINE form == [Closed(s) EXCEPT !.step = "open",
                        !.shown = ShownAtFirst(c, subscriptionKey[s][Signer(c)])]
  <2>2. keying'[c] = form
    BY <2>1 DEF OpenKeys, KeyTypeOK
  <2>3. form.stream = s /\ form.shown = ShownAtFirst(c, subscriptionKey[s][Signer(c)])
    BY DEF Closed
  <2> HIDE DEF form
  <2> QED
    BY <1>1, <2>2, <2>3 DEF ShownAtFirst
<1>4. CASE \E key \in Keys : SubmitKey(c, key)
  <2>1. keying'[c].stream = keying[c].stream /\ keying'[c].shown = keying[c].shown
    BY <1>1, <1>4 DEF SubmitKey, KeyTypeOK, KeyForms
  <2> QED
    BY <1>2, <2>1
<1>5. CASE ConfirmKey(c) \/ FailKey(c)
  <2>1. keying'[c].stream = keying[c].stream /\ keying'[c].shown = keying[c].shown
    <3>1. CASE ConfirmKey(c)
      BY <1>1, <3>1, SMTT(30) DEF ConfirmKey, KeyTypeOK, KeyForms
    <3>2. CASE FailKey(c)
      BY <1>1, <3>2, SMTT(30) DEF FailKey, KeyTypeOK, KeyForms
    <3> QED
      BY <1>5, <3>1, <3>2
  <2> QED
    BY <1>2, <2>1
<1>6. CASE SyncKey(c)
  <2>1. keying'[c].stream = keying[c].stream
    BY <1>1, <1>6 DEF SyncKey, KeyTypeOK, KeyForms
  <2>2. Payer(c, keying[c].tx) \in Signers(c)
    BY <1>6 DEF SyncKey, KeyAt, KeyInv, KeySent, Payer, Signers
  <2>3. subscriptionKey[keying[c].stream][Payer(c, keying[c].tx)] # NoAccount
    BY <1>6 DEF SyncKey, MaySync
  <2> QED
    BY <2>1, <2>2, <2>3
<1> QED
  BY <1>3, <1>4, <1>5, <1>6, <1>7, <1>8 DEF KeyClientStep

LEMMA BuyOthers ==
  ASSUME FlowsTyped, NEW c \in Buyers, BuyStep(c)
  PROVE  \A d \in Buyers \ {c} : buying'[d] = buying[d]
BY DEF FlowsTyped, FlowsTypeOK, SubscribeTypeOK, BuyStep, LookAt, UseCache, FetchSubscriptions,
   CheckKey, PressSubscribe, ConfirmSubscribe, RegisterSubscription, FailPurchase, LeaveStream,
   ServerSend, buyVars

LEMMA KeyOthers ==
  ASSUME FlowsTyped, NEW c \in KeyClients, KeyClientStep(c)
  PROVE  \A d \in KeyClients \ {c} : keying'[d] = keying[d]
BY DEF FlowsTyped, FlowsTypeOK, KeyTypeOK, KeyClientStep, OpenKeys, LookAgain, SubmitKey,
   ConfirmKey, SyncKey, FailKey, CloseKeys

(* What a buyer's step makes of its own purchase, field by field.           *)
LEMMA Purchase ==
  ASSUME FlowsTyped, NEW c \in Buyers, BuyStep(c)
  PROVE  \/ \E s \in Streams : LookAt(c, s) /\ buying'[c].step = "shown"
              /\ buying'[c].subscribed = FALSE /\ buying'[c].keyed = FALSE
         \/ /\ UseCache(c)
            /\ buying'[c].step = buying[c].step /\ buying'[c].stream = buying[c].stream
            /\ buying'[c].keyed = buying[c].keyed /\ buying'[c].tx = buying[c].tx
         \/ /\ \E w \in Signers(c) : FetchSubscriptions(c, w)
            /\ buying'[c].step = buying[c].step /\ buying'[c].stream = buying[c].stream
            /\ buying'[c].keyed = buying[c].keyed /\ buying'[c].tx = buying[c].tx
            /\ buying'[c].subscribed =>
                 buying[c].subscribed \/ IsActive(Bought(c), Buyer(c))
         \/ /\ CheckKey(c)
            /\ buying'[c].step = buying[c].step /\ buying'[c].stream = buying[c].stream
            /\ buying'[c].subscribed = buying[c].subscribed /\ buying'[c].tx = buying[c].tx
            /\ buying'[c].keyed = HasKey(c)
         \/ /\ PressSubscribe(c)
            /\ buying'[c].step = AfterSubscribe(c) /\ buying'[c].stream = buying[c].stream
            /\ buying'[c].subscribed = buying[c].subscribed
            /\ buying'[c].keyed = buying[c].keyed /\ buying'[c].tx = NextTx
         \/ /\ ConfirmSubscribe(c)
            /\ buying'[c].step = (IF c \in AsksBackend THEN "register" ELSE "shown")
            /\ buying'[c].stream = buying[c].stream /\ buying'[c].tx = buying[c].tx
            /\ buying'[c].subscribed = (c \in Servers) /\ buying'[c].keyed = buying[c].keyed
         \/ /\ RegisterSubscription(c)
            /\ buying'[c].step = "shown" /\ buying'[c].stream = buying[c].stream
            /\ buying'[c].keyed => buying[c].keyed \/ HasKey(c)
         \/ /\ FailPurchase(c)
            /\ buying'[c].step = "shown" /\ buying'[c].stream = buying[c].stream
            /\ buying'[c].subscribed = buying[c].subscribed /\ buying'[c].keyed = buying[c].keyed
         \/ /\ LeaveStream(c)
            /\ buying'[c].step = "idle"
            /\ buying'[c].subscribed = FALSE /\ buying'[c].keyed = FALSE
         \/ \E s \in Streams : ServerSend(c, s) /\ buying'[c] = buying[c]
<1> USE DEF FlowsTyped, FlowsTypeOK
<1>1. buying[c] \in Purchases /\ buying \in [Buyers -> Purchases]
  BY DEF SubscribeTypeOK
<1>2. CASE \E s \in Streams : LookAt(c, s)
  <2>1. PICK s \in Streams : LookAt(c, s)
    BY <1>2
  <2>2. PICK price \in Prices :
          buying' = [buying EXCEPT ![c] =
            [step |-> "shown", stream |-> s,
             shown |-> [TermsShown(s) EXCEPT !.price = price],
             subscribed |-> FALSE, keyed |-> FALSE, tx |-> 0]]
    BY <2>1 DEF LookAt
  <2> DEFINE shown == [TermsShown(s) EXCEPT !.price = price]
             purchase == [step |-> "shown", stream |-> s, shown |-> shown,
                          subscribed |-> FALSE, keyed |-> FALSE, tx |-> 0]
  <2>3. buying' = [buying EXCEPT ![c] = purchase]
    BY <2>2
  <2> HIDE DEF shown
  <2>4. purchase.step = "shown" /\ purchase.subscribed = FALSE /\ purchase.keyed = FALSE
    OBVIOUS
  <2> HIDE DEF purchase
  <2> QED
    BY <1>1, <2>1, <2>3, <2>4
<1>3. CASE UseCache(c)
  BY <1>1, <1>3 DEF UseCache, Purchases
<1>4. CASE \E w \in Signers(c) : FetchSubscriptions(c, w)
  <2>1. PICK w \in Signers(c) : FetchSubscriptions(c, w)
    BY <1>4
  <2> DEFINE subscribed ==
        (buying[c].subscribed
           \/ (w = Buyer(c) /\ Bought(c) \in {s \in Streams : IsActive(s, w)}))
  <2>2. buying' = [buying EXCEPT ![c] = [buying[c] EXCEPT !.subscribed = subscribed]]
    BY <2>1 DEF FetchSubscriptions
  <2>3. subscribed => buying[c].subscribed \/ IsActive(Bought(c), Buyer(c))
    OBVIOUS
  <2> HIDE DEF subscribed
  <2>4. /\ buying'[c].step = buying[c].step /\ buying'[c].stream = buying[c].stream
        /\ buying'[c].keyed = buying[c].keyed /\ buying'[c].tx = buying[c].tx
        /\ buying'[c].subscribed = subscribed
    BY <1>1, <2>2 DEF Purchases
  <2> QED
    BY <1>4, <2>3, <2>4
<1>5. CASE CheckKey(c)
  <2> DEFINE keyed == HasKey(c)
  <2>1. buying' = [buying EXCEPT ![c] = [buying[c] EXCEPT !.keyed = keyed]]
    BY <1>5 DEF CheckKey
  <2> HIDE DEF keyed
  <2>2. /\ buying'[c].step = buying[c].step /\ buying'[c].stream = buying[c].stream
        /\ buying'[c].subscribed = buying[c].subscribed /\ buying'[c].tx = buying[c].tx
        /\ buying'[c].keyed = keyed
    BY <1>1, <2>1 DEF Purchases
  <2> QED
    BY <1>5, <2>2 DEF keyed
<1>6. CASE PressSubscribe(c)
  <2> DEFINE step == AfterSubscribe(c)
  <2>1. buying' = [buying EXCEPT ![c] = [buying[c] EXCEPT !.step = step, !.tx = NextTx]]
    BY <1>6 DEF PressSubscribe
  <2> HIDE DEF step
  <2>2. /\ buying'[c].step = step /\ buying'[c].stream = buying[c].stream
        /\ buying'[c].subscribed = buying[c].subscribed
        /\ buying'[c].keyed = buying[c].keyed /\ buying'[c].tx = NextTx
    BY <1>1, <2>1 DEF Purchases
  <2> QED
    BY <1>6, <2>2 DEF step
<1>7. CASE ConfirmSubscribe(c)
  <2> DEFINE step == IF c \in AsksBackend THEN "register" ELSE "shown"
             subscribed == c \in Servers
  <2>1. buying' = [buying EXCEPT ![c] = [buying[c] EXCEPT !.step = step, !.subscribed = subscribed]]
    BY <1>7 DEF ConfirmSubscribe
  <2> HIDE DEF step, subscribed
  <2>2. /\ buying'[c].step = step /\ buying'[c].stream = buying[c].stream
        /\ buying'[c].subscribed = subscribed /\ buying'[c].keyed = buying[c].keyed
        /\ buying'[c].tx = buying[c].tx
    BY <1>1, <2>1 DEF Purchases
  <2> QED
    BY <1>7, <2>2 DEF step, subscribed
<1>8. CASE RegisterSubscription(c)
  <2> DEFINE keyed == IF c \in SubscribeForms THEN buying[c].keyed ELSE HasKey(c)
  <2>1. buying' = [buying EXCEPT ![c] =
          [buying[c] EXCEPT !.step = "shown", !.subscribed = TRUE, !.keyed = keyed]]
    BY <1>8 DEF RegisterSubscription
  <2>2. keyed => buying[c].keyed \/ HasKey(c)
    OBVIOUS
  <2> HIDE DEF keyed
  <2>3. /\ buying'[c].step = "shown" /\ buying'[c].stream = buying[c].stream
        /\ buying'[c].keyed = keyed
    BY <1>1, <2>1 DEF Purchases
  <2> QED
    BY <1>8, <2>2, <2>3
<1>9. CASE FailPurchase(c)
  BY <1>1, <1>9 DEF FailPurchase, Purchases
<1>10. CASE LeaveStream(c)
  BY <1>1, <1>10 DEF LeaveStream, Purchases
<1>11. CASE \E s \in Streams : ServerSend(c, s)
  BY <1>11 DEF ServerSend, buyVars
<1> QED
  BY <1>2, <1>3, <1>4, <1>5, <1>6, <1>7, <1>8, <1>9, <1>10, <1>11 DEF BuyStep

LEMMA PurchaseKeyed ==
  ASSUME FlowsTyped, RegisteredKeyExists, NEW c \in Buyers, BuyStep(c), buying'[c].keyed
  PROVE  /\ \E w \in Signers(c) : subscriptionKey[buying'[c].stream][w] # NoAccount
         /\ UNCHANGED walletVars
<1>1. buying[c].keyed => \E w \in Signers(c) : subscriptionKey[buying[c].stream][w] # NoAccount
  BY DEF RegisteredKeyExists, Bought
<1>2. Signer(c) \in Signers(c)
  BY SignerIsKnown, SubscribeAssumption
<1>3. HasKey(c) => \E w \in Signers(c) : subscriptionKey[buying[c].stream][w] # NoAccount
  BY <1>2 DEF HasKey, Bought, Buyer
<1>4. /\ buying'[c].stream = buying[c].stream
      /\ buying[c].keyed \/ HasKey(c)
  BY Purchase
<1>5. ASSUME LeaveStream(c) PROVE FALSE
  <2>1. buying'[c].keyed = FALSE
    BY <1>5 DEF LeaveStream, FlowsTyped, FlowsTypeOK, SubscribeTypeOK, Purchases
  <2> QED
    BY <2>1
<1> QED
  BY <1>1, <1>3, <1>4, <1>5 DEF BuyStep

LEMMA KeyShownStep ==
  FlowsTyped /\ KeyInv /\ [FlowsNext]_allVars => KeyInv'
<1> SUFFICES ASSUME FlowsTyped, KeyInv, [FlowsNext]_allVars
             PROVE  KeyInv'
  OBVIOUS
<1> USE DEF FlowsTyped, FlowsTypeOK
<1> DEFINE Had(c) == IF c \in Pages THEN since'[c] ELSE {WalletOf[c]}
    FormShows(c, form) ==
      form.shown # NoKey => \E w \in Had(c) : subscriptionKey'[form.stream][w] # NoAccount
    PurchaseShows(c, purchase) ==
      purchase.keyed => \E w \in Had(c) : subscriptionKey'[purchase.stream][w] # NoAccount
<1>1. [Next]_vars /\ TypeOK
  BY FlowsStepType
<1>2. \A s \in Streams, w \in Subscribers :
        subscriptionKey[s][w] # NoAccount => subscriptionKey'[s][w] # NoAccount
  BY <1>1, ChainKeeps DEF AccountsKept
<1>3. /\ \A c \in KeyClients : keying[c].stream \in Streams /\ keying'[c].stream \in Streams
      /\ \A c \in Buyers : buying[c].stream \in Streams /\ buying'[c].stream \in Streams
      /\ \A c \in KeyClients \cup Buyers : Signers(c) \subseteq Subscribers
  BY FlowsStepType, SignersKept
  DEF KeyTypeOK, SubscribeTypeOK, KeyForms, Purchases
<1>12. /\ \A c \in KeyClients : keying'[c] = keying[c] => Signers(c) \subseteq Had(c)
       /\ \A c \in Buyers : buying'[c] = buying[c] => Signers(c) \subseteq Had(c)
       /\ UNCHANGED walletVars => \A c \in Clients : Signers(c) = Had(c)
  <2>1. /\ \A c \in KeyClients : keying'[c] = keying[c] => Signers(c) \subseteq Signers(c)'
        /\ \A c \in Buyers : buying'[c] = buying[c] => Signers(c) \subseteq Signers(c)'
    BY SignersKept
  <2>2. UNCHANGED walletVars => \A c \in Clients : Signers(c) = Had(c)
    BY DEF Signers, walletVars
  <2> QED
    BY <2>1, <2>2 DEF Signers
<1>4. \A c \in KeyPages \cup KeyTools : keying'[c] = keying[c] => FormShows(c, keying'[c])
  <2> SUFFICES ASSUME NEW c \in KeyPages \cup KeyTools, keying'[c] = keying[c],
                      keying[c].shown # NoKey
               PROVE  \E w \in Had(c) : subscriptionKey'[keying[c].stream][w] # NoAccount
    OBVIOUS
  <2>1. PICK w \in Signers(c) : subscriptionKey[keying[c].stream][w] # NoAccount
    BY DEF KeyInv, RegisteredKeyExists
  <2> QED
    BY <1>2, <1>3, <1>12, <2>1 DEF KeyClients
<1>5. \A c \in Buyers : buying'[c] = buying[c] => PurchaseShows(c, buying'[c])
  <2> SUFFICES ASSUME NEW c \in Buyers, buying'[c] = buying[c], buying[c].keyed
               PROVE  \E w \in Had(c) : subscriptionKey'[buying[c].stream][w] # NoAccount
    OBVIOUS
  <2>1. PICK w \in Signers(c) : subscriptionKey[buying[c].stream][w] # NoAccount
    BY DEF KeyInv, RegisteredKeyExists, Bought
  <2> QED
    BY <1>2, <1>3, <1>12, <2>1
<1>6. ASSUME \A c \in KeyPages \cup KeyTools : FormShows(c, keying'[c]),
             \A c \in Buyers : PurchaseShows(c, buying'[c])
      PROVE  RegisteredKeyExists'
  BY <1>6 DEF RegisteredKeyExists, Bought, Signers
<1>7. ASSUME NEW c \in KeyClients, KeySent(c), keying'[c] = keying[c] PROVE KeySent(c)'
  <2>1. PICK form : form = keying[c] /\ form = keying'[c]
    BY <1>7
  <2>2. form.tx \in DOMAIN txs => form.tx \in DOMAIN txs' /\ txs'[form.tx].op = txs[form.tx].op
    BY TxsMove
  <2>3. Signers(c) \subseteq Signers(c)'
    BY <1>7, SignersKept
  <2> QED
    BY <1>7, <2>1, <2>2, <2>3 DEF KeySent
<1>8. ASSUME UNCHANGED keying PROVE \A c \in KeyClients : KeySent(c)'
  BY <1>7, <1>8 DEF KeyInv
<1>9. ASSUME NEW c \in Buyers, BuyStep(c), UNCHANGED keying PROVE KeyInv'
  <2>1. PurchaseShows(c, buying'[c])
    <3> SUFFICES ASSUME buying'[c].keyed
                 PROVE  \E w \in Had(c) : subscriptionKey'[buying'[c].stream][w] # NoAccount
      OBVIOUS
    <3>1. /\ \E w \in Signers(c) : subscriptionKey[buying'[c].stream][w] # NoAccount
          /\ UNCHANGED walletVars
      BY <1>9, PurchaseKeyed DEF KeyInv
    <3> QED
      BY <1>2, <1>3, <1>12, <3>1, SubscribeAssumption
  <2>2. \A d \in Buyers : PurchaseShows(d, buying'[d])
    BY <1>5, <1>9, <2>1, BuyOthers
  <2>3. \A d \in KeyPages \cup KeyTools : FormShows(d, keying'[d])
    BY <1>4, <1>9
  <2> QED
    BY <1>6, <1>8, <1>9, <2>2, <2>3 DEF KeyInv
<1>10. ASSUME NEW c \in KeyClients, KeyClientStep(c), UNCHANGED buyVars PROVE KeyInv'
  <2>1. c \in KeyPages \cup KeyTools => FormShows(c, keying'[c])
    <3> SUFFICES ASSUME c \in KeyPages \cup KeyTools, keying'[c].shown # NoKey
                 PROVE  \E w \in Had(c) : subscriptionKey'[keying'[c].stream][w] # NoAccount
      OBVIOUS
    <3>1. /\ \E w \in Signers(c) : subscriptionKey[keying'[c].stream][w] # NoAccount
          /\ UNCHANGED walletVars
      BY <1>10, KeyStepShows
    <3> QED
      BY <1>2, <1>3, <1>12, <3>1, KeyAssumption
  <2>2. \A d \in KeyPages \cup KeyTools : FormShows(d, keying'[d])
    BY <1>4, <1>10, <2>1, KeyOthers DEF KeyClients
  <2>3. \A d \in Buyers : PurchaseShows(d, buying'[d])
    BY <1>5, <1>10 DEF buyVars
  <2>4. \A d \in KeyClients : KeySent(d)'
    BY <1>7, <1>10, KeyOthers, KeyStepSends DEF KeyInv
  <2> QED
    BY <1>6, <2>2, <2>3, <2>4 DEF KeyInv
<1>11. ASSUME UNCHANGED <<buyVars, keying>> PROVE KeyInv'
  BY <1>4, <1>5, <1>6, <1>8, <1>11 DEF KeyInv, buyVars
<1> HIDE DEF FormShows, PurchaseShows, Had
<1> QED
  BY <1>9, <1>10, <1>11, FlowCases DEF allVars, flowVars

(* No client tells its user that a key is there when there is none: what it *)
(* shows it has read from a key account, and key accounts are not closed.   *)
(* Where the wallet was changed, the account is of one of those connected.  *)
THEOREM KeyShownCorrect == FlowsSpec => []RegisteredKeyExists
<1>1. FlowsInit => KeyInv
  <2> SUFFICES ASSUME FlowsInit PROVE KeyInv
    OBVIOUS
  <2> DEFINE first == CHOOSE s \in Streams : TRUE
             purchase == [step |-> "idle", stream |-> first, shown |-> NoTerms,
                          subscribed |-> FALSE, keyed |-> FALSE, tx |-> 0]
  <2>1. keying = [c \in KeyClients |-> Closed(first)] /\ buying = [c \in Buyers |-> purchase]
    BY DEF FlowsInit, KeyInit, SubscribeInit
  <2>2. Closed(first).shown = NoKey /\ Closed(first).step = "closed" /\ purchase.keyed = FALSE
    BY DEF Closed
  <2> HIDE DEF first, purchase
  <2> QED
    BY <2>1, <2>2 DEF KeyInv, KeySent, RegisteredKeyExists, KeyClients
<1>2. KeyInv => RegisteredKeyExists
  BY DEF KeyInv
<1> QED
  BY <1>1, <1>2, FlowsInitType, FlowsStepType, KeyShownStep, PTL DEF FlowsSpec

-----------------------------------------------------------------------------
(* Prices. *)

LEMMA PressSends ==
  ASSUME FlowsTyped, NEW c \in Buyers, PressSubscribe(c)
  PROVE  /\ buying[c].shown \in Terms
         /\ NextTx \in 1 .. MaxSends
         /\ NextTx \in DOMAIN txs'
         /\ txs'[NextTx].op = SubscribeOp(Buyer(c), Bought(c), BuiltFrom(c))
         /\ txs'[NextTx].fate = "sent"
<1> USE DEF FlowsTyped, FlowsTypeOK
<1>1. buying[c].shown \in Terms
  BY DEF PressSubscribe, BuyAt, PurchaseHasTerms
<1>2. buying[c] \in Purchases
  BY DEF SubscribeTypeOK
<1>3. Bought(c) \in Streams /\ Buyer(c) \in Subscribers
  BY <1>2, SubscribeAssumption, SignerIsKnown DEF Bought, Buyer, Purchases
<1>4. BuiltFrom(c) \in Terms
  BY <1>1, <1>3, ShownTerms DEF BuiltFrom, PressSubscribe, MayPress
<1> DEFINE op == SubscribeOp(Buyer(c), Bought(c), BuiltFrom(c))
<1>5. op \in Ops /\ Send(op)
  BY <1>3, <1>4 DEF Ops, PressSubscribe
<1> HIDE DEF op
<1>6. /\ NextTx \in 1 .. MaxSends /\ NextTx \in DOMAIN txs'
      /\ txs'[NextTx].op = op /\ txs'[NextTx].fate = "sent"
  BY <1>5, SendAppends
<1> QED
  BY <1>1, <1>6 DEF op

(* A price is noted exactly when a purchase is sent.                        *)
LEMMA AgreedChanges ==
  ASSUME FlowsTyped, [FlowsNext]_allVars
  PROVE  UNCHANGED agreed \/ \E c \in Buyers : PressSubscribe(c)
<1>1. ASSUME NEW c \in Buyers, BuyStep(c), ~PressSubscribe(c) PROVE UNCHANGED agreed
  BY <1>1 DEF BuyStep, LookAt, UseCache, FetchSubscriptions, CheckKey, ConfirmSubscribe,
     RegisterSubscription, FailPurchase, LeaveStream, ServerSend, buyVars
<1> QED
  BY <1>1, FlowCases DEF buyVars, allVars, flowVars

(* The purchase that was sent says the price that was shown.                *)
SoldAsAgreed ==
  \A i \in 1 .. MaxSends : agreed[i] # NoTerms =>
    /\ i \in DOMAIN txs
    /\ agreed[i].by \notin Blinks =>
         txs[i].op.kind = "subscribe" /\ txs[i].op.terms.price = agreed[i].price

LEMMA SoldStep == FlowsTyped /\ SoldAsAgreed /\ [FlowsNext]_allVars => SoldAsAgreed'
<1> SUFFICES ASSUME FlowsTyped, SoldAsAgreed, [FlowsNext]_allVars,
                    NEW i \in 1 .. MaxSends, agreed'[i] # NoTerms
             PROVE  /\ i \in DOMAIN txs'
                    /\ agreed'[i].by \notin Blinks =>
                         /\ txs'[i].op.kind = "subscribe"
                         /\ txs'[i].op.terms.price = agreed'[i].price
  BY DEF SoldAsAgreed
<1>1. CASE agreed'[i] = agreed[i]
  <2>1. i \in DOMAIN txs
    BY <1>1 DEF SoldAsAgreed
  <2> QED
    BY <1>1, <2>1, TxsMove DEF SoldAsAgreed
<1>2. CASE agreed'[i] # agreed[i]
  <2>1. PICK c \in Buyers : PressSubscribe(c)
    BY <1>2, AgreedChanges
  <2>2. i = NextTx /\ agreed'[i] = [by |-> c, price |-> buying[c].shown.price]
    BY <1>2, <2>1 DEF PressSubscribe, FlowsTyped, FlowsTypeOK, SubscribeTypeOK
  <2>3. NextTx \in DOMAIN txs' /\ txs'[NextTx].op = SubscribeOp(Buyer(c), Bought(c), BuiltFrom(c))
    BY <2>1, PressSends
  <2>4. /\ SubscribeOp(Buyer(c), Bought(c), BuiltFrom(c)).kind = "subscribe"
        /\ SubscribeOp(Buyer(c), Bought(c), BuiltFrom(c)).terms = BuiltFrom(c)
    BY DEF SubscribeOp
  <2>5. c \notin Blinks => BuiltFrom(c) = buying[c].shown
    BY DEF BuiltFrom
  <2>6. agreed'[i].by = c /\ agreed'[i].price = buying[c].shown.price
    BY <2>2
  <2> QED
    BY <2>2, <2>3, <2>4, <2>5, <2>6
<1> QED
  BY <1>1, <1>2

LEMMA LandCharges ==
  ASSUME FlowsTyped, NEW i \in DOMAIN txs, Land(i), txs[i].op.kind = "subscribe"
  PROVE  paid'[txs[i].op.stream][txs[i].op.by] = txs[i].op.terms.price
<1>1. PICK op \in Ops : op = txs[i].op
  BY TxsAre DEF FlowsTyped, FlowsTypeOK
<1>2. op.by \in Subscribers /\ op.stream \in Streams /\ op.terms \in Terms
  BY <1>1, SubscribeFields
<1>3. ExecuteRegistry(op) \/ ExecuteRoyalty(op)
  BY <1>1 DEF Land
<1>4. Subscribe(op.by, op.stream, TierId, "SubscriptionUnlimited", Evidence,
                Expiry, NoQuota, op.terms.price, op.terms.maker, op.terms.treasury)
  BY <1>1, <1>3 DEF ExecuteRegistry, ExecuteRoyalty
<1>5. paid' = [paid EXCEPT ![op.stream][op.by] = op.terms.price]
  BY <1>4 DEF Subscribe
<1>6. paid \in [Streams -> [Subscribers -> Prices \cup {NoAccount}]]
  BY DEF FlowsTyped, FlowsTypeOK, TypeOK, RoyaltyTypeOK
<1>7. paid'[op.stream][op.by] = op.terms.price
  BY <1>2, <1>5, <1>6
<1> QED
  BY <1>1, <1>7

LEMMA SoldLands ==
  ASSUME FlowsTyped, [FlowsNext]_allVars, NEW i \in DOMAIN txs, SoldNow(i)
  PROVE  Land(i)
<1>1. Fail(i) => txs'[i].fate = "failed"
  BY FateChanges DEF Fail, Fates, FlowsTyped, FlowsTypeOK
<1> QED
  BY <1>1, TxsMove DEF SoldNow

(* The program charges what the transaction says, and no client but a link  *)
(* lets anything come between what it shows and what it sends.              *)
THEOREM ChargedCorrect == FlowsSpec => ChargedAsShown
<1>1. FlowsInit => SoldAsAgreed
  BY DEF FlowsInit, SubscribeInit, SoldAsAgreed
<1>2. FlowsTyped /\ SoldAsAgreed /\ [FlowsNext]_allVars =>
        \A i \in DOMAIN txs :
          SoldNow(i) /\ agreed[i].by \notin Blinks =>
            paid'[txs[i].op.stream][txs[i].op.by] = agreed[i].price
  <2> SUFFICES ASSUME FlowsTyped, SoldAsAgreed, [FlowsNext]_allVars, NEW i \in DOMAIN txs,
                      SoldNow(i), agreed[i].by \notin Blinks
               PROVE  paid'[txs[i].op.stream][txs[i].op.by] = agreed[i].price
    OBVIOUS
  <2>1. i \in 1 .. MaxSends
    BY TxsAre DEF FlowsTyped, FlowsTypeOK
  <2>2. Land(i)
    BY SoldLands
  <2>3. txs[i].op.kind = "subscribe" /\ txs[i].op.terms.price = agreed[i].price
    BY <2>1 DEF SoldAsAgreed, SoldNow
  <2> QED
    BY <2>2, <2>3, LandCharges
<1> QED
  BY <1>1, <1>2, FlowsInitType, FlowsStepType, SoldStep, PTL DEF FlowsSpec, ChargedAsShown

-----------------------------------------------------------------------------
(* Subscriptions. *)

Held(c) == \E w \in Signers(c) : subscription[Bought(c)][w] # NoAccount

(* Why a client that waits is waiting for the right transaction, and what   *)
(* it may then say.                                                         *)
PurchaseSound(c) ==
  /\ BuyAt(c, "confirm") =>
       /\ buying[c].tx \in DOMAIN txs
       /\ txs[buying[c].tx].op.kind = "subscribe"
       /\ txs[buying[c].tx].op.by \in Signers(c)
       /\ txs[buying[c].tx].op.stream = Bought(c)
  /\ BuyAt(c, "register") =>
       /\ buying[c].tx \in DOMAIN txs
       /\ txs[buying[c].tx].op.by \in Signers(c)
       /\ c \in SubscribeForms \/ Held(c)
  /\ buying[c].subscribed =>
       \/ Held(c)
       \/ /\ c \in SubscribeForms
          /\ StreamExists(Bought(c))
          /\ streamConfig[Bought(c)].visibility = "public"

CacheSound ==
  \A w \in Subscribers, s \in Streams : s \in cached[w] => subscription[s][w] # NoAccount

LandedSound ==
  \A i \in DOMAIN txs : txs[i].op.kind = "subscribe" /\ Landed(i) =>
    subscription[txs[i].op.stream][txs[i].op.by] # NoAccount

HeldInv == CacheSound /\ LandedSound /\ \A c \in Buyers : PurchaseSound(c)

LEMMA LandSubscribes ==
  ASSUME FlowsTyped, NEW i \in DOMAIN txs, Land(i), txs[i].op.kind = "subscribe"
  PROVE  subscription'[txs[i].op.stream][txs[i].op.by] # NoAccount
<1>1. PICK op \in Ops : op = txs[i].op
  BY TxsAre DEF FlowsTyped, FlowsTypeOK
<1>2. op.by \in Subscribers /\ op.stream \in Streams /\ op.terms \in Terms
  BY <1>1, SubscribeFields
<1>3. ExecuteRegistry(op) \/ ExecuteRoyalty(op)
  BY <1>1 DEF Land
<1>4. Subscribe(op.by, op.stream, TierId, "SubscriptionUnlimited", Evidence,
                Expiry, NoQuota, op.terms.price, op.terms.maker, op.terms.treasury)
  BY <1>1, <1>3 DEF ExecuteRegistry, ExecuteRoyalty
<1> DEFINE account == [tier |-> TierId, expiresAt |-> Expiry, quota |-> NoQuota, status |-> "Active"]
<1>5. subscription' = [subscription EXCEPT ![op.stream][op.by] = account]
  BY <1>4 DEF Subscribe
<1>6. account \in Subscriptions
  BY TransactionsAssumption DEF Subscriptions, SubscriptionStatuses
<1> HIDE DEF account
<1>7. subscription \in [Streams -> [Subscribers -> Subscriptions \cup {NoAccount}]]
  BY DEF FlowsTyped, FlowsTypeOK, TypeOK, RoyaltyTypeOK
<1>8. subscription'[op.stream][op.by] = account
  BY <1>2, <1>5, <1>7
<1> QED
  BY <1>1, <1>6, <1>8, RoyaltyAssumption

LEMMA LandedStep == FlowsTyped /\ LandedSound /\ [FlowsNext]_allVars => LandedSound'
<1> SUFFICES ASSUME FlowsTyped, LandedSound, [FlowsNext]_allVars, NEW i \in DOMAIN txs',
                    txs'[i].op.kind = "subscribe", txs'[i].fate = "landed"
             PROVE  subscription'[txs'[i].op.stream][txs'[i].op.by] # NoAccount
  BY DEF LandedSound, Landed
<1> USE DEF FlowsTyped, FlowsTypeOK
<1>1. ASSUME NEW op \in Ops, Send(op) PROVE i \in DOMAIN txs
  <2>1. txs'[NextTx].fate # "landed" /\ DOMAIN txs' = DOMAIN txs \cup {NextTx}
    BY <1>1, SendAppends
  <2> QED
    BY <2>1
<1>2. ASSUME NEW j \in DOMAIN txs, Land(j) \/ Fail(j) PROVE i \in DOMAIN txs
  BY <1>2, FateChanges DEF Land, Fail, Fates
<1>3. UNCHANGED txs => i \in DOMAIN txs
  OBVIOUS
<1>4. i \in DOMAIN txs
  BY <1>1, <1>2, <1>3, FlowCases, RegisterType, BuyType, KeyType DEF allVars, flowVars
<1>5. PICK op \in Ops : op = txs[i].op
  BY <1>4, TxsAre
<1>6. txs'[i].op = op /\ (txs'[i].fate = txs[i].fate \/ Land(i) \/ Fail(i))
  BY <1>4, <1>5, TxsMove
<1>7. op.by \in Subscribers /\ op.stream \in Streams
  BY <1>5, <1>6, SubscribeFields
<1>8. CASE txs[i].fate = "landed"
  <2>1. subscription[op.stream][op.by] # NoAccount
    BY <1>4, <1>5, <1>6, <1>8 DEF LandedSound, Landed
  <2>2. AccountsKept
    BY FlowsStepType, ChainKeeps
  <2> QED
    BY <1>6, <1>7, <2>1, <2>2 DEF AccountsKept
<1>9. CASE txs[i].fate # "landed"
  <2>1. Fail(i) => txs'[i].fate = "failed"
    BY <1>4, FateChanges DEF Fail, Fates
  <2>2. Land(i)
    BY <1>6, <1>9, <2>1
  <2> QED
    BY <1>4, <1>5, <1>6, <2>2, LandSubscribes
<1> QED
  BY <1>8, <1>9

LEMMA CacheStep == FlowsTyped /\ CacheSound /\ [FlowsNext]_allVars => CacheSound'
<1> SUFFICES ASSUME FlowsTyped, CacheSound, [FlowsNext]_allVars PROVE CacheSound'
  OBVIOUS
<1> USE DEF FlowsTyped, FlowsTypeOK
<1>1. AccountsKept
  BY FlowsStepType, ChainKeeps
<1>2. UNCHANGED cached => CacheSound'
  BY <1>1 DEF CacheSound, AccountsKept
<1>3. ASSUME NEW c \in Buyers, NEW w \in Signers(c), FetchSubscriptions(c, w) PROVE CacheSound'
  <2>1. cached' = [v \in Subscribers |-> IF v = w THEN {s \in Streams : IsActive(s, w)} ELSE {}]
    BY <1>3 DEF FetchSubscriptions
  <2>2. \A v \in Subscribers, s \in Streams : s \in cached'[v] => IsActive(s, v)
    BY <2>1
  <2>3. \A v \in Subscribers, s \in Streams : s \in cached'[v] => subscription[s][v] # NoAccount
    BY <2>2 DEF IsActive
  <2>4. subscription' = subscription
    BY <1>3 DEF FetchSubscriptions, vars, royaltyVars, membershipVars
  <2> QED
    BY <2>3, <2>4 DEF CacheSound
<1>4. ASSUME NEW c \in Buyers, BuyStep(c), ~\E w \in Signers(c) : FetchSubscriptions(c, w)
      PROVE  UNCHANGED cached
  BY <1>4 DEF BuyStep, LookAt, UseCache, CheckKey, PressSubscribe, ConfirmSubscribe,
     RegisterSubscription, FailPurchase, LeaveStream, ServerSend, buyVars
<1> QED
  BY <1>2, <1>3, <1>4, FlowCases DEF buyVars, allVars, flowVars

(* A purchase that is left alone stays sound whatever the others do.        *)
LEMMA PurchaseStays ==
  ASSUME FlowsTyped, [FlowsNext]_allVars, NEW c \in Buyers, PurchaseSound(c),
         buying'[c] = buying[c]
  PROVE  PurchaseSound(c)'
<1> USE DEF FlowsTyped, FlowsTypeOK
<1>1. AccountsKept
  BY FlowsStepType, ChainKeeps
<1>2. buying[c].stream \in Streams
  BY DEF SubscribeTypeOK, Purchases
<1>3. PICK s \in Streams : s = buying[c].stream
  BY <1>2
<1>4. PICK p : p = buying[c] /\ p = buying'[c]
  OBVIOUS
<1>5. Signers(c) \subseteq Signers(c)' /\ Signers(c) \subseteq Subscribers
  BY SignersKept
<1>6. /\ \A w \in Signers(c) : subscription[s][w] # NoAccount => subscription'[s][w] # NoAccount
      /\ streamConfig[s] # NoAccount /\ streamConfig[s].visibility = "public" =>
           streamConfig'[s] # NoAccount /\ streamConfig'[s].visibility = "public"
  BY <1>1, <1>5 DEF AccountsKept, StreamExists
<1>7. Held(c) => Held(c)'
  BY <1>3, <1>4, <1>5, <1>6 DEF Held, Bought
<1>8. p.tx \in DOMAIN txs => p.tx \in DOMAIN txs' /\ txs'[p.tx].op = txs[p.tx].op
  BY TxsMove
<1>9. /\ p.step = "confirm" =>
           /\ p.tx \in DOMAIN txs'
           /\ txs'[p.tx].op.kind = "subscribe"
           /\ txs'[p.tx].op.by \in Signers(c)'
           /\ txs'[p.tx].op.stream = s
  BY <1>3, <1>4, <1>5, <1>8 DEF PurchaseSound, BuyAt, Bought
<1>10. p.step = "register" =>
         /\ p.tx \in DOMAIN txs'
         /\ txs'[p.tx].op.by \in Signers(c)'
         /\ c \in SubscribeForms \/ Held(c)'
  BY <1>3, <1>4, <1>5, <1>7, <1>8 DEF PurchaseSound, BuyAt
<1>11. p.subscribed =>
         \/ Held(c)'
         \/ c \in SubscribeForms /\ streamConfig'[s] # NoAccount /\ streamConfig'[s].visibility = "public"
  BY <1>3, <1>4, <1>6, <1>7 DEF PurchaseSound, Bought, StreamExists
<1> QED
  BY <1>3, <1>4, <1>9, <1>10, <1>11 DEF PurchaseSound, BuyAt, Bought, StreamExists

LEMMA PurchaseGoes ==
  ASSUME FlowsTyped, HeldInv, NEW c \in Buyers, BuyStep(c), buying'[c] # buying[c]
  PROVE  PurchaseSound(c)'
<1> USE DEF FlowsTyped, FlowsTypeOK
<1> DEFINE Free == c \in SubscribeForms /\ StreamExists(Bought(c))
                     /\ streamConfig[Bought(c)].visibility = "public"
<1>1. UNCHANGED <<subscription, streamConfig>>
  BY BuyType DEF vars, royaltyVars, membershipVars, registryVars
<1>2. Bought(c) \in Streams /\ Buyer(c) \in Subscribers /\ Buyer(c) \in Signers(c)
  BY SubscribeAssumption, SignerIsKnown DEF SubscribeTypeOK, Purchases, Bought, Buyer
<1>3. /\ PurchaseSound(c)
      /\ buying[c].subscribed => Held(c) \/ Free
  BY DEF HeldInv, PurchaseSound
<1>4. LeaveStream(c) \/ UNCHANGED walletVars
  BY DEF BuyStep
<1>5. CASE LeaveStream(c)
  <2>1. buying'[c].step = "idle" /\ buying'[c].subscribed = FALSE
    BY <1>5 DEF LeaveStream, SubscribeTypeOK, Purchases
  <2> QED
    BY <2>1 DEF PurchaseSound, BuyAt
<1>6. CASE UNCHANGED walletVars
  <2>1. ASSUME buying'[c].stream = buying[c].stream
        PROVE  Signers(c)' = Signers(c) /\ (Held(c) => Held(c)') /\ Bought(c)' = Bought(c)
    BY <1>1, <1>6, <2>1 DEF Signers, walletVars, Held, Bought
  <2>2. ASSUME buying'[c].stream = buying[c].stream,
               buying'[c].step \notin {"confirm", "register"},
               buying'[c].subscribed => Held(c) \/ Free
        PROVE  PurchaseSound(c)'
    BY <1>1, <2>1, <2>2 DEF PurchaseSound, BuyAt, Bought, StreamExists
  <2>3. ASSUME buying'[c].step \notin {"confirm", "register"}, ~buying'[c].subscribed
        PROVE  PurchaseSound(c)'
    BY <2>3 DEF PurchaseSound, BuyAt
  <2>4. ASSUME UNCHANGED txs, buying'[c].stream = buying[c].stream,
               buying'[c].step = buying[c].step, buying'[c].tx = buying[c].tx,
               buying'[c].subscribed => Held(c) \/ Free
        PROVE  PurchaseSound(c)'
    BY <1>1, <1>3, <2>1, <2>4 DEF PurchaseSound, BuyAt, Bought, StreamExists
  <2>5. ASSUME UseCache(c), buying'[c].step = buying[c].step, buying'[c].stream = buying[c].stream,
               buying'[c].tx = buying[c].tx
        PROVE  PurchaseSound(c)'
    <3>1. Held(c) /\ UNCHANGED txs
      BY <1>2, <2>5 DEF UseCache, HeldInv, CacheSound, Held
    <3> QED
      BY <2>4, <2>5, <3>1
  <2>6. ASSUME NEW w \in Signers(c), FetchSubscriptions(c, w),
               buying'[c].step = buying[c].step, buying'[c].stream = buying[c].stream,
               buying'[c].tx = buying[c].tx,
               buying'[c].subscribed => buying[c].subscribed \/ IsActive(Bought(c), Buyer(c))
        PROVE  PurchaseSound(c)'
    <3>1. (IsActive(Bought(c), Buyer(c)) => Held(c)) /\ UNCHANGED txs
      BY <1>2, <2>6 DEF FetchSubscriptions, IsActive, Held
    <3> QED
      BY <1>3, <2>4, <2>6, <3>1
  <2>7. ASSUME CheckKey(c),
               buying'[c].step = buying[c].step, buying'[c].stream = buying[c].stream,
               buying'[c].subscribed = buying[c].subscribed, buying'[c].tx = buying[c].tx
        PROVE  PurchaseSound(c)'
    <3>1. UNCHANGED txs
      BY <2>7 DEF CheckKey
    <3> QED
      BY <1>3, <2>4, <2>7, <3>1
  <2>8. ASSUME PressSubscribe(c),
               buying'[c].step = AfterSubscribe(c), buying'[c].stream = buying[c].stream,
               buying'[c].subscribed = buying[c].subscribed, buying'[c].tx = NextTx
        PROVE  PurchaseSound(c)'
    <3>1. /\ NextTx \in DOMAIN txs'
          /\ txs'[NextTx].op.kind = "subscribe"
          /\ txs'[NextTx].op.by = Buyer(c)
          /\ txs'[NextTx].op.stream = Bought(c)
      <4> DEFINE op == SubscribeOp(Buyer(c), Bought(c), BuiltFrom(c))
      <4>1. op.kind = "subscribe" /\ op.by = Buyer(c) /\ op.stream = Bought(c)
        BY DEF SubscribeOp
      <4>2. NextTx \in DOMAIN txs' /\ txs'[NextTx].op = op
        BY <2>8, PressSends
      <4> QED
        BY <4>1, <4>2
    <3>2. buying'[c].step = "register" => c \in SubscribeForms
      BY <2>8 DEF AfterSubscribe, AsksBackend, AwaitsSubscribe
    <3> QED
      BY <1>1, <1>2, <1>3, <2>1, <2>8, <3>1, <3>2
      DEF PurchaseSound, BuyAt, Bought, StreamExists
  <2>9. ASSUME ConfirmSubscribe(c),
               buying'[c].step = (IF c \in AsksBackend THEN "register" ELSE "shown"),
               buying'[c].stream = buying[c].stream, buying'[c].tx = buying[c].tx
        PROVE  PurchaseSound(c)'
    <3>1. /\ buying[c].tx \in DOMAIN txs
          /\ txs[buying[c].tx].op.by \in Signers(c)
          /\ UNCHANGED txs
      BY <1>3, <2>9 DEF ConfirmSubscribe, PurchaseSound
    <3>2. Held(c)
      BY <1>3, <2>9 DEF ConfirmSubscribe, PurchaseSound, HeldInv, LandedSound, Held
    <3> QED
      BY <2>1, <2>9, <3>1, <3>2 DEF PurchaseSound, BuyAt
  <2>10. ASSUME RegisterSubscription(c),
                buying'[c].step = "shown", buying'[c].stream = buying[c].stream
         PROVE  PurchaseSound(c)'
    <3>1. c \notin Pages => WalletOf[c] \in Signers(c)
      BY DEF Signers
    <3>2. Payer(c, buying[c].tx) \in Signers(c)
      BY <1>3, <2>10, <3>1 DEF RegisterSubscription, PurchaseSound, Payer
    <3>3. Held(c) \/ Free
      BY <1>3, <2>10, <3>2
      DEF RegisterSubscription, PurchaseSound, Vouches, IsShown, StreamActive, Held
    <3> QED
      BY <2>2, <2>10, <3>3
  <2>11. ASSUME FailPurchase(c),
                buying'[c].step = "shown", buying'[c].stream = buying[c].stream,
                buying'[c].subscribed = buying[c].subscribed
         PROVE  PurchaseSound(c)'
    BY <1>3, <2>2, <2>11
  <2> HIDE DEF Free
  <2> QED
    BY <2>3, <2>5, <2>6, <2>7, <2>8, <2>9, <2>10, <2>11, Purchase
<1> QED
  BY <1>4, <1>5, <1>6

LEMMA HeldStep == FlowsTyped /\ HeldInv /\ [FlowsNext]_allVars => HeldInv'
<1> SUFFICES ASSUME FlowsTyped, HeldInv, [FlowsNext]_allVars PROVE HeldInv'
  OBVIOUS
<1>1. CacheSound' /\ LandedSound'
  BY CacheStep, LandedStep DEF HeldInv
<1>2. ASSUME NEW c \in Buyers PROVE PurchaseSound(c)'
  <2>1. CASE buying'[c] = buying[c]
    BY <2>1, PurchaseStays DEF HeldInv
  <2>2. CASE buying'[c] # buying[c]
    <3>1. ASSUME NEW d \in Buyers, BuyStep(d) PROVE d = c
      BY <2>2, <3>1, BuyOthers
    <3>2. BuyStep(c)
      BY <2>2, <3>1, FlowCases DEF buyVars, allVars, flowVars
    <3> QED
      BY <2>2, <3>2, PurchaseGoes
  <2> QED
    BY <2>1, <2>2
<1> QED
  BY <1>1, <1>2 DEF HeldInv

(* A client that says its user is subscribed has seen the account, or its   *)
(* transaction land: accounts of subscriptions are not closed, and what it  *)
(* waits for is its own transaction.  A form whose wallet was changed may   *)
(* still say so of a wallet that was connected since it was opened.         *)
THEOREM SubscribedCorrect == FlowsSpec => []SubscribedIsHeld
<1>1. FlowsInit => HeldInv
  <2> SUFFICES ASSUME FlowsInit PROVE HeldInv
    OBVIOUS
  <2> DEFINE first == CHOOSE s \in Streams : TRUE
             purchase == [step |-> "idle", stream |-> first, shown |-> NoTerms,
                          subscribed |-> FALSE, keyed |-> FALSE, tx |-> 0]
  <2>1. /\ buying = [c \in Buyers |-> purchase] /\ cached = [w \in Subscribers |-> {}]
        /\ txs = <<>>
    BY DEF FlowsInit, SubscribeInit, TransactionsInit
  <2>2. purchase.step = "idle" /\ purchase.subscribed = FALSE
    OBVIOUS
  <2> HIDE DEF purchase
  <2> QED
    BY <2>1, <2>2 DEF HeldInv, CacheSound, LandedSound, PurchaseSound, BuyAt
<1>2. HeldInv => SubscribedIsHeld
  BY DEF HeldInv, PurchaseSound, SubscribedIsHeld, Held
<1> QED
  BY <1>1, <1>2, FlowsInitType, FlowsStepType, HeldStep, PTL DEF FlowsSpec
-----------------------------------------------------------------------------
(* What public streams cost.  Where no seeder runs, a stream is listed after *)
(* a check, shown as it is listed, and bought as it is shown.                *)
FreeIf(s, price) ==
  StreamExists(s) /\ (streamConfig[s].visibility = "public" => price = 0)

ListedFree == \A s \in Streams : listing[s] # NoOffer => FreeIf(s, listing[s].price)

ShownFree ==
  \A c \in Buyers \ AwaitsSubscribe :
    ~BuyAt(c, "idle") => FreeIf(Bought(c), buying[c].shown.price)

SentFree ==
  \A i \in 1 .. MaxSends : agreed[i] # NoTerms =>
    /\ i \in DOMAIN txs
    /\ agreed[i].by \notin AwaitsSubscribe =>
         /\ txs[i].op.kind = "subscribe"
         /\ FreeIf(txs[i].op.stream, txs[i].op.terms.price)

FreeInv == cast \cap Seeders = {} => ListedFree /\ ShownFree /\ SentFree

LEMMA CastStays == ASSUME [FlowsNext]_allVars PROVE cast' = cast
BY DEF FlowsNext, DirectStep, allVars, flowVars

LEMMA ListChanges ==
  ASSUME FlowsTyped, [FlowsNext]_allVars
  PROVE  \/ UNCHANGED <<listing, lister>>
         \/ \E c \in Registrars \cap cast : Post(c)
<1>1. ASSUME NEW c \in Registrars \cap cast, RegisterStep(c), ~Post(c)
      PROVE  UNCHANGED <<listing, lister>>
  BY <1>1 DEF RegisterStep, BeginRegister, SendCreate, ConfirmCreate, StreamAppears, SendTier,
     SkipTier, ConfirmTier, LeaveRegister
<1>2. ASSUME NEW c \in Buyers, BuyStep(c) PROVE UNCHANGED <<listing, lister>>
  BY <1>2, BuyType DEF registerVars
<1> QED
  BY <1>1, <1>2
  DEF FlowsNext, NetworkStep, ClientStep, WalletStep, DirectStep, registerVars, allVars, flowVars

LEMMA FreeStays ==
  ASSUME FlowsTyped, [FlowsNext]_allVars, NEW s \in Streams, NEW price, FreeIf(s, price)
  PROVE  streamConfig'[s] # NoAccount /\ (streamConfig'[s].visibility = "public" => price = 0)
<1>1. AccountsKept
  BY FlowsStepType, ChainKeeps DEF FlowsTyped, FlowsTypeOK
<1> QED
  BY <1>1 DEF AccountsKept, FreeIf, StreamExists

LEMMA ListedFreeStep ==
  ASSUME FlowsTyped, ListedFree, cast \cap Seeders = {}, [FlowsNext]_allVars
  PROVE  ListedFree'
<1> SUFFICES ASSUME NEW s \in Streams, listing'[s] # NoOffer
             PROVE  /\ streamConfig'[s] # NoAccount
                    /\ streamConfig'[s].visibility = "public" => listing'[s].price = 0
  BY DEF ListedFree, FreeIf, StreamExists
<1>1. PICK price : price = listing'[s].price
  OBVIOUS
<1>2. CASE listing'[s] = listing[s]
  <2>1. FreeIf(s, price)
    BY <1>1, <1>2 DEF ListedFree
  <2> QED
    BY <1>1, <2>1, FreeStays
<1>3. CASE listing'[s] # listing[s]
  <2>1. PICK c \in Registrars \cap cast : Post(c)
    BY <1>3, ListChanges
  <2>2. listing' = [listing EXCEPT ![StreamOf(c)] = OfferOf(c)]
    BY <2>1 DEF Post
  <2>3. s = StreamOf(c) /\ listing'[s] = OfferOf(c)
    BY <1>3, <2>2 DEF FlowsTyped, FlowsTypeOK, RegisterTypeOK
  <2>4. MayList(WalletOf[c], s, OfferOf(c))
    BY <2>1, <2>3 DEF Post
  <2>5. FreeIf(s, price)
    BY <1>1, <2>3, <2>4 DEF MayList, FreeIfPublic, StreamActive, FreeIf
  <2> QED
    BY <1>1, <2>5, FreeStays
<1> QED
  BY <1>2, <1>3

(* What a buyer's step makes of the terms shown.                            *)
LEMMA ShownMove ==
  ASSUME FlowsTyped, NEW c \in Buyers, BuyStep(c)
  PROVE  \/ \E s \in Streams, price \in Prices :
              /\ IsShown(s)
              /\ c \notin AwaitsSubscribe => price = listing[s].price
              /\ buying'[c].stream = s /\ buying'[c].shown.price = price
         \/ buying'[c].step = "idle"
         \/ /\ buying'[c].stream = buying[c].stream /\ buying'[c].shown = buying[c].shown
            /\ buying[c].step # "idle"
<1>1. buying[c] \in Purchases /\ buying \in [Buyers -> Purchases]
  BY DEF FlowsTyped, FlowsTypeOK, SubscribeTypeOK
<1>2. CASE \E s \in Streams : LookAt(c, s)
  <2>1. PICK s \in Streams : LookAt(c, s)
    BY <1>2
  <2>2. PICK price \in Prices :
          /\ c \notin AwaitsSubscribe => price = listing[s].price
          /\ buying' = [buying EXCEPT ![c] =
               [step |-> "shown", stream |-> s,
                shown |-> [TermsShown(s) EXCEPT !.price = price],
                subscribed |-> FALSE, keyed |-> FALSE, tx |-> 0]]
    BY <2>1 DEF LookAt
  <2> DEFINE terms == [TermsShown(s) EXCEPT !.price = price]
             purchase == [step |-> "shown", stream |-> s, shown |-> terms,
                          subscribed |-> FALSE, keyed |-> FALSE, tx |-> 0]
  <2>3. buying'[c] = purchase
    BY <1>1, <2>2
  <2>4. terms.price = price
    BY DEF TermsShown
  <2> HIDE DEF terms
  <2>5. purchase.stream = s /\ purchase.shown = terms
    OBVIOUS
  <2> HIDE DEF purchase
  <2> QED
    BY <2>1, <2>2, <2>3, <2>4, <2>5 DEF LookAt
<1>3. CASE UseCache(c)
  BY <1>1, <1>3 DEF UseCache, BuyAt, Purchases
<1>4. CASE \E w \in Signers(c) : FetchSubscriptions(c, w)
  BY <1>1, <1>4 DEF FetchSubscriptions, BuyAt, Purchases
<1>5. CASE CheckKey(c)
  BY <1>1, <1>5 DEF CheckKey, BuyAt, Purchases
<1>6. CASE PressSubscribe(c)
  BY <1>1, <1>6 DEF PressSubscribe, BuyAt, Purchases
<1>7. CASE ConfirmSubscribe(c)
  BY <1>1, <1>7 DEF ConfirmSubscribe, BuyAt, Purchases
<1>8. CASE RegisterSubscription(c)
  BY <1>1, <1>8 DEF RegisterSubscription, BuyAt, Purchases
<1>9. CASE FailPurchase(c)
  BY <1>1, <1>9 DEF FailPurchase, BuyAt, Purchases
<1>10. CASE LeaveStream(c)
  BY <1>1, <1>10 DEF LeaveStream, Purchases
<1>11. CASE \E s \in Streams : ServerSend(c, s)
  BY <1>11 DEF ServerSend, BuyAt, buyVars
<1> QED
  BY <1>2, <1>3, <1>4, <1>5, <1>6, <1>7, <1>8, <1>9, <1>10, <1>11 DEF BuyStep

LEMMA ShownFreeStep ==
  ASSUME FlowsTyped, ListedFree, ShownFree, [FlowsNext]_allVars
  PROVE  ShownFree'
<1> SUFFICES ASSUME NEW c \in Buyers \ AwaitsSubscribe, buying'[c].step # "idle"
             PROVE  /\ streamConfig'[buying'[c].stream] # NoAccount
                    /\ streamConfig'[buying'[c].stream].visibility = "public" =>
                         buying'[c].shown.price = 0
  BY DEF ShownFree, BuyAt, Bought, FreeIf, StreamExists
<1>1. PICK s \in Streams : s = buying'[c].stream
  BY FlowsStepType DEF FlowsTyped, FlowsTypeOK, SubscribeTypeOK, Purchases
<1>2. PICK price : price = buying'[c].shown.price
  OBVIOUS
<1>3. ASSUME buying'[c].stream = buying[c].stream, buying'[c].shown = buying[c].shown,
             buying[c].step # "idle"
      PROVE  FreeIf(s, price)
  BY <1>1, <1>2, <1>3 DEF ShownFree, BuyAt, Bought
<1>4. ASSUME buying'[c] = buying[c] PROVE FreeIf(s, price)
  BY <1>3, <1>4
<1>5. ASSUME buying'[c] # buying[c] PROVE FreeIf(s, price)
  <2>1. ASSUME NEW d \in Buyers, BuyStep(d) PROVE d = c
    BY <1>5, <2>1, BuyOthers
  <2>2. BuyStep(c)
    BY <1>5, <2>1, FlowCases DEF buyVars, allVars, flowVars
  <2>3. ASSUME IsShown(s), price = listing[s].price PROVE FreeIf(s, price)
    BY <2>3 DEF IsShown, ListedFree
  <2> QED
    BY <1>1, <1>2, <1>3, <2>2, <2>3, ShownMove
<1>6. FreeIf(s, price)
  BY <1>3, <1>4, <1>5
<1> QED
  BY <1>1, <1>2, <1>6, FreeStays DEF StreamExists

LEMMA SentFreeStep ==
  ASSUME FlowsTyped, ListedFree, ShownFree, SentFree, [FlowsNext]_allVars
  PROVE  SentFree'
<1> SUFFICES ASSUME NEW i \in 1 .. MaxSends, agreed'[i] # NoTerms
             PROVE  /\ i \in DOMAIN txs'
                    /\ agreed'[i].by \notin AwaitsSubscribe =>
                         /\ txs'[i].op.kind = "subscribe"
                         /\ streamConfig'[txs'[i].op.stream] # NoAccount
                         /\ streamConfig'[txs'[i].op.stream].visibility = "public" =>
                              txs'[i].op.terms.price = 0
  BY DEF SentFree, FreeIf, StreamExists
<1> USE DEF FlowsTyped, FlowsTypeOK
<1>1. CASE agreed'[i] = agreed[i]
  <2>1. i \in DOMAIN txs
    BY <1>1 DEF SentFree
  <2>2. i \in DOMAIN txs' /\ txs'[i].op = txs[i].op
    BY <2>1, TxsMove
  <2>3. PICK op \in Ops : op = txs[i].op
    BY <2>1, TxsAre
  <2>4. CASE agreed[i].by \notin AwaitsSubscribe
    <3>1. op.kind = "subscribe" /\ FreeIf(op.stream, op.terms.price)
      BY <1>1, <2>3, <2>4 DEF SentFree
    <3>2. op.stream \in Streams
      BY <3>1, SubscribeFields
    <3> QED
      BY <2>2, <2>3, <3>1, <3>2, FreeStays DEF StreamExists
  <2> QED
    BY <1>1, <2>2, <2>4
<1>2. CASE agreed'[i] # agreed[i]
  <2>1. PICK c \in Buyers : PressSubscribe(c)
    BY <1>2, AgreedChanges
  <2>2. i = NextTx /\ agreed'[i] = [by |-> c, price |-> buying[c].shown.price]
    BY <1>2, <2>1 DEF PressSubscribe, SubscribeTypeOK
  <2>3. PICK terms : terms = BuiltFrom(c)
    OBVIOUS
  <2>4. PICK s \in Streams : s = Bought(c)
    BY DEF SubscribeTypeOK, Purchases, Bought
  <2>5. NextTx \in DOMAIN txs' /\ txs'[NextTx].op = SubscribeOp(Buyer(c), s, terms)
    BY <2>1, <2>3, <2>4, PressSends
  <2>6. /\ SubscribeOp(Buyer(c), s, terms).kind = "subscribe"
        /\ SubscribeOp(Buyer(c), s, terms).terms = terms
        /\ SubscribeOp(Buyer(c), s, terms).stream = s
    BY DEF SubscribeOp
  <2>7. agreed'[i].by = c
    BY <2>2
  <2>8. CASE c \notin AwaitsSubscribe
    <3>1. ASSUME c \in Blinks PROVE FreeIf(s, terms.price)
      BY <2>1, <2>3, <2>4, <3>1
      DEF BuiltFrom, TermsShown, PressSubscribe, MayPress, IsShown, ListedFree
    <3>2. ASSUME c \notin Blinks PROVE FreeIf(s, terms.price)
      BY <2>1, <2>3, <2>4, <2>8, <3>2 DEF BuiltFrom, PressSubscribe, BuyAt, ShownFree
    <3>3. FreeIf(s, terms.price)
      BY <3>1, <3>2
    <3> QED
      BY <2>2, <2>5, <2>6, <3>3, FreeStays DEF StreamExists
  <2> QED
    BY <2>2, <2>5, <2>7, <2>8
<1> QED
  BY <1>1, <1>2

(* A public stream is listed for nothing or not at all, its visibility never *)
(* changes, and a page, a card or a link sends the price that was listed.    *)
THEOREM PublicFreeCorrect == FlowsSpec => PublicCostsNothing
<1>1. FlowsInit => FreeInv
  <2> SUFFICES ASSUME FlowsInit PROVE ListedFree /\ ShownFree /\ SentFree
    BY DEF FreeInv
  <2> DEFINE first == CHOOSE s \in Streams : TRUE
             purchase == [step |-> "idle", stream |-> first, shown |-> NoTerms,
                          subscribed |-> FALSE, keyed |-> FALSE, tx |-> 0]
  <2>1. /\ buying = [c \in Buyers |-> purchase] /\ agreed = [i \in 1 .. MaxSends |-> NoTerms]
        /\ listing = [s \in Streams |-> NoOffer]
    BY DEF FlowsInit, SubscribeInit, RegisterInit
  <2>2. purchase.step = "idle"
    OBVIOUS
  <2> HIDE DEF purchase
  <2> QED
    BY <2>1, <2>2 DEF ListedFree, ShownFree, SentFree, BuyAt
<1>2. FlowsTyped /\ FreeInv /\ [FlowsNext]_allVars => FreeInv'
  <2> SUFFICES ASSUME FlowsTyped, FreeInv, [FlowsNext]_allVars, cast' \cap Seeders = {}
               PROVE  ListedFree' /\ ShownFree' /\ SentFree'
    BY DEF FreeInv
  <2>1. cast \cap Seeders = {}
    BY CastStays
  <2> QED
    BY <2>1, ListedFreeStep, ShownFreeStep, SentFreeStep DEF FreeInv
<1>3. FlowsTyped /\ FreeInv /\ [FlowsNext]_allVars =>
        \A i \in DOMAIN txs :
          /\ SoldNow(i)
          /\ agreed[i].by \notin AwaitsSubscribe
          /\ streamConfig[txs[i].op.stream].visibility = "public"
          /\ cast \cap Seeders = {}
          => paid'[txs[i].op.stream][txs[i].op.by] = 0
  <2> SUFFICES ASSUME FlowsTyped, FreeInv, [FlowsNext]_allVars, NEW i \in DOMAIN txs,
                      SoldNow(i), agreed[i].by \notin AwaitsSubscribe,
                      streamConfig[txs[i].op.stream].visibility = "public",
                      cast \cap Seeders = {}
               PROVE  paid'[txs[i].op.stream][txs[i].op.by] = 0
    OBVIOUS
  <2>1. i \in 1 .. MaxSends
    BY TxsAre DEF FlowsTyped, FlowsTypeOK
  <2>2. Land(i)
    BY SoldLands
  <2>3. txs[i].op.kind = "subscribe" /\ txs[i].op.terms.price = 0
    BY <2>1 DEF FreeInv, SentFree, FreeIf, SoldNow
  <2> QED
    BY <2>2, <2>3, LandCharges
<1> QED
  BY <1>1, <1>2, <1>3, FlowsInitType, FlowsStepType, PTL DEF FlowsSpec, PublicCostsNothing
-----------------------------------------------------------------------------
(* What the registration tool leaves behind.  Without instructions of       *)
(* others a stream is never changed, so that a listing which was checked    *)
(* stays what the chain holds.                                              *)
ListedTrue ==
  \A s \in Streams : listing[s] # NoOffer /\ lister[s] \notin Seeders => IsShown(s)

(* What a pass has sent.                                                    *)
PassSends(c) ==
  /\ \/ registering[c].create = 0
     \/ /\ registering[c].create \in DOMAIN txs
        /\ txs[registering[c].create].op.kind = "create"
  /\ registering[c].step \in {"confirmTier", "post", "done"} =>
       /\ registering[c].tier \in DOMAIN txs
       /\ txs[registering[c].tier].op = TiersOp(WalletOf[c], StreamOf(c), OfferOf(c))
  /\ registering[c].step \in {"post", "done"} => Landed(registering[c].tier)

(* Only the authority's tier can have landed, and only a later tier of its   *)
(* wallet could have replaced it.                                           *)
TierIsPriced(c) ==
  registering[c].step \in {"confirmTier", "post", "done"} /\ Landed(registering[c].tier) =>
    /\ SignedByAuthority(WalletOf[c], StreamOf(c))
    /\ OnlyPass(c) =>
         /\ tierConfig[StreamOf(c)][TierId] # NoAccount
         /\ tierConfig[StreamOf(c)][TierId].price = OfferOf(c).price

DoneIsListed(c) ==
  RegisterAt(c, "done") =>
    /\ listing[StreamOf(c)] # NoOffer
    /\ StreamExists(StreamOf(c))
    /\ streamConfig[StreamOf(c)].tiersHash = OfferOf(c).price

PassSound(c) == PassSends(c) /\ TierIsPriced(c) /\ DoneIsListed(c)

BuyableInv == Direct \notin cast => ListedTrue /\ \A c \in StreamTools : PassSound(c)

(* What a registrar's step makes of its own pass, field by field.           *)
LEMMA PassMove ==
  ASSUME FlowsTyped, NEW c \in Registrars, RegisterStep(c)
  PROVE  \/ /\ registering'[c].step \in {"create", "tier", "idle"}
            /\ registering'[c].create = 0
            /\ UNCHANGED <<txs, listing, lister>>
         \/ /\ registering'[c].stream = registering[c].stream
            /\ registering'[c].offer = registering[c].offer
            /\ \/ /\ SendCreate(c)
                  /\ registering'[c].step \in {"confirm", "tier"}
                  /\ registering'[c].create = NextTx
               \/ /\ ConfirmCreate(c) \/ StreamAppears(c)
                  /\ registering'[c].step \in {"appear", "tier"}
                  /\ registering'[c].create = registering[c].create
               \/ /\ SendTier(c)
                  /\ registering'[c].step = AfterTier(c)
                  /\ registering'[c].create = registering[c].create
                  /\ registering'[c].tier = NextTx
               \/ SkipTier(c)
               \/ /\ ConfirmTier(c)
                  /\ registering'[c].step = "post"
                  /\ registering'[c].create = registering[c].create
                  /\ registering'[c].tier = registering[c].tier
               \/ /\ Post(c)
                  /\ registering'[c].step = "done"
                  /\ registering'[c].create = registering[c].create
                  /\ registering'[c].tier = registering[c].tier
<1> USE DEF FlowsTyped, FlowsTypeOK
<1>1. registering[c] \in Registrations /\ registering \in [Registrars -> Registrations]
  BY DEF RegisterTypeOK
<1>2. CASE \E s \in Streams, offer \in OffersOf[c] : BeginRegister(c, s, offer)
  <2>1. PICK s \in Streams, offer \in OffersOf[c] : BeginRegister(c, s, offer)
    BY <1>2
  <2> DEFINE step == IF c \in LooksFirst /\ StreamExists(s) THEN "tier" ELSE "create"
             pending == [step |-> step, stream |-> s, offer |-> offer, create |-> 0, tier |-> 0]
  <2>2. registering'[c] = pending /\ UNCHANGED <<txs, listing, lister>>
    BY <1>1, <2>1 DEF BeginRegister
  <2>3. pending.step \in {"create", "tier"} /\ pending.create = 0
    OBVIOUS
  <2> HIDE DEF pending
  <2> QED
    BY <2>2, <2>3
<1>3. CASE SendCreate(c)
  <2> DEFINE step == IF c \in AwaitsStream THEN "confirm" ELSE "tier"
             pending == [registering[c] EXCEPT !.create = NextTx, !.step = step]
  <2>1. registering'[c] = pending
    BY <1>1, <1>3 DEF SendCreate
  <2>2. /\ pending.step \in {"confirm", "tier"} /\ pending.create = NextTx
        /\ pending.stream = registering[c].stream /\ pending.offer = registering[c].offer
    BY <1>1 DEF Registrations
  <2> HIDE DEF pending
  <2> QED
    BY <1>3, <2>1, <2>2
<1>4. CASE ConfirmCreate(c)
  BY <1>1, <1>4 DEF ConfirmCreate, Go, Registrations
<1>5. CASE StreamAppears(c)
  BY <1>1, <1>5 DEF StreamAppears, Go, Registrations
<1>6. CASE SendTier(c)
  <2> DEFINE pending == [registering[c] EXCEPT !.tier = NextTx, !.step = AfterTier(c)]
  <2>1. registering'[c] = pending
    BY <1>1, <1>6 DEF SendTier
  <2>2. /\ pending.step = AfterTier(c) /\ pending.tier = NextTx
        /\ pending.stream = registering[c].stream /\ pending.offer = registering[c].offer
        /\ pending.create = registering[c].create
    BY <1>1 DEF Registrations
  <2> HIDE DEF pending
  <2> QED
    BY <1>6, <2>1, <2>2
<1>7. CASE SkipTier(c)
  BY <1>1, <1>7 DEF SkipTier, Go, Registrations
<1>8. CASE ConfirmTier(c)
  BY <1>1, <1>8 DEF ConfirmTier, Go, Registrations
<1>9. CASE Post(c)
  BY <1>1, <1>9 DEF Post, Go, Registrations
<1>10. CASE LeaveRegister(c)
  BY <1>1, <1>10 DEF LeaveRegister, Registrations
<1> QED
  BY <1>2, <1>3, <1>4, <1>5, <1>6, <1>7, <1>8, <1>9, <1>10 DEF RegisterStep

LEMMA RegisterOthers ==
  ASSUME FlowsTyped, NEW c \in Registrars, RegisterStep(c)
  PROVE  \A d \in Registrars \ {c} : registering'[d] = registering[d]
BY DEF FlowsTyped, FlowsTypeOK, RegisterTypeOK, RegisterStep, BeginRegister, SendCreate,
   ConfirmCreate, StreamAppears, SendTier, SkipTier, ConfirmTier, Post, LeaveRegister, Go

(* A transaction that lands changes no stream that is there, and a tier      *)
(* only by its authority's tiers transaction.                               *)
LEMMA LandKeeps ==
  ASSUME FlowsTyped, NEW i \in DOMAIN txs, Land(i), NEW s \in Streams, StreamExists(s)
  PROVE  /\ streamConfig'[s] = streamConfig[s]
         /\ \/ tierConfig'[s][TierId] = tierConfig[s][TierId]
            \/ /\ txs[i].op.kind = "tiers" /\ txs[i].op.stream = s
               /\ SignedByAuthority(txs[i].op.by, s)
<1>1. PICK op \in Ops : op = txs[i].op
  BY TxsAre DEF FlowsTyped, FlowsTypeOK
<1>2. ExecuteRegistry(op) \/ ExecuteRoyalty(op)
  BY <1>1 DEF Land
<1>3. /\ streamConfig \in [Streams -> StreamConfigs \cup {NoAccount}]
      /\ tierConfig \in [Streams -> [Tiers -> TierConfigs \cup {NoAccount}]]
  BY DEF FlowsTyped, FlowsTypeOK, TypeOK, RegistryTypeOK
<1>4. CASE ExecuteRoyalty(op)
  <2>1. UNCHANGED registryVars
    BY <1>4 DEF ExecuteRoyalty, Subscribe, Renew, Cancel, RegisterSubscriptionKey, RegisterWalletKey,
       RegisterKey
  <2> QED
    BY <2>1 DEF registryVars
<1>5. CASE ExecuteRegistry(op) /\ op.kind = "create"
  <2>1. CreateStream(op.by, op.stream, op.offer.price, op.by, op.offer.visibility)
    BY <1>5 DEF ExecuteRegistry
  <2> QED
    BY <1>3, <2>1 DEF CreateStream
<1>6. CASE ExecuteRegistry(op) /\ op.kind = "tiers"
  <2>1. UpsertTier(op.by, op.stream, TierId, "SubscriptionUnlimited",
                   Evidence, op.offer.price, NoQuota, "Active")
    BY <1>6 DEF ExecuteRegistry
  <2>2. CASE op.stream = s
    BY <1>1, <1>6, <2>1, <2>2 DEF UpsertTier
  <2>3. CASE op.stream # s
    BY <1>3, <2>1, <2>3 DEF UpsertTier
  <2> QED
    BY <2>2, <2>3
<1> QED
  BY <1>2, <1>4, <1>5, <1>6 DEF ExecuteRegistry

LEMMA LandPrices ==
  ASSUME FlowsTyped, NEW i \in DOMAIN txs, Land(i), txs[i].op.kind = "tiers"
  PROVE  /\ SignedByAuthority(txs[i].op.by, txs[i].op.stream)
         /\ tierConfig'[txs[i].op.stream][TierId] # NoAccount
         /\ tierConfig'[txs[i].op.stream][TierId].price = txs[i].op.offer.price
<1>1. PICK op \in Ops : op = txs[i].op
  BY TxsAre DEF FlowsTyped, FlowsTypeOK
<1>2. op.by \in Makers /\ op.stream \in Streams /\ op.offer \in Offers
  BY <1>1, CreateFields
<1>3. ExecuteRegistry(op) \/ ExecuteRoyalty(op)
  BY <1>1 DEF Land
<1>4. UpsertTier(op.by, op.stream, TierId, "SubscriptionUnlimited",
                 Evidence, op.offer.price, NoQuota, "Active")
  BY <1>1, <1>3 DEF ExecuteRegistry, ExecuteRoyalty
<1> DEFINE account == [pricing |-> "SubscriptionUnlimited", evidence |-> Evidence,
                       price |-> op.offer.price, quota |-> NoQuota, status |-> "Active"]
<1>5. SignedByAuthority(op.by, op.stream)
      /\ tierConfig' = [tierConfig EXCEPT ![op.stream][TierId] = account]
  BY <1>4 DEF UpsertTier
<1>6. account \in TierConfigs /\ account.price = op.offer.price
  BY <1>2, TransactionsAssumption DEF TierConfigs, PricingTypes, TierStatuses, Offers
<1> HIDE DEF account
<1>7. tierConfig \in [Streams -> [Tiers -> TierConfigs \cup {NoAccount}]]
  BY DEF FlowsTyped, FlowsTypeOK, TypeOK, RegistryTypeOK
<1>8. tierConfig'[op.stream][TierId] = account
  BY <1>2, <1>5, <1>7, TransactionsAssumption
<1> QED
  BY <1>1, <1>5, <1>6, <1>8, RegistryAssumption

(* Where nobody sends instructions past the clients.                        *)
LEMMA ChainStays ==
  ASSUME FlowsTyped, [FlowsNext]_allVars, Direct \notin cast
  PROVE  (\E i \in DOMAIN txs : Land(i) /\ UNCHANGED registerVars) \/ UNCHANGED vars
<1>1. ASSUME NEW i \in DOMAIN txs, Land(i) \/ Fail(i) PROVE Land(i) \/ UNCHANGED vars
  BY <1>1 DEF Fail
<1>2. ASSUME NEW c \in Registrars, RegisterStep(c) PROVE UNCHANGED vars
  BY <1>2, RegisterType
<1>3. ASSUME NEW c \in Buyers, BuyStep(c) PROVE UNCHANGED vars
  BY <1>3, BuyType
<1>4. ASSUME NEW c \in KeyClients, KeyClientStep(c) PROVE UNCHANGED vars
  BY <1>4, KeyType
<1> QED
  BY <1>1, <1>2, <1>3, <1>4 DEF FlowsNext, NetworkStep, ClientStep, WalletStep, DirectStep, allVars

LEMMA ConfigStays ==
  ASSUME FlowsTyped, [FlowsNext]_allVars, Direct \notin cast, NEW s \in Streams, StreamExists(s)
  PROVE  streamConfig'[s] = streamConfig[s]
BY ChainStays, LandKeeps DEF vars, registryVars

LEMMA ListedTrueStep ==
  ASSUME FlowsTyped, ListedTrue, [FlowsNext]_allVars, Direct \notin cast
  PROVE  ListedTrue'
<1> SUFFICES ASSUME NEW s \in Streams, listing'[s] # NoOffer, lister'[s] \notin Seeders
             PROVE  /\ streamConfig'[s] # NoAccount
                    /\ streamConfig'[s].status = "Active"
                    /\ streamConfig'[s].tiersHash = listing'[s].price
  BY DEF ListedTrue, IsShown, StreamActive, StreamExists
<1>1. CASE listing'[s] = listing[s] /\ lister'[s] = lister[s]
  <2>1. IsShown(s)
    BY <1>1 DEF ListedTrue
  <2>2. streamConfig'[s] = streamConfig[s]
    BY <2>1, ConfigStays DEF IsShown, StreamActive
  <2> QED
    BY <1>1, <2>1, <2>2 DEF IsShown, StreamActive, StreamExists
<1>2. CASE ~(listing'[s] = listing[s] /\ lister'[s] = lister[s])
  <2>1. PICK c \in Registrars \cap cast : Post(c)
    BY <1>2, ListChanges
  <2>2. /\ listing' = [listing EXCEPT ![StreamOf(c)] = OfferOf(c)]
        /\ lister' = [lister EXCEPT ![StreamOf(c)] = c]
        /\ streamConfig' = streamConfig
    BY <2>1 DEF Post, vars, registryVars
  <2>3. s = StreamOf(c) /\ listing'[s] = OfferOf(c) /\ lister'[s] = c
    BY <1>2, <2>2 DEF FlowsTyped, FlowsTypeOK, RegisterTypeOK
  <2>4. MayList(WalletOf[c], s, OfferOf(c))
    BY <2>1, <2>3 DEF Post
  <2> QED
    BY <2>2, <2>3, <2>4 DEF MayList, StreamActive, StreamExists
<1> QED
  BY <1>1, <1>2

(* A stream that is listed stays listed.                                    *)
LEMMA ListedStays ==
  ASSUME FlowsTyped, [FlowsNext]_allVars, NEW s \in Streams, listing[s] # NoOffer
  PROVE  listing'[s] # NoOffer
<1>1. ASSUME NEW c \in Registrars, Post(c) PROVE listing'[s] # NoOffer
  <2>1. OfferOf(c) \in Offers
    BY <1>1 DEF Post, FlowsTyped, PassHasOffer, RegisterAt
  <2>2. listing' = [listing EXCEPT ![StreamOf(c)] = OfferOf(c)]
    BY <1>1 DEF Post
  <2> QED
    BY <2>1, <2>2, RegisterAssumption DEF FlowsTyped, FlowsTypeOK, RegisterTypeOK
<1> QED
  BY <1>1, ListChanges

(* A pass that is left alone stays sound whatever the others do.            *)
LEMMA PassStays ==
  ASSUME FlowsTyped, [FlowsNext]_allVars, Direct \notin cast, NEW c \in StreamTools, PassSound(c),
         registering'[c] = registering[c]
  PROVE  PassSound(c)'
<1> USE DEF FlowsTyped, FlowsTypeOK
<1>1. registering[c] \in Registrations /\ c \in Registrars
  BY DEF RegisterTypeOK, Registrars
<1>2. PICK p \in Registrations : p = registering[c] /\ p = registering'[c]
  BY <1>1
<1>3. PICK s \in Streams : s = p.stream
  BY DEF Registrations
<1>4. PICK w : w = WalletOf[c]
  OBVIOUS
<1>5. /\ p.create = 0 \/ (p.create \in DOMAIN txs /\ txs[p.create].op.kind = "create")
      /\ p.step \in {"confirmTier", "post", "done"} =>
           p.tier \in DOMAIN txs /\ txs[p.tier].op = TiersOp(w, s, p.offer)
      /\ p.step \in {"post", "done"} => txs[p.tier].fate = "landed"
  <2>1. PassSends(c)
    BY DEF PassSound
  <2>2. p.create = 0 \/ (p.create \in DOMAIN txs /\ txs[p.create].op.kind = "create")
    BY <1>2, <1>3, <1>4, <2>1 DEF PassSends
  <2>3. p.step \in {"confirmTier", "post", "done"} =>
          p.tier \in DOMAIN txs /\ txs[p.tier].op = TiersOp(w, s, p.offer)
    BY <1>2, <1>3, <1>4, <2>1 DEF PassSends, StreamOf, OfferOf
  <2>4. p.step \in {"post", "done"} => txs[p.tier].fate = "landed"
    BY <1>2, <1>3, <1>4, <2>1 DEF PassSends, Landed
  <2> QED
    BY <2>2, <2>3, <2>4
<1>6. p.step \in {"confirmTier", "post", "done"} /\ txs[p.tier].fate = "landed" =>
        /\ SignedByAuthority(w, s)
        /\ OnlyPass(c) => tierConfig[s][TierId] # NoAccount /\ tierConfig[s][TierId].price = p.offer.price
  BY <1>2, <1>3, <1>4 DEF PassSound, TierIsPriced, StreamOf, OfferOf, Landed
<1>7. p.step = "done" =>
        /\ listing[s] # NoOffer
        /\ StreamExists(s)
        /\ streamConfig[s].tiersHash = p.offer.price
  BY <1>2, <1>3 DEF PassSound, DoneIsListed, RegisterAt, StreamOf, OfferOf
<1>8. \A i \in DOMAIN txs :
        /\ i \in DOMAIN txs' /\ txs'[i].op = txs[i].op
        /\ txs[i].fate = "landed" => txs'[i].fate = "landed"
        /\ txs'[i].fate = "landed" /\ txs[i].fate # "landed" => Land(i)
  <2> SUFFICES ASSUME NEW i \in DOMAIN txs
               PROVE  /\ i \in DOMAIN txs' /\ txs'[i].op = txs[i].op
                      /\ txs[i].fate = "landed" => txs'[i].fate = "landed"
                      /\ txs'[i].fate = "landed" /\ txs[i].fate # "landed" => Land(i)
    OBVIOUS
  <2>1. Fail(i) => txs'[i].fate = "failed" /\ txs[i].fate = "sent"
    BY FateChanges DEF Fail, Fates
  <2>2. Land(i) => txs[i].fate = "sent"
    BY DEF Land
  <2> QED
    BY <2>1, <2>2, TxsMove
<1>9. PassSends(c)'
  BY <1>2, <1>3, <1>4, <1>5, <1>8 DEF PassSends, StreamOf, OfferOf, Landed
<1>10. OnlyPass(c)' => \A i \in DOMAIN txs :
         txs[i].op.kind = "tiers" /\ txs[i].op.by = w /\ txs[i].op.stream = s => i = p.tier
  <2>1. 0 \notin DOMAIN txs
    BY TxsAre
  <2>2. OnlyPass(c)' => \A i \in DOMAIN txs :
          txs[i].op.kind = "tiers" /\ txs[i].op.by = w /\ txs[i].op.stream = s =>
            i \in {p.create, p.tier}
    BY <1>2, <1>3, <1>4, <1>8 DEF OnlyPass, StreamOf
  <2> QED
    BY <1>5, <2>1, <2>2
<1>11. OnlyPass(c)' => OnlyPass(c)
  BY <1>2, <1>3, <1>4, <1>8 DEF OnlyPass, StreamOf
<1>12. ASSUME p.step \in {"confirmTier", "post", "done"}, txs'[p.tier].fate = "landed"
       PROVE  /\ streamConfig'[s] # NoAccount /\ streamConfig'[s].authority = w
              /\ OnlyPass(c)' =>
                   tierConfig'[s][TierId] # NoAccount /\ tierConfig'[s][TierId].price = p.offer.price
  <2>1. p.tier \in DOMAIN txs /\ txs[p.tier].op = TiersOp(w, s, p.offer)
    BY <1>5, <1>12
  <2>2. CASE txs[p.tier].fate = "landed"
    <3>1. SignedByAuthority(w, s)
      BY <1>6, <1>12, <2>2
    <3>2. streamConfig'[s] = streamConfig[s]
      BY <3>1, ConfigStays DEF SignedByAuthority
    <3>3. ASSUME OnlyPass(c)' PROVE tierConfig'[s][TierId] = tierConfig[s][TierId]
      <4>1. ASSUME NEW j \in DOMAIN txs, Land(j)
            PROVE  tierConfig'[s][TierId] = tierConfig[s][TierId]
        <5>1. txs[j].fate = "sent"
          BY <4>1 DEF Land
        <5>2. CASE txs[j].op.kind = "tiers" /\ txs[j].op.stream = s /\ SignedByAuthority(txs[j].op.by, s)
          <6>1. txs[j].op.by = w
            BY <3>1, <5>2 DEF SignedByAuthority
          <6>2. j = p.tier
            BY <1>10, <3>3, <5>2, <6>1
          <6> QED
            BY <2>2, <5>1, <6>2
        <5> QED
          BY <3>1, <4>1, <5>2, LandKeeps DEF SignedByAuthority
      <4> QED
        BY <4>1, ChainStays DEF vars, registryVars
    <3> QED
      BY <1>6, <1>11, <1>12, <2>2, <3>1, <3>2, <3>3 DEF SignedByAuthority, StreamExists
  <2>3. CASE txs[p.tier].fate # "landed"
    <3>1. Land(p.tier)
      BY <1>8, <1>12, <2>1, <2>3
    <3>2. /\ TiersOp(w, s, p.offer).kind = "tiers" /\ TiersOp(w, s, p.offer).by = w
          /\ TiersOp(w, s, p.offer).stream = s /\ TiersOp(w, s, p.offer).offer = p.offer
      BY DEF TiersOp
    <3>3. /\ SignedByAuthority(w, s)
          /\ tierConfig'[s][TierId] # NoAccount /\ tierConfig'[s][TierId].price = p.offer.price
      BY <2>1, <3>1, <3>2, LandPrices
    <3>4. streamConfig'[s] = streamConfig[s]
      BY <3>3, ConfigStays DEF SignedByAuthority
    <3> QED
      BY <3>3, <3>4 DEF SignedByAuthority, StreamExists
  <2> QED
    BY <2>2, <2>3
<1>13. TierIsPriced(c)'
  BY <1>2, <1>3, <1>4, <1>12
  DEF TierIsPriced, StreamOf, OfferOf, Landed, SignedByAuthority, StreamExists
<1>14. DoneIsListed(c)'
  <2>1. p.step = "done" =>
          /\ listing'[s] # NoOffer
          /\ streamConfig'[s] # NoAccount
          /\ streamConfig'[s].tiersHash = p.offer.price
    BY <1>7, ListedStays, ConfigStays DEF StreamExists
  <2> QED
    BY <1>2, <1>3, <2>1 DEF DoneIsListed, RegisterAt, StreamOf, OfferOf, StreamExists
<1> QED
  BY <1>9, <1>13, <1>14 DEF PassSound

LEMMA PassGoes ==
  ASSUME FlowsTyped, NEW c \in StreamTools, PassSound(c), RegisterStep(c)
  PROVE  PassSound(c)'
<1> USE DEF FlowsTyped, FlowsTypeOK
<1>1. c \in Registrars /\ c \in AwaitsTier /\ c \notin Seeders
  BY RegisterAssumption DEF Registrars, AwaitsTier
<1>2. registering[c] \in Registrations
  BY <1>1 DEF RegisterTypeOK
<1>3. PICK p \in Registrations : p = registering[c]
  BY <1>2
<1>4. p.stream \in Streams
  BY DEF Registrations
<1>5. PICK s \in Streams : s = p.stream
  BY <1>4
<1>6. PICK w \in Makers : w = WalletOf[c]
  BY <1>1, RegisterAssumption
<1>7. /\ p.create = 0 \/ (p.create \in DOMAIN txs /\ txs[p.create].op.kind = "create")
      /\ p.step \in {"confirmTier", "post", "done"} =>
           p.tier \in DOMAIN txs /\ txs[p.tier].op = TiersOp(w, s, p.offer)
      /\ p.step \in {"post", "done"} => txs[p.tier].fate = "landed"
  <2>1. PassSends(c)
    BY DEF PassSound
  <2>2. p.create = 0 \/ (p.create \in DOMAIN txs /\ txs[p.create].op.kind = "create")
    BY <1>3, <1>5, <1>6, <2>1 DEF PassSends
  <2>3. p.step \in {"confirmTier", "post", "done"} =>
          p.tier \in DOMAIN txs /\ txs[p.tier].op = TiersOp(w, s, p.offer)
    BY <1>3, <1>5, <1>6, <2>1 DEF PassSends, StreamOf, OfferOf
  <2>4. p.step \in {"post", "done"} => txs[p.tier].fate = "landed"
    BY <1>3, <1>5, <1>6, <2>1 DEF PassSends, Landed
  <2> QED
    BY <2>2, <2>3, <2>4
<1>8. p.step \in {"confirmTier", "post", "done"} /\ txs[p.tier].fate = "landed" =>
        /\ SignedByAuthority(w, s)
        /\ OnlyPass(c) => tierConfig[s][TierId] # NoAccount /\ tierConfig[s][TierId].price = p.offer.price
  BY <1>3, <1>5, <1>6 DEF PassSound, TierIsPriced, StreamOf, OfferOf, Landed
<1>9. UNCHANGED <<streamConfig, tierConfig>>
  BY <1>1, RegisterType DEF vars, registryVars
<1>10. p.step # "idle" => p.offer \in Offers
  BY <1>1, <1>3 DEF PassHasOffer, RegisterAt, OfferOf
<1>11. ASSUME registering'[c].step \notin {"confirmTier", "post", "done"},
              \/ registering'[c].create = 0
              \/ /\ registering'[c].create \in DOMAIN txs'
                 /\ txs'[registering'[c].create].op.kind = "create"
       PROVE  PassSound(c)'
  BY <1>11 DEF PassSound, PassSends, TierIsPriced, DoneIsListed, RegisterAt
<1>12. ASSUME registering'[c].step \in {"create", "tier", "idle"}, registering'[c].create = 0
       PROVE  PassSound(c)'
  BY <1>11, <1>12
<1>13. ASSUME SendCreate(c), registering'[c].step \in {"confirm", "tier"},
              registering'[c].create = NextTx
       PROVE  PassSound(c)'
  <2>1. p.offer \in Offers
    BY <1>3, <1>10, <1>13 DEF SendCreate, RegisterAt
  <2>2. CreateOp(w, s, p.offer) \in Ops /\ CreateOp(w, s, p.offer).kind = "create"
    BY <2>1 DEF Ops, CreateOp
  <2>3. Send(CreateOp(w, s, p.offer))
    BY <1>3, <1>5, <1>6, <1>13 DEF SendCreate, StreamOf, OfferOf
  <2>4. NextTx \in DOMAIN txs' /\ txs'[NextTx].op.kind = "create"
    BY <2>2, <2>3, SendAppends
  <2> QED
    BY <1>11, <1>13, <2>4
<1>14. ASSUME ConfirmCreate(c) \/ StreamAppears(c), registering'[c].step \in {"appear", "tier"},
              registering'[c].create = registering[c].create
       PROVE  PassSound(c)'
  <2>1. txs' = txs
    BY <1>14 DEF ConfirmCreate, StreamAppears
  <2> QED
    BY <1>3, <1>7, <1>11, <1>14, <2>1
<1>15. ASSUME registering'[c].stream = registering[c].stream,
              registering'[c].offer = registering[c].offer,
              SendTier(c), registering'[c].step = AfterTier(c),
              registering'[c].create = registering[c].create, registering'[c].tier = NextTx
       PROVE  PassSound(c)'
  <2>1. p.offer \in Offers
    BY <1>3, <1>10, <1>15 DEF SendTier, RegisterAt
  <2>2. TiersOp(w, s, p.offer) \in Ops
    BY <2>1 DEF Ops
  <2>3. Send(TiersOp(w, s, p.offer))
    BY <1>3, <1>5, <1>6, <1>15 DEF SendTier, StreamOf, OfferOf
  <2>4. /\ NextTx \in DOMAIN txs' /\ txs'[NextTx].op = TiersOp(w, s, p.offer)
        /\ txs'[NextTx].fate = "sent"
        /\ \A i \in DOMAIN txs : i \in DOMAIN txs' /\ txs'[i] = txs[i]
    BY <2>2, <2>3, SendAppends
  <2>5. registering'[c].step = "confirmTier"
    BY <1>1, <1>15 DEF AfterTier
  <2> QED
    BY <1>3, <1>5, <1>6, <1>7, <1>15, <2>4, <2>5
    DEF PassSound, PassSends, TierIsPriced, DoneIsListed, RegisterAt, StreamOf, OfferOf, Landed
<1>16. ASSUME registering'[c].stream = registering[c].stream,
              registering'[c].offer = registering[c].offer,
              registering'[c].create = registering[c].create,
              registering'[c].tier = registering[c].tier,
              registering'[c].step \in {"post", "done"}, txs' = txs,
              p.step \in {"confirmTier", "post"}, txs[p.tier].fate = "landed",
              DoneIsListed(c)'
       PROVE  PassSound(c)'
  <2>1. PassSends(c)'
    BY <1>3, <1>5, <1>6, <1>7, <1>16 DEF PassSends, StreamOf, OfferOf, Landed
  <2>2. OnlyPass(c)' => OnlyPass(c)
    BY <1>16 DEF OnlyPass, StreamOf
  <2>3. TierIsPriced(c)'
    BY <1>3, <1>5, <1>6, <1>8, <1>9, <1>16, <2>2
    DEF TierIsPriced, StreamOf, OfferOf, Landed, SignedByAuthority, StreamExists
  <2> QED
    BY <1>16, <2>1, <2>3 DEF PassSound
<1>17. ASSUME registering'[c].stream = registering[c].stream,
              registering'[c].offer = registering[c].offer,
              ConfirmTier(c), registering'[c].step = "post",
              registering'[c].create = registering[c].create,
              registering'[c].tier = registering[c].tier
       PROVE  PassSound(c)'
  <2>1. txs' = txs /\ p.step = "confirmTier" /\ txs[p.tier].fate = "landed"
    BY <1>3, <1>17 DEF ConfirmTier, RegisterAt, Landed
  <2>2. DoneIsListed(c)'
    BY <1>17 DEF DoneIsListed, RegisterAt
  <2> QED
    BY <1>16, <1>17, <2>1, <2>2
<1>18. ASSUME registering'[c].stream = registering[c].stream,
              registering'[c].offer = registering[c].offer,
              Post(c), registering'[c].step = "done",
              registering'[c].create = registering[c].create,
              registering'[c].tier = registering[c].tier
       PROVE  PassSound(c)'
  <2>1. txs' = txs /\ p.step = "post"
    BY <1>3, <1>18 DEF Post, RegisterAt
  <2>2. MayList(w, s, p.offer)
    BY <1>1, <1>3, <1>5, <1>6, <1>18 DEF Post, StreamOf, OfferOf
  <2>3. listing' = [listing EXCEPT ![s] = p.offer]
    BY <1>3, <1>5, <1>18 DEF Post, StreamOf, OfferOf
  <2>4. listing'[s] = p.offer /\ p.offer # NoOffer
    BY <1>10, <2>1, <2>3, RegisterAssumption DEF RegisterTypeOK
  <2>5. DoneIsListed(c)'
    BY <1>3, <1>5, <1>9, <1>18, <2>2, <2>4
    DEF DoneIsListed, StreamOf, OfferOf, MayList, StreamActive, StreamExists
  <2> QED
    BY <1>7, <1>16, <1>18, <2>1, <2>5
<1>19. ~SkipTier(c)
  BY <1>1 DEF SkipTier
<1> QED
  BY <1>1, <1>12, <1>13, <1>14, <1>15, <1>17, <1>18, <1>19, PassMove

(* The tool posts only after its own tier has landed, which nobody but the   *)
(* authority can bring about; from then on the stream is as it was listed,   *)
(* and its tier too as long as its wallet sends no other.                    *)
THEOREM BuyableCorrect == FlowsSpec => []ToolDoneIsBuyable
<1>1. FlowsInit => BuyableInv
  <2> SUFFICES ASSUME FlowsInit PROVE ListedTrue /\ \A c \in StreamTools : PassSound(c)
    BY DEF BuyableInv
  <2> DEFINE first == CHOOSE s \in Streams : TRUE
             pending == [step |-> "idle", stream |-> first, offer |-> NoOffer, create |-> 0, tier |-> 0]
  <2>1. registering = [c \in Registrars |-> pending] /\ listing = [s \in Streams |-> NoOffer]
    BY DEF FlowsInit, RegisterInit
  <2>2. pending.step = "idle" /\ pending.create = 0
    OBVIOUS
  <2> HIDE DEF pending
  <2> QED
    BY <2>1, <2>2
    DEF ListedTrue, PassSound, PassSends, TierIsPriced, DoneIsListed, RegisterAt, Registrars
<1>2. FlowsTyped /\ BuyableInv /\ [FlowsNext]_allVars => BuyableInv'
  <2> SUFFICES ASSUME FlowsTyped, BuyableInv, [FlowsNext]_allVars, Direct \notin cast'
               PROVE  ListedTrue' /\ \A c \in StreamTools : PassSound(c)'
    BY DEF BuyableInv
  <2>1. Direct \notin cast /\ ListedTrue /\ \A c \in StreamTools : PassSound(c)
    BY CastStays DEF BuyableInv
  <2>2. ASSUME NEW c \in StreamTools PROVE PassSound(c)'
    <3>1. CASE registering'[c] = registering[c]
      BY <2>1, <3>1, PassStays
    <3>2. CASE registering'[c] # registering[c]
      <4>1. c \in Registrars
        BY DEF Registrars
      <4>2. ASSUME NEW d \in Registrars, RegisterStep(d) PROVE d = c
        BY <3>2, <4>1, <4>2, RegisterOthers
      <4>3. ASSUME NEW d \in Buyers, BuyStep(d) PROVE FALSE
        BY <3>2, <4>3, BuyType DEF registerVars
      <4>4. RegisterStep(c)
        BY <3>2, <4>2, <4>3, FlowCases DEF registerVars, allVars, flowVars
      <4> QED
        BY <2>1, <4>4, PassGoes
    <3> QED
      BY <3>1, <3>2
  <2> QED
    BY <2>1, <2>2, ListedTrueStep
<1>3. FlowsTyped /\ BuyableInv => ToolDoneIsBuyable
  <2> SUFFICES ASSUME FlowsTyped, BuyableInv, NEW c \in StreamTools, RegisterAt(c, "done"), OnlyPass(c),
                      Direct \notin cast, lister[StreamOf(c)] \notin Seeders
               PROVE  /\ IsShown(StreamOf(c))
                      /\ tierConfig[StreamOf(c)][TierId] # NoAccount
                      /\ tierConfig[StreamOf(c)][TierId].price = listing[StreamOf(c)].price
    BY DEF ToolDoneIsBuyable
  <2>1. ListedTrue /\ PassSends(c) /\ TierIsPriced(c) /\ DoneIsListed(c)
    BY DEF BuyableInv, PassSound
  <2>2. StreamOf(c) \in Streams
    BY DEF FlowsTyped, FlowsTypeOK, RegisterTypeOK, Registrations, Registrars, StreamOf
  <2>3. IsShown(StreamOf(c))
    BY <2>1, <2>2 DEF ListedTrue, DoneIsListed
  <2> QED
    BY <2>1, <2>3 DEF PassSends, TierIsPriced, DoneIsListed, RegisterAt, IsShown
<1> QED
  BY <1>1, <1>2, <1>3, FlowsInitType, FlowsStepType, PTL DEF FlowsSpec
=============================================================================
