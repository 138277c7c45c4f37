--------------------------- MODULE Transactions ---------------------------
(***************************************************************************)
(* The road from a client to the chain: sdk/src/transactions.ts and the    *)
(* instruction builders under it, frontend/app/lib/solana.ts, and what a   *)
(* client can learn of a transaction it has sent.                          *)
(*                                                                         *)
(* A transaction is built from what its client knows at that moment, is    *)
(* signed, and lands, fails or is lost at some later time, in any order    *)
(* with the others; that its client gave up waiting does not stop it.  The *)
(* node's simulation before a transaction is accepted is not a guard: the  *)
(* node may be behind.  A tier id is made from the stream's id, so that    *)
(* one TierId stands for the tier a client names; the hash of a list of    *)
(* tiers is told apart by the price in it.                                 *)
(***************************************************************************)
EXTENDS SubscriptionRoyalty, Sequences

CONSTANTS
  Clients,   \* pages, tools and scripts
  WalletOf,  \* the wallet each client signs with, a page as long as it is kept
  Pages,     \* the clients whose user may connect another wallet
  TierId,    \* the tier the clients name
  Evidence,  \* the evidence level they name
  NoQuota,   \* the quota they name
  Expiry,    \* the expiry they name
  MaxSends   \* bound on the transactions sent

ASSUME TransactionsAssumption ==
  /\ Streams # {}
  /\ WalletOf \in [Clients -> Makers \cup Subscribers]
  /\ Pages \subseteq Clients
  /\ \A c \in Pages : WalletOf[c] \in Subscribers
  /\ TierId \in Tiers
  /\ Evidence \in EvidenceLevels
  /\ NoQuota \in Quotas
  /\ Expiry \in Expiries
  /\ Prices \subseteq TiersHashes
  /\ Makers \subseteq Treasuries
  /\ MaxSends \in Nat

(* What a maker offers, and the terms a buyer's client was shown. *)
Offers == [price : Prices, visibility : Visibilities]
Terms == [price : Prices, maker : Makers, treasury : Treasuries]

CreateOp(m, s, offer) ==
  [kind |-> "create", by |-> m, stream |-> s, offer |-> offer]
TiersOp(m, s, offer) ==
  [kind |-> "tiers", by |-> m, stream |-> s, offer |-> offer]
SubscribeOp(w, s, terms) ==
  [kind |-> "subscribe", by |-> w, stream |-> s, terms |-> terms]
RenewOp(w, s) == [kind |-> "renew", by |-> w, stream |-> s]
CancelOp(w, s) == [kind |-> "cancel", by |-> w, stream |-> s]
KeyOp(w, s, key) == [kind |-> "key", by |-> w, stream |-> s, key |-> key]
WalletKeyOp(w, key) == [kind |-> "walletKey", by |-> w, key |-> key]

Ops ==
  {CreateOp(m, s, o) : m \in Makers, s \in Streams, o \in Offers}
    \cup {TiersOp(m, s, o) : m \in Makers, s \in Streams, o \in Offers}
    \cup {SubscribeOp(w, s, t) : w \in Subscribers, s \in Streams, t \in Terms}
    \cup {RenewOp(w, s) : w \in Subscribers, s \in Streams}
    \cup {CancelOp(w, s) : w \in Subscribers, s \in Streams}
    \cup {KeyOp(w, s, k) : w \in Subscribers, s \in Streams, k \in Keys}
    \cup {WalletKeyOp(w, k) : w \in Subscribers, k \in Keys}

Fates == {"sent", "landed", "failed"}

VARIABLES
  txs,        \* every transaction sent, in the order of sending
  connected,  \* the wallet connected to each page
  since       \* auxiliary: the wallets connected since the page was opened

walletVars == <<connected, since>>

TransactionsTypeOK ==
  /\ txs \in Seq([op : Ops, fate : Fates])
  /\ Len(txs) <= MaxSends

WalletsTypeOK ==
  /\ connected \in [Pages -> Subscribers]
  /\ since \in [Pages -> SUBSET Subscribers]

TransactionsInit ==
  /\ txs = <<>>
  /\ connected = [c \in Pages |-> WalletOf[c]]
  /\ since = [c \in Pages |-> {WalletOf[c]}]

Signer(c) == IF c \in Pages THEN connected[c] ELSE WalletOf[c]
Signers(c) == IF c \in Pages THEN since[c] ELSE {WalletOf[c]}

(* useWallet: another wallet is connected under an open page.  What the     *)
(* page holds of the earlier one stays until something replaces it.         *)
ChangeWallet(c, w) ==
  /\ w # connected[c]
  /\ connected' = [connected EXCEPT ![c] = w]
  /\ since' = [since EXCEPT ![c] = @ \cup {w}]

Forget(c) ==
  /\ since' = [d \in Pages |-> IF d = c THEN {connected[d]} ELSE since[d]]
  /\ UNCHANGED connected

Send(op) ==
  /\ Len(txs) < MaxSends
  /\ txs' = Append(txs, [op |-> op, fate |-> "sent"])

(* The number of the transaction a Send of this step makes. *)
NextTx == Len(txs) + 1

(* A stream's dao is its authority unless the client names another. *)
ExecuteRegistry(op) ==
  /\ \/ /\ op.kind = "create"
        /\ CreateStream(op.by, op.stream, op.offer.price, op.by, op.offer.visibility)
     \/ /\ op.kind = "tiers"
        /\ UpsertTier(op.by, op.stream, TierId, "SubscriptionUnlimited",
                      Evidence, op.offer.price, NoQuota, "Active")
  /\ UNCHANGED royaltyVars

ExecuteRoyalty(op) ==
  \/ /\ op.kind = "subscribe"
     /\ Subscribe(op.by, op.stream, TierId, "SubscriptionUnlimited", Evidence,
                  Expiry, NoQuota, op.terms.price, op.terms.maker, op.terms.treasury)
  \/ op.kind = "renew" /\ Renew(op.by, op.stream, Expiry, NoQuota)
  \/ op.kind = "cancel" /\ Cancel(op.by, op.stream)
  \/ op.kind = "key" /\ RegisterSubscriptionKey(op.by, op.stream, op.key)
  \/ op.kind = "walletKey" /\ RegisterWalletKey(op.by, op.key)

Land(i) ==
  /\ txs[i].fate = "sent"
  /\ ExecuteRegistry(txs[i].op) \/ ExecuteRoyalty(txs[i].op)
  /\ txs' = [txs EXCEPT ![i].fate = "landed"]

(* Executed with an error, dropped, or expired with its blockhash. *)
Fail(i) ==
  /\ txs[i].fate = "sent"
  /\ txs' = [txs EXCEPT ![i].fate = "failed"]
  /\ UNCHANGED vars

(* The wallet that signed a client's transaction, connected still or not.   *)
Payer(c, i) == IF c \in Pages THEN txs[i].op.by ELSE WalletOf[c]

Landed(i) == txs[i].fate = "landed"
Settled(i) == txs[i].fate # "sent"
=============================================================================
