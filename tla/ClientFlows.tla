---------------------------- MODULE ClientFlows ----------------------------
(***************************************************************************)
(* The clients of the chain together: makers' and buyers' programs, key    *)
(* forms, the backend's listing, the transactions on their way, and anyone *)
(* who sends the programs' instructions without any of these clients.      *)
(*                                                                         *)
(* A behaviour has the clients of one cast at work, so that an instance    *)
(* may look at several constellations without multiplying them.            *)
(***************************************************************************)
EXTENDS SubscribeFlow, KeyFlow

CONSTANTS
  Casts,     \* which clients are in use together
  Direct,    \* a cast that has this member has anyone send instructions
  MaxDirect  \* bound on such instructions

ASSUME FlowsAssumption ==
  /\ Buyers \cap KeyClients = {}
  /\ Casts \subseteq SUBSET (Clients \cup {Direct})
  /\ Direct \notin Clients
  /\ MaxDirect \in Nat

VARIABLES
  cast,    \* the clients in use
  directs  \* instructions sent by others so far

flowVars == <<txs, walletVars, registerVars, buyVars, keying, cast, directs>>
allVars == <<vars, flowVars>>

(* Accounts, transactions, clients and the listing keep their types. *)
FlowsTypeOK ==
  /\ TypeOK
  /\ TransactionsTypeOK
  /\ WalletsTypeOK
  /\ RegisterTypeOK
  /\ SubscribeTypeOK
  /\ KeyTypeOK
  /\ cast \in Casts
  /\ directs \in 0 .. MaxDirect

FlowsInit ==
  /\ Init
  /\ TransactionsInit
  /\ RegisterInit
  /\ SubscribeInit
  /\ KeyInit
  /\ cast \in Casts
  /\ directs = 0

NetworkStep ==
  /\ \E i \in DOMAIN txs : Land(i) \/ Fail(i)
  /\ UNCHANGED <<walletVars, registerVars, buyVars, keying>>

ClientStep ==
  \/ \E c \in Registrars \cap cast :
       RegisterStep(c) /\ UNCHANGED <<walletVars, buyVars, keying>>
  \/ \E c \in Buyers \cap cast : BuyStep(c) /\ UNCHANGED keying
  \/ \E c \in KeyClients \cap cast :
       KeyClientStep(c) /\ UNCHANGED <<registerVars, buyVars>>

WalletStep ==
  /\ \E c \in Pages \cap cast, w \in Subscribers : ChangeWallet(c, w)
  /\ UNCHANGED <<vars, txs, registerVars, buyVars, keying>>

DirectStep ==
  /\ Direct \in cast
  /\ directs < MaxDirect
  /\ Next
  /\ directs' = directs + 1
  /\ UNCHANGED <<txs, walletVars, registerVars, buyVars, keying, cast>>

FlowsNext ==
  \/ (NetworkStep \/ ClientStep \/ WalletStep) /\ UNCHANGED <<cast, directs>>
  \/ DirectStep

FlowsSpec == FlowsInit /\ [][FlowsNext]_allVars

-----------------------------------------------------------------------------
(* Properties. *)

(* A stream the backend lists was listed by the wallet that owns it on      *)
(* chain, whoever else tried to register the id, in whatever order their    *)
(* transactions landed, and though a page that finds the account there      *)
(* takes it for its own.  Seeded demo streams are listed unchecked.         *)
ListedByOwner ==
  \A s \in Streams :
    listing[s] # NoOffer /\ lister[s] \notin Seeders =>
      SignedByAuthority(WalletOf[lister[s]], s)

(* When the registration tool answers, its stream can be bought at the      *)
(* price it is listed with, provided its wallet has sent nothing else about *)
(* the stream: late, lost and reordered transactions do not come between.   *)
(* The seeder lists unchecked, and may list a stream that is not its own.   *)
OnlyPass(c) ==
  \A i \in DOMAIN txs :
    /\ txs[i].op.kind \in {"create", "tiers"}
    /\ txs[i].op.by = WalletOf[c]
    /\ txs[i].op.stream = StreamOf(c)
    => i \in {registering[c].create, registering[c].tier}

ToolDoneIsBuyable ==
  \A c \in StreamTools :
    /\ RegisterAt(c, "done")
    /\ OnlyPass(c)
    /\ Direct \notin cast
    /\ lister[StreamOf(c)] \notin Seeders
    =>
      /\ IsShown(StreamOf(c))
      /\ tierConfig[StreamOf(c)][TierId] # NoAccount
      /\ tierConfig[StreamOf(c)][TierId].price = listing[StreamOf(c)].price

(* Whoever buys through a client is charged what that client showed or was  *)
(* told before the purchase, however the maker reprices the tier or lists   *)
(* the stream again while the transaction is on its way.  A link shows its  *)
(* price in one request and builds the transaction in another.              *)
SoldNow(i) ==
  /\ agreed[i] # NoTerms
  /\ txs[i].fate = "sent"
  /\ txs'[i].fate = "landed"

ChargedAsShown ==
  [][\A i \in DOMAIN txs :
       SoldNow(i) /\ agreed[i].by \notin Blinks =>
         paid'[txs[i].op.stream][txs[i].op.by] = agreed[i].price]_allVars

(* What is bought of a public stream from a page, a card or a link costs    *)
(* nothing: a maker may create one with a paid tier, but it is not listed   *)
(* then, and what is listed is what is paid.  Where the seeder runs beside  *)
(* others it may list such a stream with its own price.                     *)
PublicCostsNothing ==
  [][\A i \in DOMAIN txs :
       /\ SoldNow(i)
       /\ agreed[i].by \notin AwaitsSubscribe
       /\ streamConfig[txs[i].op.stream].visibility = "public"
       /\ cast \cap Seeders = {}
       => paid'[txs[i].op.stream][txs[i].op.by] = 0]_allVars

(* A client that says its user is subscribed is right: the account is on    *)
(* chain, through dropped transactions, time limits, retries, cancellation  *)
(* and a cache of any age.  The form does not ask about a public stream.    *)
(* It takes nothing back when its user connects another wallet, so that it  *)
(* speaks of one of the wallets connected since it was opened: until then   *)
(* that is the user's own.                                                  *)
SubscribedIsHeld ==
  \A c \in Buyers :
    /\ buying[c].subscribed
    /\ c \in SubscribeForms => streamConfig[Bought(c)].visibility = "private"
    => \E w \in Signers(c) : subscription[Bought(c)][w] # NoAccount

(* A client that says a key is registered, or needs no registering, is      *)
(* right that there is one; the page may be wrong about which, and whose of *)
(* the wallets connected since it was opened.                               *)
RegisteredKeyExists ==
  /\ \A c \in KeyPages \cup KeyTools : keying[c].shown # NoKey =>
       \E w \in Signers(c) : subscriptionKey[keying[c].stream][w] # NoAccount
  /\ \A c \in Buyers : buying[c].keyed =>
       \E w \in Signers(c) : subscriptionKey[Bought(c)][w] # NoAccount
=============================================================================
