--------------------------- MODULE SubscribeFlow ---------------------------
(***************************************************************************)
(* Buying, renewing and cancelling a subscription through each of the      *)
(* programs that can:                                                      *)
(*                                                                         *)
(*   SubscribeForms  frontend/app/stream/[id]/SubscribeForm.tsx            *)
(*   Cards           frontend/app/components/SubscriptionCard.tsx          *)
(*   Blinks          the action links of backend/src/routes.ts             *)
(*   SubscribeTools  sigints.flow.subscribe of mcp-server/src/server.ts    *)
(*   Servers         the routes that sign with the backend's own wallet    *)
(*                   (backend/src/services/OnChainSubscriptionClient.ts)   *)
(*                                                                         *)
(* The backend's map from stream ids to addresses is taken to be right.    *)
(***************************************************************************)
EXTENDS RegisterFlow

CONSTANTS
  SubscribeForms, Cards, Blinks, SubscribeTools, Servers,
  NoTerms

Buyers == SubscribeForms \cup Cards \cup Blinks \cup SubscribeTools \cup Servers

(* Who waits for the transaction, and who has the backend look for the     *)
(* subscription.                                                           *)
AwaitsSubscribe == SubscribeTools \cup Servers
AsksBackend == SubscribeForms \cup SubscribeTools

ASSUME SubscribeAssumption ==
  /\ Buyers \subseteq Clients
  /\ \A c \in Buyers : WalletOf[c] \in Subscribers
  /\ AwaitsSubscribe \cap Pages = {}
  /\ NoTerms \notin Terms \cup [by : Buyers, price : Prices]

BuySteps == {"idle", "shown", "confirm", "register"}

(* shown: the terms the client put before its user.  subscribed, keyed: it  *)
(* says that the user is subscribed, that the user's key is registered.     *)
Purchases ==
  [step : BuySteps, stream : Streams, shown : Terms \cup {NoTerms},
   subscribed : BOOLEAN, keyed : BOOLEAN, tx : 0 .. MaxSends]

VARIABLES
  buying,  \* each buyer's purchase
  cached,  \* localStorage: the streams the wallet last asked about is subscribed to
  agreed   \* auxiliary: of each purchase sent, by which client at what price shown

buyVars == <<buying, cached, agreed>>

SubscribeTypeOK ==
  /\ buying \in [Buyers -> Purchases]
  /\ cached \in [Subscribers -> SUBSET Streams]
  /\ agreed \in [1 .. MaxSends -> [by : Buyers, price : Prices] \cup {NoTerms}]

SubscribeInit ==
  /\ buying = [c \in Buyers |->
       [step |-> "idle", stream |-> CHOOSE s \in Streams : TRUE,
        shown |-> NoTerms, subscribed |-> FALSE, keyed |-> FALSE, tx |-> 0]]
  /\ cached = [w \in Subscribers |-> {}]
  /\ agreed = [i \in 1 .. MaxSends |-> NoTerms]

BuyAt(c, step) == buying[c].step = step
Bought(c) == buying[c].stream
Buyer(c) == Signer(c)

(* The stream is looked up; the page, card or link now shows a price.  The  *)
(* caller of the tool or of the server's route names the price itself.      *)
LookAt(c, s) ==
  /\ BuyAt(c, "idle")
  /\ IsShown(s)
  /\ \E price \in Prices :
       /\ c \notin AwaitsSubscribe => price = listing[s].price
       /\ buying' = [buying EXCEPT ![c] =
            [step |-> "shown", stream |-> s,
             shown |-> [TermsShown(s) EXCEPT !.price = price],
             subscribed |-> FALSE, keyed |-> FALSE, tx |-> 0]]
  /\ UNCHANGED <<vars, txs, registerVars, cached, agreed>>

(* The form reads the cache, whatever its age, and asks the backend when    *)
(* the stream is not in it.  It does so again for a wallet connected later, *)
(* and takes nothing back.  An answer about an earlier wallet is kept in    *)
(* the cache, which has room for one wallet, and otherwise left alone.      *)
UseCache(c) ==
  /\ c \in SubscribeForms
  /\ ~BuyAt(c, "idle")
  /\ Bought(c) \in cached[Buyer(c)]
  /\ buying' = [buying EXCEPT ![c].subscribed = TRUE]
  /\ UNCHANGED <<vars, txs, registerVars, cached, agreed>>

FetchSubscriptions(c, w) ==
  /\ c \in SubscribeForms
  /\ ~BuyAt(c, "idle")
  /\ Bought(c) \notin cached[w]
  /\ LET active == {s \in Streams : IsActive(s, w)}
     IN  /\ cached' = [v \in Subscribers |-> IF v = w THEN active ELSE {}]
         /\ buying' = [buying EXCEPT ![c].subscribed =
              @ \/ (w = Buyer(c) /\ Bought(c) \in active)]
  /\ UNCHANGED <<vars, txs, registerVars, agreed>>

(* The form's check of the user's key account, when it is shown, when the   *)
(* wallet changes and when the key page says that a key was registered.     *)
HasKey(c) == subscriptionKey[Bought(c)][Buyer(c)] # NoAccount

CheckKey(c) ==
  /\ c \in SubscribeForms
  /\ ~BuyAt(c, "idle")
  /\ buying' = [buying EXCEPT ![c].keyed = HasKey(c)]
  /\ UNCHANGED <<vars, txs, registerVars, cached, agreed>>

(* The terms a transaction is built from: what was shown, except that the   *)
(* link's second request looks the stream up again.  The slip has every     *)
(* client read the price where the program will look for it.                *)
BuiltFrom_Slip(c) ==
  LET tier == tierConfig[Bought(c)][TierId]
  IN  IF tier = NoAccount THEN buying[c].shown
      ELSE [buying[c].shown EXCEPT !.price = tier.price]
BuiltFrom(c) == IF c \in Blinks THEN TermsShown(Bought(c)) ELSE buying[c].shown

MayPress(c) ==
  /\ c \in SubscribeForms => buying[c].shown.maker # Buyer(c)
  /\ c \in SubscribeForms => ~buying[c].subscribed
  /\ c \in Blinks => IsShown(Bought(c))

AfterSubscribe(c) ==
  IF c \in AwaitsSubscribe THEN "confirm"
  ELSE IF c \in AsksBackend THEN "register" ELSE "shown"

PressSubscribe(c) ==
  /\ BuyAt(c, "shown")
  /\ MayPress(c)
  /\ Send(SubscribeOp(Buyer(c), Bought(c), BuiltFrom(c)))
  /\ buying' = [buying EXCEPT ![c] =
       [@ EXCEPT !.step = AfterSubscribe(c), !.tx = NextTx]]
  /\ agreed' = [agreed EXCEPT ![NextTx] =
       [by |-> c, price |-> buying[c].shown.price]]
  /\ UNCHANGED <<vars, registerVars, cached>>

ConfirmSubscribe(c) ==
  /\ BuyAt(c, "confirm")
  /\ Landed(buying[c].tx)
  /\ buying' = [buying EXCEPT ![c] =
       [@ EXCEPT !.step = IF c \in AsksBackend THEN "register" ELSE "shown",
          !.subscribed = c \in Servers]]
  /\ UNCHANGED <<vars, txs, registerVars, cached, agreed>>

(* POST /subscribe answers at once for a public stream, and for a private   *)
(* one when it has seen the subscription account, whatever its status.  It  *)
(* is asked about the wallet that paid; the form then says Subscribed to    *)
(* whichever wallet is connected by now.                                    *)
Vouches_Slip(c) == IsShown(Bought(c))
Vouches(c) ==
  /\ IsShown(Bought(c))
  /\ \/ streamConfig[Bought(c)].visibility = "public"
     \/ subscription[Bought(c)][Payer(c, buying[c].tx)] # NoAccount

RegisterSubscription(c) ==
  /\ BuyAt(c, "register")
  /\ Vouches(c)
  /\ buying' = [buying EXCEPT ![c] =
       [@ EXCEPT !.step = "shown", !.subscribed = TRUE,
          !.keyed = IF c \in SubscribeForms THEN buying[c].keyed ELSE HasKey(c)]]
  /\ UNCHANGED <<vars, txs, registerVars, cached, agreed>>

(* An error or a time limit puts the button back; what was sent stays sent. *)
FailPurchase(c) ==
  /\ buying[c].step \in {"confirm", "register"}
  /\ buying' = [buying EXCEPT ![c].step = "shown"]
  /\ UNCHANGED <<vars, txs, registerVars, cached, agreed>>

LeaveStream(c) ==
  /\ ~BuyAt(c, "idle")
  /\ buying' = [buying EXCEPT ![c] =
       [@ EXCEPT !.step = "idle", !.shown = NoTerms, !.subscribed = FALSE,
          !.keyed = FALSE, !.tx = 0]]
  /\ Forget(c)
  /\ UNCHANGED <<vars, txs, registerVars, cached, agreed>>

(* The server's routes for renewing and cancelling ask nothing of the       *)
(* listing; the answer is the signature of the confirmed transaction.       *)
ServerSend(c, s) ==
  /\ c \in Servers
  /\ BuyAt(c, "idle")
  /\ Send(RenewOp(Buyer(c), s)) \/ Send(CancelOp(Buyer(c), s))
  /\ UNCHANGED <<vars, registerVars, buyVars>>

BuyStep(c) ==
  \/ /\ \/ \E s \in Streams : LookAt(c, s) \/ ServerSend(c, s)
        \/ UseCache(c)
        \/ \E w \in Signers(c) : FetchSubscriptions(c, w)
        \/ CheckKey(c)
        \/ PressSubscribe(c)
        \/ ConfirmSubscribe(c)
        \/ RegisterSubscription(c)
        \/ FailPurchase(c)
     /\ UNCHANGED walletVars
  \/ LeaveStream(c)
=============================================================================
