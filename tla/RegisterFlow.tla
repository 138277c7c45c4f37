--------------------------- MODULE RegisterFlow ---------------------------
(***************************************************************************)
(* How a maker's stream comes to be listed, by each of the programs that   *)
(* can do it:                                                              *)
(*                                                                         *)
(*   Wizards      frontend/app/register-stream/page.tsx                    *)
(*   StreamForms  frontend/app/components/RegisterStreamForm.tsx           *)
(*   StreamTools  sigints.flow.register_stream of mcp-server/src/server.ts *)
(*   Seeders      the streams of backend/src/seed/demo.ts                  *)
(*                                                                         *)
(* All create the stream, create its tier and have the backend list it;    *)
(* they differ in whether they look for the stream first and in what they  *)
(* wait for.  POST /streams and the listing it makes are one step here;    *)
(* StreamDiscovery has them call by call.                                  *)
(***************************************************************************)
EXTENDS Transactions

CONSTANTS
  Wizards, StreamForms, StreamTools, Seeders,
  OffersOf,  \* what each of these clients may be asked to register
  NoOffer    \* the stream is not listed

Registrars == Wizards \cup StreamForms \cup StreamTools \cup Seeders

(* Who looks whether the stream exists before creating it, who waits for   *)
(* the creation, and who waits for the tier.                               *)
LooksFirst == Wizards \cup StreamForms \cup Seeders
AwaitsStream == Wizards \cup StreamTools \cup Seeders
AwaitsTier == StreamTools \cup Seeders

ASSUME RegisterAssumption ==
  /\ Registrars \subseteq Clients
  /\ OffersOf \in [Registrars -> SUBSET Offers]
  /\ \A c \in Wizards \cup StreamForms, o \in Offers :
       o \in OffersOf[c] /\ o.visibility = "public" => o.price = 0
  /\ \A c \in Registrars : WalletOf[c] \in Makers
  /\ Seeders \cap (Wizards \cup StreamForms \cup StreamTools) = {}
  /\ NoOffer \notin Offers \cup Registrars

RegisterSteps ==
  {"idle", "create", "confirm", "appear", "tier", "confirmTier", "post", "done"}

(* create, tier: the transactions of the present pass, 0 for none. *)
Registrations ==
  [step : RegisterSteps, stream : Streams, offer : Offers \cup {NoOffer},
   create : 0 .. MaxSends, tier : 0 .. MaxSends]

VARIABLES
  registering,  \* each registrar's pass
  listing,      \* the offer the backend has described each stream with
  lister        \* auxiliary: the client that had it listed

registerVars == <<registering, listing, lister>>

RegisterTypeOK ==
  /\ registering \in [Registrars -> Registrations]
  /\ listing \in [Streams -> Offers \cup {NoOffer}]
  /\ lister \in [Streams -> Registrars \cup {NoOffer}]

RegisterInit ==
  /\ registering = [c \in Registrars |->
       [step |-> "idle", stream |-> CHOOSE s \in Streams : TRUE,
        offer |-> NoOffer, create |-> 0, tier |-> 0]]
  /\ listing = [s \in Streams |-> NoOffer]
  /\ lister = [s \in Streams |-> NoOffer]

RegisterAt(c, step) == registering[c].step = step
StreamOf(c) == registering[c].stream
OfferOf(c) == registering[c].offer

Go(c, step) == registering' = [registering EXCEPT ![c].step = step]

(* The form is filled in, or the tool called.  A page begins again at will, *)
(* by going back or by being loaded again.                                  *)
BeginRegister(c, s, offer) ==
  /\ registering[c].step \in {"idle", "done"}
  /\ offer \in OffersOf[c]
  /\ registering' = [registering EXCEPT ![c] =
       [step |-> IF c \in LooksFirst /\ StreamExists(s) THEN "tier" ELSE "create",
        stream |-> s, offer |-> offer, create |-> 0, tier |-> 0]]
  /\ UNCHANGED <<vars, txs, listing, lister>>

SendCreate(c) ==
  /\ RegisterAt(c, "create")
  /\ Send(CreateOp(WalletOf[c], StreamOf(c), OfferOf(c)))
  /\ registering' = [registering EXCEPT ![c] =
       [@ EXCEPT !.create = NextTx,
          !.step = IF c \in AwaitsStream THEN "confirm" ELSE "tier"]]
  /\ UNCHANGED <<vars, listing, lister>>

(* confirmTransaction resolves whether the transaction landed or not, and   *)
(* the wizard then waits for an account; the others look at the outcome.    *)
ConfirmCreate(c) ==
  /\ RegisterAt(c, "confirm")
  /\ \/ c \in Wizards /\ Settled(registering[c].create) /\ Go(c, "appear")
     \/ c \notin Wizards /\ Landed(registering[c].create) /\ Go(c, "tier")
  /\ UNCHANGED <<vars, txs, listing, lister>>

(* waitForStreamAccount: any account at the stream's address will do. *)
StreamAppears(c) ==
  /\ RegisterAt(c, "appear")
  /\ StreamExists(StreamOf(c))
  /\ Go(c, "tier")
  /\ UNCHANGED <<vars, txs, listing, lister>>

(* Whether the tier is waited for. *)
AfterTier_Slip(c) == "post"
AfterTier(c) == IF c \in AwaitsTier THEN "confirmTier" ELSE "post"

SendTier(c) ==
  /\ RegisterAt(c, "tier")
  /\ c \in Wizards => StreamExists(StreamOf(c))
  /\ c \in Seeders => tierConfig[StreamOf(c)][TierId] = NoAccount
  /\ Send(TiersOp(WalletOf[c], StreamOf(c), OfferOf(c)))
  /\ registering' = [registering EXCEPT ![c] =
       [@ EXCEPT !.tier = NextTx, !.step = AfterTier(c)]]
  /\ UNCHANGED <<vars, listing, lister>>

(* ensureTierConfig leaves a tier alone that is there, whatever its price.  *)
SkipTier(c) ==
  /\ c \in Seeders
  /\ RegisterAt(c, "tier")
  /\ tierConfig[StreamOf(c)][TierId] # NoAccount
  /\ Go(c, "post")
  /\ UNCHANGED <<vars, txs, listing, lister>>

ConfirmTier(c) ==
  /\ RegisterAt(c, "confirmTier")
  /\ Landed(registering[c].tier)
  /\ Go(c, "post")
  /\ UNCHANGED <<vars, txs, listing, lister>>

(* The conditions of POST /streams. *)
FreeIfPublic_Slip(s, offer) == TRUE
FreeIfPublic(s, offer) == offer.visibility = "public" => offer.price = 0

MayList_Slip(m, s, offer) ==
  /\ StreamActive(s)
  /\ streamConfig[s].visibility = offer.visibility
  /\ FreeIfPublic(s, offer)
  /\ streamConfig[s].tiersHash = offer.price

MayList(m, s, offer) ==
  /\ StreamActive(s)
  /\ streamConfig[s].visibility = offer.visibility
  /\ FreeIfPublic(s, offer)
  /\ streamConfig[s].authority = m
  /\ streamConfig[s].tiersHash = offer.price

(* The seeder writes the description itself and is asked nothing. *)
Post(c) ==
  /\ RegisterAt(c, "post")
  /\ c \in Seeders \/ MayList(WalletOf[c], StreamOf(c), OfferOf(c))
  /\ listing' = [listing EXCEPT ![StreamOf(c)] = OfferOf(c)]
  /\ lister' = [lister EXCEPT ![StreamOf(c)] = c]
  /\ Go(c, "done")
  /\ UNCHANGED <<vars, txs>>

(* An error, a refusal in the wallet, a time limit, a reload: the pass ends *)
(* wherever it is.  What it has sent stays sent.                            *)
LeaveRegister(c) ==
  /\ registering[c].step # "idle"
  /\ registering' = [registering EXCEPT ![c] =
       [@ EXCEPT !.step = "idle", !.offer = NoOffer, !.create = 0, !.tier = 0]]
  /\ UNCHANGED <<vars, txs, listing, lister>>

RegisterStep(c) ==
  \/ \E s \in Streams, offer \in OffersOf[c] : BeginRegister(c, s, offer)
  \/ SendCreate(c)
  \/ ConfirmCreate(c)
  \/ StreamAppears(c)
  \/ SendTier(c)
  \/ SkipTier(c)
  \/ ConfirmTier(c)
  \/ Post(c)
  \/ LeaveRegister(c)

(* DiscoveryService.attachOnchain: what is shown of a stream must be what   *)
(* the chain holds; the payees and the visibility are the chain's.          *)
IsShown(s) ==
  /\ listing[s] # NoOffer
  /\ StreamActive(s)
  /\ streamConfig[s].tiersHash = listing[s].price

TermsShown(s) ==
  [price |-> listing[s].price, maker |-> streamConfig[s].authority,
   treasury |-> streamConfig[s].dao]
=============================================================================
