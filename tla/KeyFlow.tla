------------------------------ MODULE KeyFlow ------------------------------
(***************************************************************************)
(* Registering the key a reader's signals are sealed to:                   *)
(*                                                                         *)
(*   KeyPages     frontend/app/stream/[id]/KeyManager.tsx                  *)
(*   KeyTools     sigints.flow.register_subscription_key                   *)
(*   WalletTools  sigints.flow.register_wallet_key, both of                *)
(*                mcp-server/src/server.ts                                 *)
(*                                                                         *)
(* and POST /subscription-key/sync of backend/src/routes.ts, which reads   *)
(* the key account and keeps nothing.                                      *)
(***************************************************************************)
EXTENDS Transactions

CONSTANTS KeyPages, KeyTools, WalletTools, NoKey

KeyClients == KeyPages \cup KeyTools \cup WalletTools

ASSUME KeyAssumption ==
  /\ KeyClients \subseteq Clients
  /\ \A c \in KeyClients : WalletOf[c] \in Subscribers
  /\ (KeyTools \cup WalletTools) \cap Pages = {}
  /\ NoKey \notin Keys

KeySteps == {"closed", "open", "confirm", "sync"}

(* entered: the key that was typed in; shown: the key the client says is    *)
(* registered.                                                              *)
KeyForms ==
  [step : KeySteps, stream : Streams, entered : Keys \cup {NoKey},
   shown : Keys \cup {NoKey}, tx : 0 .. MaxSends]

VARIABLE keying  \* each key client's form

KeyTypeOK == keying \in [KeyClients -> KeyForms]

Closed(s) ==
  [step |-> "closed", stream |-> s, entered |-> NoKey, shown |-> NoKey, tx |-> 0]

KeyInit == keying = [c \in KeyClients |-> Closed(CHOOSE s \in Streams : TRUE)]

KeyAt(c, step) == keying[c].step = step
Account(c) == subscriptionKey[keying[c].stream][Signer(c)]

(* checkKeyStatus: only the page looks when it is opened.  As elsewhere, a  *)
(* name ending in _Slip is the next definition's mistake.                   *)
ShownAtFirst_Slip(c, key) == IF c \in KeyPages THEN key ELSE NoKey
ShownAtFirst(c, key) ==
  IF c \in KeyPages /\ key # NoAccount THEN key ELSE NoKey

OpenKeys(c, s) ==
  /\ KeyAt(c, "closed")
  /\ keying' = [keying EXCEPT ![c] =
       [Closed(s) EXCEPT !.step = "open",
          !.shown = ShownAtFirst(c, subscriptionKey[s][Signer(c)])]]
  /\ UNCHANGED <<vars, txs>>

(* The page looks again when another wallet is connected, and may be at     *)
(* anything meanwhile.                                                      *)
LookAgain(c) ==
  /\ c \in Pages
  /\ ~KeyAt(c, "closed")
  /\ keying' = [keying EXCEPT ![c].shown = ShownAtFirst(c, Account(c))]
  /\ UNCHANGED <<vars, txs>>

(* The page goes on to the backend without waiting for the transaction. *)
SubmitKey(c, key) ==
  /\ KeyAt(c, "open")
  /\ Send(IF c \in WalletTools THEN WalletKeyOp(Signer(c), key)
          ELSE KeyOp(Signer(c), keying[c].stream, key))
  /\ keying' = [keying EXCEPT ![c] =
       [@ EXCEPT !.step = IF c \in KeyPages THEN "sync" ELSE "confirm",
          !.entered = key, !.tx = NextTx]]
  /\ UNCHANGED vars

ConfirmKey(c) ==
  /\ KeyAt(c, "confirm")
  /\ Landed(keying[c].tx)
  /\ keying' = [keying EXCEPT ![c].step =
       IF c \in WalletTools THEN "open" ELSE "sync"]
  /\ UNCHANGED <<vars, txs>>

(* The sync succeeds when there is a key account of the wallet that signed, *)
(* with this key or another.  The page then shows the key it sent, whatever *)
(* wallet is connected by now, and the tool the key that was read.          *)
MaySync_Slip(c) == TRUE
MaySync(c) ==
  subscriptionKey[keying[c].stream][Payer(c, keying[c].tx)] # NoAccount

SyncKey(c) ==
  /\ KeyAt(c, "sync")
  /\ MaySync(c)
  /\ keying' = [keying EXCEPT ![c] =
       [@ EXCEPT !.step = "open", !.entered = NoKey, !.tx = 0,
          !.shown = IF c \in KeyPages THEN keying[c].entered ELSE Account(c)]]
  /\ UNCHANGED <<vars, txs>>

FailKey(c) ==
  /\ keying[c].step \in {"confirm", "sync"}
  /\ keying' = [keying EXCEPT ![c] = [@ EXCEPT !.step = "open", !.tx = 0]]
  /\ UNCHANGED <<vars, txs>>

CloseKeys(c) ==
  /\ ~KeyAt(c, "closed")
  /\ keying' = [keying EXCEPT ![c] = Closed(keying[c].stream)]
  /\ Forget(c)
  /\ UNCHANGED <<vars, txs>>

KeyClientStep(c) ==
  \/ /\ \/ \E s \in Streams : OpenKeys(c, s)
        \/ LookAgain(c)
        \/ \E key \in Keys : SubmitKey(c, key)
        \/ ConfirmKey(c)
        \/ SyncKey(c)
        \/ FailKey(c)
     /\ UNCHANGED walletVars
  \/ CloseKeys(c)
=============================================================================
