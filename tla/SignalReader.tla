---------------------------- MODULE SignalReader ----------------------------
(***************************************************************************)
(* Reading the latest signal of a stream by a press of a button or a call  *)
(* of a tool, where SignalDelivery has the listener.                       *)
(*                                                                         *)
(*   frontend/app/stream/[id]/DecryptPanel.tsx, TradeSignalCard.tsx        *)
(*   mcp-server/src/server.ts   decrypt_latest, decrypt_by_hash            *)
(*   sdk/src/index.ts           decryptLatestSignalWithKeys, decryptSignal *)
(*   backend/src/routes.ts      GET /signals/latest, /storage/...          *)
(*                                                                         *)
(* A reader learns which signal it is, then asks for the pieces by their   *)
(* hashes; the backend has them while no other signal has replaced it.  It *)
(* signs as the wallet that subscribed or as an agent of that wallet.  One *)
(* stream and one reader; what a reader may do changes at any moment.      *)
(***************************************************************************)
EXTENDS FiniteSets, Web

CONSTANT Signals

(* subscription: the wallet's is active.  link: the agent is linked to the  *)
(* stream.  key: the wallet's registered key is the one the reader sends.   *)
Rights == {"subscription", "link", "key"}
Panels == {"decrypt panel", "public panel", "trade card"}
Tools == {"decrypt_latest", "decrypt_by_hash"}

VARIABLES
  reader, byAgent, public,
  latest,   \* the one signal the backend has of the stream
  stored,   \* auxiliary: what it ever had
  opened,   \* signals whose keybox has an entry for the reader's key
  rights,   \* what the reader has now
  meta,     \* the signal a page noted when it was opened
  reading,  \* the step of each press or call
  result    \* what is shown or was returned last

readerVars == <<reader, byAgent, public, latest, stored, opened, rights, meta, reading, result>>

Steps ==
  {"mount", "latest", "lookup", "link", "subscription", "key", "entry", "payload", "answer"}
(* were, had, auxiliary: what was the latest signal, and the rights the     *)
(* reader had, at some moment since it asked.                               *)
Readings ==
  [at : Steps, signal : Signals \cup {None}, were : SUBSET Signals, had : SUBSET Rights]
Results == [signal : Signals, were : SUBSET Signals, had : SUBSET Rights]

ReaderTypeOK ==
  /\ reader \in Panels \cup Tools /\ byAgent \in BOOLEAN /\ public \in BOOLEAN
  /\ latest \in Signals \cup {None} /\ stored \subseteq Signals /\ opened \subseteq stored
  /\ rights \subseteq Rights /\ meta \in Signals \cup {None}
  /\ reading \in [Requests -> Readings \cup {None}]
  /\ result \in Results \cup {None}

NoReader ==
  /\ reader = "decrypt panel" /\ byAgent = FALSE /\ public = FALSE
  /\ latest = None /\ stored = {} /\ opened = {} /\ rights = {} /\ meta = None
  /\ reading = [r \in Requests |-> None] /\ result = None

ReaderInit ==
  /\ reader \in Panels \cup Tools
  /\ byAgent \in BOOLEAN /\ (byAgent => reader \in Tools)
  /\ public \in BOOLEAN
  /\ reader = "decrypt panel" => ~public
  /\ reader \in {"public panel", "trade card"} => public
  /\ latest = None /\ stored = {} /\ opened = {} /\ rights = {} /\ meta = None
  /\ reading = [r \in Requests |-> None] /\ result = None

(* A link matters to an agent, a key to a private stream. *)
Needed ==
  {"subscription"} \cup (IF byAgent THEN {"link"} ELSE {}) \cup (IF public THEN {} ELSE {"key"})

-----------------------------------------------------------------------------
(* Asking. *)

Idle(r) == reading[r] = None
world == <<reader, byAgent, public, latest, stored, opened, rights>>
Becomes(r, call) == reading' = [reading EXCEPT ![r] = call]
Ask(r, step, signal) ==
  /\ Idle(r)
  /\ Becomes(r, [at |-> step, signal |-> signal, were |-> {latest} \ {None}, had |-> rights])
  /\ UNCHANGED <<world, meta>>

(* The page is opened, or opened again: what it was doing is forgotten.     *)
OpenPage(r) ==
  /\ reader \in {"public panel", "trade card"}
  /\ meta' = None /\ result' = None
  /\ reading' = [q \in Requests |->
       IF q = r THEN [at |-> "mount", signal |-> None, were |-> {}, had |-> {}] ELSE None]
  /\ UNCHANGED world
Note(r) ==
  /\ ~Idle(r) /\ reading[r].at = "mount"
  /\ meta' \in {latest, None}
  /\ Becomes(r, None) /\ UNCHANGED <<world, result>>

NonePressed == {r \in Requests : ~Idle(r) /\ reading[r].at # "mount"} = {}

(* A retry starts from the signal noted when the page was opened, too.      *)
LoadLatestPublicSignal(r) ==
  /\ reader = "public panel" /\ NonePressed /\ result = None
  /\ Ask(r, IF meta = None THEN "latest" ELSE "lookup", meta) /\ UNCHANGED result

DecryptAndParse(r) ==
  /\ reader = "trade card" /\ NonePressed /\ meta # None /\ result = None
  /\ Ask(r, "lookup", meta) /\ UNCHANGED result

(* The button may be pressed again before the first answer. *)
Decrypt(r) == reader = "decrypt panel" /\ Ask(r, "latest", None) /\ result' = None

(* Calls of a tool share nothing: one at a time. *)
DecryptLatest(r) ==
  reader = "decrypt_latest" /\ NonePressed /\ Ask(r, "latest", None) /\ UNCHANGED result
DecryptByHash(r) ==
  /\ reader = "decrypt_by_hash" /\ NonePressed /\ UNCHANGED result
  /\ \E signal \in stored : Ask(r, "latest", signal)

-----------------------------------------------------------------------------
(* Serving: each check reads what is true when it is made. *)

Stored_Slip(call) == call.signal \in stored
Stored(call) == call.signal = latest

Found(call) == latest # None /\ call.signal \in {None, latest}
Linked == "link" \in rights
Subscribed == "subscription" \in rights
KeyMatches == "key" \in rights
Entry(call) == Stored(call) /\ call.signal \in opened

Granted(call) ==
  CASE call.at = "latest" -> Found(call)
    [] call.at \in {"lookup", "payload"} -> Stored(call)
    [] call.at = "link" -> Linked
    [] call.at = "subscription" -> Subscribed
    [] call.at = "key" -> KeyMatches
    [] call.at = "entry" -> Entry(call)

(* A public payload is behind the link and the subscription; a ciphertext   *)
(* is behind nothing, its key is behind both and the registered key.        *)
After(step) ==
  CASE step = "latest" -> "lookup"
    [] step = "lookup" -> IF byAgent THEN "link" ELSE "subscription"
    [] step = "link" -> "subscription"
    [] step = "subscription" -> IF public THEN "payload" ELSE "key"
    [] step = "key" -> "entry"
    [] step = "entry" -> "payload"
    [] step = "payload" -> "answer"

Serve(r) ==
  /\ ~Idle(r) /\ reading[r].at \notin {"mount", "answer"} /\ Granted(reading[r])
  /\ LET call == reading[r]
     IN  Becomes(r, [call EXCEPT !.at = After(call.at),
                                 !.signal = IF call.at = "latest" THEN latest ELSE @])
  /\ UNCHANGED <<world, meta, result>>

(* Refused, failed, or too old for the caller. *)
Refuse(r) ==
  /\ ~Idle(r) /\ reading[r].at # "mount"
  /\ Becomes(r, None) /\ UNCHANGED <<world, meta, result>>

(* A text that is no trade ends the card. *)
Show(r) ==
  /\ ~Idle(r) /\ reading[r].at = "answer"
  /\ LET call == reading[r]
     IN  \/ /\ result' = [signal |-> call.signal, were |-> call.were, had |-> call.had]
            /\ UNCHANGED meta
         \/ reader = "trade card" /\ meta' = None /\ UNCHANGED result
  /\ Becomes(r, None) /\ UNCHANGED world

-----------------------------------------------------------------------------
(* Meanwhile. *)

Elapse(signals, kept) ==
  reading' = [r \in Requests |->
    IF Idle(r) THEN None
    ELSE [reading[r] EXCEPT !.were = @ \cup signals, !.had = @ \cup kept]]

(* A private signal is sealed afresh; a public text may come back. *)
Publish(signal, sealed) ==
  /\ signal # latest /\ (~public => signal \notin stored)
  /\ latest' = signal /\ stored' = stored \cup {signal}
  /\ sealed => ~public
  /\ opened' = IF sealed THEN opened \cup {signal} ELSE opened
  /\ Elapse({signal}, {})
  /\ UNCHANGED <<reader, byAgent, public, rights, meta, result>>

ChangeRights(now) ==
  /\ now \subseteq Needed /\ now # rights /\ rights' = now /\ Elapse({}, now)
  /\ UNCHANGED <<reader, byAgent, public, latest, stored, opened, meta, result>>

ReaderNext ==
  \/ \E r \in Requests :
       \/ OpenPage(r) \/ Note(r)
       \/ LoadLatestPublicSignal(r) \/ DecryptAndParse(r) \/ Decrypt(r)
       \/ DecryptLatest(r) \/ DecryptByHash(r)
       \/ Serve(r) \/ Refuse(r) \/ Show(r)
  \/ \E signal \in Signals, sealed \in BOOLEAN : Publish(signal, sealed)
  \/ \E now \in SUBSET Rights : ChangeRights(now)

ReaderSpec == ReaderInit /\ [][ReaderNext]_readerVars

(* What a reader is shown was the stream's latest signal at some moment     *)
(* since it asked, and since then it was subscribed, linked if it is an     *)
(* agent and, for a private signal, registered with its key: however old    *)
(* the note of the page and whatever is published, cancelled, unlinked or   *)
(* rotated between the requests.                                            *)
ShownInTime ==
  result # None => result.signal \in result.were /\ Needed \subseteq result.had
=============================================================================
