--------------------------- MODULE SqlSignalStore ---------------------------
(***************************************************************************)
(* backend/src/signals/SqlSignalStore.ts over its PostgreSQL schema: the   *)
(* statements of one publish, run by concurrent requests, each on its own  *)
(* pooled connection, and the pages that poll the event log.               *)
(*                                                                         *)
(* The database is READ COMMITTED: statements of a transaction touch       *)
(* nothing others can see before COMMIT, a row that was inserted or        *)
(* updated stays locked until then, and the values of a BIGSERIAL are      *)
(* given out once, rollback or not.                                        *)
(*                                                                         *)
(* A signal stands for its payload and so for its hash.  A private payload *)
(* is sealed with a fresh key: no two publishes store the same one.  A     *)
(* public payload is its text, and may come back.                          *)
(***************************************************************************)
EXTENDS Integers, FiniteSets, FiniteSetsExt

CONSTANTS
  Streams, Signals, Readers,
  PublicSignals, \* the signals with visibility "public"
  Connections,   \* connections of the pool
  Pages,         \* the streams somebody has a page open on
  PageLimit,     \* the limit a page asks for
  MaxAnswers,    \* bound on the answers on their way to a page
  MaxEvents,     \* bound on the event ids handed out
  NoRow, NoTxn

ASSUME StoreAssumption ==
  /\ PublicSignals \subseteq Signals
  /\ Pages \subseteq Streams
  /\ PageLimit \in Nat \ {0}
  /\ MaxAnswers \in Nat
  /\ MaxEvents \in Nat

EventIds == 1 .. MaxEvents

Phases == {"upsert", "event", "keybox", "commit"}

(* keybox_hash is the hash of the stringified keybox: an empty one has the  *)
(* same hash whatever the signal, any other is as fresh as its wrapped keys. *)
EmptyKeybox == "hash of {}"
NoKeybox == "null"
KeyboxHashes == Signals \cup {EmptyKeybox, NoKeybox}

KeyboxHash(signal, readers) ==
  CASE signal \in PublicSignals -> NoKeybox
    [] signal \notin PublicSignals /\ readers = {} -> EmptyKeybox
    [] OTHER -> signal

LatestRows == [signal : Signals, keyboxHash : KeyboxHashes]
KeyboxRows == [stream : Streams, reader : Readers, wraps : Signals,
               keyboxHash : KeyboxHashes]
EventRows == [id : EventIds, stream : Streams, signal : Signals]
Transactions ==
  [phase : Phases, stream : Streams, signal : Signals,
   readers : SUBSET Readers, event : EventIds \cup {0}]

ASSUME NothingAssumption == NoRow \notin LatestRows

(* A stream page keeps lastEventIdRef; its requests overlap when the first  *)
(* load or a poll takes longer than the interval.  "from" is the newest     *)
(* event a request without a cursor was answered with.                      *)
Answers == [initial : BOOLEAN, after : 0 .. MaxEvents, ids : SUBSET EventIds]
PageStates == [from : 0 .. MaxEvents, cursor : 0 .. MaxEvents,
               received : SUBSET EventIds, answers : SUBSET Answers]

VARIABLES
  signalsLatest,  \* signals_latest by stream, as committed
  keyboxesLatest, \* keyboxes_latest, as committed
  signalsEvents,  \* signals_events, as committed
  nextEventId,    \* the sequence behind signals_events.id
  txn,            \* the transaction open on each connection
  issued,         \* private signals generated so far
  page            \* the cursor of each open page and what it was sent

tables == <<signalsLatest, keyboxesLatest, signalsEvents>>
vars == <<tables, nextEventId, txn, issued, page>>

TypeOK ==
  /\ signalsLatest \in [Streams -> LatestRows \cup {NoRow}]
  /\ keyboxesLatest \subseteq KeyboxRows
  /\ signalsEvents \subseteq EventRows
  /\ nextEventId \in 1 .. MaxEvents + 1
  /\ txn \in [Connections -> Transactions \cup {NoTxn}]
  /\ issued \subseteq Signals \ PublicSignals
  /\ page \in [Pages -> PageStates]

Init ==
  /\ signalsLatest = [s \in Streams |-> NoRow]
  /\ keyboxesLatest = {}
  /\ signalsEvents = {}
  /\ nextEventId = 1
  /\ txn = [c \in Connections |-> NoTxn]
  /\ issued = {}
  /\ page = [s \in Pages |->
       [from |-> 0, cursor |-> 0, received |-> {}, answers |-> {}]]

-----------------------------------------------------------------------------
(* Locks.  As in SubscriptionRoyalty, a name ending in _Slip is the next    *)
(* definition as a bug would have it.                                       *)

Open(c) == txn[c] # NoTxn

(* Every statement is awaited before the next one is sent. *)
AtPhase(c, phase) == Open(c) /\ txn[c].phase = phase
HoldsRow(c) == Open(c) /\ txn[c].phase # "upsert"

RowHas(s, signal) == signalsLatest[s] # NoRow /\ signalsLatest[s].signal = signal

(* An upsert waits for a transaction that wrote the row of the same stream, *)
(* wrote the same signal_hash, or is replacing the row that has it.  Without *)
(* BEGIN the lock would end with the statement.                             *)
Waits_Slip(c) == FALSE
Waits(c) ==
  \E d \in Connections \ {c} :
    /\ HoldsRow(d)
    /\ \/ txn[d].stream = txn[c].stream
       \/ txn[d].signal = txn[c].signal
       \/ RowHas(txn[d].stream, txn[c].signal)

(* signal_hash is UNIQUE and the upsert only resolves conflicts on stream_id. *)
Unique_Slip(c) == TRUE
Unique(c) ==
  \A s \in Streams \ {txn[c].stream} : ~RowHas(s, txn[c].signal)

KeyboxAfter_Slip(s, signal, readers) ==
  keyboxesLatest \cup
    {[stream |-> s, reader |-> r, wraps |-> signal,
      keyboxHash |-> KeyboxHash(signal, readers)] : r \in readers}

(* DELETE of the stream's rows, then one INSERT per entry of the new keybox. *)
KeyboxAfter(s, signal, readers) ==
  {row \in keyboxesLatest : row.stream # s} \cup
    {[stream |-> s, reader |-> r, wraps |-> signal,
      keyboxHash |-> KeyboxHash(signal, readers)] : r \in readers}

-----------------------------------------------------------------------------
(* The statements of upsertPublicSignal and upsertPrivateSignal. *)

Begin(c, s, signal, readers) ==
  /\ ~Open(c)
  /\ signal \in PublicSignals => readers = {}
  /\ signal \notin issued
  /\ issued' = IF signal \in PublicSignals THEN issued ELSE issued \cup {signal}
  /\ txn' = [txn EXCEPT ![c] =
       [phase |-> "upsert", stream |-> s, signal |-> signal,
        readers |-> readers, event |-> 0]]
  /\ UNCHANGED <<tables, nextEventId, page>>

UpsertLatest(c) ==
  /\ AtPhase(c, "upsert")
  /\ ~Waits(c)
  /\ Unique(c)
  /\ txn' = [txn EXCEPT ![c] = [@ EXCEPT !.phase = "event"]]
  /\ UNCHANGED <<tables, nextEventId, issued, page>>

InsertEvent(c) ==
  /\ AtPhase(c, "event")
  /\ nextEventId \in EventIds
  /\ txn' = [txn EXCEPT ![c] = [@ EXCEPT !.phase = "keybox", !.event = nextEventId]]
  /\ nextEventId' = nextEventId + 1
  /\ UNCHANGED <<tables, issued, page>>

ReplaceKeybox(c) ==
  /\ AtPhase(c, "keybox")
  /\ txn' = [txn EXCEPT ![c] = [@ EXCEPT !.phase = "commit"]]
  /\ UNCHANGED <<tables, nextEventId, issued, page>>

Commit(c) ==
  /\ AtPhase(c, "commit")
  /\ signalsLatest' = [signalsLatest EXCEPT ![txn[c].stream] =
       [signal |-> txn[c].signal,
        keyboxHash |-> KeyboxHash(txn[c].signal, txn[c].readers)]]
  /\ keyboxesLatest' = KeyboxAfter(txn[c].stream, txn[c].signal, txn[c].readers)
  /\ signalsEvents' = signalsEvents \cup
       {[id |-> txn[c].event, stream |-> txn[c].stream, signal |-> txn[c].signal]}
  /\ txn' = [txn EXCEPT ![c] = NoTxn]
  /\ UNCHANGED <<nextEventId, issued, page>>

(* Any statement may fail: a unique violation, a deadlock the database      *)
(* breaks, a lost connection, a backend that stops.                         *)
Rollback(c) ==
  /\ Open(c)
  /\ txn' = [txn EXCEPT ![c] = NoTxn]
  /\ UNCHANGED <<tables, nextEventId, issued, page>>

-----------------------------------------------------------------------------
(* Reading. *)

EventsOf(s) == {e.id : e \in {row \in signalsEvents : row.stream = s}}

(* LIMIT: the first of the ids in ascending or descending order. *)
Oldest(ids) == {i \in ids : Cardinality({j \in ids : j < i}) < PageLimit}
Newest(ids) == {i \in ids : Cardinality({j \in ids : j > i}) < PageLimit}

(* listSignalEvents: "after" counts only when it is not zero, and then the  *)
(* page gets the oldest of the later events.                                *)
ListSignalEvents_Slip(s, after) ==
  Newest({i \in EventsOf(s) : i > after})
ListSignalEvents(s, after) ==
  IF after = 0 THEN Newest(EventsOf(s))
               ELSE Oldest({i \in EventsOf(s) : i > after})

Ask(s, initial, after) ==
  /\ Cardinality(page[s].answers) < MaxAnswers
  /\ page' = [page EXCEPT ![s].answers = @ \cup
       {[initial |-> initial, after |-> after, ids |-> ListSignalEvents(s, after)]}]
  /\ UNCHANGED <<tables, nextEventId, txn, issued>>

AskInitial(s) == Ask(s, TRUE, 0)
AskAfterCursor(s) == Ask(s, FALSE, page[s].cursor)

(* The first load sets the cursor; a poll sets it to the newest of its own  *)
(* answer or of the cursor it asked with.  Nothing happens on no events.    *)
CursorAfter(answer) == Max(answer.ids \cup {answer.after})

ReceiveAnswer(s, answer) ==
  /\ page' = [page EXCEPT ![s] =
       [from     |-> IF answer.after = 0 /\ answer.ids # {}
                     THEN Max({@.from, CursorAfter(answer)}) ELSE @.from,
        cursor   |-> IF answer.ids # {} THEN CursorAfter(answer) ELSE @.cursor,
        received |-> @.received \cup answer.ids,
        answers  |-> @.answers \ {answer}]]
  /\ UNCHANGED <<tables, nextEventId, txn, issued>>

-----------------------------------------------------------------------------

Next ==
  \/ \E c \in Connections, s \in Streams, signal \in Signals,
        readers \in SUBSET Readers : Begin(c, s, signal, readers)
  \/ \E c \in Connections :
       \/ UpsertLatest(c)
       \/ InsertEvent(c)
       \/ ReplaceKeybox(c)
       \/ Commit(c)
       \/ Rollback(c)
  \/ \E s \in Pages :
       \/ AskInitial(s)
       \/ AskAfterCursor(s)
       \/ \E answer \in page[s].answers : ReceiveAnswer(s, answer)

Spec == Init /\ [][Next]_vars

-----------------------------------------------------------------------------
(* Properties. *)

(* The keybox a listener is served belongs to the signal its stream shows:  *)
(* concurrent publishes of the same stream never leave entries of one beside *)
(* the payload of the other, and a public post leaves no entries behind.    *)
KeyboxMatchesLatest ==
  \A row \in keyboxesLatest :
    /\ signalsLatest[row.stream] # NoRow
    /\ signalsLatest[row.stream].signal = row.wraps
    /\ signalsLatest[row.stream].keyboxHash = row.keyboxHash

(* The newest event of a stream is the signal the stream shows, although    *)
(* ids are drawn before the transactions commit and rollbacks leave gaps:   *)
(* the backfill schema.ts runs at every start finds nothing to add.         *)
NewestEventIsLatest ==
  \A s \in Streams :
    IF EventsOf(s) = {}
    THEN signalsLatest[s] = NoRow
    ELSE \E e \in signalsEvents :
           /\ e.stream = s
           /\ e.id = Max(EventsOf(s))
           /\ RowHas(s, e.signal)

(* A stream page misses nothing of its stream: every event between the     *)
(* newest one it started from and its cursor has been sent to it, however   *)
(* slowly it polls, whatever commits in between, and even when the first    *)
(* load and the polls overlap and answer out of order.                      *)
PageMissesNothing ==
  \A s \in Pages :
    {i \in EventsOf(s) : page[s].from < i /\ i <= page[s].cursor}
      \subseteq page[s].received

(* Seen through its committed rows, the store changes one whole post at a   *)
(* time: the board of SignalBoard.tla.                                      *)
PostOf(s) ==
  IF signalsLatest[s] = NoRow
  THEN NoRow
  ELSE [signal  |-> signalsLatest[s].signal,
        readers |-> {row.reader : row \in {k \in keyboxesLatest : k.stream = s}}]

Board == INSTANCE SignalBoard WITH
  NoPost <- NoRow, post <- [s \in Streams |-> PostOf(s)]

ImplementsBoard == Board!Spec
=============================================================================
