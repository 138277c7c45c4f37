------------------------ MODULE SqlSignalStore_proofs ------------------------
(* Theorems about SqlSignalStore, for every value of its constants. *)
EXTENDS SqlSignalStore, TLAPS, FiniteSetTheorems, WellFoundedInduction

(* A set of numbers with a bound has a greatest. *)
LEMMA Greatest ==
  ASSUME NEW n \in Nat, NEW S, S \subseteq 0 .. n, S # {}
  PROVE  Max(S) \in S /\ \A x \in S : x <= Max(S)
<1> DEFINE Above(x) == {y \in S : y > x}
           F == {Above(x) : x \in S}
<1>1. IsFiniteSet(S)
  <2>1. IsFiniteSet(0 .. n)
    BY FS_Interval, 0 \in Int, n \in Int
  <2> QED
    BY <2>1, FS_Subset
<1>2. F \subseteq FiniteSubsetsOf(S) /\ F # {}
  <2>1. \A x \in S : Above(x) \in SUBSET S
    OBVIOUS
  <2>2. \A x \in S : IsFiniteSet(Above(x))
    BY <1>1, <2>1, FS_Subset
  <2> QED
    BY <2>1, <2>2 DEF FiniteSubsetsOf
<1>3. PICK A \in F : \A B \in F : <<B, A>> \notin StrictSubsetOrdering(S)
  BY <1>2, FS_StrictSubsetOrderingWellFounded, WFMin
<1>4. PICK m \in S : A = Above(m)
  OBVIOUS
<1>5. \A x \in S : m >= x
  <2> SUFFICES ASSUME NEW x \in S, x > m PROVE FALSE
    OBVIOUS
  <2>1. Above(x) \subseteq Above(m) /\ x \in Above(m) /\ x \notin Above(x)
    <3>1. \A y \in S : y \in Int
      OBVIOUS
    <3>2. \A y \in S : y > x => y > m
      BY <3>1
    <3>3. ~(x > x)
      BY <3>1
    <3> QED
      BY <3>2, <3>3
  <2>2. Above(x) # Above(m) /\ Above(x) \in SUBSET S /\ Above(m) \in SUBSET S
    BY <2>1
  <2>3. <<Above(x), A>> \notin StrictSubsetOrdering(S)
    BY <1>3
  <2> HIDE DEF Above, F
  <2>4. <<Above(x), Above(m)>> \in StrictSubsetOrdering(S)
    BY <2>1, <2>2 DEF StrictSubsetOrdering
  <2> QED
    BY <1>4, <2>3, <2>4
<1>6. \E x \in S : \A y \in S : x >= y
  BY <1>5
<1> DEFINE g == CHOOSE x \in S : \A y \in S : x >= y
<1>7. g \in S /\ \A y \in S : g >= y
  BY <1>6
<1> HIDE DEF g
<1>8. g = Max(S)
  BY DEF g, Max
<1> QED
  BY <1>7, <1>8

-----------------------------------------------------------------------------
(* Type correctness. *)

LEMMA KeyboxHashType ==
  ASSUME NEW signal \in Signals, NEW readers
  PROVE  KeyboxHash(signal, readers) \in KeyboxHashes
BY DEF KeyboxHash, KeyboxHashes

LEMMA EventsType ==
  ASSUME TypeOK, NEW s
  PROVE  EventsOf(s) \subseteq EventIds
BY DEF TypeOK, EventsOf, EventRows

LEMMA ListedType ==
  ASSUME TypeOK, NEW s, NEW after
  PROVE  ListSignalEvents(s, after) \subseteq EventsOf(s)
BY DEF ListSignalEvents, Newest, Oldest

LEMMA CursorType ==
  ASSUME NEW answer \in Answers
  PROVE  /\ CursorAfter(answer) \in 0 .. MaxEvents
         /\ CursorAfter(answer) \in answer.ids \cup {answer.after}
         /\ \A i \in answer.ids : i <= CursorAfter(answer)
<1> DEFINE S == answer.ids \cup {answer.after}
<1>1. S \subseteq 0 .. MaxEvents /\ S # {}
  BY StoreAssumption DEF Answers, EventIds
<1>2. Max(S) \in S /\ \A x \in S : x <= Max(S)
  BY <1>1, StoreAssumption, Greatest
<1> QED
  BY <1>1, <1>2 DEF CursorAfter

LEMMA TypeInit == Init => TypeOK
BY StoreAssumption DEF Init, TypeOK, PageStates, EventIds

LEMMA StatementType ==
  ASSUME TypeOK, NEW c \in Connections,
         UpsertLatest(c) \/ InsertEvent(c) \/ ReplaceKeybox(c) \/ Rollback(c)
  PROVE  TypeOK'
<1> USE DEF TypeOK, tables
<1>1. Open(c) => txn[c] \in Transactions
  BY DEF Open
<1>2. CASE UpsertLatest(c)
  <2>1. [txn[c] EXCEPT !.phase = "event"] \in Transactions
    BY <1>1, <1>2 DEF UpsertLatest, AtPhase, Transactions, Phases
  <2> QED
    BY <1>2, <2>1 DEF UpsertLatest
<1>3. CASE InsertEvent(c)
  <2>1. [txn[c] EXCEPT !.phase = "keybox", !.event = nextEventId] \in Transactions
    BY <1>1, <1>3 DEF InsertEvent, AtPhase, Transactions, Phases
  <2>2. nextEventId' \in 1 .. MaxEvents + 1
    BY <1>3, StoreAssumption DEF InsertEvent, EventIds
  <2> QED
    BY <1>3, <2>1, <2>2 DEF InsertEvent
<1>4. CASE ReplaceKeybox(c)
  <2>1. [txn[c] EXCEPT !.phase = "commit"] \in Transactions
    BY <1>1, <1>4 DEF ReplaceKeybox, AtPhase, Transactions, Phases
  <2> QED
    BY <1>4, <2>1 DEF ReplaceKeybox
<1>5. CASE Rollback(c)
  BY <1>5 DEF Rollback
<1> QED
  BY <1>2, <1>3, <1>4, <1>5

LEMMA CommitType ==
  ASSUME TypeOK, NEW c \in Connections, Commit(c), txn[c].event \in EventIds
  PROVE  TypeOK'
<1> USE DEF TypeOK, Commit
<1>1. txn[c] \in Transactions
  BY DEF AtPhase, Open
<1>2. /\ txn[c].stream \in Streams /\ txn[c].signal \in Signals
      /\ txn[c].readers \in SUBSET Readers
  BY <1>1 DEF Transactions
<1>3. KeyboxHash(txn[c].signal, txn[c].readers) \in KeyboxHashes
  BY <1>2, KeyboxHashType
<1>4. signalsLatest' \in [Streams -> LatestRows \cup {NoRow}]
  BY <1>2, <1>3 DEF LatestRows
<1>5. keyboxesLatest' \subseteq KeyboxRows
  BY <1>2, <1>3 DEF KeyboxAfter, KeyboxRows
<1>6. signalsEvents' \subseteq EventRows
  BY <1>2 DEF EventRows
<1> QED
  BY <1>4, <1>5, <1>6

LEMMA PageType ==
  ASSUME TypeOK, NEW s \in Pages,
         \/ AskInitial(s) \/ AskAfterCursor(s)
         \/ \E answer \in page[s].answers : ReceiveAnswer(s, answer)
  PROVE  TypeOK'
<1> USE DEF TypeOK, tables
<1>1. page[s] \in PageStates
  OBVIOUS
<1>2. ASSUME NEW initial \in BOOLEAN, NEW after \in 0 .. MaxEvents, Ask(s, initial, after)
      PROVE  TypeOK'
  <2> DEFINE answer == [initial |-> initial, after |-> after, ids |-> ListSignalEvents(s, after)]
  <2>1. answer \in Answers
    BY ListedType, EventsType DEF Answers
  <2>2. page' = [page EXCEPT ![s].answers = @ \cup {answer}]
    BY <1>2 DEF Ask
  <2> HIDE DEF answer
  <2>3. page' \in [Pages -> PageStates]
    BY <1>1, <2>1, <2>2 DEF PageStates
  <2> QED
    BY <1>2, <2>3 DEF Ask
<1>3. CASE AskInitial(s)
  <2>1. 0 \in 0 .. MaxEvents
    BY StoreAssumption
  <2>2. Ask(s, TRUE, 0)
    BY <1>3 DEF AskInitial
  <2> QED
    BY <1>2, <2>1, <2>2
<1>4. CASE AskAfterCursor(s)
  BY <1>1, <1>2, <1>4 DEF AskAfterCursor, PageStates
<1>5. ASSUME NEW answer \in page[s].answers, ReceiveAnswer(s, answer)
      PROVE  TypeOK'
  <2>1. answer \in Answers
    BY <1>1 DEF PageStates
  <2>2. CursorAfter(answer) \in 0 .. MaxEvents
    BY <2>1, CursorType
  <2>3. Max({page[s].from, CursorAfter(answer)}) \in 0 .. MaxEvents
    <3>1. {page[s].from, CursorAfter(answer)} \subseteq 0 .. MaxEvents
      BY <1>1, <2>2 DEF PageStates
    <3> QED
      BY <3>1, Greatest, StoreAssumption
  <2> DEFINE from == IF answer.after = 0 /\ answer.ids # {}
                     THEN Max({page[s].from, CursorAfter(answer)}) ELSE page[s].from
             cursor == IF answer.ids # {} THEN CursorAfter(answer) ELSE page[s].cursor
             next == [from |-> from, cursor |-> cursor,
                      received |-> page[s].received \cup answer.ids,
                      answers |-> page[s].answers \ {answer}]
  <2>4. from \in 0 .. MaxEvents /\ cursor \in 0 .. MaxEvents
    BY <1>1, <2>2, <2>3 DEF PageStates
  <2>5. page' = [page EXCEPT ![s] = next]
    BY <1>5 DEF ReceiveAnswer
  <2> HIDE DEF from, cursor
  <2>6. next \in PageStates
    BY <1>1, <2>1, <2>4 DEF PageStates, Answers
  <2> HIDE DEF next
  <2>7. page' \in [Pages -> PageStates]
    BY <2>5, <2>6
  <2> QED
    BY <1>5, <2>7 DEF ReceiveAnswer
<1> QED
  BY <1>3, <1>4, <1>5

LEMMA BeginType ==
  ASSUME TypeOK, NEW c \in Connections, NEW s \in Streams, NEW signal \in Signals,
         NEW readers \in SUBSET Readers, Begin(c, s, signal, readers)
  PROVE  TypeOK'
<1> USE DEF TypeOK, tables
<1>1. [phase |-> "upsert", stream |-> s, signal |-> signal, readers |-> readers,
       event |-> 0] \in Transactions
  BY DEF Transactions, Phases
<1>2. issued' \subseteq Signals \ PublicSignals
  BY DEF Begin
<1> QED
  BY <1>1, <1>2 DEF Begin

-----------------------------------------------------------------------------
(* What the locks and the sequence keep apart. *)

(* Two transactions past their upsert are of different streams and store    *)
(* different signals, and no other row has the signal of one.               *)
RowLocked ==
  \A c, d \in Connections :
    c # d /\ HoldsRow(c) /\ HoldsRow(d) =>
      txn[c].stream # txn[d].stream /\ txn[c].signal # txn[d].signal

SignalFree ==
  \A c \in Connections :
    HoldsRow(c) => \A s \in Streams \ {txn[c].stream} : ~RowHas(s, txn[c].signal)

(* An event that is about to be committed is newer than its stream's.       *)
HasEvent(c) == Open(c) /\ txn[c].phase \in {"keybox", "commit"}

EventsOrdered ==
  /\ \A e \in signalsEvents : e.id < nextEventId
  /\ \A c \in Connections : HasEvent(c) =>
       /\ txn[c].event \in EventIds
       /\ txn[c].event < nextEventId
       /\ \A i \in EventsOf(txn[c].stream) : i < txn[c].event

LocksInv == RowLocked /\ SignalFree /\ EventsOrdered
StoreInv == TypeOK /\ LocksInv /\ KeyboxMatchesLatest /\ NewestEventIsLatest

LEMMA StoreInit == Init => StoreInv
<1> SUFFICES ASSUME Init PROVE StoreInv
  OBVIOUS
<1>1. TypeOK
  BY TypeInit
<1>2. LocksInv
  BY DEF Init, LocksInv, RowLocked, SignalFree, EventsOrdered, HasEvent, HoldsRow, Open
<1>3. KeyboxMatchesLatest /\ NewestEventIsLatest
  BY DEF Init, KeyboxMatchesLatest, NewestEventIsLatest, EventsOf
<1> QED
  BY <1>1, <1>2, <1>3 DEF StoreInv

(* The tables are what they were: what is said of them alone still holds.   *)
LEMMA TablesKept ==
  ASSUME StoreInv, UNCHANGED tables
  PROVE  /\ KeyboxMatchesLatest' /\ NewestEventIsLatest'
         /\ \A s : EventsOf(s)' = EventsOf(s)
         /\ \A s, signal : RowHas(s, signal)' <=> RowHas(s, signal)
<1>1. /\ signalsLatest' = signalsLatest /\ keyboxesLatest' = keyboxesLatest
      /\ signalsEvents' = signalsEvents
  BY DEF tables
<1>2. KeyboxMatchesLatest'
  BY <1>1 DEF StoreInv, KeyboxMatchesLatest
<1>3. \A s : EventsOf(s)' = EventsOf(s)
  BY <1>1 DEF EventsOf
<1>4. \A s, signal : RowHas(s, signal)' <=> RowHas(s, signal)
  BY <1>1 DEF RowHas
<1>5. NewestEventIsLatest'
  BY <1>1, <1>3, <1>4 DEF StoreInv, NewestEventIsLatest
<1> QED
  BY <1>2, <1>3, <1>4, <1>5

LEMMA BeginLocks ==
  ASSUME StoreInv, NEW c \in Connections, NEW s \in Streams, NEW signal \in Signals,
         NEW readers \in SUBSET Readers, Begin(c, s, signal, readers)
  PROVE  LocksInv'
<1> USE DEF StoreInv, LocksInv
<1>1. \A t : EventsOf(t)' = EventsOf(t)
  BY TablesKept DEF Begin
<1>2. \A t, x : RowHas(t, x)' <=> RowHas(t, x)
  BY TablesKept DEF Begin
<1> DEFINE next == [phase |-> "upsert", stream |-> s, signal |-> signal,
                    readers |-> readers, event |-> 0]
<1>3. txn' = [txn EXCEPT ![c] = next] /\ UNCHANGED <<signalsEvents, nextEventId>>
  BY DEF Begin, tables
<1>4. next.phase = "upsert"
  OBVIOUS
<1> HIDE DEF next
<1>5. txn'[c] = next /\ \A d \in Connections \ {c} : txn'[d] = txn[d]
  BY <1>3 DEF TypeOK
<1>6. /\ ~HoldsRow(c)' /\ ~HasEvent(c)'
      /\ \A d \in Connections \ {c} : (HoldsRow(d)' <=> HoldsRow(d)) /\ (HasEvent(d)' <=> HasEvent(d))
  BY <1>4, <1>5 DEF HoldsRow, HasEvent, Open
<1>7. RowLocked'
  BY <1>5, <1>6 DEF RowLocked
<1>8. SignalFree'
  BY <1>2, <1>5, <1>6 DEF SignalFree
<1>9. EventsOrdered'
  BY <1>1, <1>3, <1>5, <1>6 DEF EventsOrdered
<1> QED
  BY <1>7, <1>8, <1>9

LEMMA UpsertLocks ==
  ASSUME StoreInv, NEW c \in Connections, UpsertLatest(c)
  PROVE  LocksInv'
<1> USE DEF StoreInv, LocksInv
<1>1. /\ \A t : EventsOf(t)' = EventsOf(t)
      /\ \A t, x : RowHas(t, x)' <=> RowHas(t, x)
  BY TablesKept DEF UpsertLatest
<1>2. /\ txn' = [txn EXCEPT ![c] = [@ EXCEPT !.phase = "event"]]
      /\ Open(c) /\ ~Waits(c) /\ Unique(c)
      /\ UNCHANGED <<signalsEvents, nextEventId>>
  BY DEF UpsertLatest, AtPhase, tables
<1>3. txn[c] \in Transactions
  BY <1>2 DEF TypeOK, Open
<1>4. /\ txn'[c].phase = "event"
      /\ txn'[c].stream = txn[c].stream /\ txn'[c].signal = txn[c].signal
  BY <1>2, <1>3 DEF TypeOK, Transactions
<1>5. \A d \in Connections \ {c} : txn'[d] = txn[d]
  BY <1>2 DEF TypeOK
<1>6. /\ ~HasEvent(c)'
      /\ \A d \in Connections \ {c} : (HoldsRow(d)' <=> HoldsRow(d)) /\ (HasEvent(d)' <=> HasEvent(d))
  BY <1>4, <1>5 DEF HoldsRow, HasEvent, Open
<1>7. \A d \in Connections \ {c} : HoldsRow(d) =>
        txn[d].stream # txn[c].stream /\ txn[d].signal # txn[c].signal
  BY <1>2 DEF Waits
<1>8. RowLocked'
  BY <1>4, <1>5, <1>6, <1>7 DEF RowLocked
<1>9. SignalFree'
  <2>1. \A s \in Streams \ {txn[c].stream} : ~RowHas(s, txn[c].signal)
    BY <1>2 DEF Unique
  <2> QED
    BY <1>1, <1>4, <1>5, <1>6, <2>1 DEF SignalFree
<1>10. EventsOrdered'
  BY <1>1, <1>2, <1>4, <1>5, <1>6 DEF EventsOrdered
<1> QED
  BY <1>8, <1>9, <1>10

LEMMA EventLocks ==
  ASSUME StoreInv, NEW c \in Connections, InsertEvent(c)
  PROVE  LocksInv'
<1> USE DEF StoreInv, LocksInv
<1>1. /\ \A t : EventsOf(t)' = EventsOf(t)
      /\ \A t, x : RowHas(t, x)' <=> RowHas(t, x)
  BY TablesKept DEF InsertEvent
<1>2. /\ txn' = [txn EXCEPT ![c] = [@ EXCEPT !.phase = "keybox", !.event = nextEventId]]
      /\ Open(c) /\ txn[c].phase = "event"
      /\ nextEventId' = nextEventId + 1 /\ nextEventId \in EventIds
      /\ signalsEvents' = signalsEvents
  BY DEF InsertEvent, AtPhase, tables
<1>3. txn[c] \in Transactions
  BY <1>2 DEF TypeOK, Open
<1>4. /\ txn'[c].phase = "keybox" /\ txn'[c].event = nextEventId
      /\ txn'[c].stream = txn[c].stream /\ txn'[c].signal = txn[c].signal
  BY <1>2, <1>3 DEF TypeOK, Transactions
<1>5. \A d \in Connections \ {c} : txn'[d] = txn[d]
  BY <1>2 DEF TypeOK
<1>6. /\ HoldsRow(c)
      /\ \A d \in Connections : HoldsRow(d)' => HoldsRow(d)
      /\ \A d \in Connections \ {c} : HasEvent(d)' => HasEvent(d)
  BY <1>2, <1>4, <1>5 DEF HoldsRow, HasEvent, Open
<1>7. RowLocked'
  BY <1>4, <1>5, <1>6 DEF RowLocked
<1>8. SignalFree'
  BY <1>1, <1>4, <1>5, <1>6 DEF SignalFree
<1>9. EventsOrdered'
  <2>1. nextEventId \in Nat /\ \A e \in signalsEvents : e.id \in Nat
    BY StoreAssumption DEF TypeOK, EventRows, EventIds
  <2>2. \A e \in signalsEvents' : e.id < nextEventId'
    BY <1>2, <2>1 DEF EventsOrdered
  <2>3. \A i \in EventsOf(txn[c].stream) : i < nextEventId
    BY DEF EventsOrdered, EventsOf
  <2>4. /\ txn'[c].event \in EventIds /\ txn'[c].event < nextEventId'
        /\ \A i \in EventsOf(txn'[c].stream) : i < txn'[c].event
    BY <1>2, <1>4, <2>1, <2>3
  <2>5. ASSUME NEW d \in Connections \ {c}, HasEvent(d)'
        PROVE  /\ txn'[d].event \in EventIds /\ txn'[d].event < nextEventId'
               /\ \A i \in EventsOf(txn'[d].stream) : i < txn'[d].event
    <3>1. HasEvent(d) /\ txn'[d] = txn[d]
      BY <1>5, <1>6, <2>5
    <3>2. txn[d].event \in EventIds /\ txn[d].event < nextEventId
      BY <3>1 DEF EventsOrdered
    <3>3. txn[d].event < nextEventId + 1
      BY <2>1, <3>2 DEF EventIds
    <3> QED
      BY <1>2, <3>1, <3>2, <3>3 DEF EventsOrdered
  <2>6. \A t : EventsOf(t)' = EventsOf(t)
    BY <1>1
  <2> QED
    BY <2>2, <2>4, <2>5, <2>6 DEF EventsOrdered
<1> QED
  BY <1>7, <1>8, <1>9

LEMMA KeyboxLocks ==
  ASSUME StoreInv, NEW c \in Connections, ReplaceKeybox(c) \/ Rollback(c)
  PROVE  LocksInv'
<1> USE DEF StoreInv, LocksInv
<1>1. /\ \A t : EventsOf(t)' = EventsOf(t)
      /\ \A t, x : RowHas(t, x)' <=> RowHas(t, x)
  BY TablesKept DEF ReplaceKeybox, Rollback
<1>2. UNCHANGED <<signalsEvents, nextEventId>>
  BY DEF ReplaceKeybox, Rollback, tables
<1>3. \A d \in Connections \ {c} : txn'[d] = txn[d]
  BY DEF TypeOK, ReplaceKeybox, Rollback
<1>4. HoldsRow(c)' =>
        /\ HoldsRow(c) /\ HasEvent(c)
        /\ txn'[c].stream = txn[c].stream /\ txn'[c].signal = txn[c].signal
        /\ txn'[c].event = txn[c].event
  <2>1. CASE ReplaceKeybox(c)
    <3>1. txn[c] \in Transactions /\ Open(c) /\ txn[c].phase = "keybox"
      BY <2>1 DEF TypeOK, ReplaceKeybox, AtPhase, Open
    <3>2. txn' = [txn EXCEPT ![c] = [@ EXCEPT !.phase = "commit"]]
      BY <2>1 DEF ReplaceKeybox
    <3> QED
      BY <3>1, <3>2 DEF TypeOK, Transactions, HoldsRow, HasEvent
  <2>2. CASE Rollback(c)
    <3>1. txn'[c] = NoTxn
      BY <2>2 DEF TypeOK, Rollback
    <3> QED
      BY <3>1 DEF HoldsRow, Open
  <2> QED
    BY <2>1, <2>2
<1>5. \A d \in Connections :
        HoldsRow(d)' => HoldsRow(d) /\ txn'[d].stream = txn[d].stream
                                    /\ txn'[d].signal = txn[d].signal
  BY <1>3, <1>4 DEF HoldsRow, Open
<1>6. \A d \in Connections :
        HasEvent(d)' => HasEvent(d) /\ txn'[d].stream = txn[d].stream
                                    /\ txn'[d].event = txn[d].event
  BY <1>3, <1>4 DEF HoldsRow, HasEvent, Open
<1>7. RowLocked'
  BY <1>5 DEF RowLocked
<1>8. SignalFree'
  BY <1>1, <1>5 DEF SignalFree
<1>9. EventsOrdered'
  BY <1>1, <1>2, <1>6 DEF EventsOrdered
<1> QED
  BY <1>7, <1>8, <1>9

(* What a commit makes of the tables; s and signal are rigid, the           *)
(* transaction that carried them is gone afterwards.                        *)
LEMMA CommitTables ==
  ASSUME StoreInv, NEW c \in Connections, Commit(c),
         NEW s, s = txn[c].stream, NEW signal, signal = txn[c].signal
  PROVE  /\ s \in Streams /\ signal \in Signals /\ HoldsRow(c) /\ HasEvent(c)
         /\ txn[c].readers \in SUBSET Readers
         /\ txn[c].event \in EventIds
         /\ signalsLatest'[s] # NoRow /\ signalsLatest'[s].signal = signal
         /\ signalsLatest'[s].keyboxHash = KeyboxHash(signal, txn[c].readers)
         /\ \A t \in Streams \ {s} : signalsLatest'[t] = signalsLatest[t]
         /\ EventsOf(s)' = EventsOf(s) \cup {txn[c].event}
         /\ \A t \in Streams \ {s} : EventsOf(t)' = EventsOf(t)
         /\ txn'[c] = NoTxn
         /\ \A d \in Connections \ {c} : txn'[d] = txn[d]
<1> USE DEF StoreInv
<1>1. txn[c] \in Transactions /\ Open(c) /\ txn[c].phase = "commit"
  BY DEF TypeOK, Commit, AtPhase, Open
<1>2. s \in Streams /\ signal \in Signals /\ txn[c].readers \in SUBSET Readers
  BY <1>1 DEF Transactions
<1> DEFINE row == [signal |-> signal, keyboxHash |-> KeyboxHash(signal, txn[c].readers)]
           event == [id |-> txn[c].event, stream |-> s, signal |-> signal]
<1>3. row \in LatestRows
  BY <1>2, KeyboxHashType DEF LatestRows
<1>4. signalsLatest' = [signalsLatest EXCEPT ![s] = row]
  BY DEF Commit
<1>5. /\ signalsLatest'[s] = row
      /\ \A t \in Streams \ {s} : signalsLatest'[t] = signalsLatest[t]
  BY <1>2, <1>4 DEF TypeOK
<1>6. row # NoRow
  BY <1>3, NothingAssumption
<1>7. signalsEvents' = signalsEvents \cup {event}
  BY DEF Commit
<1>8. EventsOf(s)' = EventsOf(s) \cup {txn[c].event}
  <2>1. event.id = txn[c].event /\ event.stream = s
    OBVIOUS
  <2> HIDE DEF event
  <2>2. \A e \in signalsEvents' : e \in signalsEvents \/ e = event
    BY <1>7
  <2>3. \A i \in EventsOf(s)' : i \in EventsOf(s) \cup {txn[c].event}
    BY <2>1, <2>2 DEF EventsOf
  <2>4. txn[c].event \in EventsOf(s)' /\ \A i \in EventsOf(s) : i \in EventsOf(s)'
    BY <1>7, <2>1 DEF EventsOf
  <2> QED
    BY <2>3, <2>4
<1>9. \A t \in Streams \ {s} : EventsOf(t)' = EventsOf(t)
  BY <1>7 DEF EventsOf
<1>10. /\ txn'[c] = NoTxn
       /\ \A d \in Connections \ {c} : txn'[d] = txn[d]
  BY DEF Commit, TypeOK
<1>11. HoldsRow(c) /\ HasEvent(c)
  BY <1>1 DEF HoldsRow, HasEvent
<1>12. txn[c].event \in EventIds
  BY <1>11 DEF LocksInv, EventsOrdered
<1> QED
  BY <1>2, <1>5, <1>6, <1>8, <1>9, <1>10, <1>11, <1>12

LEMMA CommitLocks ==
  ASSUME StoreInv, NEW c \in Connections, Commit(c)
  PROVE  LocksInv'
<1> USE DEF StoreInv, LocksInv
<1>1. PICK s : s = txn[c].stream
  OBVIOUS
<1>2. PICK signal : signal = txn[c].signal
  OBVIOUS
<1>3. /\ txn'[c] = NoTxn
      /\ \A d \in Connections \ {c} : txn'[d] = txn[d]
      /\ HoldsRow(c) /\ HasEvent(c) /\ s \in Streams /\ signal \in Signals
  BY <1>1, <1>2, CommitTables
<1>4. /\ ~HoldsRow(c)' /\ ~HasEvent(c)'
      /\ \A d \in Connections \ {c} : (HoldsRow(d)' <=> HoldsRow(d)) /\ (HasEvent(d)' <=> HasEvent(d))
  BY <1>3 DEF HoldsRow, HasEvent, Open
<1>5. RowLocked'
  BY <1>3, <1>4 DEF RowLocked
<1>6. SignalFree'
  <2>1. ASSUME NEW d \in Connections \ {c}, HoldsRow(d),
               NEW t \in Streams \ {txn[d].stream}
        PROVE  ~RowHas(t, txn[d].signal)'
    <3>1. txn'[d] = txn[d]
      BY <1>3
    <3>2. CASE t = s
      <4>1. signalsLatest'[t].signal = signal
        BY <1>1, <1>2, <3>2, CommitTables
      <4>2. txn[d].signal # txn[c].signal
        BY <1>3, <2>1 DEF RowLocked
      <4> QED
        BY <1>2, <3>1, <4>1, <4>2 DEF RowHas
    <3>3. CASE t # s
      <4>1. signalsLatest'[t] = signalsLatest[t]
        BY <1>1, <1>2, <3>3, CommitTables
      <4>2. ~RowHas(t, txn[d].signal)
        BY <2>1 DEF SignalFree
      <4> QED
        BY <3>1, <4>1, <4>2 DEF RowHas
    <3> QED
      BY <3>2, <3>3
  <2> QED
    BY <1>3, <1>4, <2>1 DEF SignalFree, RowHas
<1>7. EventsOrdered'
  <2>1. /\ \A t \in Streams \ {s} : EventsOf(t)' = EventsOf(t)
        /\ EventsOf(s)' = EventsOf(s) \cup {txn[c].event}
    BY <1>1, <1>2, CommitTables
  <2>2. nextEventId' = nextEventId /\ txn[c].event < nextEventId
    BY <1>3 DEF Commit, EventsOrdered
  <2>3. \A e \in signalsEvents' : e.id < nextEventId'
    BY <2>2 DEF Commit, EventsOrdered
  <2>4. ASSUME NEW d \in Connections \ {c}, HasEvent(d)
        PROVE  /\ txn'[d].event \in EventIds /\ txn'[d].event < nextEventId'
               /\ \A i \in EventsOf(txn[d].stream)' : i < txn'[d].event
    <3>1. HoldsRow(d)
      BY <2>4 DEF HoldsRow, HasEvent
    <3>2. PICK t : t = txn[d].stream
      OBVIOUS
    <3>3. t # s
      BY <1>1, <1>3, <3>1, <3>2 DEF RowLocked
    <3>4. t \in Streams
      BY <2>4, <3>2 DEF TypeOK, HasEvent, Open, Transactions
    <3>5. EventsOf(t)' = EventsOf(t)
      BY <2>1, <3>3, <3>4
    <3>6. txn'[d] = txn[d]
      BY <1>3
    <3>7. /\ txn[d].event \in EventIds /\ txn[d].event < nextEventId
          /\ \A i \in EventsOf(t) : i < txn[d].event
      BY <2>4, <3>2 DEF EventsOrdered
    <3> QED
      BY <2>2, <3>2, <3>5, <3>6, <3>7
  <2> QED
    BY <1>3, <1>4, <2>3, <2>4 DEF EventsOrdered
<1> QED
  BY <1>5, <1>6, <1>7

LEMMA CommitKeybox ==
  ASSUME StoreInv, NEW c \in Connections, Commit(c)
  PROVE  KeyboxMatchesLatest'
<1> USE DEF StoreInv
<1>1. PICK s : s = txn[c].stream
  OBVIOUS
<1>2. PICK signal : signal = txn[c].signal
  OBVIOUS
<1>3. /\ signalsLatest'[s] # NoRow /\ signalsLatest'[s].signal = signal
      /\ signalsLatest'[s].keyboxHash = KeyboxHash(signal, txn[c].readers)
      /\ \A t \in Streams \ {s} : signalsLatest'[t] = signalsLatest[t]
  BY <1>1, <1>2, CommitTables
<1>4. keyboxesLatest' = KeyboxAfter(s, signal, txn[c].readers)
  BY <1>1, <1>2 DEF Commit
<1>5. ASSUME NEW row \in keyboxesLatest'
      PROVE  /\ signalsLatest'[row.stream] # NoRow
             /\ signalsLatest'[row.stream].signal = row.wraps
             /\ signalsLatest'[row.stream].keyboxHash = row.keyboxHash
  <2>1. CASE row \in keyboxesLatest /\ row.stream # s
    <3>1. row.stream \in Streams
      BY <2>1 DEF TypeOK, KeyboxRows
    <3> QED
      BY <1>3, <2>1, <3>1 DEF KeyboxMatchesLatest
  <2>2. CASE ~(row \in keyboxesLatest /\ row.stream # s)
    <3>1. row.stream = s /\ row.wraps = signal
          /\ row.keyboxHash = KeyboxHash(signal, txn[c].readers)
      BY <1>4, <2>2 DEF KeyboxAfter
    <3> QED
      BY <1>3, <3>1
  <2> QED
    BY <2>1, <2>2
<1> QED
  BY <1>5 DEF KeyboxMatchesLatest

(* The greatest id of a stream is the one just committed.                   *)
LEMMA CommitNewest ==
  ASSUME StoreInv, NEW c \in Connections, Commit(c)
  PROVE  NewestEventIsLatest'
<1> USE DEF StoreInv
<1>1. PICK s : s = txn[c].stream
  OBVIOUS
<1>2. PICK signal : signal = txn[c].signal
  OBVIOUS
<1>3. PICK i : i = txn[c].event
  OBVIOUS
<1>4. /\ s \in Streams /\ i \in EventIds /\ HasEvent(c)
      /\ signalsLatest'[s] # NoRow /\ signalsLatest'[s].signal = signal
      /\ \A t \in Streams \ {s} : signalsLatest'[t] = signalsLatest[t]
      /\ EventsOf(s)' = EventsOf(s) \cup {i}
      /\ \A t \in Streams \ {s} : EventsOf(t)' = EventsOf(t)
  BY <1>1, <1>2, <1>3, CommitTables
<1> DEFINE event == [id |-> i, stream |-> s, signal |-> signal]
<1>5. signalsEvents' = signalsEvents \cup {event}
  BY <1>1, <1>2, <1>3 DEF Commit
<1>6. event.id = i /\ event.stream = s /\ event.signal = signal
  OBVIOUS
<1> HIDE DEF event
<1>7. i = Max(EventsOf(s)')
  <2> DEFINE ids == EventsOf(s) \cup {i}
  <2>1. ids \subseteq 0 .. MaxEvents /\ ids # {} /\ i \in ids
    BY <1>4, EventsType, StoreAssumption DEF EventIds
  <2>2. \A j \in EventsOf(s) : j < i
    BY <1>1, <1>3, <1>4 DEF LocksInv, EventsOrdered
  <2> HIDE DEF ids
  <2>3. Max(ids) \in ids /\ i <= Max(ids)
    BY <2>1, Greatest, StoreAssumption
  <2>4. Max(ids) = i
    <3>1. \A j \in 0 .. MaxEvents : j \in Int
      BY StoreAssumption
    <3>2. Max(ids) \in 0 .. MaxEvents /\ i \in 0 .. MaxEvents
      BY <2>1, <2>3
    <3>3. Max(ids) \in Int /\ i \in Int
      BY <3>1, <3>2
    <3>4. Max(ids) = i \/ Max(ids) < i
      BY <2>2, <2>3 DEF ids
    <3> QED
      BY <2>3, <3>3, <3>4
  <2> QED
    BY <1>4, <2>4 DEF ids
<1>8. ASSUME NEW t \in Streams
      PROVE  IF EventsOf(t)' = {} THEN signalsLatest'[t] = NoRow
             ELSE \E e \in signalsEvents' : /\ e.stream = t
                                            /\ e.id = Max(EventsOf(t)')
                                            /\ RowHas(t, e.signal)'
  <2>1. CASE t = s
    <3>1. EventsOf(t)' # {}
      BY <1>4, <2>1
    <3>2. event \in signalsEvents' /\ event.stream = t /\ event.id = Max(EventsOf(t)')
      BY <1>5, <1>6, <1>7, <2>1
    <3>3. RowHas(t, event.signal)'
      BY <1>4, <1>6, <2>1 DEF RowHas
    <3> QED
      BY <3>1, <3>2, <3>3
  <2>2. CASE t # s
    <3>1. EventsOf(t)' = EventsOf(t) /\ signalsLatest'[t] = signalsLatest[t]
      BY <1>4, <2>2
    <3>2. CASE EventsOf(t) = {}
      BY <3>1, <3>2 DEF NewestEventIsLatest
    <3>3. CASE EventsOf(t) # {}
      <4>1. PICK e \in signalsEvents :
              e.stream = t /\ e.id = Max(EventsOf(t)) /\ RowHas(t, e.signal)
        BY <3>3 DEF NewestEventIsLatest
      <4>2. e \in signalsEvents' /\ e.id = Max(EventsOf(t)')
        BY <1>5, <3>1, <4>1
      <4>3. RowHas(t, e.signal)'
        BY <3>1, <4>1 DEF RowHas
      <4> QED
        BY <3>1, <3>3, <4>1, <4>2, <4>3
    <3> QED
      BY <3>2, <3>3
  <2> QED
    BY <2>1, <2>2
<1> QED
  BY <1>8 DEF NewestEventIsLatest

LEMMA PageKeepsLocks ==
  ASSUME StoreInv, NEW s \in Pages,
         \/ AskInitial(s) \/ AskAfterCursor(s)
         \/ \E answer \in page[s].answers : ReceiveAnswer(s, answer)
  PROVE  UNCHANGED <<signalsLatest, keyboxesLatest, signalsEvents, nextEventId, txn>>
BY DEF AskInitial, AskAfterCursor, Ask, ReceiveAnswer, tables

LEMMA StoreKept ==
  ASSUME StoreInv, TypeOK',
         UNCHANGED <<signalsLatest, keyboxesLatest, signalsEvents, nextEventId, txn>>
  PROVE  StoreInv'
<1>1. KeyboxMatchesLatest' /\ NewestEventIsLatest'
  BY TablesKept DEF tables
<1>2. LocksInv'
  BY DEF StoreInv, LocksInv, RowLocked, SignalFree, EventsOrdered, HasEvent,
         HoldsRow, Open, RowHas, EventsOf
<1> QED
  BY <1>1, <1>2 DEF StoreInv

LEMMA StoreStep == StoreInv /\ [Next]_vars => StoreInv'
<1> SUFFICES ASSUME StoreInv, [Next]_vars PROVE StoreInv'
  OBVIOUS
<1> USE DEF StoreInv
<1>1. CASE UNCHANGED vars
  <2>1. TypeOK'
    BY <1>1 DEF TypeOK, vars, tables
  <2> QED
    BY <1>1, <2>1, StoreKept DEF vars, tables
<1>2. ASSUME NEW c \in Connections, NEW s \in Streams, NEW signal \in Signals,
             NEW readers \in SUBSET Readers, Begin(c, s, signal, readers)
      PROVE  StoreInv'
  BY <1>2, BeginType, BeginLocks, TablesKept DEF Begin
<1>3. ASSUME NEW c \in Connections,
             UpsertLatest(c) \/ InsertEvent(c) \/ ReplaceKeybox(c) \/ Rollback(c)
      PROVE  StoreInv'
  <2>1. UNCHANGED tables
    BY <1>3 DEF UpsertLatest, InsertEvent, ReplaceKeybox, Rollback
  <2> QED
    BY <1>3, <2>1, StatementType, TablesKept, UpsertLocks, EventLocks, KeyboxLocks
<1>4. ASSUME NEW c \in Connections, Commit(c)
      PROVE  StoreInv'
  <2>1. txn[c].event \in EventIds
    BY <1>4, CommitTables
  <2> QED
    BY <1>4, <2>1, CommitType, CommitLocks, CommitKeybox, CommitNewest
<1>5. ASSUME NEW s \in Pages,
             \/ AskInitial(s) \/ AskAfterCursor(s)
             \/ \E answer \in page[s].answers : ReceiveAnswer(s, answer)
      PROVE  StoreInv'
  <2>1. TypeOK'
    BY <1>5, PageType
  <2>2. UNCHANGED <<signalsLatest, keyboxesLatest, signalsEvents, nextEventId, txn>>
    BY <1>5, PageKeepsLocks
  <2> QED
    BY <2>1, <2>2, StoreKept
<1> QED
  BY <1>1, <1>2, <1>3, <1>4, <1>5 DEF Next

THEOREM StoreSafe == Spec => []StoreInv
<1> QED
  BY StoreInit, StoreStep, PTL DEF Spec

(* The tables hold what schema.ts declares, and every transaction and page  *)
(* is in a state its code can be in.                                        *)
THEOREM TypeCorrect == Spec => []TypeOK
<1>1. StoreInv => TypeOK
  BY DEF StoreInv
<1> QED
  BY <1>1, StoreSafe, PTL

(* The keybox served to a listener belongs to the signal of its stream,     *)
(* whatever the number of connections, streams and signals.                 *)
THEOREM KeyboxCorrect == Spec => []KeyboxMatchesLatest
<1>1. StoreInv => KeyboxMatchesLatest
  BY DEF StoreInv
<1> QED
  BY <1>1, StoreSafe, PTL

(* The newest event of a stream is its latest signal: the row lock orders   *)
(* the ids drawn for one stream the way its transactions commit.            *)
THEOREM NewestCorrect == Spec => []NewestEventIsLatest
<1>1. StoreInv => NewestEventIsLatest
  BY DEF StoreInv
<1> QED
  BY <1>1, StoreSafe, PTL

-----------------------------------------------------------------------------
(* The committed rows implement the board. *)

LEMMA BoardInit == Init => Board!Init
BY DEF Init, Board!Init, PostOf

LEMMA BoardCommit ==
  ASSUME StoreInv, NEW c \in Connections, Commit(c)
  PROVE  Board!Next
<1> USE DEF StoreInv
<1>1. PICK s : s = txn[c].stream
  OBVIOUS
<1>2. PICK signal : signal = txn[c].signal
  OBVIOUS
<1>3. PICK readers : readers = txn[c].readers
  OBVIOUS
<1>4. /\ s \in Streams /\ signal \in Signals /\ readers \in SUBSET Readers /\ HoldsRow(c)
      /\ signalsLatest'[s] # NoRow /\ signalsLatest'[s].signal = signal
      /\ \A t \in Streams \ {s} : signalsLatest'[t] = signalsLatest[t]
  BY <1>1, <1>2, <1>3, CommitTables
<1>5. keyboxesLatest' = KeyboxAfter(s, signal, readers)
  BY <1>1, <1>2, <1>3 DEF Commit
<1>6. \A other \in Streams \ {s} :
        ~([t \in Streams |-> PostOf(t)][other] # NoRow
          /\ [t \in Streams |-> PostOf(t)][other].signal = signal)
  <2>1. \A other \in Streams \ {s} : ~RowHas(other, signal)
    BY <1>1, <1>2, <1>4 DEF LocksInv, SignalFree
  <2> QED
    BY <2>1 DEF RowHas, PostOf
<1>7. PostOf(s)' = [signal |-> signal, readers |-> readers]
  <2> DEFINE row(r) == [stream |-> s, reader |-> r, wraps |-> signal,
                        keyboxHash |-> KeyboxHash(signal, readers)]
             mine == {k \in keyboxesLatest' : k.stream = s}
  <2>1. \A r \in readers : row(r).reader = r /\ row(r).stream = s
    OBVIOUS
  <2>2. \A k \in mine : \E r \in readers : k = row(r)
    BY <1>5 DEF KeyboxAfter
  <2>3. \A r \in readers : row(r) \in keyboxesLatest'
    BY <1>5 DEF KeyboxAfter
  <2> HIDE DEF row
  <2>4. {k.reader : k \in mine} = readers
    BY <2>1, <2>2, <2>3
  <2> QED
    BY <1>4, <2>4 DEF PostOf
<1>8. ASSUME NEW t \in Streams \ {s}
      PROVE  PostOf(t)' = PostOf(t)
  <2>1. {k \in keyboxesLatest' : k.stream = t} = {k \in keyboxesLatest : k.stream = t}
    BY <1>5 DEF KeyboxAfter
  <2> QED
    BY <1>4, <2>1 DEF PostOf
<1>9. [t \in Streams |-> PostOf(t)]' =
        [[t \in Streams |-> PostOf(t)] EXCEPT ![s] = [signal |-> signal, readers |-> readers]]
  BY <1>4, <1>7, <1>8
<1>10. Board!Publish(s, signal, readers)
  BY <1>6, <1>9 DEF Board!Publish, Board!Posted
<1> QED
  BY <1>4, <1>10 DEF Board!Next

LEMMA BoardStep ==
  StoreInv /\ [Next]_vars => [Board!Next]_[s \in Streams |-> PostOf(s)]
<1> SUFFICES ASSUME StoreInv, [Next]_vars
             PROVE  Board!Next \/ UNCHANGED [s \in Streams |-> PostOf(s)]
  OBVIOUS
<1>1. UNCHANGED tables => UNCHANGED [s \in Streams |-> PostOf(s)]
  BY DEF tables, PostOf
<1>2. CASE UNCHANGED vars
  BY <1>1, <1>2 DEF vars
<1>3. ASSUME NEW c \in Connections, NEW s \in Streams, NEW signal \in Signals,
             NEW readers \in SUBSET Readers, Begin(c, s, signal, readers)
      PROVE  UNCHANGED tables
  BY <1>3 DEF Begin
<1>4. ASSUME NEW c \in Connections,
             UpsertLatest(c) \/ InsertEvent(c) \/ ReplaceKeybox(c) \/ Rollback(c)
      PROVE  UNCHANGED tables
  BY <1>4 DEF UpsertLatest, InsertEvent, ReplaceKeybox, Rollback
<1>5. ASSUME NEW s \in Pages,
             \/ AskInitial(s) \/ AskAfterCursor(s)
             \/ \E answer \in page[s].answers : ReceiveAnswer(s, answer)
      PROVE  UNCHANGED tables
  BY <1>5, PageKeepsLocks DEF tables
<1> QED
  BY <1>1, <1>2, <1>3, <1>4, <1>5, BoardCommit DEF Next

(* The store promises what SignalBoard says, whatever the interleaving of   *)
(* its transactions: a publish is one step for every reader.                *)
THEOREM BoardImplemented == Spec => ImplementsBoard
<1> QED
  BY BoardInit, BoardStep, StoreSafe, PTL DEF Spec, ImplementsBoard, Board!Spec

-----------------------------------------------------------------------------
(* Pages.  A page knows every event between the newest it started from and  *)
(* the cursor of each of its requests, and an answer to a cursor leaves no  *)
(* event out below its newest: LIMIT keeps the oldest.                      *)

AnswerWhole(s, answer) ==
  /\ answer.ids \subseteq EventsOf(s)
  /\ answer.after \in EventsOf(s) \cup {0}
  /\ \A i \in EventsOf(s) :
       page[s].from < i /\ i <= answer.after => i \in page[s].received
  /\ answer.after # 0 =>
       \A j \in answer.ids, i \in EventsOf(s) :
         answer.after < i /\ i <= j => i \in answer.ids

PageKnows(s) ==
  /\ page[s].cursor \in EventsOf(s) \cup {0}
  /\ \A i \in EventsOf(s) :
       page[s].from < i /\ i <= page[s].cursor => i \in page[s].received
  /\ \A answer \in page[s].answers : AnswerWhole(s, answer)

PagesKnow == \A s \in Pages : PageKnows(s)

(* LIMIT takes no id and leaves an older one.                               *)
LEMMA OldestFull ==
  ASSUME NEW ids, ids \subseteq EventIds, NEW j \in Oldest(ids), NEW i \in ids, i <= j
  PROVE  i \in Oldest(ids)
<1>1. IsFiniteSet(EventIds)
  BY FS_Interval, StoreAssumption, 1 \in Int, MaxEvents \in Int DEF EventIds
<1> DEFINE below(x) == {k \in ids : k < x}
<1>2. IsFiniteSet(below(i)) /\ IsFiniteSet(below(j))
  BY <1>1, FS_Subset
<1>3. below(i) \subseteq below(j)
  <2>1. \A k \in EventIds : k \in Int
    BY DEF EventIds
  <2>2. i \in Int /\ j \in Int
    BY <2>1 DEF Oldest
  <2>3. \A k \in ids : k \in Int
    BY <2>1
  <2>4. \A k \in ids : k < i => k < j
    BY <2>2, <2>3
  <2> QED
    BY <2>4
<1>4. /\ Cardinality(below(i)) <= Cardinality(below(j))
      /\ Cardinality(below(i)) \in Nat /\ Cardinality(below(j)) \in Nat
  BY <1>2, <1>3, FS_Subset, FS_CardinalityType
<1>5. Cardinality(below(j)) < PageLimit
  BY DEF Oldest
<1> HIDE DEF below
<1>6. Cardinality(below(i)) < PageLimit
  BY <1>4, <1>5, StoreAssumption
<1> QED
  BY <1>6 DEF Oldest, below

(* What a request is answered with. *)
LEMMA AskedWhole ==
  ASSUME TypeOK, NEW s, NEW after \in EventsOf(s) \cup {0}, after # 0,
         NEW j \in ListSignalEvents(s, after), NEW i \in EventsOf(s),
         after < i, i <= j
  PROVE  i \in ListSignalEvents(s, after)
<1> DEFINE later == {k \in EventsOf(s) : k > after}
<1>1. ListSignalEvents(s, after) = Oldest(later)
  BY DEF ListSignalEvents
<1>2. later \subseteq EventIds
  BY EventsType
<1>3. i \in later
  <2>1. i \in EventIds /\ after \in EventIds
    BY EventsType
  <2>2. i \in Int /\ after \in Int
    BY <2>1 DEF EventIds
  <2> QED
    BY <2>2
<1> HIDE DEF later
<1> QED
  BY <1>1, <1>2, <1>3, OldestFull

LEMMA PagesInit == Init => PagesKnow
<1> SUFFICES ASSUME Init, NEW s \in Pages PROVE PageKnows(s)
  BY DEF PagesKnow
<1>1. page[s].cursor = 0 /\ page[s].answers = {} /\ EventsOf(s) = {}
  BY DEF Init, EventsOf
<1> QED
  BY <1>1 DEF PageKnows

LEMMA PagesKept ==
  ASSUME StoreInv, PagesKnow, UNCHANGED <<signalsEvents, page>>
  PROVE  PagesKnow'
BY DEF PagesKnow, PageKnows, AnswerWhole, EventsOf

LEMMA PagesCommit ==
  ASSUME StoreInv, PagesKnow, NEW c \in Connections, Commit(c)
  PROVE  PagesKnow'
<1> SUFFICES ASSUME NEW s \in Pages PROVE PageKnows(s)'
  BY DEF PagesKnow
<1>1. page' = page /\ PageKnows(s) /\ s \in Streams
  BY StoreAssumption DEF Commit, PagesKnow
<1>2. PICK t : t = txn[c].stream
  OBVIOUS
<1>3. PICK n : n = txn[c].event
  OBVIOUS
<1>4. CASE s # t
  <2>1. EventsOf(s)' = EventsOf(s)
    BY <1>1, <1>2, <1>4, CommitTables
  <2> QED
    BY <1>1, <2>1 DEF PageKnows, AnswerWhole
<1>5. CASE s = t
  <2>1. EventsOf(s)' = EventsOf(s) \cup {n} /\ n \in EventIds /\ HasEvent(c)
    BY <1>2, <1>3, <1>5, CommitTables
  <2>2. \A i \in EventsOf(s) : i < n
    BY <1>2, <1>3, <1>5, <2>1 DEF StoreInv, LocksInv, EventsOrdered
  <2>3. /\ n \in Nat \ {0}
        /\ \A i \in EventsOf(s) : i \in Nat
    BY <2>1, EventsType, StoreAssumption DEF EventIds, StoreInv
  <2>4. \A i \in EventsOf(s) \cup {0} : ~(n <= i)
    BY <2>2, <2>3
  <2>5. page[s].cursor \in EventsOf(s)' \cup {0}
    BY <1>1, <2>1 DEF PageKnows
  <2>6. \A i \in EventsOf(s)' :
          page[s].from < i /\ i <= page[s].cursor => i \in page[s].received
    BY <1>1, <2>1, <2>4 DEF PageKnows
  <2>7. ASSUME NEW answer \in page[s].answers
        PROVE  AnswerWhole(s, answer)'
    <3>1. AnswerWhole(s, answer)
      BY <1>1 DEF PageKnows
    <3>2. \A i \in EventsOf(s)' :
            page[s].from < i /\ i <= answer.after => i \in page[s].received
      BY <2>1, <2>4, <3>1 DEF AnswerWhole
    <3>3. answer.after # 0 =>
            \A j \in answer.ids, i \in EventsOf(s)' :
              answer.after < i /\ i <= j => i \in answer.ids
      BY <2>1, <2>4, <3>1 DEF AnswerWhole
    <3> QED
      BY <1>1, <2>1, <3>1, <3>2, <3>3 DEF AnswerWhole
  <2> QED
    BY <1>1, <2>5, <2>6, <2>7 DEF PageKnows
<1> QED
  BY <1>4, <1>5

LEMMA PagesAsk ==
  ASSUME StoreInv, PagesKnow, NEW s \in Pages, NEW initial,
         NEW after, after \in {0, page[s].cursor}, Ask(s, initial, after)
  PROVE  PagesKnow'
<1> DEFINE asked == [initial |-> initial, after |-> after, ids |-> ListSignalEvents(s, after)]
<1>1. page' = [page EXCEPT ![s].answers = @ \cup {asked}] /\ signalsEvents' = signalsEvents
  BY DEF Ask, tables
<1>2. asked.after = after /\ asked.ids = ListSignalEvents(s, after)
  OBVIOUS
<1> HIDE DEF asked
<1>3. page[s] \in PageStates /\ page \in [Pages -> PageStates]
  BY DEF StoreInv, TypeOK
<1>4. /\ page'[s].from = page[s].from /\ page'[s].cursor = page[s].cursor
      /\ page'[s].received = page[s].received
      /\ page'[s].answers = page[s].answers \cup {asked}
      /\ \A t \in Pages \ {s} : page'[t] = page[t]
  BY <1>1, <1>3 DEF PageStates
<1>5. \A t : EventsOf(t)' = EventsOf(t)
  BY <1>1 DEF EventsOf
<1>6. PageKnows(s)
  BY DEF PagesKnow
<1>7. AnswerWhole(s, asked)
  <2>1. after \in EventsOf(s) \cup {0} /\ asked.ids \subseteq EventsOf(s)
    BY <1>2, <1>6, ListedType DEF PageKnows, StoreInv
  <2>2. \A i \in EventsOf(s) : page[s].from < i /\ i <= after => i \in page[s].received
    <3>1. \A i \in EventsOf(s) : ~(i <= 0)
      BY EventsType, StoreAssumption DEF EventIds, StoreInv
    <3> QED
      BY <1>6, <3>1 DEF PageKnows
  <2>3. after # 0 =>
          \A j \in ListSignalEvents(s, after), i \in EventsOf(s) :
            after < i /\ i <= j => i \in ListSignalEvents(s, after)
    BY <2>1, AskedWhole DEF StoreInv
  <2> QED
    BY <1>2, <2>1, <2>2, <2>3 DEF AnswerWhole
<1>8. PageKnows(s)'
  <2>1. \A answer \in page'[s].answers : AnswerWhole(s, answer)
    BY <1>4, <1>6, <1>7 DEF PageKnows
  <2>2. \A answer \in page'[s].answers : AnswerWhole(s, answer)'
    BY <1>4, <1>5, <2>1 DEF AnswerWhole
  <2> QED
    BY <1>4, <1>5, <1>6, <2>2 DEF PageKnows
<1>9. \A t \in Pages \ {s} : PageKnows(t)'
  BY <1>4, <1>5 DEF PagesKnow, PageKnows, AnswerWhole
<1> QED
  BY <1>8, <1>9 DEF PagesKnow

LEMMA PagesReceive ==
  ASSUME StoreInv, PagesKnow, NEW s \in Pages, NEW answer \in page[s].answers,
         ReceiveAnswer(s, answer)
  PROVE  PagesKnow'
<1>1. page[s] \in PageStates /\ page \in [Pages -> PageStates]
  BY DEF StoreInv, TypeOK
<1>2. answer \in Answers /\ AnswerWhole(s, answer) /\ PageKnows(s)
  BY <1>1 DEF PageStates, PagesKnow, PageKnows
<1>3. /\ CursorAfter(answer) \in 0 .. MaxEvents
      /\ CursorAfter(answer) \in answer.ids \cup {answer.after}
      /\ \A i \in answer.ids : i <= CursorAfter(answer)
  BY <1>2, CursorType
<1>4. /\ Max({page[s].from, CursorAfter(answer)}) \in 0 .. MaxEvents
      /\ page[s].from <= Max({page[s].from, CursorAfter(answer)})
      /\ CursorAfter(answer) <= Max({page[s].from, CursorAfter(answer)})
  <2>1. {page[s].from, CursorAfter(answer)} \subseteq 0 .. MaxEvents
    BY <1>1, <1>3 DEF PageStates
  <2> QED
    BY <2>1, Greatest, StoreAssumption
<1> DEFINE from == IF answer.after = 0 /\ answer.ids # {}
                   THEN Max({page[s].from, CursorAfter(answer)}) ELSE page[s].from
           cursor == IF answer.ids # {} THEN CursorAfter(answer) ELSE page[s].cursor
           next == [from |-> from, cursor |-> cursor,
                    received |-> page[s].received \cup answer.ids,
                    answers |-> page[s].answers \ {answer}]
<1>5. page' = [page EXCEPT ![s] = next] /\ signalsEvents' = signalsEvents
  BY DEF ReceiveAnswer, tables
<1>6. /\ next.from = from /\ next.cursor = cursor
      /\ next.received = page[s].received \cup answer.ids
      /\ next.answers = page[s].answers \ {answer}
  OBVIOUS
<1>7. /\ from \in 0 .. MaxEvents /\ cursor \in 0 .. MaxEvents
      /\ page[s].from \in 0 .. MaxEvents /\ page[s].from <= from
  BY <1>1, <1>3, <1>4, StoreAssumption DEF PageStates
<1>8. cursor \in EventsOf(s) \cup {0}
  BY <1>2, <1>3 DEF AnswerWhole, PageKnows
<1>9. \A i \in EventsOf(s) : i \in Nat \ {0}
  BY EventsType, StoreAssumption DEF EventIds, StoreInv
<1>10. ASSUME NEW i \in EventsOf(s), from < i, i <= cursor
       PROVE  i \in page[s].received \cup answer.ids
  <2>1. page[s].from < i
    BY <1>7, <1>9, <1>10
  <2>2. CASE answer.ids = {}
    BY <1>2, <1>10, <2>1, <2>2 DEF PageKnows
  <2>3. CASE answer.ids # {} /\ answer.after = 0
    BY <1>3, <1>4, <1>9, <1>10, <2>3
  <2>4. CASE answer.ids # {} /\ answer.after # 0
    <3>1. cursor = CursorAfter(answer)
      BY <2>4
    <3>2. CASE i <= answer.after
      BY <1>2, <2>1, <3>2 DEF AnswerWhole
    <3>3. CASE ~(i <= answer.after)
      <4>1. answer.after < i /\ CursorAfter(answer) # answer.after
        BY <1>2, <1>9, <1>10, <3>1, <3>3 DEF Answers
      <4>2. CursorAfter(answer) \in answer.ids
        BY <1>3, <4>1
      <4> QED
        BY <1>2, <1>10, <2>4, <3>1, <4>1, <4>2 DEF AnswerWhole
    <3> QED
      BY <3>2, <3>3
  <2> QED
    BY <2>2, <2>3, <2>4
<1> HIDE DEF from, cursor, next
<1>11. /\ page'[s] = next
       /\ \A t \in Pages \ {s} : page'[t] = page[t]
       /\ \A t : EventsOf(t)' = EventsOf(t)
  BY <1>1, <1>5 DEF EventsOf
<1>12. ASSUME NEW other \in next.answers
       PROVE  AnswerWhole(s, other)'
  <2>1. AnswerWhole(s, other) /\ other \in Answers
    BY <1>1, <1>2, <1>6 DEF PageKnows, PageStates
  <2>2. \A i \in EventsOf(s) : from < i => page[s].from < i
    BY <1>7, <1>9
  <2> QED
    BY <1>6, <1>11, <2>1, <2>2 DEF AnswerWhole
<1>13. PageKnows(s)'
  BY <1>6, <1>8, <1>10, <1>11, <1>12 DEF PageKnows
<1>14. \A t \in Pages \ {s} : PageKnows(t)'
  BY <1>11 DEF PagesKnow, PageKnows, AnswerWhole
<1> QED
  BY <1>13, <1>14 DEF PagesKnow

LEMMA PagesStep == StoreInv /\ PagesKnow /\ [Next]_vars => PagesKnow'
<1> SUFFICES ASSUME StoreInv, PagesKnow, [Next]_vars PROVE PagesKnow'
  OBVIOUS
<1>1. CASE UNCHANGED vars
  BY <1>1, PagesKept DEF vars, tables
<1>2. ASSUME NEW c \in Connections, NEW s \in Streams, NEW signal \in Signals,
             NEW readers \in SUBSET Readers, Begin(c, s, signal, readers)
      PROVE  PagesKnow'
  BY <1>2, PagesKept DEF Begin, tables
<1>3. ASSUME NEW c \in Connections,
             UpsertLatest(c) \/ InsertEvent(c) \/ ReplaceKeybox(c) \/ Rollback(c)
      PROVE  PagesKnow'
  BY <1>3, PagesKept DEF UpsertLatest, InsertEvent, ReplaceKeybox, Rollback, tables
<1>4. ASSUME NEW c \in Connections, Commit(c)
      PROVE  PagesKnow'
  BY <1>4, PagesCommit
<1>5. ASSUME NEW s \in Pages, AskInitial(s) \/ AskAfterCursor(s)
      PROVE  PagesKnow'
  <2>1. CASE AskInitial(s)
    BY <2>1, PagesAsk DEF AskInitial
  <2>2. CASE AskAfterCursor(s)
    <3>1. PICK after : after = page[s].cursor
      OBVIOUS
    <3>2. Ask(s, FALSE, after)
      BY <2>2, <3>1 DEF AskAfterCursor
    <3> QED
      BY <3>1, <3>2, PagesAsk
  <2> QED
    BY <1>5, <2>1, <2>2
<1>6. ASSUME NEW s \in Pages, NEW answer \in page[s].answers, ReceiveAnswer(s, answer)
      PROVE  PagesKnow'
  BY <1>6, PagesReceive
<1> QED
  BY <1>1, <1>2, <1>3, <1>4, <1>5, <1>6 DEF Next

(* A page misses no event of its stream, whatever its limit, however its    *)
(* answers are ordered and whatever commits in between.                     *)
THEOREM PageCorrect == Spec => []PageMissesNothing
<1>1. PagesKnow => PageMissesNothing
  BY DEF PagesKnow, PageKnows, PageMissesNothing
<1> QED
  BY <1>1, StoreInit, StoreStep, PagesInit, PagesStep, PTL DEF Spec
=============================================================================
