---------------------------- MODULE StreamsRail ----------------------------
(***************************************************************************)
(* The rail beside the pages: the latest signals of all streams.           *)
(*                                                                         *)
(*   frontend/app/components/StreamsRail.tsx   one cursor for all streams  *)
(*   frontend/app/lib/api/signals.ts           the cache in localStorage   *)
(*   backend/src/signals/SqlSignalStore.ts     listRecentSignalEvents      *)
(*                                                                         *)
(* Publishes of different streams hold no lock in common: ids are drawn    *)
(* from a sequence and committed in any order.  The rail asks once for the *)
(* newest events and then, every ten seconds, for those after its cursor;  *)
(* a request may be answered late, or never.                               *)
(***************************************************************************)
EXTENDS Naturals, FiniteSets, Web

CONSTANTS
  MaxEvents, \* bound on the ids ever drawn
  Times,     \* of a publish, by the clock of the backend
  Limit      \* events in a page, and on the rail

Events == [id : 1 .. MaxEvents, at : Times]
(* first: the answer replaces what is shown; that of a poll is merged.      *)
(* live: of the rail as it was mounted last.  answer: once it is served.    *)
Asked == [first : BOOLEAN, after : 0 .. MaxEvents, live : BOOLEAN,
          served : BOOLEAN, answer : SUBSET Events]

ASSUME RailAssumption ==
  /\ MaxEvents \in Nat /\ Times \subseteq Nat /\ Limit \in Nat \ {0}
  /\ None \notin Asked

VARIABLES
  drawn,     \* the last id drawn
  inserted,  \* rows of transactions not yet committed
  log,       \* signals_events
  rail,      \* shown
  cursor,    \* streamingCursor
  railCache, \* in localStorage
  asked,     \* requests under way
  overtaken, \* auxiliary: events committed after one with a higher id
  raced      \* auxiliary: newest events came while another request was under way

railVars == <<drawn, inserted, log, rail, cursor, railCache, asked, overtaken, raced>>

RailTypeOK ==
  /\ drawn \in 0 .. MaxEvents /\ inserted \subseteq Events /\ log \subseteq Events
  /\ rail \subseteq Events /\ cursor \in 0 .. MaxEvents /\ railCache \subseteq Events
  /\ asked \in [Requests -> Asked \cup {None}]
  /\ overtaken \subseteq Events /\ raced \in BOOLEAN

NoRail ==
  /\ drawn = 0 /\ inserted = {} /\ log = {} /\ overtaken = {}
  /\ rail = {} /\ cursor = 0 /\ railCache = {} /\ raced = FALSE
  /\ asked = [r \in Requests |-> None]

(* The first Limit of some events, in an order: a set of pairs, of which the *)
(* first comes before the second.                                           *)
Before(order, e, events) == {f \in events : <<f, e>> \in order}
FirstOf(events, order) ==
  {e \in events : Cardinality(Before(order, e, events)) < Limit}
HigherId == {p \in Events \X Events : p[1].id > p[2].id}
LowerId == {p \in Events \X Events : p[1].id < p[2].id}
Later ==
  {p \in Events \X Events :
     p[1].at > p[2].at \/ (p[1].at = p[2].at /\ p[1].id > p[2].id)}

(* A cursor of 0 is no cursor. *)
RecentEvents(after) ==
  IF after = 0 THEN FirstOf(log, HigherId)
  ELSE FirstOf({e \in log : e.id > after}, LowerId)

HighestId(events) ==
  IF events = {} THEN 0 ELSE (CHOOSE e \in events : \A f \in events : e.id >= f.id).id

-----------------------------------------------------------------------------
(* The store. *)

InsertEvent(at) ==
  /\ drawn < MaxEvents /\ drawn' = drawn + 1
  /\ inserted' = inserted \cup {[id |-> drawn + 1, at |-> at]}
  /\ UNCHANGED <<log, rail, cursor, railCache, asked, overtaken, raced>>

CommitEvent(e) ==
  /\ e \in inserted /\ inserted' = inserted \ {e}
  /\ log' = log \cup {e}
  /\ overtaken' = IF \E f \in log : f.id > e.id THEN overtaken \cup {e} ELSE overtaken
  /\ UNCHANGED <<drawn, rail, cursor, railCache, asked, raced>>

RollBack(e) ==
  /\ e \in inserted /\ inserted' = inserted \ {e}
  /\ UNCHANGED <<drawn, log, rail, cursor, railCache, asked, overtaken, raced>>

ServeEvents(r) ==
  /\ asked[r] # None /\ ~asked[r].served
  /\ asked' = [asked EXCEPT ![r].served = TRUE, ![r].answer = RecentEvents(asked[r].after)]
  /\ UNCHANGED <<drawn, inserted, log, rail, cursor, railCache, overtaken, raced>>

-----------------------------------------------------------------------------
(* The rail. *)

Request(first, after) ==
  [first |-> first, after |-> after, live |-> TRUE, served |-> FALSE, answer |-> {}]

(* What is cached is shown first, however old; requests of an earlier mount *)
(* still write the cache, and nothing else.                                 *)
Mount(r) ==
  /\ asked[r] = None
  /\ rail' = railCache /\ cursor' = HighestId(railCache) /\ raced' = FALSE
  /\ asked' = [q \in Requests |->
       IF q = r THEN Request(TRUE, 0)
       ELSE IF asked[q] = None THEN None ELSE [asked[q] EXCEPT !.live = FALSE]]
  /\ UNCHANGED <<drawn, inserted, log, railCache, overtaken>>

Poll(r) ==
  /\ asked[r] = None
  /\ asked' = [asked EXCEPT ![r] = Request(FALSE, cursor)]
  /\ UNCHANGED <<drawn, inserted, log, rail, cursor, railCache, overtaken, raced>>

(* The rows of a poll and those shown, no row twice, the latest first.      *)
Shown_Slip(ask) == ask.answer
Shown(ask) == IF ask.first THEN ask.answer ELSE FirstOf(rail \cup ask.answer, Later)

Arrive(r) ==
  /\ asked[r] # None /\ asked[r].served
  /\ LET ask == asked[r]
         highest == HighestId(ask.answer)
     IN  /\ railCache' = IF ask.after = 0 THEN ask.answer ELSE railCache
         /\ IF ask.live /\ (ask.first \/ ask.answer # {})
            THEN /\ rail' = Shown(ask)
                 /\ cursor' = IF ask.answer # {} /\ (ask.first \/ highest > cursor)
                              THEN highest ELSE cursor
                 /\ raced' = (raced \/ (ask.after = 0 /\
                      \E q \in Requests \ {r} : asked[q] # None /\ asked[q].live))
            ELSE UNCHANGED <<rail, cursor, raced>>
  /\ asked' = [asked EXCEPT ![r] = None]
  /\ UNCHANGED <<drawn, inserted, log, overtaken>>

(* Neither page nor cache is told of a request that failed. *)
FailToArrive(r) ==
  /\ asked[r] # None
  /\ asked' = [asked EXCEPT ![r] = None]
  /\ UNCHANGED <<drawn, inserted, log, rail, cursor, railCache, overtaken, raced>>

RailNext ==
  \/ \E at \in Times : InsertEvent(at)
  \/ \E e \in Events : CommitEvent(e) \/ RollBack(e)
  \/ \E r \in Requests :
       \/ Mount(r) \/ Poll(r) \/ ServeEvents(r) \/ Arrive(r) \/ FailToArrive(r)

RailSpec == NoRail /\ [][RailNext]_railVars

(* The rail leaves out no event that its cursor has passed, except for as   *)
(* many as it has room for, each of a higher id or later; whatever comes    *)
(* from the cache, late, out of order or not at all.  An event that was      *)
(* overtaken may be lost, and any may be when the newest events come while  *)
(* a poll is under way.                                                     *)
RailShowsNewest ==
  ~raced =>
    \A e \in log \ (rail \cup overtaken) : e.id <= cursor =>
      /\ Cardinality(rail) = Limit
      /\ \A f \in rail : <<f, e>> \in HigherId \cup Later
=============================================================================
