------------------------------ MODULE DemoSeed ------------------------------
(***************************************************************************)
(* The seeder of demo data, run when the backend starts and by hand.       *)
(*                                                                         *)
(*   backend/src/seed/demo.ts   seedDemoData, maybeSeedDemoData            *)
(*                                                                         *)
(* A run makes wallets and keys of its own, keeps them in memory, and      *)
(* writes them down last, in the file whose presence says that the seed    *)
(* was planted.  What it does on chain and in Tapestry may fail and is     *)
(* gone on without; any other failure, or the end of the process, ends it  *)
(* where it is.  Transactions, the store of signals and the social service *)
(* have modules of their own; a call to one is a step here.                *)
(***************************************************************************)
EXTENDS Naturals, Sequences, Absence

CONSTANTS
  Seeds,    \* runs of the seeder
  DemoStreams,  \* the streams of the demo, in order
  Private   \* those whose signals are sealed

StreamSet == {DemoStreams[i] : i \in DOMAIN DemoStreams}
(* There is a stream, and the private ones are among them. *)
ASSUME SeedAssumption ==
  DemoStreams \in Seq(StreamSet) /\ DemoStreams # <<>> /\ Private \subseteq StreamSet

SeedSteps == {"marker", "people", "stream", "tier", "subscribe", "signals", "listing", "summary", "writing"}

(* next: the stream of the loop it is in.  known: the streams whose address *)
(* it has.  ready: streams and tiers are all on chain.                      *)
SeedRuns ==
  [at : SeedSteps, next : DOMAIN DemoStreams, force : BOOLEAN, known : SUBSET StreamSet, ready : BOOLEAN]

VARIABLES
  seed,      \* a run, None before and after
  seedsBegun, \* the runs ever begun
  marker,    \* demo_seed.json: the run and the addresses it gives, once
             \* it is written whole
  people,    \* runs whose users, agents and links are in the database
  chain,     \* the accounts of a stream
  held,      \* subscriptions of a run's listeners
  sealedTo,  \* the run whose keys open the latest signal of a stream
  anchored,  \* the run whose signal the chain has last
  listed,    \* what Tapestry says of a stream
  overlapped \* auxiliary: two runs were under way at once

seedVars == <<seed, seedsBegun, marker, people, chain, held, sealedTo, anchored, listed, overlapped>>

Listings == [address : BOOLEAN, authority : BOOLEAN]
Markers == [run : Seeds, addresses : SUBSET StreamSet, whole : BOOLEAN]

SeedTypeOK ==
  /\ seed \in [Seeds -> SeedRuns \cup {None}] /\ seedsBegun \subseteq Seeds
  /\ marker \in Markers \cup {None}
  /\ people \subseteq Seeds /\ held \subseteq Seeds \X StreamSet
  /\ chain \in [StreamSet -> {"nothing", "stream", "tier"}]
  /\ sealedTo \in [StreamSet -> Seeds \cup {None}]
  /\ anchored \in [StreamSet -> Seeds \cup {None}]
  /\ listed \in [StreamSet -> Listings \cup {None}]
  /\ overlapped \in BOOLEAN

SeedInit ==
  /\ seed = [r \in Seeds |-> None] /\ seedsBegun = {} /\ marker = None
  /\ people = {} /\ held = {} /\ overlapped = FALSE
  /\ chain = [s \in StreamSet |-> "nothing"]
  /\ sealedTo = [s \in StreamSet |-> None] /\ anchored = [s \in StreamSet |-> None]
  /\ listed = [s \in StreamSet |-> None]

SeedAt(r, step) == seed[r] # None /\ seed[r].at = step
Stream(r) == DemoStreams[seed[r].next]
To(r, run) == seed' = [seed EXCEPT ![r] = run]
StepTo(r, step) == To(r, [seed[r] EXCEPT !.at = step, !.next = 1])
(* The same step for the next stream, or the step after the loop. *)
Loop(r, run, step, after) ==
  To(r, IF run.next = Len(DemoStreams) THEN [run EXCEPT !.at = after, !.next = 1]
        ELSE [run EXCEPT !.at = step, !.next = @ + 1])

StartSeed(r, force) ==
  /\ r \notin seedsBegun /\ seedsBegun' = seedsBegun \cup {r}
  /\ To(r, [at |-> "marker", next |-> 1, force |-> force, known |-> {}, ready |-> FALSE])
  /\ overlapped' = (overlapped \/ \E o \in Seeds \ {r} : seed[o] # None)
  /\ UNCHANGED <<marker, people, chain, held, sealedTo, anchored, listed>>

(* A planted seed is left as it is, be its file whole or not, unless the    *)
(* run is forced: then the file is removed before anything is made.         *)
MarkerAfter_Slip(force) == marker
MarkerAfter(force) == IF force THEN None ELSE marker
CheckMarker(r) ==
  /\ SeedAt(r, "marker")
  /\ IF marker # None /\ ~seed[r].force THEN To(r, None) /\ UNCHANGED marker
     ELSE StepTo(r, "people") /\ marker' = MarkerAfter(seed[r].force)
  /\ UNCHANGED <<seedsBegun, people, chain, held, sealedTo, anchored, listed, overlapped>>

(* Users, agents and links of fresh wallets; the chain may be left out.     *)
AddPeople(r) ==
  /\ SeedAt(r, "people")
  /\ people' = people \cup {r}
  /\ StepTo(r, "stream") \/ StepTo(r, "signals")
  /\ UNCHANGED <<seedsBegun, marker, chain, held, sealedTo, anchored, listed, overlapped>>

(* An account that is there is taken as it is.  After a failure the chain   *)
(* is left out, and the addresses had so far are kept.                      *)
EnsureStream(r) ==
  /\ SeedAt(r, "stream")
  /\ LET s == Stream(r)
     IN  \/ /\ chain' = [chain EXCEPT ![s] = IF @ = "nothing" THEN "stream" ELSE @]
            /\ To(r, [seed[r] EXCEPT !.at = "tier", !.known = @ \cup {s}])
         \/ chain[s] = "nothing" /\ StepTo(r, "signals") /\ UNCHANGED chain
  /\ UNCHANGED <<seedsBegun, marker, people, held, sealedTo, anchored, listed, overlapped>>

EnsureTier(r) ==
  /\ SeedAt(r, "tier")
  /\ LET s == Stream(r)
         last == seed[r].next = Len(DemoStreams)
     IN  \/ /\ chain' = [chain EXCEPT ![s] = "tier"]
            /\ Loop(r, [seed[r] EXCEPT !.ready = last], "stream", "subscribe")
         \/ chain[s] # "tier" /\ StepTo(r, "signals") /\ UNCHANGED chain
  /\ UNCHANGED <<seedsBegun, marker, people, held, sealedTo, anchored, listed, overlapped>>

SeedSubscribe(r) ==
  /\ SeedAt(r, "subscribe")
  /\ held' \in {held, held \cup {<<r, Stream(r)>>}}
  /\ Loop(r, seed[r], "subscribe", "signals")
  /\ UNCHANGED <<seedsBegun, marker, people, chain, sealedTo, anchored, listed, overlapped>>

(* Published, and then recorded on chain when that is ready. *)
PublishSeed(r) ==
  /\ SeedAt(r, "signals")
  /\ LET s == Stream(r)
     IN  /\ sealedTo' = IF s \in Private THEN [sealedTo EXCEPT ![s] = r] ELSE sealedTo
         /\ anchored' \in {anchored} \cup
              (IF seed[r].ready THEN {[anchored EXCEPT ![s] = r]} ELSE {})
  /\ Loop(r, seed[r], "signals", "listing")
  /\ UNCHANGED <<seedsBegun, marker, people, chain, held, listed, overlapped>>

(* The listing has an address as soon as the stream is known, an authority  *)
(* only when the whole chain was ready.                                     *)
ListSeed(r) ==
  /\ SeedAt(r, "listing")
  /\ LET s == Stream(r)
         listing == [address |-> s \in seed[r].known, authority |-> seed[r].ready]
     IN  listed' \in {listed, [listed EXCEPT ![s] = listing]}
  /\ Loop(r, seed[r], "listing", "summary")
  /\ UNCHANGED <<seedsBegun, marker, people, chain, held, sealedTo, anchored, overlapped>>

(* The file is emptied, and then written; a crash in between leaves it      *)
(* empty or cut off, and another run may have removed it, made it anew or   *)
(* begun to write it too.                                                   *)
MarkerOf(r, whole) == [run |-> r, addresses |-> seed[r].known, whole |-> whole]

OpenMarker(r) ==
  /\ SeedAt(r, "summary")
  /\ marker' = MarkerOf(r, FALSE)
  /\ StepTo(r, "writing")
  /\ UNCHANGED <<seedsBegun, people, chain, held, sealedTo, anchored, listed, overlapped>>

WriteMarker(r) ==
  /\ SeedAt(r, "writing")
  /\ LET mine == marker # None /\ marker.run = r
     IN  \/ marker # None /\ marker' = MarkerOf(r, TRUE)
         \/ ~mine /\ UNCHANGED marker
         \/ marker # None /\ ~mine /\ marker' = MarkerOf(r, FALSE)
  /\ To(r, None)
  /\ UNCHANGED <<seedsBegun, people, chain, held, sealedTo, anchored, listed, overlapped>>

(* The process ends, or a query of the database fails. *)
CrashSeed(r) ==
  /\ seed[r] # None /\ To(r, None)
  /\ UNCHANGED <<seedsBegun, marker, people, chain, held, sealedTo, anchored, listed, overlapped>>

SeedNext ==
  \E r \in Seeds :
    \/ \E force \in BOOLEAN : StartSeed(r, force)
    \/ CheckMarker(r) \/ AddPeople(r)
    \/ EnsureStream(r) \/ EnsureTier(r) \/ SeedSubscribe(r)
    \/ PublishSeed(r) \/ ListSeed(r) \/ OpenMarker(r) \/ WriteMarker(r) \/ CrashSeed(r)

SeedSpec == SeedInit /\ [][SeedNext]_seedVars

(***************************************************************************)
(* "Use subscriberKeys to decrypt signals": as long as the file is there   *)
(* and whole, the keys in it open what the private streams of the demo     *)
(* have last, the agents of their listeners are there, and the addresses   *)
(* in it are of streams on chain; whatever runs failed before, unless two  *)
(* overlapped.                                                             *)
(***************************************************************************)
MarkerOpensSignals ==
  marker # None /\ marker.whole /\ ~overlapped =>
    /\ \A s \in Private : sealedTo[s] = marker.run
    /\ marker.run \in people
    /\ \A s \in marker.addresses : chain[s] # "nothing"
=============================================================================
