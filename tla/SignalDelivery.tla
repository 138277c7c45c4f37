--------------------------- MODULE SignalDelivery ---------------------------
(***************************************************************************)
(* A signal on its way from a publisher to a listener, across the four     *)
(* parts of the system it passes:                                          *)
(*                                                                         *)
(*   backend  POST /signals/prepare seals and stores it (routes.ts,        *)
(*            SignalService.ts); the store is the board of SignalBoard     *)
(*   chain    record_signal puts its hash into the stream's signal_latest  *)
(*   SDK      SigintsClient.listenForSignals hears of the account change   *)
(*            and runs one asynchronous handler per record                 *)
(*   backend  GET /storage/... checks who asks and serves it               *)
(*                                                                         *)
(* and of the text that POST /signals leaves in the social graph on its    *)
(* way (TapestryPublisher.ts), private signals not excepted.               *)
(*                                                                         *)
(* A step of a request or a handler is what runs between two awaits.       *)
(* Who has subscribed is the book of Membership, which SubscriptionRoyalty *)
(* implements; here subscribers join, leave, lapse and rotate their keys   *)
(* at any moment.                                                          *)
(***************************************************************************)
EXTENDS Integers, FiniteSets

CONSTANTS
  Streams, Signals,
  PublicSignals, \* signals whose payload is plain text
  PublicStreams, \* streams with visibility "public"
  Subscribers,   \* wallets, each with one SDK client
  MaxGeneration, \* bound on the key pairs of a subscriber
  Publishers,    \* clients of makers and of their agents
  MetaTries,     \* attempts of waitForMetadata
  MaxTime,       \* bound on created_at
  MaxRecords,    \* bound on the different records written
  FaultyNetwork, \* whether requests of a handler may fail
  SocialPublisher, \* whether SignalService was given a social publisher
  NoPost, NoRecord, NoKey, Idle

ASSUME DeliveryAssumption ==
  /\ PublicSignals \subseteq Signals
  /\ PublicStreams \subseteq Streams
  /\ MaxGeneration \in Nat
  /\ MetaTries \in Nat \ {0}
  /\ MaxTime \in Nat
  /\ MaxRecords \in Nat
  /\ FaultyNetwork \in BOOLEAN
  /\ SocialPublisher \in BOOLEAN

(* A subscriber's key pairs are its own: a public key is its wallet and the *)
(* number of the pair.                                                      *)
Generations == 0 .. MaxGeneration
Readers == Subscribers \X Generations

(* Signals of public streams are plain text, those of private ones sealed.  *)
Fits(s, signal) == s \in PublicStreams <=> signal \in PublicSignals

Records ==
  {r \in [stream : Streams, signal : Signals, createdAt : 0 .. MaxTime] :
     Fits(r.stream, r.signal)}

VARIABLES
  joined, present, headcount, \* the membership book
  expired,         \* members whose expires_at has passed
  chainKey,        \* SubscriptionKey accounts
  post,            \* the backend's store
  social,          \* signals whose text stands in the social graph
  signalLatest,    \* SignalRecord accounts
  session,         \* publishers between a request and its record
  listenKey,       \* the key pair a client listens to a stream with
  notices,         \* account changes on their way to each client
  handler,         \* handleDecodedSignal, by client and record
  calls,           \* how often onSignal was called, by client and record
  recorded,        \* auxiliary: every record ever written
  issued,          \* auxiliary: private signals generated so far
  addressed        \* auxiliary: who each private signal was sealed for

memberVars == <<joined, present, headcount, expired, chainKey>>
publishVars == <<post, social, signalLatest, session, recorded, issued, addressed>>
listenVars == <<listenKey, notices, handler, calls>>
vars == <<memberVars, publishVars, listenVars>>

Members == INSTANCE Membership WITH Groups <- Streams, People <- Subscribers
Board == INSTANCE SignalBoard

Sessions ==
  {x \in [stage : {"listed"}, stream : Streams, signal : Signals,
          listed : SUBSET Subscribers]
         \cup
         [stage : {"sealed"}, stream : Streams, signal : Signals,
          readers : SUBSET Readers]
         \cup
         [stage : {"prepared"}, stream : Streams, signal : Signals] :
     Fits(x.stream, x.signal)}

HandlerSteps ==
  {"none", "metadata", "lookup", "entitle", "key", "entry", "payload", "call", "done", "ended"}

(* "home" is the stream the backend found the signal on. *)
Handlers == [step : HandlerSteps, tries : 0 .. MetaTries - 1, home : Streams]
NoHandler(r) == [step |-> "none", tries |-> 0, home |-> r.stream]

TypeOK ==
  /\ joined \in [Streams -> SUBSET Subscribers]
  /\ present \in [Streams -> SUBSET Subscribers]
  /\ expired \in [Streams -> SUBSET Subscribers]
  /\ chainKey \in [Streams -> [Subscribers -> Generations \cup {NoKey}]]
  /\ Board!TypeOK
  /\ social \subseteq Signals
  /\ signalLatest \in [Streams -> Records \cup {NoRecord}]
  /\ session \in [Publishers -> Sessions \cup {Idle}]
  /\ listenKey \in [Subscribers -> [Streams -> Generations \cup {NoKey}]]
  /\ notices \in [Subscribers -> SUBSET Records]
  /\ handler \in [Subscribers -> [Records -> Handlers]]
  /\ calls \in [Subscribers -> [Records -> Nat]]
  /\ recorded \subseteq Records
  /\ issued \subseteq Signals
  /\ addressed \in [Signals -> SUBSET Subscribers]

Init ==
  /\ Members!Init
  /\ expired = [s \in Streams |-> {}]
  /\ chainKey = [s \in Streams |-> [w \in Subscribers |-> NoKey]]
  /\ Board!Init
  /\ social = {}
  /\ signalLatest = [s \in Streams |-> NoRecord]
  /\ session = [p \in Publishers |-> Idle]
  /\ listenKey = [w \in Subscribers |-> [s \in Streams |-> NoKey]]
  /\ notices = [w \in Subscribers |-> {}]
  /\ handler = [w \in Subscribers |-> [r \in Records |-> NoHandler(r)]]
  /\ calls = [w \in Subscribers |-> [r \in Records |-> 0]]
  /\ recorded = {}
  /\ issued = {}
  /\ addressed = [signal \in Signals |-> {}]

-----------------------------------------------------------------------------
(* Subscribers, on chain. *)

(* Active, not expired, and the pass in the wallet, where it always is. *)
Entitled(s, w) == w \in present[s] /\ w \notin expired[s]

Subscribe(s, w) ==
  /\ Members!Join(s, w)
  /\ UNCHANGED <<expired, chainKey, publishVars, listenVars>>

Cancel(s, w) ==
  /\ Members!Leave(s, w)
  /\ UNCHANGED <<expired, chainKey, publishVars, listenVars>>

Lapse(s, w) ==
  /\ w \in joined[s]
  /\ expired' = [expired EXCEPT ![s] = @ \cup {w}]
  /\ UNCHANGED <<joined, present, headcount, chainKey, publishVars, listenVars>>

Renew(s, w) ==
  /\ w \in joined[s]
  /\ expired' = [expired EXCEPT ![s] = @ \ {w}]
  /\ \/ Members!Return(s, w)
     \/ w \in present[s] /\ UNCHANGED <<joined, present, headcount>>
  /\ UNCHANGED <<chainKey, publishVars, listenVars>>

RegisterSubscriptionKey(s, w, g) ==
  /\ chainKey' = [chainKey EXCEPT ![s][w] = g]
  /\ UNCHANGED <<joined, present, headcount, expired, publishVars, listenVars>>

-----------------------------------------------------------------------------
(* Publishing.  As in SubscriptionRoyalty, a name ending in _Slip is the    *)
(* next definition as a bug would have it.                                  *)

(* resolveStreamSubscriberKeys: first the subscriptions, then the keys. *)
ListedSubscribers_Slip(s) == joined[s]
ListedSubscribers(s) == {w \in Subscribers : Entitled(s, w)}

RegisteredKeys(s, wallets) ==
  {<<w, chainKey[s][w]>> : w \in {v \in wallets : chainKey[s][v] # NoKey}}

RequestPublic(p, s, signal) ==
  /\ session[p] = Idle
  /\ s \in PublicStreams
  /\ Fits(s, signal)
  /\ session' = [session EXCEPT ![p] =
       [stage |-> "sealed", stream |-> s, signal |-> signal, readers |-> {}]]
  /\ UNCHANGED <<memberVars, listenVars, post, social, signalLatest, recorded,
                 issued, addressed>>

(* A fresh symmetric key: a private signal is generated once. *)
RequestPrivate(p, s, signal) ==
  /\ session[p] = Idle
  /\ s \notin PublicStreams
  /\ Fits(s, signal)
  /\ signal \notin issued
  /\ issued' = issued \cup {signal}
  /\ addressed' = [addressed EXCEPT ![signal] = {w \in Subscribers : Entitled(s, w)}]
  /\ session' = [session EXCEPT ![p] =
       [stage |-> "listed", stream |-> s, signal |-> signal,
        listed |-> ListedSubscribers(s)]]
  /\ UNCHANGED <<memberVars, listenVars, post, social, signalLatest, recorded>>

ReadKeys(p) ==
  /\ session[p] # Idle
  /\ session[p].stage = "listed"
  /\ session' = [session EXCEPT ![p] =
       [stage |-> "sealed", stream |-> @.stream, signal |-> @.signal,
        readers |-> RegisteredKeys(@.stream, @.listed)]]
  /\ UNCHANGED <<memberVars, listenVars, post, social, signalLatest, recorded,
                 issued, addressed>>

(* TapestryPublisher.publishSignal: the post carries the signal itself as   *)
(* its text, whatever its visibility.  It may fail, and it is skipped when  *)
(* no profile is known to post by.                                          *)
Reposted(signal) ==
  {social} \cup IF SocialPublisher THEN {social \cup {signal}} ELSE {}

(* The store's transaction, then the social post.  When that fails, or the  *)
(* answer is lost, the client is told of an error and the signal is stored. *)
Store(p) ==
  /\ session[p] # Idle
  /\ session[p].stage = "sealed"
  /\ Board!Publish(session[p].stream, session[p].signal, session[p].readers)
  /\ \E answer \in {Idle, [stage |-> "prepared", stream |-> session[p].stream,
                           signal |-> session[p].signal]} :
       session' = [session EXCEPT ![p] = answer]
  /\ social' \in Reposted(session[p].signal)
  /\ UNCHANGED <<memberVars, listenVars, signalLatest, recorded, issued, addressed>>

(* A request that fails before it is stored, or a maker that never signs.   *)
GiveUp(p) ==
  /\ session[p] # Idle
  /\ session' = [session EXCEPT ![p] = Idle]
  /\ UNCHANGED <<memberVars, listenVars, post, social, signalLatest, recorded,
                 issued, addressed>>

LastTime(s) == IF signalLatest[s] = NoRecord THEN 0 ELSE signalLatest[s].createdAt

(* record_signal.  Nothing asks whether the metadata it was built from is   *)
(* still what the backend stores.  A publisher whose confirmation times out *)
(* may send it once more.                                                   *)
Record(p, createdAt) ==
  LET s == session[p].stream
      record == [stream |-> s, signal |-> session[p].signal, createdAt |-> createdAt]
  IN
  /\ session[p] # Idle
  /\ session[p].stage = "prepared"
  /\ createdAt \in LastTime(s) .. LastTime(s) + 1
  /\ Cardinality(recorded \cup {record}) <= MaxRecords
  /\ signalLatest' = [signalLatest EXCEPT ![s] = record]
  /\ recorded' = recorded \cup {record}
  /\ notices' = [w \in Subscribers |->
       IF listenKey[w][s] = NoKey THEN notices[w] ELSE notices[w] \cup {record}]
  /\ session' \in {session, [session EXCEPT ![p] = Idle]}
  /\ UNCHANGED <<memberVars, post, social, issued, addressed, listenKey, handler,
                 calls>>

-----------------------------------------------------------------------------
(* Listening. *)

(* Jetstream may report the account as it is when listening starts. *)
Listen(w, s, g) ==
  /\ listenKey[w][s] = NoKey
  /\ listenKey' = [listenKey EXCEPT ![w][s] = g]
  /\ \/ UNCHANGED notices
     \/ /\ signalLatest[s] # NoRecord
        /\ notices' = [notices EXCEPT ![w] = @ \cup {signalLatest[s]}]
  /\ UNCHANGED <<memberVars, publishVars, handler, calls>>

(* A notice may be late, out of order, repeated or lost. *)
Lose(w, r) ==
  /\ r \in notices[w]
  /\ notices' = [notices EXCEPT ![w] = @ \ {r}]
  /\ UNCHANGED <<memberVars, publishVars, listenKey, handler, calls>>

At(w, r, step) == handler[w][r].step = step

Goto(w, r, step) ==
  /\ handler' = [handler EXCEPT ![w][r] = [@ EXCEPT !.step = step]]
  /\ UNCHANGED <<memberVars, publishVars, listenKey, notices, calls>>

(* One step of a handler: it goes on when the condition holds and ends,     *)
(* without a call and for good, when it does not.                           *)
Continue(w, r, step, condition, next) ==
  /\ At(w, r, step)
  /\ Goto(w, r, IF condition THEN next ELSE "ended")

(* seenSignals: the record is marked before the handler's first await and   *)
(* stays marked.                                                            *)
Seen_Slip(w, r) == ~At(w, r, "none") /\ ~At(w, r, "done") /\ ~At(w, r, "ended")
Seen(w, r) == ~At(w, r, "none")

Notify(w, r) ==
  /\ r \in notices[w]
  /\ ~Seen(w, r)
  /\ handler' = [handler EXCEPT ![w][r] = [NoHandler(r) EXCEPT !.step = "metadata"]]
  /\ UNCHANGED <<memberVars, publishVars, listenKey, notices, calls>>

(* The store finds a signal by its hash, on whatever stream it is. *)
Home(signal) == {s \in Streams : Board!Posted(s, signal)}

(* waitForMetadata: GET /signals/by-hash, MetaTries times. *)
Exhausted(w, r) == handler[w][r].tries + 1 = MetaTries

FetchMetadata(w, r) ==
  /\ At(w, r, "metadata")
  /\ IF Home(r.signal) # {}
     THEN Goto(w, r, "lookup")
     ELSE IF Exhausted(w, r) THEN Goto(w, r, "ended")
     ELSE /\ handler' = [handler EXCEPT ![w][r].tries = @ + 1]
          /\ UNCHANGED <<memberVars, publishVars, listenKey, notices, calls>>

IsPublic(r) == r.signal \in PublicSignals

(* GET /storage/public and GET /storage/keybox: the signal again, by the    *)
(* hash of its payload or of its keybox; then the subscription.  (All empty *)
(* keyboxes have the same hash, and a look-up may find another stream's:    *)
(* it ends where ours does, with no entry to read.)                         *)
LookUp(w, r) ==
  /\ At(w, r, "lookup")
  /\ \/ Home(r.signal) = {} /\ Goto(w, r, "ended")
     \/ \E s \in Home(r.signal) :
          /\ handler' = [handler EXCEPT ![w][r] =
               [@ EXCEPT !.step = "entitle", !.home = s]]
          /\ UNCHANGED <<memberVars, publishVars, listenKey, notices, calls>>

Entitle_Slip(w, r) ==
  Continue(w, r, "entitle", Entitled(r.stream, w),
           IF IsPublic(r) THEN "payload" ELSE "key")
Entitle(w, r) ==
  Continue(w, r, "entitle", Entitled(handler[w][r].home, w),
           IF IsPublic(r) THEN "payload" ELSE "key")

(* The key the client sent must be the one registered now. *)
CheckKey(w, r) ==
  Continue(w, r, "key",
           chainKey[handler[w][r].home][w] = listenKey[w][r.stream], "entry")

SealedFor(s, w, g) == post[s] # NoPost /\ <<w, g>> \in post[s].readers

(* The keybox by its hash, the entry by the key, the ciphertext by its hash. *)
Keybox(w, r) ==
  \E s \in Home(r.signal) : SealedFor(s, w, listenKey[w][r.stream])

ReadEntry(w, r) == Continue(w, r, "entry", Keybox(w, r), "payload")

FetchPayload(w, r) == Continue(w, r, "payload", Home(r.signal) # {}, "call")

CallOnSignal(w, r) ==
  /\ At(w, r, "call")
  /\ calls' = [calls EXCEPT ![w][r] = @ + 1]
  /\ handler' = [handler EXCEPT ![w][r] = [@ EXCEPT !.step = "done"]]
  /\ UNCHANGED <<memberVars, publishVars, listenKey, notices>>

(* Any request of a handler may fail, and a record older than maxAgeMs is   *)
(* let go: either way nothing tries it again.                               *)
Fail(w, r) ==
  /\ FaultyNetwork
  /\ ~At(w, r, "none") /\ ~At(w, r, "done") /\ ~At(w, r, "ended")
  /\ Goto(w, r, "ended")

-----------------------------------------------------------------------------

SubscriberStep ==
  \E s \in Streams, w \in Subscribers :
    \/ Subscribe(s, w)
    \/ Cancel(s, w)
    \/ Lapse(s, w)
    \/ Renew(s, w)
    \/ \E g \in Generations : RegisterSubscriptionKey(s, w, g)

PublisherStep ==
  \E p \in Publishers :
    \/ \E s \in Streams, signal \in Signals :
         RequestPublic(p, s, signal) \/ RequestPrivate(p, s, signal)
    \/ ReadKeys(p)
    \/ Store(p)
    \/ GiveUp(p)
    \/ \E createdAt \in 0 .. MaxTime : Record(p, createdAt)

HandlerStep(w, r) ==
  \/ FetchMetadata(w, r)
  \/ LookUp(w, r)
  \/ Entitle(w, r)
  \/ CheckKey(w, r)
  \/ ReadEntry(w, r)
  \/ FetchPayload(w, r)
  \/ CallOnSignal(w, r)

ListenerStep ==
  \E w \in Subscribers :
    \/ \E s \in Streams, g \in Generations : Listen(w, s, g)
    \/ \E r \in Records :
         Notify(w, r) \/ Lose(w, r) \/ HandlerStep(w, r) \/ Fail(w, r)

Next == SubscriberStep \/ PublisherStep \/ ListenerStep

Spec == Init /\ [][Next]_vars

(* A notice that is not lost arrives, and the event loop runs a handler on: *)
(* a record has one of the two steps to take at a time.  Publishers and     *)
(* subscribers owe nothing.                                                 *)
Fairness ==
  \A w \in Subscribers, r \in Records :
    WF_vars(Notify(w, r) \/ HandlerStep(w, r))

FairSpec == Spec /\ Fairness

-----------------------------------------------------------------------------
(* Properties. *)

Heard(w, signal) == \E r \in Records : r.signal = signal /\ calls[w][r] > 0

(* A client's onSignal is given a private signal only if the wallet's       *)
(* subscription was active and not expired when the publisher asked for     *)
(* the signal, whatever joins, lapses, renewals and key rotations happen    *)
(* between that request, the reading of the keys, the record and the        *)
(* handler's own requests.  That is what keybox and storage routes achieve; *)
(* the text in the social graph goes past them, see KnownOnlyIfSealedFor.   *)
HeardOnlyIfSealedFor ==
  \A w \in Subscribers, signal \in Signals \ PublicSignals :
    Heard(w, signal) => w \in addressed[signal]

(* README.md of a private stream: "only paid subscribers can decrypt and    *)
(* act upon".  Any wallet can read what stands in the social graph.         *)
KnownOnlyIfSealedFor ==
  \A w \in Subscribers, signal \in Signals \ PublicSignals :
    signal \in social \/ Heard(w, signal) => w \in addressed[signal]

(* Listening is the feed of SignalFeed.tla: onSignal is called for recorded *)
(* signals only, and once for a record however often, and however late, its *)
(* notice arrives and however the handlers of several records interleave.   *)
Feed == INSTANCE SignalFeed WITH
  Listeners <- Subscribers, Announcements <- Records,
  announced <- recorded, handed <- calls

ImplementsFeed == Feed!Spec

(* A listener waiting for a record has all it takes to read it where the   *)
(* backend finds it.  A public text may have come back on another stream    *)
(* than the one recorded: then that stream's subscription is asked for.     *)
Readable(w, r) ==
  /\ Home(r.signal) # {}
  /\ \A s \in Home(r.signal) :
       /\ Entitled(s, w)
       /\ IsPublic(r) \/ /\ chainKey[s][w] = listenKey[w][r.stream]
                         /\ SealedFor(s, w, listenKey[w][r.stream])

Awaited(w, r) == r \in notices[w] /\ ~Seen(w, r)

(* When a notice is on its way and the listener could read the signal, the  *)
(* listener gets it, unless the notice is lost or reading it becomes        *)
(* impossible first: no handler is stuck, gives up early or is starved by   *)
(* the handlers of other records.                                           *)
HandedUnlessOvertaken ==
  \A w \in Subscribers, r \in Records :
    (Awaited(w, r) /\ Readable(w, r)) ~>
      (calls[w][r] > 0 \/ ~Readable(w, r) \/ (r \notin notices[w] /\ ~Seen(w, r)))

(* documents/Prepare_Publish_Signal_Flow.md: "Subscribers detect change and *)
(* fetch ciphertext + keybox".                                              *)
LatestIsFetchable ==
  \A s \in Streams :
    signalLatest[s] # NoRecord => Board!Posted(s, signalLatest[s].signal)
=============================================================================
