----------------------- MODULE SignalDelivery_proofs -----------------------
(* Theorems about SignalDelivery, for every value of its constants. *)
EXTENDS SignalDelivery, TLAPS

(* What a listener's clients hold has its type. *)
ListenType ==
  /\ listenKey \in [Subscribers -> [Streams -> Generations \cup {NoKey}]]
  /\ notices \in [Subscribers -> SUBSET Records]
  /\ handler \in [Subscribers -> [Records -> Handlers]]
  /\ calls \in [Subscribers -> [Records -> Nat]]

(* Everything a client has heard of was recorded, and onSignal was called   *)
(* for exactly the records whose handler is done.                           *)
HeardIsRecorded ==
  /\ \A s \in Streams : signalLatest[s] # NoRecord => signalLatest[s] \in recorded
  /\ \A w \in Subscribers : notices[w] \subseteq recorded
  /\ \A w \in Subscribers, r \in Records : ~At(w, r, "none") => r \in recorded

CalledWhenDone ==
  \A w \in Subscribers, r \in Records :
    calls[w][r] = IF At(w, r, "done") THEN 1 ELSE 0

FeedInv == TypeOK /\ HeardIsRecorded /\ CalledWhenDone

LEMMA NextCases ==
  ASSUME Next
  PROVE  \/ SubscriberStep
         \/ PublisherStep
         \/ ListenerStep
BY DEF Next

-----------------------------------------------------------------------------
(* Type correctness. *)

LEMMA SubscriberType ==
  ASSUME TypeOK, SubscriberStep
  PROVE  TypeOK'
<1> SUFFICES ASSUME NEW s \in Streams, NEW w \in Subscribers, NEW g \in Generations,
                    \/ Subscribe(s, w)
                    \/ Cancel(s, w)
                    \/ Lapse(s, w)
                    \/ Renew(s, w)
                    \/ RegisterSubscriptionKey(s, w, g)
             PROVE  TypeOK'
  <2>1. \E g \in Generations : TRUE
    BY DeliveryAssumption DEF Generations
  <2> QED
    BY <2>1 DEF SubscriberStep
<1> USE DEF TypeOK, publishVars, listenVars, Board!TypeOK, Members!Enter
<1>1. CASE Subscribe(s, w)
  BY <1>1 DEF Subscribe, Members!Join
<1>2. CASE Cancel(s, w)
  BY <1>2 DEF Cancel, Members!Leave
<1>3. CASE Lapse(s, w)
  BY <1>3 DEF Lapse
<1>4. CASE Renew(s, w)
  <2>1. /\ joined' = joined
        /\ \/ present' = [present EXCEPT ![s] = @ \cup {w}]
           \/ present' = present
    BY <1>4 DEF Renew, Members!Return
  <2>2. expired' = [expired EXCEPT ![s] = @ \ {w}]
    BY <1>4 DEF Renew
  <2>3. present' \in [Streams -> SUBSET Subscribers]
    <3>1. CASE present' = [present EXCEPT ![s] = @ \cup {w}]
      BY <3>1
    <3>2. CASE present' = present
      BY <3>2
    <3> QED
      BY <2>1, <3>1, <3>2
  <2>4. expired' \in [Streams -> SUBSET Subscribers]
    BY <2>2
  <2>5. UNCHANGED <<chainKey, publishVars, listenVars>>
    BY <1>4 DEF Renew
  <2> QED
    BY <2>1, <2>3, <2>4, <2>5
<1>5. CASE RegisterSubscriptionKey(s, w, g)
  BY <1>5 DEF RegisterSubscriptionKey
<1> QED
  BY <1>1, <1>2, <1>3, <1>4, <1>5

LEMMA PublisherType ==
  ASSUME TypeOK, PublisherStep
  PROVE  TypeOK'
<1> SUFFICES ASSUME NEW p \in Publishers,
                    \/ \E s \in Streams, signal \in Signals :
                         RequestPublic(p, s, signal) \/ RequestPrivate(p, s, signal)
                    \/ ReadKeys(p)
                    \/ Store(p)
                    \/ GiveUp(p)
                    \/ \E createdAt \in 0 .. MaxTime : Record(p, createdAt)
             PROVE  TypeOK'
  BY DEF PublisherStep
<1> USE DEF TypeOK, memberVars, listenVars, Board!TypeOK
<1>1. ASSUME NEW s \in Streams, NEW signal \in Signals, RequestPublic(p, s, signal)
      PROVE  TypeOK'
  BY <1>1 DEF RequestPublic, Sessions, Fits
<1>2. ASSUME NEW s \in Streams, NEW signal \in Signals, RequestPrivate(p, s, signal)
      PROVE  TypeOK'
  BY <1>2 DEF RequestPrivate, Sessions, Fits, ListedSubscribers
<1>3. CASE ReadKeys(p)
  <2>1. /\ session[p].stream \in Streams
        /\ session[p].signal \in Signals
        /\ session[p].listed \in SUBSET Subscribers
        /\ Fits(session[p].stream, session[p].signal)
    BY <1>3 DEF ReadKeys, Sessions
  <2>2. RegisteredKeys(session[p].stream, session[p].listed) \in SUBSET Readers
    BY <2>1 DEF RegisteredKeys, Readers
  <2>3. [stage |-> "sealed", stream |-> session[p].stream,
         signal |-> session[p].signal,
         readers |-> RegisteredKeys(session[p].stream, session[p].listed)] \in Sessions
    BY <2>1, <2>2 DEF Sessions
  <2> QED
    BY <1>3, <2>3 DEF ReadKeys
<1>4. CASE Store(p)
  <2>1. /\ session[p].stream \in Streams
        /\ session[p].signal \in Signals
        /\ session[p].readers \in SUBSET Readers
        /\ Fits(session[p].stream, session[p].signal)
    BY <1>4 DEF Store, Sessions
  <2>2. post' \in [Streams -> Board!Posts \cup {NoPost}]
    BY <1>4, <2>1 DEF Store, Board!Publish, Board!Posts
  <2>3. session' \in [Publishers -> Sessions \cup {Idle}]
    BY <1>4, <2>1 DEF Store, Sessions
  <2>4. social' \subseteq Signals
    BY <1>4, <2>1 DEF Store, Reposted
  <2> QED
    BY <1>4, <2>2, <2>3, <2>4 DEF Store
<1>5. CASE GiveUp(p)
  BY <1>5 DEF GiveUp
<1>6. ASSUME NEW createdAt \in 0 .. MaxTime, Record(p, createdAt)
      PROVE  TypeOK'
  <2> DEFINE record == [stream |-> session[p].stream, signal |-> session[p].signal,
                        createdAt |-> createdAt]
  <2>1. /\ session[p].stream \in Streams
        /\ session[p].signal \in Signals
        /\ Fits(session[p].stream, session[p].signal)
    BY <1>6 DEF Record, Sessions
  <2>2. record \in Records
    BY <2>1 DEF Records
  <2>3. /\ signalLatest' = [signalLatest EXCEPT ![session[p].stream] = record]
        /\ recorded' = recorded \cup {record}
        /\ notices' = [v \in Subscribers |->
             IF listenKey[v][session[p].stream] = NoKey
             THEN notices[v] ELSE notices[v] \cup {record}]
        /\ session' \in {session, [session EXCEPT ![p] = Idle]}
    BY <1>6 DEF Record
  <2> HIDE DEF record
  <2>4. session' \in [Publishers -> Sessions \cup {Idle}]
    BY <2>3
  <2>5. /\ signalLatest' \in [Streams -> Records \cup {NoRecord}]
        /\ recorded' \subseteq Records
        /\ notices' \in [Subscribers -> SUBSET Records]
    BY <2>2, <2>3
  <2> QED
    BY <1>6, <2>4, <2>5 DEF Record
<1> QED
  BY <1>1, <1>2, <1>3, <1>4, <1>5, <1>6

(* What one step of a running handler does, whichever it is: it replaces    *)
(* the handler's state, and calls onSignal exactly when it makes it "done". *)
HandlerMove(w, r, h) ==
  /\ handler' = [handler EXCEPT ![w][r] = h]
  /\ \/ h.step = "done" /\ calls' = [calls EXCEPT ![w][r] = @ + 1]
     \/ h.step # "done" /\ calls' = calls
  /\ UNCHANGED <<memberVars, publishVars, listenKey, notices>>

LEMMA GotoMove ==
  ASSUME TypeOK, NEW w \in Subscribers, NEW r \in Records,
         NEW step \in HandlerSteps \ {"none", "done"}, Goto(w, r, step)
  PROVE  \E h \in Handlers : h.step = step /\ HandlerMove(w, r, h)
<1> DEFINE h == [handler[w][r] EXCEPT !.step = step]
<1>1. handler[w][r] \in Handlers
  BY DEF TypeOK
<1>2. h \in Handlers /\ h.step = step
  BY <1>1 DEF Handlers
<1>3. HandlerMove(w, r, h)
  BY <1>2 DEF Goto, HandlerMove
<1> QED
  BY <1>2, <1>3

LEMMA HandlerStepMove ==
  ASSUME TypeOK, NEW w \in Subscribers, NEW r \in Records,
         HandlerStep(w, r) \/ Fail(w, r)
  PROVE  /\ ~At(w, r, "none") /\ ~At(w, r, "done")
         /\ \E h \in Handlers : h.step # "none" /\ HandlerMove(w, r, h)
<1> USE DEF At
<1>1. CASE FetchMetadata(w, r)
  <2>1. CASE Home(r.signal) = {} /\ ~Exhausted(w, r)
    <3> DEFINE h == [handler[w][r] EXCEPT !.tries = @ + 1]
    <3>1. handler[w][r] \in Handlers /\ handler[w][r].tries + 1 # MetaTries
      BY <2>1 DEF TypeOK, Exhausted
    <3>2. handler[w][r].step = "metadata"
      BY <1>1 DEF FetchMetadata
    <3>3. handler[w][r].tries + 1 \in 0 .. MetaTries - 1
      BY <3>1, DeliveryAssumption DEF Handlers
    <3>4. h \in Handlers /\ h.step = "metadata"
      BY <3>1, <3>2, <3>3 DEF Handlers
    <3>5. HandlerMove(w, r, h)
      BY <1>1, <2>1, <3>4 DEF FetchMetadata, HandlerMove
    <3> QED
      BY <3>2, <3>4, <3>5
  <2>2. CASE Home(r.signal) # {} \/ Exhausted(w, r)
    <3>1. At(w, r, "metadata")
      BY <1>1 DEF FetchMetadata
    <3>2. PICK step \in {"lookup", "ended"} : Goto(w, r, step)
      BY <1>1, <2>2 DEF FetchMetadata
    <3> QED
      BY <3>1, <3>2, GotoMove DEF HandlerSteps
  <2> QED
    BY <2>1, <2>2
<1>2. CASE LookUp(w, r)
  <2>1. CASE Goto(w, r, "ended")
    <3>1. At(w, r, "lookup")
      BY <1>2 DEF LookUp
    <3> QED
      BY <2>1, <3>1, GotoMove DEF HandlerSteps
  <2>2. CASE ~Goto(w, r, "ended")
    <3>1. PICK s \in Home(r.signal) :
            handler' = [handler EXCEPT ![w][r] =
              [@ EXCEPT !.step = "entitle", !.home = s]]
      BY <1>2, <2>2 DEF LookUp
    <3> DEFINE h == [handler[w][r] EXCEPT !.step = "entitle", !.home = s]
    <3>2. s \in Streams /\ handler[w][r] \in Handlers
      BY <3>1 DEF Home, TypeOK
    <3>3. h \in Handlers /\ h.step = "entitle"
      BY <3>2 DEF Handlers, HandlerSteps
    <3>4. HandlerMove(w, r, h)
      BY <1>2, <2>2, <3>1, <3>3 DEF LookUp, HandlerMove
    <3>5. At(w, r, "lookup")
      BY <1>2 DEF LookUp
    <3> QED
      BY <3>3, <3>4, <3>5
  <2> QED
    BY <2>1, <2>2
<1>3. CASE Entitle(w, r) \/ CheckKey(w, r) \/ ReadEntry(w, r) \/ FetchPayload(w, r)
  <2>1. PICK step \in {"payload", "key", "entry", "call", "ended"} : Goto(w, r, step)
    BY <1>3 DEF Entitle, CheckKey, ReadEntry, FetchPayload, Continue
  <2>2. ~At(w, r, "none") /\ ~At(w, r, "done")
    BY <1>3 DEF Entitle, CheckKey, ReadEntry, FetchPayload, Continue
  <2> QED
    BY <2>1, <2>2, GotoMove DEF HandlerSteps
<1>4. CASE CallOnSignal(w, r)
  <2> DEFINE h == [handler[w][r] EXCEPT !.step = "done"]
  <2>1. handler[w][r] \in Handlers /\ At(w, r, "call")
    BY <1>4 DEF TypeOK, CallOnSignal
  <2>2. h \in Handlers /\ h.step = "done"
    BY <2>1 DEF Handlers, HandlerSteps
  <2>3. HandlerMove(w, r, h)
    BY <1>4, <2>2 DEF CallOnSignal, HandlerMove
  <2> QED
    BY <2>1, <2>2, <2>3
<1>5. CASE Fail(w, r)
  <2>1. Goto(w, r, "ended") /\ ~At(w, r, "none") /\ ~At(w, r, "done")
    BY <1>5 DEF Fail
  <2> QED
    BY <2>1, GotoMove DEF HandlerSteps
<1> QED
  BY <1>1, <1>2, <1>3, <1>4, <1>5 DEF HandlerStep

LEMMA ListenerCases ==
  ASSUME ListenerStep, TypeOK
  PROVE  \E w \in Subscribers :
           \/ \E s \in Streams, g \in Generations : Listen(w, s, g)
           \/ \E r \in Records : Notify(w, r) \/ Lose(w, r)
           \/ \E r \in Records, h \in Handlers :
                /\ ~At(w, r, "none") /\ ~At(w, r, "done")
                /\ h.step # "none"
                /\ HandlerMove(w, r, h)
BY HandlerStepMove DEF ListenerStep

LEMMA ListenerType ==
  ASSUME TypeOK, ListenerStep
  PROVE  TypeOK'
<1>1. PICK w \in Subscribers :
           \/ \E s \in Streams, g \in Generations : Listen(w, s, g)
           \/ \E r \in Records : Notify(w, r) \/ Lose(w, r)
           \/ \E r \in Records, h \in Handlers :
                /\ ~At(w, r, "none") /\ ~At(w, r, "done")
                /\ h.step # "none"
                /\ HandlerMove(w, r, h)
  BY ListenerCases
<1> USE DEF TypeOK, memberVars, publishVars, Board!TypeOK
<1>2. ASSUME NEW s \in Streams, NEW g \in Generations, Listen(w, s, g)
      PROVE  TypeOK'
  <2>1. listenKey' \in [Subscribers -> [Streams -> Generations \cup {NoKey}]]
    BY <1>2 DEF Listen
  <2>2. notices' \in [Subscribers -> SUBSET Records]
    <3>1. CASE UNCHANGED notices
      BY <3>1
    <3>2. CASE notices' = [notices EXCEPT ![w] = @ \cup {signalLatest[s]}]
               /\ signalLatest[s] # NoRecord
      <4>1. signalLatest[s] \in Records
        BY <3>2
      <4> QED
        BY <3>2, <4>1
    <3> QED
      BY <1>2, <3>1, <3>2 DEF Listen
  <2> QED
    BY <1>2, <2>1, <2>2 DEF Listen
<1>3. ASSUME NEW r \in Records, Notify(w, r)
      PROVE  TypeOK'
  <2>1. r.stream \in Streams
    BY DEF Records
  <2>2. NoHandler(r) \in Handlers
    BY <2>1, DeliveryAssumption DEF NoHandler, Handlers, HandlerSteps
  <2>3. [NoHandler(r) EXCEPT !.step = "metadata"] \in Handlers
    BY <2>2 DEF Handlers, HandlerSteps
  <2> QED
    BY <1>3, <2>3 DEF Notify
<1>4. ASSUME NEW r \in Records, Lose(w, r)
      PROVE  TypeOK'
  BY <1>4 DEF Lose
<1>5. ASSUME NEW r \in Records, NEW h \in Handlers, HandlerMove(w, r, h)
      PROVE  TypeOK'
  <2>1. handler' \in [Subscribers -> [Records -> Handlers]]
    BY <1>5 DEF HandlerMove
  <2>2. calls' \in [Subscribers -> [Records -> Nat]]
    <3>1. CASE calls' = [calls EXCEPT ![w][r] = @ + 1]
      BY <3>1
    <3> QED
      BY <1>5, <3>1 DEF HandlerMove
  <2> QED
    BY <1>5, <2>1, <2>2 DEF HandlerMove
<1> QED
  BY <1>1, <1>2, <1>3, <1>4, <1>5

LEMMA TypeInit == Init => TypeOK
<1> SUFFICES ASSUME Init PROVE TypeOK
  OBVIOUS
<1>1. \A r \in Records : NoHandler(r) \in Handlers
  BY DeliveryAssumption DEF NoHandler, Handlers, HandlerSteps, Records
<1> QED
  BY <1>1 DEF Init, TypeOK, Members!Init, Board!Init, Board!TypeOK

LEMMA TypeStep == TypeOK /\ [Next]_vars => TypeOK'
<1> SUFFICES ASSUME TypeOK, [Next]_vars PROVE TypeOK'
  OBVIOUS
<1>1. CASE Next
  BY <1>1, NextCases, SubscriberType, PublisherType, ListenerType
<1>2. CASE UNCHANGED vars
  BY <1>2 DEF TypeOK, vars, memberVars, publishVars, listenVars, Board!TypeOK
<1> QED
  BY <1>1, <1>2

(* The variables of the five services hold values of their declared types:  *)
(* no session or handler is ever in a state its code has no branch for.     *)
THEOREM TypeCorrect == Spec => []TypeOK
BY TypeInit, TypeStep, PTL DEF Spec

-----------------------------------------------------------------------------
(* Listening is a feed. *)

LEMMA FeedInvInit == Init => FeedInv
<1> SUFFICES ASSUME Init PROVE FeedInv
  OBVIOUS
<1>1. TypeOK
  BY TypeInit
<1>2. HeardIsRecorded
  BY DEF Init, HeardIsRecorded, At, NoHandler
<1>3. CalledWhenDone
  BY DEF Init, CalledWhenDone, At, NoHandler
<1> QED
  BY <1>1, <1>2, <1>3 DEF FeedInv

LEMMA RecordHeard ==
  ASSUME FeedInv, NEW p \in Publishers, NEW createdAt \in 0 .. MaxTime,
         Record(p, createdAt)
  PROVE  /\ HeardIsRecorded'
         /\ \E record \in Records : recorded' = recorded \cup {record}
<1> DEFINE record == [stream |-> session[p].stream, signal |-> session[p].signal,
                      createdAt |-> createdAt]
<1>1. record \in Records
  BY DEF FeedInv, TypeOK, Record, Sessions, Records
<1>2. /\ signalLatest' = [signalLatest EXCEPT ![session[p].stream] = record]
      /\ recorded' = recorded \cup {record}
      /\ notices' = [v \in Subscribers |->
           IF listenKey[v][session[p].stream] = NoKey
           THEN notices[v] ELSE notices[v] \cup {record}]
      /\ handler' = handler
  BY DEF Record
<1> HIDE DEF record
<1>3. \A s \in Streams : signalLatest'[s] # NoRecord => signalLatest'[s] \in recorded'
  BY <1>2 DEF FeedInv, TypeOK, HeardIsRecorded
<1>4. \A w \in Subscribers : notices'[w] \subseteq recorded'
  BY <1>2 DEF FeedInv, HeardIsRecorded
<1>5. \A w \in Subscribers, r \in Records : ~At(w, r, "none")' => r \in recorded'
  BY <1>2 DEF FeedInv, HeardIsRecorded, At
<1> QED
  BY <1>1, <1>2, <1>3, <1>4, <1>5 DEF HeardIsRecorded

LEMMA PublisherCalls ==
  ASSUME PublisherStep
  PROVE  calls' = calls /\ handler' = handler
<1>1. PICK p \in Publishers :
        \/ \E s \in Streams, signal \in Signals :
             RequestPublic(p, s, signal) \/ RequestPrivate(p, s, signal)
        \/ ReadKeys(p)
        \/ Store(p)
        \/ GiveUp(p)
        \/ \E createdAt \in 0 .. MaxTime : Record(p, createdAt)
  BY DEF PublisherStep
<1> QED
  BY <1>1 DEF RequestPublic, RequestPrivate, ReadKeys, Store, GiveUp, Record, listenVars

LEMMA PublisherHeard ==
  ASSUME FeedInv, PublisherStep
  PROVE  /\ HeardIsRecorded'
         /\ \/ recorded' = recorded
            \/ \E record \in Records : recorded' = recorded \cup {record}
<1>1. PICK p \in Publishers :
        \/ \E s \in Streams, signal \in Signals :
             RequestPublic(p, s, signal) \/ RequestPrivate(p, s, signal)
        \/ ReadKeys(p)
        \/ Store(p)
        \/ GiveUp(p)
        \/ \E createdAt \in 0 .. MaxTime : Record(p, createdAt)
  BY DEF PublisherStep
<1>2. CASE \E createdAt \in 0 .. MaxTime : Record(p, createdAt)
  BY <1>2, RecordHeard
<1>3. CASE ~\E createdAt \in 0 .. MaxTime : Record(p, createdAt)
  <2>1. UNCHANGED <<signalLatest, recorded, notices, handler>>
    BY <1>1, <1>3 DEF RequestPublic, RequestPrivate, ReadKeys, Store, GiveUp, listenVars
  <2> QED
    BY <2>1 DEF FeedInv, HeardIsRecorded, At
<1> QED
  BY <1>2, <1>3

LEMMA SubscriberUnchanged ==
  ASSUME SubscriberStep
  PROVE  UNCHANGED <<publishVars, listenVars>>
<1>1. PICK s \in Streams, w \in Subscribers :
        \/ Subscribe(s, w)
        \/ Cancel(s, w)
        \/ Lapse(s, w)
        \/ Renew(s, w)
        \/ \E g \in Generations : RegisterSubscriptionKey(s, w, g)
  BY DEF SubscriberStep
<1> QED
  BY <1>1 DEF Subscribe, Cancel, Lapse, Renew, RegisterSubscriptionKey

LEMMA ListenerHeard ==
  ASSUME FeedInv, ListenerStep
  PROVE  HeardIsRecorded' /\ CalledWhenDone'
<1> USE DEF FeedInv
<1>1. PICK w \in Subscribers :
        \/ \E s \in Streams, g \in Generations : Listen(w, s, g)
        \/ \E r \in Records : Notify(w, r) \/ Lose(w, r)
        \/ \E r \in Records, h \in Handlers :
             /\ ~At(w, r, "none") /\ ~At(w, r, "done")
             /\ h.step # "none"
             /\ HandlerMove(w, r, h)
  BY ListenerCases
<1>2. ASSUME NEW s \in Streams, NEW g \in Generations, Listen(w, s, g)
      PROVE  HeardIsRecorded' /\ CalledWhenDone'
  <2>1. UNCHANGED <<handler, calls, signalLatest, recorded>>
    BY <1>2 DEF Listen, publishVars
  <2>2. \A v \in Subscribers : notices'[v] \subseteq notices[v] \cup recorded
    <3>1. CASE UNCHANGED notices
      BY <3>1
    <3>2. CASE /\ signalLatest[s] # NoRecord
               /\ notices' = [notices EXCEPT ![w] = @ \cup {signalLatest[s]}]
      <4>1. signalLatest[s] \in recorded
        BY <3>2 DEF HeardIsRecorded
      <4>2. notices \in [Subscribers -> SUBSET Records]
        BY DEF TypeOK
      <4> QED
        BY <3>2, <4>1, <4>2
    <3> QED
      BY <1>2, <3>1, <3>2 DEF Listen
  <2> QED
    BY <2>1, <2>2 DEF HeardIsRecorded, CalledWhenDone, At
<1>3. ASSUME NEW r \in Records, Notify(w, r)
      PROVE  HeardIsRecorded' /\ CalledWhenDone'
  <2>1. /\ handler' = [handler EXCEPT ![w][r] = [NoHandler(r) EXCEPT !.step = "metadata"]]
        /\ r \in notices[w]
        /\ At(w, r, "none")
        /\ UNCHANGED <<calls, signalLatest, recorded, notices>>
    BY <1>3 DEF Notify, Seen, publishVars
  <2>2. handler'[w][r].step = "metadata"
    BY <2>1 DEF TypeOK, NoHandler
  <2>3. \A v \in Subscribers, q \in Records :
          v # w \/ q # r => handler'[v][q] = handler[v][q]
    BY <2>1 DEF TypeOK
  <2>4. r \in recorded
    BY <2>1 DEF HeardIsRecorded
  <2>5. HeardIsRecorded'
    BY <2>1, <2>3, <2>4 DEF HeardIsRecorded, At
  <2>6. CalledWhenDone'
    BY <2>1, <2>2, <2>3 DEF CalledWhenDone, At
  <2> QED
    BY <2>5, <2>6
<1>4. ASSUME NEW r \in Records, Lose(w, r)
      PROVE  HeardIsRecorded' /\ CalledWhenDone'
  <2>1. UNCHANGED <<handler, calls, signalLatest, recorded>>
    BY <1>4 DEF Lose, publishVars
  <2>2. \A v \in Subscribers : notices'[v] \subseteq notices[v]
    BY <1>4 DEF Lose, TypeOK
  <2> QED
    BY <2>1, <2>2 DEF HeardIsRecorded, CalledWhenDone, At
<1>5. ASSUME NEW r \in Records, NEW h \in Handlers,
             ~At(w, r, "none"), ~At(w, r, "done"), HandlerMove(w, r, h)
      PROVE  HeardIsRecorded' /\ CalledWhenDone'
  <2>1. /\ handler' = [handler EXCEPT ![w][r] = h]
        /\ UNCHANGED <<signalLatest, recorded, notices>>
    BY <1>5 DEF HandlerMove, publishVars
  <2>2. handler'[w][r] = h
    BY <2>1 DEF TypeOK
  <2>3. \A v \in Subscribers, q \in Records :
          v # w \/ q # r => handler'[v][q] = handler[v][q]
    BY <2>1 DEF TypeOK
  <2>4. HeardIsRecorded'
    BY <1>5, <2>1, <2>3 DEF HeardIsRecorded, At
  <2>5. calls[w][r] = 0
    BY <1>5 DEF CalledWhenDone
  <2>6. CASE h.step = "done" /\ calls' = [calls EXCEPT ![w][r] = @ + 1]
    <3>1. calls'[w][r] = 1
      BY <2>5, <2>6 DEF TypeOK
    <3>2. \A v \in Subscribers, q \in Records :
            v # w \/ q # r => calls'[v][q] = calls[v][q]
      BY <2>6 DEF TypeOK
    <3> QED
      BY <2>2, <2>3, <2>4, <2>6, <3>1, <3>2 DEF CalledWhenDone, At
  <2>7. CASE h.step # "done" /\ calls' = calls
    BY <2>2, <2>3, <2>4, <2>5, <2>7 DEF CalledWhenDone, At
  <2> QED
    BY <1>5, <2>6, <2>7 DEF HandlerMove
<1> QED
  BY <1>1, <1>2, <1>3, <1>4, <1>5

LEMMA FeedInvStep == FeedInv /\ [Next]_vars => FeedInv'
<1> SUFFICES ASSUME FeedInv, [Next]_vars PROVE FeedInv'
  OBVIOUS
<1>1. TypeOK'
  BY TypeStep DEF FeedInv
<1>2. CASE SubscriberStep \/ UNCHANGED vars
  <2>1. UNCHANGED <<publishVars, listenVars>>
    BY <1>2, SubscriberUnchanged DEF vars
  <2> QED
    BY <1>1, <2>1 DEF FeedInv, HeardIsRecorded, CalledWhenDone, At, publishVars, listenVars
<1>3. CASE PublisherStep
  BY <1>1, <1>3, PublisherHeard, PublisherCalls DEF FeedInv, CalledWhenDone, At
<1>4. CASE ListenerStep
  BY <1>1, <1>4, ListenerHeard DEF FeedInv
<1> QED
  BY <1>2, <1>3, <1>4, NextCases

LEMMA FeedStep == FeedInv /\ [Next]_vars => [Feed!Next]_Feed!feedVars
<1> SUFFICES ASSUME FeedInv, [Next]_vars PROVE [Feed!Next]_Feed!feedVars
  OBVIOUS
<1>1. CASE SubscriberStep \/ UNCHANGED vars
  BY <1>1, SubscriberUnchanged DEF vars, publishVars, listenVars, Feed!feedVars
<1>2. CASE PublisherStep
  <2>1. calls' = calls
    BY <1>2, PublisherCalls
  <2>2. CASE recorded' = recorded
    BY <2>1, <2>2 DEF Feed!feedVars
  <2>3. CASE \E record \in Records : recorded' = recorded \cup {record}
    BY <2>1, <2>3 DEF Feed!Next, Feed!Announce
  <2> QED
    BY <1>2, <2>2, <2>3, PublisherHeard
<1>3. CASE ListenerStep
  <2> USE DEF FeedInv
  <2>1. PICK w \in Subscribers :
          \/ \E s \in Streams, g \in Generations : Listen(w, s, g)
          \/ \E r \in Records : Notify(w, r) \/ Lose(w, r)
          \/ \E r \in Records, h \in Handlers :
               /\ ~At(w, r, "none") /\ ~At(w, r, "done")
               /\ h.step # "none"
               /\ HandlerMove(w, r, h)
    BY <1>3, ListenerCases
  <2>2. CASE \/ \E s \in Streams, g \in Generations : Listen(w, s, g)
             \/ \E r \in Records : Notify(w, r) \/ Lose(w, r)
    BY <2>2 DEF Listen, Notify, Lose, publishVars, Feed!feedVars
  <2>3. ASSUME NEW r \in Records, NEW h \in Handlers,
               ~At(w, r, "none"), ~At(w, r, "done"), HandlerMove(w, r, h)
        PROVE  [Feed!Next]_Feed!feedVars
    <3>1. r \in recorded /\ calls[w][r] = 0
      BY <2>3 DEF HeardIsRecorded, CalledWhenDone
    <3>2. recorded' = recorded
      BY <2>3 DEF HandlerMove, publishVars
    <3>3. CASE calls' = [calls EXCEPT ![w][r] = @ + 1]
      <4>1. calls' = [calls EXCEPT ![w][r] = 1]
        BY <3>1, <3>3 DEF TypeOK
      <4> QED
        BY <3>1, <3>2, <4>1 DEF Feed!Next, Feed!Hand
    <3>4. CASE calls' = calls
      BY <3>2, <3>4 DEF Feed!feedVars
    <3> QED
      BY <2>3, <3>3, <3>4 DEF HandlerMove
  <2> QED
    BY <2>1, <2>2, <2>3
<1> QED
  BY <1>1, <1>2, <1>3, NextCases

(* Listening to a stream is a feed: onSignal is called only for what was    *)
(* recorded on chain, and once per record, whatever notices are repeated,   *)
(* late or lost and however handlers interleave.                            *)
THEOREM FeedImplemented == Spec => ImplementsFeed
<1>1. Init => Feed!Init
  BY DEF Init, Feed!Init
<1> QED
  BY <1>1, FeedInvInit, FeedInvStep, FeedStep, PTL DEF Spec, ImplementsFeed, Feed!Spec

-----------------------------------------------------------------------------
(* Who a private signal reaches. *)

(* w may have what the signal says: it is for all, or was sealed for w.     *)
Opens(signal, w) ==
  signal \in PublicSignals \/ (signal \in issued /\ w \in addressed[signal])

(* The same after a step, for a signal and a wallet of before or after it.  *)
OpensNext(signal, w) ==
  signal \in PublicSignals \/ (signal \in issued' /\ w \in addressed'[signal])

SessionSealed ==
  \A p \in Publishers :
    /\ session[p] # Idle /\ session[p].stage = "listed" =>
         \A w \in session[p].listed : Opens(session[p].signal, w)
    /\ session[p] # Idle /\ session[p].stage = "sealed" =>
         \A key \in session[p].readers : Opens(session[p].signal, key[1])

PostSealed ==
  \A s \in Streams :
    post[s] # NoPost => \A key \in post[s].readers : Opens(post[s].signal, key[1])

HandlerSealed ==
  \A w \in Subscribers, r \in Records :
    handler[w][r].step \in {"payload", "call", "done"} => Opens(r.signal, w)

SealedInv == FeedInv /\ SessionSealed /\ PostSealed /\ HandlerSealed

LEMMA SealedInit == Init => SealedInv
<1> SUFFICES ASSUME Init PROVE SealedInv
  OBVIOUS
<1>1. FeedInv
  BY FeedInvInit
<1>2. SessionSealed /\ PostSealed
  BY DEF Init, Board!Init, SessionSealed, PostSealed
<1>3. HandlerSealed
  BY DEF Init, NoHandler, HandlerSealed
<1> QED
  BY <1>1, <1>2, <1>3 DEF SealedInv

(* What was sealed stays sealed for the same wallets: only a signal that    *)
(* was never issued is given addressees.                                    *)
LEMMA OpensKept ==
  ASSUME TypeOK, PublisherStep, NEW signal \in Signals, NEW w, Opens(signal, w)
  PROVE  OpensNext(signal, w)
<1>1. PICK p \in Publishers :
        \/ \E s \in Streams, new \in Signals :
             RequestPublic(p, s, new) \/ RequestPrivate(p, s, new)
        \/ ReadKeys(p)
        \/ Store(p)
        \/ GiveUp(p)
        \/ \E createdAt \in 0 .. MaxTime : Record(p, createdAt)
  BY DEF PublisherStep
<1>2. ASSUME NEW s \in Streams, NEW new \in Signals, RequestPrivate(p, s, new)
      PROVE  OpensNext(signal, w)
  <2>1. /\ new \notin PublicSignals \cup issued
        /\ issued' = issued \cup {new}
        /\ addressed' = [addressed EXCEPT ![new] = {v \in Subscribers : Entitled(s, v)}]
    BY <1>2 DEF RequestPrivate, Fits
  <2>2. signal \in PublicSignals \/ signal # new
    BY <2>1 DEF Opens
  <2> QED
    BY <2>1, <2>2 DEF Opens, OpensNext, TypeOK
<1>3. CASE ~\E s \in Streams, new \in Signals : RequestPrivate(p, s, new)
  <2>1. UNCHANGED <<issued, addressed>>
    BY <1>1, <1>3 DEF RequestPublic, ReadKeys, Store, GiveUp, Record
  <2> QED
    BY <2>1 DEF Opens, OpensNext
<1> QED
  BY <1>2, <1>3

LEMMA PublisherSealed ==
  ASSUME SealedInv, PublisherStep
  PROVE  SessionSealed' /\ PostSealed'
<1> USE DEF SealedInv, FeedInv
<1>1. PICK p \in Publishers :
        \/ \E s \in Streams, new \in Signals :
             RequestPublic(p, s, new) \/ RequestPrivate(p, s, new)
        \/ ReadKeys(p)
        \/ Store(p)
        \/ GiveUp(p)
        \/ \E createdAt \in 0 .. MaxTime : Record(p, createdAt)
  BY DEF PublisherStep
<1>2. \A q \in Publishers : session[q] # Idle => session[q].signal \in Signals
  BY DEF TypeOK, Sessions
<1>3. \A s \in Streams : post[s] # NoPost => post[s].signal \in Signals
  BY DEF TypeOK, Board!TypeOK, Board!Posts
<1>4. ASSUME NEW next, session' = [session EXCEPT ![p] = next],
             next # Idle => /\ next.stage = "listed" =>
                                 \A w \in next.listed : OpensNext(next.signal, w)
                            /\ next.stage = "sealed" =>
                                 \A key \in next.readers : OpensNext(next.signal, key[1])
      PROVE  SessionSealed'
  <2> SUFFICES ASSUME NEW q \in Publishers, session'[q] # Idle
               PROVE  /\ session'[q].stage = "listed" =>
                           \A w \in session'[q].listed : OpensNext(session'[q].signal, w)
                      /\ session'[q].stage = "sealed" =>
                           \A key \in session'[q].readers : OpensNext(session'[q].signal, key[1])
    BY DEF SessionSealed, Opens, OpensNext
  <2>1. CASE q = p
    <3>1. session'[q] = next
      BY <1>4, <2>1 DEF TypeOK
    <3> QED
      BY <1>4, <3>1
  <2>2. CASE q # p
    <3>1. session'[q] = session[q] /\ session[q] # Idle
      BY <1>4, <2>2 DEF TypeOK
    <3>2. session[q].signal \in Signals
      BY <1>2, <3>1
    <3>3. session[q].stage = "listed" => \A w \in session[q].listed : Opens(session[q].signal, w)
      BY <3>1 DEF SessionSealed
    <3>4. session[q].stage = "sealed" => \A key \in session[q].readers : Opens(session[q].signal, key[1])
      BY <3>1 DEF SessionSealed
    <3> QED
      BY <3>1, <3>2, <3>3, <3>4, OpensKept
  <2> QED
    BY <2>1, <2>2
<1>5. ASSUME NEW s \in Streams, NEW signal \in Signals, NEW readers,
             post' = [post EXCEPT ![s] = [signal |-> signal, readers |-> readers]],
             \A key \in readers : OpensNext(signal, key[1])
      PROVE  PostSealed'
  <2> SUFFICES ASSUME NEW t \in Streams, post'[t] # NoPost, NEW key \in post'[t].readers
               PROVE  OpensNext(post'[t].signal, key[1])
    BY DEF PostSealed, Opens, OpensNext
  <2>1. CASE t = s
    <3>1. post'[t] = [signal |-> signal, readers |-> readers]
      BY <1>5, <2>1 DEF TypeOK, Board!TypeOK
    <3> QED
      BY <1>5, <3>1
  <2>2. CASE t # s
    <3>1. post'[t] = post[t]
      BY <1>5, <2>2 DEF TypeOK, Board!TypeOK
    <3>2. post[t].signal \in Signals
      BY <1>3, <3>1
    <3>3. Opens(post[t].signal, key[1])
      BY <3>1 DEF PostSealed
    <3> QED
      BY <3>1, <3>2, <3>3, OpensKept
  <2> QED
    BY <2>1, <2>2
<1>6. ASSUME UNCHANGED post
      PROVE  PostSealed'
  <2> SUFFICES ASSUME NEW t \in Streams, post'[t] # NoPost, NEW key \in post'[t].readers
               PROVE  OpensNext(post'[t].signal, key[1])
    BY DEF PostSealed, Opens, OpensNext
  <2>1. Opens(post[t].signal, key[1])
    BY <1>6 DEF PostSealed
  <2>2. post[t].signal \in Signals
    BY <1>3, <1>6
  <2> QED
    BY <1>6, <2>1, <2>2, OpensKept
<1>7. ASSUME NEW s \in Streams, NEW signal \in Signals, RequestPublic(p, s, signal)
      PROVE  SessionSealed' /\ PostSealed'
  <2> DEFINE next == [stage |-> "sealed", stream |-> s, signal |-> signal, readers |-> {}]
  <2>1. session' = [session EXCEPT ![p] = next] /\ UNCHANGED post
    BY <1>7 DEF RequestPublic
  <2>2. /\ next.stage # "listed"
        /\ \A key \in next.readers : OpensNext(next.signal, key[1])
    OBVIOUS
  <2> HIDE DEF next
  <2> QED
    BY <1>4, <1>6, <2>1, <2>2
<1>8. ASSUME NEW s \in Streams, NEW signal \in Signals, RequestPrivate(p, s, signal)
      PROVE  SessionSealed' /\ PostSealed'
  <2> DEFINE next == [stage |-> "listed", stream |-> s, signal |-> signal,
                      listed |-> ListedSubscribers(s)]
  <2>1. session' = [session EXCEPT ![p] = next] /\ UNCHANGED post
    BY <1>8 DEF RequestPrivate
  <2>2. issued' = issued \cup {signal} /\ addressed'[signal] = {v \in Subscribers : Entitled(s, v)}
    BY <1>8 DEF RequestPrivate, TypeOK
  <2>3. /\ next.stage # "sealed"
        /\ \A w \in next.listed : OpensNext(next.signal, w)
    BY <2>2 DEF ListedSubscribers, OpensNext
  <2> HIDE DEF next
  <2> QED
    BY <1>4, <1>6, <2>1, <2>3
<1>9. CASE ReadKeys(p)
  <2> DEFINE readers == RegisteredKeys(session[p].stream, session[p].listed)
             next == [stage |-> "sealed", stream |-> session[p].stream,
                      signal |-> session[p].signal, readers |-> readers]
  <2>1. session' = [session EXCEPT ![p] = next] /\ UNCHANGED post
    BY <1>9 DEF ReadKeys
  <2>2. /\ session[p] # Idle /\ session[p].stage = "listed"
        /\ session[p].signal \in Signals
    BY <1>2, <1>9 DEF ReadKeys
  <2>3. \A key \in readers : key[1] \in session[p].listed
    BY DEF RegisteredKeys
  <2>4. \A w \in session[p].listed : Opens(session[p].signal, w)
    BY <2>2 DEF SessionSealed
  <2>5. \A key \in readers : OpensNext(session[p].signal, key[1])
    BY <2>2, <2>3, <2>4, OpensKept
  <2>6. next.stage # "listed" /\ \A key \in next.readers : OpensNext(next.signal, key[1])
    BY <2>5
  <2> HIDE DEF readers, next
  <2> QED
    BY <1>4, <1>6, <2>1, <2>6
<1>10. CASE Store(p)
  <2>1. /\ session[p] # Idle /\ session[p].stage = "sealed"
        /\ session[p].signal \in Signals /\ session[p].stream \in Streams
    BY <1>10 DEF Store, TypeOK, Sessions
  <2>2. PICK answer \in {Idle, [stage |-> "prepared", stream |-> session[p].stream,
                                signal |-> session[p].signal]} :
          session' = [session EXCEPT ![p] = answer]
    BY <1>10 DEF Store
  <2>3. answer # Idle => answer.stage = "prepared"
    BY <2>2
  <2>4. \A key \in session[p].readers : OpensNext(session[p].signal, key[1])
    BY <2>1, OpensKept DEF SessionSealed
  <2>5. post' = [post EXCEPT ![session[p].stream] =
                  [signal |-> session[p].signal, readers |-> session[p].readers]]
    BY <1>10 DEF Store, Board!Publish
  <2>6. SessionSealed'
    BY <1>4, <2>2, <2>3
  <2> QED
    BY <1>5, <2>1, <2>4, <2>5, <2>6
<1>11. CASE GiveUp(p)
  <2>1. session' = [session EXCEPT ![p] = Idle] /\ UNCHANGED post
    BY <1>11 DEF GiveUp
  <2> QED
    BY <1>4, <1>6, <2>1
<1>12. ASSUME NEW createdAt \in 0 .. MaxTime, Record(p, createdAt)
       PROVE  SessionSealed' /\ PostSealed'
  <2>1. /\ session[p] # Idle /\ session[p].stage = "prepared"
        /\ UNCHANGED post
        /\ session' \in {session, [session EXCEPT ![p] = Idle]}
    BY <1>12 DEF Record
  <2>2. CASE session' = session
    <3>1. session' = [session EXCEPT ![p] = session[p]]
      BY <2>2 DEF TypeOK
    <3> QED
      BY <1>4, <1>6, <2>1, <3>1
  <2> QED
    BY <1>4, <1>6, <2>1, <2>2
<1> QED
  BY <1>1, <1>7, <1>8, <1>9, <1>10, <1>11, <1>12

(* A handler gets past the checks of the routes only when the signal is     *)
(* public or an entry of its keybox is its client's.                        *)
LEMMA HandlerOpens ==
  ASSUME SealedInv, NEW w \in Subscribers, NEW r \in Records,
         HandlerStep(w, r) \/ Fail(w, r),
         handler'[w][r].step \in {"payload", "call", "done"}
  PROVE  Opens(r.signal, w)
<1> USE DEF SealedInv, FeedInv, At
<1>1. handler \in [Subscribers -> [Records -> Handlers]] /\ handler[w][r] \in Handlers
  BY DEF TypeOK
<1>2. ASSUME NEW step, Goto(w, r, step)
      PROVE  handler'[w][r].step = step
  BY <1>1, <1>2 DEF Goto, Handlers
<1>3. CASE FetchMetadata(w, r)
  <2>1. CASE handler' = [handler EXCEPT ![w][r].tries = @ + 1]
    <3>1. handler'[w][r].step = "metadata"
      BY <1>1, <1>3, <2>1 DEF FetchMetadata, Handlers
    <3> QED
      BY <3>1
  <2>2. CASE Goto(w, r, "lookup") \/ Goto(w, r, "ended")
    BY <1>2, <2>2
  <2> QED
    BY <1>3, <2>1, <2>2 DEF FetchMetadata
<1>4. CASE LookUp(w, r)
  <2>1. CASE Goto(w, r, "ended")
    BY <1>2, <2>1
  <2>2. CASE ~Goto(w, r, "ended")
    <3>1. PICK s \in Home(r.signal) :
            handler' = [handler EXCEPT ![w][r] = [@ EXCEPT !.step = "entitle", !.home = s]]
      BY <1>4, <2>2 DEF LookUp
    <3>2. handler'[w][r].step = "entitle"
      BY <1>1, <3>1 DEF Handlers
    <3> QED
      BY <3>2
  <2> QED
    BY <2>1, <2>2
<1>5. CASE Entitle(w, r)
  <2>1. PICK step \in {"ended", IF IsPublic(r) THEN "payload" ELSE "key"} : Goto(w, r, step)
    BY <1>5 DEF Entitle, Continue
  <2>2. IsPublic(r)
    BY <1>2, <2>1
  <2> QED
    BY <2>2 DEF IsPublic, Opens
<1>6. CASE CheckKey(w, r)
  <2>1. PICK step \in {"ended", "entry"} : Goto(w, r, step)
    BY <1>6 DEF CheckKey, Continue
  <2> QED
    BY <1>2, <2>1
<1>7. CASE ReadEntry(w, r)
  <2>1. CASE Keybox(w, r)
    <3>1. PICK s \in Streams :
            Board!Posted(s, r.signal) /\ SealedFor(s, w, listenKey[w][r.stream])
      BY <2>1 DEF Keybox, Home
    <3>2. post[s] # NoPost /\ post[s].signal = r.signal
      BY <3>1 DEF Board!Posted
    <3>3. <<w, listenKey[w][r.stream]>> \in post[s].readers
      BY <3>1 DEF SealedFor
    <3>4. \A key \in post[s].readers : Opens(r.signal, key[1])
      BY <3>2 DEF PostSealed
    <3> QED
      BY <3>3, <3>4
  <2>2. CASE ~Keybox(w, r)
    BY <1>2, <1>7, <2>2 DEF ReadEntry, Continue
  <2> QED
    BY <2>1, <2>2
<1>8. CASE FetchPayload(w, r)
  BY <1>8 DEF FetchPayload, Continue, HandlerSealed
<1>9. CASE CallOnSignal(w, r)
  BY <1>9 DEF CallOnSignal, HandlerSealed
<1>10. CASE Fail(w, r)
  BY <1>2, <1>10 DEF Fail
<1> QED
  BY <1>3, <1>4, <1>5, <1>6, <1>7, <1>8, <1>9, <1>10 DEF HandlerStep

LEMMA ListenerSealed ==
  ASSUME SealedInv, ListenerStep
  PROVE  SessionSealed' /\ PostSealed' /\ HandlerSealed'
<1> USE DEF SealedInv, FeedInv
<1>1. PICK w \in Subscribers :
        \/ \E s \in Streams, g \in Generations : Listen(w, s, g)
        \/ \E r \in Records :
             Notify(w, r) \/ Lose(w, r) \/ HandlerStep(w, r) \/ Fail(w, r)
  BY DEF ListenerStep
<1>2. UNCHANGED publishVars
  <2>1. CASE \E r \in Records : HandlerStep(w, r) \/ Fail(w, r)
    BY <2>1, HandlerStepMove DEF HandlerMove
  <2> QED
    BY <1>1, <2>1 DEF Listen, Notify, Lose
<1>3. \A signal, v : Opens(signal, v)' <=> Opens(signal, v)
  BY <1>2 DEF publishVars, Opens
<1>4. SessionSealed' /\ PostSealed'
  BY <1>2 DEF publishVars, SessionSealed, PostSealed, Opens
<1>5. ASSUME NEW r \in Records, NEW h, handler' = [handler EXCEPT ![w][r] = h],
             h.step \in {"payload", "call", "done"} => Opens(r.signal, w)
      PROVE  HandlerSealed'
  <2> SUFFICES ASSUME NEW v \in Subscribers, NEW q \in Records,
                      handler'[v][q].step \in {"payload", "call", "done"}
               PROVE  Opens(q.signal, v)
    BY <1>2 DEF HandlerSealed, publishVars, Opens
  <2>1. CASE v = w /\ q = r
    BY <1>5, <2>1 DEF TypeOK
  <2>2. CASE v # w \/ q # r
    <3>1. handler'[v][q] = handler[v][q]
      BY <1>5, <2>2 DEF TypeOK
    <3> QED
      BY <3>1 DEF HandlerSealed
  <2> QED
    BY <2>1, <2>2
<1>6. ASSUME UNCHANGED handler
      PROVE  HandlerSealed'
  BY <1>2, <1>6 DEF HandlerSealed, publishVars, Opens
<1>7. ASSUME NEW r \in Records, Notify(w, r)
      PROVE  HandlerSealed'
  <2> DEFINE h == [NoHandler(r) EXCEPT !.step = "metadata"]
  <2>1. handler' = [handler EXCEPT ![w][r] = h]
    BY <1>7 DEF Notify
  <2>2. h.step = "metadata"
    BY DEF NoHandler
  <2> HIDE DEF h
  <2> QED
    BY <1>5, <2>1, <2>2
<1>8. ASSUME NEW r \in Records, HandlerStep(w, r) \/ Fail(w, r)
      PROVE  HandlerSealed'
  <2>1. PICK h \in Handlers : HandlerMove(w, r, h)
    BY <1>8, HandlerStepMove
  <2>2. handler' = [handler EXCEPT ![w][r] = h]
    BY <2>1 DEF HandlerMove
  <2>3. handler'[w][r] = h
    BY <2>2 DEF TypeOK
  <2> QED
    BY <1>5, <1>8, <2>2, <2>3, HandlerOpens
<1> QED
  BY <1>1, <1>4, <1>6, <1>7, <1>8 DEF Listen, Lose

LEMMA SealedStep == SealedInv /\ [Next]_vars => SealedInv'
<1> SUFFICES ASSUME SealedInv, [Next]_vars PROVE SealedInv'
  OBVIOUS
<1>1. FeedInv'
  BY FeedInvStep DEF SealedInv
<1>2. CASE SubscriberStep \/ UNCHANGED vars
  <2>1. UNCHANGED <<publishVars, listenVars>>
    BY <1>2, SubscriberUnchanged DEF vars
  <2> QED
    BY <1>1, <2>1 DEF SealedInv, SessionSealed, PostSealed, HandlerSealed, Opens,
                      publishVars, listenVars
<1>3. CASE PublisherStep
  <2>1. SessionSealed' /\ PostSealed'
    BY <1>3, PublisherSealed
  <2>2. handler' = handler
    BY <1>3, PublisherCalls
  <2>3. ASSUME NEW w \in Subscribers, NEW r \in Records,
               handler'[w][r].step \in {"payload", "call", "done"}
        PROVE  OpensNext(r.signal, w)
    <3>1. Opens(r.signal, w)
      BY <2>2, <2>3 DEF SealedInv, HandlerSealed
    <3>2. r.signal \in Signals /\ TypeOK
      BY DEF Records, SealedInv, FeedInv
    <3> QED
      BY <1>3, <3>1, <3>2, OpensKept
  <2>4. HandlerSealed'
    BY <2>3 DEF HandlerSealed, Opens, OpensNext
  <2> QED
    BY <1>1, <2>1, <2>4 DEF SealedInv
<1>4. CASE ListenerStep
  BY <1>1, <1>4, ListenerSealed DEF SealedInv
<1> QED
  BY <1>2, <1>3, <1>4, NextCases

LEMMA SealedEnough == SealedInv => HeardOnlyIfSealedFor
<1> SUFFICES ASSUME SealedInv, NEW w \in Subscribers, NEW r \in Records,
                    calls[w][r] > 0, r.signal \notin PublicSignals
             PROVE  w \in addressed[r.signal]
  BY DEF HeardOnlyIfSealedFor, Heard
<1>1. handler[w][r].step = "done"
  BY DEF SealedInv, FeedInv, CalledWhenDone, At
<1>2. Opens(r.signal, w)
  BY <1>1 DEF SealedInv, HandlerSealed
<1> QED
  BY <1>2 DEF Opens

(* What the keyboxes and the storage routes achieve: onSignal is given a    *)
(* private signal only in clients of wallets whose subscription was active  *)
(* and not expired when its publisher asked for it, for any number of       *)
(* streams, publishers, key pairs and requests under way.  The text in the  *)
(* social graph does not go through them (KnownOnlyIfSealedFor).            *)
THEOREM SealedCorrect == Spec => []HeardOnlyIfSealedFor
BY SealedInit, SealedStep, SealedEnough, PTL DEF Spec

-----------------------------------------------------------------------------
(* The board that delivery reads. *)

(* Listening changes neither subscriptions nor what is published.           *)
LEMMA ListenerLeaves ==
  ASSUME TypeOK, ListenerStep
  PROVE  UNCHANGED <<memberVars, publishVars>>
<1>1. PICK w \in Subscribers :
        \/ \E s \in Streams, g \in Generations : Listen(w, s, g)
        \/ \E r \in Records : Notify(w, r) \/ Lose(w, r)
        \/ \E r \in Records, h \in Handlers :
             /\ ~At(w, r, "none") /\ ~At(w, r, "done")
             /\ h.step # "none"
             /\ HandlerMove(w, r, h)
  BY ListenerCases
<1> QED
  BY <1>1 DEF Listen, Notify, Lose, HandlerMove

(* What a publisher stores is a post: a signal and public keys.             *)
LEMMA StoreStep ==
  ASSUME TypeOK, NEW p \in Publishers, Store(p)
  PROVE  Board!Next
<1>1. /\ session[p] \in Sessions /\ session[p].stage = "sealed"
      /\ Board!Publish(session[p].stream, session[p].signal, session[p].readers)
  BY DEF Store, TypeOK
<1>2. /\ session[p].stream \in Streams /\ session[p].signal \in Signals
      /\ session[p].readers \in SUBSET Readers
  BY <1>1 DEF Sessions
<1> QED
  BY <1>1, <1>2 DEF Board!Next

LEMMA BoardStep == TypeOK /\ [Next]_vars => [Board!Next]_post
<1> SUFFICES ASSUME TypeOK, [Next]_vars PROVE Board!Next \/ post' = post
  OBVIOUS
<1>1. CASE SubscriberStep
  BY <1>1, SubscriberUnchanged DEF publishVars
<1>2. CASE PublisherStep
  <2>1. PICK p \in Publishers :
          \/ \E s \in Streams, signal \in Signals :
               RequestPublic(p, s, signal) \/ RequestPrivate(p, s, signal)
          \/ ReadKeys(p) \/ Store(p) \/ GiveUp(p)
          \/ \E createdAt \in 0 .. MaxTime : Record(p, createdAt)
    BY <1>2 DEF PublisherStep
  <2>2. CASE Store(p)
    BY <2>2, StoreStep
  <2> QED
    BY <2>1, <2>2 DEF RequestPublic, RequestPrivate, ReadKeys, GiveUp, Record
<1>3. CASE ListenerStep
  BY <1>3, ListenerLeaves DEF publishVars
<1> QED
  BY <1>1, <1>2, <1>3 DEF Next, vars, publishVars

(* A signal stands on at most one stream, so that what is looked up by its  *)
(* hash, here and in the storage routes, is one post.                       *)
OneHome == \A s, t \in Streams, signal \in Signals :
  Board!Posted(s, signal) /\ Board!Posted(t, signal) => s = t

LEMMA OneHomeStep == TypeOK /\ OneHome /\ [Board!Next]_post => OneHome'
<1> SUFFICES ASSUME TypeOK, OneHome, [Board!Next]_post,
                    NEW s \in Streams, NEW t \in Streams, NEW signal \in Signals,
                    Board!Posted(s, signal)', Board!Posted(t, signal)'
             PROVE  s = t
  BY DEF OneHome
<1>1. CASE post' = post
  BY <1>1 DEF OneHome, Board!Posted
<1>2. CASE Board!Next
  <2>1. PICK u \in Streams, new \in Signals, readers \in SUBSET Readers :
          Board!Publish(u, new, readers)
    BY <1>2 DEF Board!Next
  <2>2. \A v \in Streams \ {u} : post'[v] = post[v] /\ ~Board!Posted(v, new)
    BY <2>1 DEF Board!Publish, TypeOK, Board!TypeOK
  <2>3. post'[u] = [signal |-> new, readers |-> readers]
    BY <2>1 DEF Board!Publish, TypeOK, Board!TypeOK
  <2>4. CASE s = u \/ t = u
    BY <2>2, <2>3, <2>4 DEF Board!Posted
  <2>5. CASE s # u /\ t # u
    BY <2>2, <2>5 DEF OneHome, Board!Posted
  <2> QED
    BY <2>4, <2>5
<1> QED
  BY <1>1, <1>2

(* GET /signals/by-hash and the storage routes find at most one signal for  *)
(* a hash, for any number of publishers whose requests interleave.          *)
THEOREM LookupIsUnambiguous == Spec => []OneHome
<1>1. Init => OneHome
  <2> SUFFICES ASSUME Init, NEW s \in Streams PROVE post[s] = NoPost
    BY DEF OneHome, Board!Posted
  <2> QED
    BY DEF Init, Board!Init
<1>2. TypeOK /\ OneHome /\ [Next]_vars => OneHome'
  BY BoardStep, OneHomeStep
<1> QED
  BY <1>1, <1>2, TypeInit, TypeStep, PTL DEF Spec
=============================================================================
