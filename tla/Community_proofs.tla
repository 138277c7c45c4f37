-------------------------- MODULE Community_proofs --------------------------
(***************************************************************************)
(* Theorems about the components that share no state with another: the     *)
(* reader of a signal, the listeners of the MCP server, the publish switch *)
(* of an agent, the demo seeder and the rail.  They hold for all sets of   *)
(* signals, calls, requests, runs and events.                              *)
(***************************************************************************)
EXTENDS SignalReader, McpListeners, PublisherSwitch, DemoSeed, StreamsRail,
  FiniteSetTheorems, WellFoundedInduction, TLAPS

-----------------------------------------------------------------------------
(* SignalReader *)

Unanswered == {"mount", "latest"}
PastLookup == Steps \ {"mount", "latest", "lookup"}
PastLink == PastLookup \ {"link"}
PastSubscription == PastLink \ {"subscription"}
PastKey == PastSubscription \ {"key"}

(* What a call has learnt at each of its steps.                             *)
CallSound(call) ==
  /\ call \in Readings
  /\ call.at # "mount" =>
       /\ latest # None => latest \in call.were
       /\ rights \subseteq call.had
  /\ call.at \notin Unanswered => call.signal # None
  /\ call.at \in PastLookup => call.signal \in call.were
  /\ byAgent /\ call.at \in PastLink => "link" \in call.had
  /\ call.at \in PastSubscription => "subscription" \in call.had
  /\ ~public /\ call.at \in PastKey => "key" \in call.had

ReaderInv ==
  /\ ReaderTypeOK
  /\ \A r \in Requests : ~Idle(r) => CallSound(reading[r])
  /\ ShownInTime

LEMMA BecomesSound ==
  ASSUME ReaderInv, NEW r \in Requests, NEW call \in Readings \cup {None},
         Becomes(r, call), UNCHANGED world, call # None => CallSound(call)
  PROVE  /\ reading' \in [Requests -> Readings \cup {None}]
         /\ \A q \in Requests : ~Idle(q)' => CallSound(reading[q])'
<1>1. /\ reading \in [Requests -> Readings \cup {None}]
      /\ reading' = [reading EXCEPT ![r] = call]
  BY DEF ReaderInv, ReaderTypeOK, Becomes
<1>2. reading' \in [Requests -> Readings \cup {None}]
  BY <1>1
<1>3. ASSUME NEW q \in Requests, reading'[q] # None PROVE CallSound(reading[q])'
  <2>1. CASE q = r
    <3>1. reading'[q] = call
      BY <1>1, <2>1
    <3> QED
      BY <1>3, <3>1 DEF CallSound, world
  <2>2. CASE q # r
    <3>1. reading'[q] = reading[q]
      BY <1>1, <2>2
    <3> QED
      BY <1>3, <3>1 DEF ReaderInv, CallSound, world, Idle
  <2> QED
    BY <2>1, <2>2
<1> QED
  BY <1>2, <1>3 DEF Idle

(* A reader that asks knows nothing but what is true when it asks.          *)
LEMMA AskSound ==
  ASSUME ReaderInv, NEW r \in Requests, NEW step \in {"latest", "lookup"},
         NEW signal \in Signals \cup {None}, step = "lookup" => signal # None,
         Ask(r, step, signal), result' \in {result, None}
  PROVE  ReaderInv'
<1> DEFINE call == [at |-> step, signal |-> signal, were |-> {latest} \ {None}, had |-> rights]
<1>1. call \in Readings /\ call.at = step /\ call.signal = signal
      /\ call.were = {latest} \ {None} /\ call.had = rights
  BY DEF Readings, Steps, ReaderInv, ReaderTypeOK
<1>2. Becomes(r, call) /\ UNCHANGED <<world, meta>>
  BY DEF Ask
<1> HIDE DEF call
<1>3. CallSound(call)
  BY <1>1 DEF CallSound, Unanswered, PastLookup, PastLink, PastSubscription, PastKey
<1>4. /\ reading' \in [Requests -> Readings \cup {None}]
      /\ \A q \in Requests : ~Idle(q)' => CallSound(reading[q])'
  BY <1>1, <1>2, <1>3, BecomesSound
<1>5. ReaderTypeOK'
  BY <1>2, <1>4 DEF ReaderInv, ReaderTypeOK, world
<1>6. ShownInTime'
  BY <1>2 DEF ReaderInv, ShownInTime, Needed, world
<1> QED
  BY <1>4, <1>5, <1>6 DEF ReaderInv

LEMMA StopSound ==
  ASSUME ReaderInv, NEW r \in Requests, Becomes(r, None), UNCHANGED world,
         meta' \in Signals \cup {None}, UNCHANGED result
  PROVE  ReaderInv'
<1>1. /\ reading' \in [Requests -> Readings \cup {None}]
      /\ \A q \in Requests : ~Idle(q)' => CallSound(reading[q])'
  BY BecomesSound
<1>2. ReaderTypeOK'
  BY <1>1 DEF ReaderInv, ReaderTypeOK, world
<1>3. ShownInTime'
  BY DEF ReaderInv, ShownInTime, Needed, world
<1> QED
  BY <1>1, <1>2, <1>3 DEF ReaderInv

(* Each check adds what it has read to what the call knows.                 *)
LEMMA ServeSound ==
  ASSUME ReaderInv, NEW r \in Requests, Serve(r)
  PROVE  ReaderInv'
<1> DEFINE old == reading[r]
           signal == IF old.at = "latest" THEN latest ELSE old.signal
           call == [old EXCEPT !.at = After(old.at), !.signal = signal]
<1>1. CallSound(old) /\ old \in Readings /\ old.at \in Steps \ {"mount", "answer"}
  BY DEF ReaderInv, Serve, CallSound, Readings
<1>2. Becomes(r, call) /\ UNCHANGED <<world, meta, result>> /\ Granted(old)
  BY DEF Serve
<1>3. After(old.at) \in Steps
  BY <1>1 DEF After, Steps
<1>4. signal \in Signals \cup {None}
  BY <1>1 DEF ReaderInv, ReaderTypeOK, Readings
<1>5. /\ call \in Readings /\ call.at = After(old.at) /\ call.signal = signal
      /\ call.were = old.were /\ call.had = old.had
  BY <1>1, <1>3, <1>4 DEF Readings
<1> HIDE DEF old, call
<1>6. CallSound(call)
  <2>1. /\ latest # None => latest \in call.were
        /\ rights \subseteq call.had
    BY <1>1, <1>5 DEF CallSound
  <2>2. signal # None
    BY <1>1, <1>2 DEF CallSound, Granted, Found, Unanswered, Steps
  <2>3. call.at \in PastLookup => call.signal \in call.were
    BY <1>1, <1>2, <1>5, <2>1, <2>2 DEF CallSound, Granted, Stored, After, PastLookup, Steps
  <2>4. byAgent /\ call.at \in PastLink => "link" \in call.had
    BY <1>1, <1>2, <1>5, <2>1 DEF CallSound, Granted, Linked, After, PastLink, PastLookup, Steps
  <2>5. call.at \in PastSubscription => "subscription" \in call.had
    BY <1>1, <1>2, <1>5, <2>1 DEF CallSound, Granted, Subscribed, After, PastSubscription,
       PastLink, PastLookup, Steps
  <2>6. ~public /\ call.at \in PastKey => "key" \in call.had
    BY <1>1, <1>2, <1>5, <2>1 DEF CallSound, Granted, KeyMatches, After, PastKey,
       PastSubscription, PastLink, PastLookup, Steps
  <2> HIDE DEF signal
  <2> QED
    BY <1>5, <2>1, <2>2, <2>3, <2>4, <2>5, <2>6 DEF CallSound
<1>7. /\ reading' \in [Requests -> Readings \cup {None}]
      /\ \A q \in Requests : ~Idle(q)' => CallSound(reading[q])'
  BY <1>2, <1>5, <1>6, BecomesSound
<1>8. ReaderTypeOK'
  BY <1>2, <1>7 DEF ReaderInv, ReaderTypeOK, world
<1>9. ShownInTime'
  BY <1>2 DEF ReaderInv, ShownInTime, Needed, world
<1> QED
  BY <1>7, <1>8, <1>9 DEF ReaderInv

(* What is shown comes with what its call knew.                             *)
LEMMA ShowSound ==
  ASSUME ReaderInv, NEW r \in Requests, Show(r)
  PROVE  ReaderInv'
<1>1. CASE UNCHANGED result
  <2>1. meta' \in Signals \cup {None}
    BY DEF Show, ReaderInv, ReaderTypeOK
  <2> QED
    BY <1>1, <2>1, StopSound DEF Show
<1>2. CASE result' # result
  <2> DEFINE call == reading[r]
             shown == [signal |-> call.signal, were |-> call.were, had |-> call.had]
  <2>1. CallSound(call) /\ call.at = "answer"
    BY DEF ReaderInv, Show
  <2>2. result' = shown /\ UNCHANGED <<meta, world>> /\ Becomes(r, None)
    BY <1>2 DEF Show
  <2> HIDE DEF call
  <2>3. /\ call.signal \in Signals /\ call.signal \in call.were
        /\ call.were \subseteq Signals /\ call.had \subseteq Rights
    BY <2>1 DEF CallSound, Unanswered, PastLookup, Steps, Readings
  <2>4. Needed \subseteq call.had
    BY <2>1 DEF CallSound, Needed, PastLookup, PastLink, PastSubscription, PastKey, Steps
  <2>5. shown \in Results /\ shown.signal \in shown.were /\ Needed \subseteq shown.had
    BY <2>3, <2>4 DEF Results
  <2> HIDE DEF shown
  <2>6. /\ reading' \in [Requests -> Readings \cup {None}]
        /\ \A q \in Requests : ~Idle(q)' => CallSound(reading[q])'
    BY <2>2, BecomesSound
  <2>7. ReaderTypeOK'
    BY <2>2, <2>5, <2>6 DEF ReaderInv, ReaderTypeOK, world
  <2>8. ShownInTime'
    BY <2>2, <2>5 DEF ShownInTime, Needed, world
  <2> QED
    BY <2>6, <2>7, <2>8 DEF ReaderInv
<1> QED
  BY <1>1, <1>2

LEMMA OpenPageSound ==
  ASSUME ReaderInv, NEW r \in Requests, OpenPage(r)
  PROVE  ReaderInv'
<1> DEFINE call == [at |-> "mount", signal |-> None, were |-> {}, had |-> {}]
<1>1. call \in Readings /\ call.at = "mount"
  BY DEF Readings, Steps
<1>2. /\ reading' = [q \in Requests |-> IF q = r THEN call ELSE None]
      /\ meta' = None /\ result' = None /\ UNCHANGED world
  BY DEF OpenPage
<1> HIDE DEF call
<1>3. CallSound(call)'
  BY <1>1 DEF CallSound, Unanswered, PastLookup, PastLink, PastSubscription, PastKey
<1>4. \A q \in Requests : reading'[q] # None => reading'[q] = call
  BY <1>2
<1>5. \A q \in Requests : ~Idle(q)' => CallSound(reading[q])'
  BY <1>3, <1>4 DEF Idle, CallSound
<1>6. ReaderTypeOK'
  BY <1>1, <1>2 DEF ReaderInv, ReaderTypeOK, world
<1> QED
  BY <1>2, <1>5, <1>6 DEF ReaderInv, ShownInTime

(* What happens meanwhile is noted by every call under way.                 *)
LEMMA MeanwhileSound ==
  ASSUME ReaderInv, NEW signals \in SUBSET Signals, NEW kept \in SUBSET Rights,
         Elapse(signals, kept), UNCHANGED <<reader, byAgent, public, meta, result>>,
         UNCHANGED latest \/ (latest' \in signals),
         UNCHANGED rights \/ rights' = kept,
         latest' \in Signals \cup {None}, stored' \subseteq Signals, opened' \subseteq stored',
         rights' \subseteq Rights
  PROVE  ReaderInv'
<1>1. ASSUME NEW r \in Requests
      PROVE  /\ reading'[r] \in Readings \cup {None}
             /\ reading'[r] # None => CallSound(reading[r])'
  <2>1. CASE reading[r] = None
    BY <2>1 DEF Elapse, Idle
  <2>2. CASE reading[r] # None
    <3> DEFINE old == reading[r]
               call == [old EXCEPT !.were = old.were \cup signals, !.had = old.had \cup kept]
    <3>1. reading'[r] = call
      BY <2>2 DEF Elapse, Idle
    <3>2. CallSound(old)
      BY <2>2 DEF ReaderInv, Idle
    <3> HIDE DEF old
    <3>3. /\ call \in Readings /\ call.at = old.at /\ call.signal = old.signal
          /\ call.were = old.were \cup signals /\ call.had = old.had \cup kept
      BY <3>2 DEF CallSound, Readings
    <3> HIDE DEF call
    <3> QED
      BY <3>1, <3>2, <3>3 DEF CallSound
  <2> QED
    BY <2>1, <2>2
<1>2. reading' \in [Requests -> Readings \cup {None}]
  BY <1>1 DEF Elapse
<1>3. ReaderTypeOK'
  BY <1>2 DEF ReaderInv, ReaderTypeOK
<1>4. ShownInTime'
  BY DEF ReaderInv, ShownInTime, Needed
<1> QED
  BY <1>1, <1>3, <1>4 DEF ReaderInv, Idle

LEMMA ReaderStep == ReaderInv /\ [ReaderNext]_readerVars => ReaderInv'
<1> SUFFICES ASSUME ReaderInv, [ReaderNext]_readerVars PROVE ReaderInv'
  OBVIOUS
<1>1. latest \in Signals \cup {None} /\ meta \in Signals \cup {None}
  BY DEF ReaderInv, ReaderTypeOK
<1>2. ASSUME NEW r \in Requests, LoadLatestPublicSignal(r) PROVE ReaderInv'
  <2>1. CASE meta = None
    BY <1>1, <1>2, <2>1, AskSound DEF LoadLatestPublicSignal
  <2>2. CASE meta # None
    BY <1>1, <1>2, <2>2, AskSound DEF LoadLatestPublicSignal
  <2> QED
    BY <2>1, <2>2
<1>3. ASSUME NEW r \in Requests, DecryptAndParse(r) PROVE ReaderInv'
  BY <1>1, <1>3, AskSound DEF DecryptAndParse
<1>4. ASSUME NEW r \in Requests, Decrypt(r) \/ DecryptLatest(r) PROVE ReaderInv'
  BY <1>4, AskSound DEF Decrypt, DecryptLatest
<1>5. ASSUME NEW r \in Requests, DecryptByHash(r) PROVE ReaderInv'
  <2>1. PICK signal \in stored : Ask(r, "latest", signal)
    BY <1>5 DEF DecryptByHash
  <2>2. signal \in Signals \cup {None} /\ UNCHANGED result
    BY <1>5, <2>1 DEF ReaderInv, ReaderTypeOK, DecryptByHash
  <2> QED
    BY <2>1, <2>2, AskSound
<1>6. ASSUME NEW r \in Requests, Note(r) \/ Refuse(r) PROVE ReaderInv'
  BY <1>1, <1>6, StopSound DEF Note, Refuse
<1>7. ASSUME NEW signal \in Signals, NEW sealed \in BOOLEAN, Publish(signal, sealed)
      PROVE  ReaderInv'
  <2>1. stored' \subseteq Signals /\ opened' \subseteq stored'
    BY <1>7 DEF Publish, ReaderInv, ReaderTypeOK
  <2>2. rights' \subseteq Rights
    BY <1>7 DEF Publish, ReaderInv, ReaderTypeOK
  <2> QED
    BY <1>7, <2>1, <2>2, MeanwhileSound DEF Publish
<1>8. ASSUME NEW now \in SUBSET Rights, ChangeRights(now) PROVE ReaderInv'
  BY <1>8, MeanwhileSound DEF ChangeRights, ReaderInv, ReaderTypeOK
<1>9. ASSUME UNCHANGED readerVars PROVE ReaderInv'
  BY <1>9 DEF readerVars, ReaderInv, ReaderTypeOK, ShownInTime, Needed, CallSound, Idle
<1> QED
  BY <1>2, <1>3, <1>4, <1>5, <1>6, <1>7, <1>8, <1>9, ServeSound, ShowSound, OpenPageSound
  DEF ReaderNext

LEMMA ReaderStart == ReaderInit => ReaderInv
BY DEF ReaderInit, ReaderInv, ReaderTypeOK, ShownInTime, Idle, Panels, Tools

(* Every variable of the reader keeps its type.                             *)
THEOREM ReaderTypeCorrect == ReaderSpec => []ReaderTypeOK
<1>1. ReaderInv => ReaderTypeOK
  BY DEF ReaderInv
<1> QED
  BY <1>1, ReaderStart, ReaderStep, PTL DEF ReaderSpec

(* What a page shows or a tool returns was the latest signal, and the       *)
(* reader had each right the signal asks for, at moments since it asked.    *)
THEOREM ShownCorrect == ReaderSpec => []ShownInTime
<1>1. ReaderInv => ShownInTime
  BY DEF ReaderInv
<1> QED
  BY <1>1, ReaderStart, ReaderStep, PTL DEF ReaderSpec

-----------------------------------------------------------------------------
(* McpListeners *)

(* The id of a call under way is free, and no other call is using it, as    *)
(* long as no two calls were using it at once.                              *)
IdsApart ==
  /\ \A c \in ListenCalls :
       tool[c] # None /\ active[called[c]] # None => called[c] \in collided
  /\ \A c, d \in ListenCalls :
       c # d /\ tool[c] # None /\ tool[d] # None /\ called[c] = called[d] =>
         called[c] \in collided

(* What is in the table is there under its id, its call is over; and so is  *)
(* that of a listener that was stopped.                                     *)
CallsOver ==
  /\ \A i \in ListenIds : active[i] # None =>
       called[active[i]] = i /\ tool[active[i]] = None
  /\ \A c \in stopped : called[c] # None /\ tool[c] = None

ListenInv ==
  /\ ListenTypeOK
  /\ \A c \in ListenCalls : tool[c] # None \/ Lives(c) => called[c] # None
  /\ IdsApart
  /\ CallsOver
  /\ EveryListenerIsKnown

LEMMA ListenSound ==
  ASSUME ListenInv,
         NEW c \in ListenCalls, NEW i \in ListenIds, NEW t \in Transports, Listen(c, i, t)
  PROVE  ListenInv'
<1> USE DEF ListenInv, ListenTypeOK
<1>1. /\ called' = [called EXCEPT ![c] = i] /\ UNCHANGED <<active, socket, running, stopped>>
      /\ ~Lives(c) /\ tool[c] = None /\ c \notin stopped /\ called[c] = None
  BY DEF Listen, CallsOver
<1>2. /\ called'[c] = i /\ i # None
      /\ \A d \in ListenCalls \ {c} : called'[d] = called[d]
  BY <1>1, ListenAssumption
<1>0. \A j \in ListenIds : active[j] # None =>
        active[j] \in ListenCalls \ {c} /\ called[active[j]] = j /\ tool[active[j]] = None
  BY <1>1, ListenAssumption DEF CallsOver
<1>3. CASE UNCHANGED <<tool, collided>>
  <2>1. EveryListenerIsKnown'
    BY <1>1, <1>2, <1>3 DEF EveryListenerIsKnown, ToolIs, Lives
  <2>2. IdsApart'
    BY <1>1, <1>2, <1>3 DEF IdsApart
  <2>3. CallsOver'
    BY <1>0, <1>1, <1>2, <1>3 DEF CallsOver
  <2> QED
    BY <1>1, <1>2, <1>3, <2>1, <2>2, <2>3 DEF Lives
<1>4. CASE ~UNCHANGED <<tool, collided>>
  <2>1. PICK at \in {"import", "websocket"} : tool' = [tool EXCEPT ![c] = [at |-> at, transport |-> t]]
    BY <1>4 DEF Listen, ToolGoes, Transports
  <2>2. active[i] = None /\ collided' = IF Uses(i) = {} THEN collided ELSE collided \cup {i}
    BY <1>4 DEF Listen, IsActive
  <2> DEFINE call == [at |-> at, transport |-> t]
  <2>3. call \in ToolCalls
    BY DEF ToolCalls
  <2> HIDE DEF call
  <2>4. tool'[c] = call /\ \A d \in ListenCalls \ {c} : tool'[d] = tool[d]
    BY <2>1 DEF call
  <2>5. collided \subseteq collided' /\ collided' \subseteq ListenIds
    BY <2>2
  <2>6. \A d \in ListenCalls \ {c} : tool[d] # None /\ called[d] = i => i \in collided'
    BY <2>2 DEF Uses
  <2>7. EveryListenerIsKnown'
    BY <1>1, <1>2, <2>4, <2>5 DEF EveryListenerIsKnown, ToolIs, Lives
  <2>8. IdsApart'
    BY <1>1, <1>2, <2>2, <2>4, <2>5, <2>6 DEF IdsApart
  <2>9. tool' \in [ListenCalls -> ToolCalls \cup {None}]
    BY <2>1, <2>3 DEF call
  <2>10. CallsOver'
    BY <1>0, <1>1, <1>2, <2>4 DEF CallsOver
  <2> QED
    BY <1>1, <1>2, <2>4, <2>5, <2>7, <2>8, <2>9, <2>10 DEF Lives
<1> QED
  BY <1>3, <1>4

LEMMA OpenSound ==
  ASSUME ListenInv, NEW c \in ListenCalls, OpenJetstream(c) \/ OpenWebsocket(c)
  PROVE  ListenInv'
<1> USE DEF ListenInv, ListenTypeOK
<1>1. tool[c] \in ToolCalls /\ tool[c] # None /\ tool[c].at # "opened" /\ UNCHANGED <<called, active, running, collided, stopped>>
  BY DEF OpenJetstream, OpenWebsocket, ToolIs
<1>2. PICK next \in ToolCalls \cup {None} :
        /\ tool' = [tool EXCEPT ![c] = next]
        /\ \/ socket' = socket
           \/ \E s \in {"jetstream", "websocket"} :
                socket' = [socket EXCEPT ![c] = s] /\ next # None /\ next.at = "opened"
  <2>1. ASSUME NEW at \in {"websocket", "opened"}
        PROVE  /\ [tool[c] EXCEPT !.at = at] \in ToolCalls
               /\ [tool[c] EXCEPT !.at = at].at = at
    BY <1>1 DEF ToolCalls
  <2>2. [tool[c] EXCEPT !.at = "opened"] # None
    BY <2>1, ListenAssumption
  <2>3. CASE /\ \E s \in {"jetstream", "websocket"} : socket' = [socket EXCEPT ![c] = s]
             /\ tool' = [tool EXCEPT ![c] = [tool[c] EXCEPT !.at = "opened"]]
    BY <2>1, <2>2, <2>3
  <2>4. CASE socket' = socket /\ tool' = [tool EXCEPT ![c] = [tool[c] EXCEPT !.at = "websocket"]]
    BY <2>1, <2>4
  <2>5. CASE socket' = socket /\ tool' = [tool EXCEPT ![c] = None]
    BY <2>5
  <2> QED
    BY <2>3, <2>4, <2>5 DEF OpenJetstream, OpenWebsocket, ToolGoes
<1>3a. tool'[c] = next /\ \A d \in ListenCalls \ {c} : tool'[d] = tool[d]
  BY <1>2
<1>3b. /\ \A d \in ListenCalls \ {c} : socket'[d] = socket[d]
       /\ socket' \in [ListenCalls -> Sockets]
  <2>1. CASE socket' = socket
    BY <2>1
  <2>2. ASSUME NEW s \in {"jetstream", "websocket"}, socket' = [socket EXCEPT ![c] = s]
        PROVE  /\ \A d \in ListenCalls \ {c} : socket'[d] = socket[d]
               /\ socket' \in [ListenCalls -> Sockets]
    BY <2>2 DEF Sockets
  <2> QED
    BY <1>2, <2>1, <2>2
<1>3c. socket'[c] = socket[c] \/ (next # None /\ next.at = "opened")
  BY <1>2
<1>3. /\ tool'[c] = next
      /\ \A d \in ListenCalls \ {c} : tool'[d] = tool[d] /\ socket'[d] = socket[d]
      /\ socket' \in [ListenCalls -> Sockets]
      /\ socket'[c] = socket[c] \/ (next # None /\ next.at = "opened")
  BY <1>3a, <1>3b, <1>3c
<1>4. c \notin stopped
  BY <1>1 DEF CallsOver
<1>5. EveryListenerIsKnown'
  BY <1>1, <1>3, <1>4 DEF EveryListenerIsKnown, ToolIs, Lives
<1>6. IdsApart'
  BY <1>1, <1>3 DEF IdsApart
<1>7. CallsOver'
  BY <1>1, <1>3, <1>4 DEF CallsOver
<1>8. \A d \in ListenCalls : tool'[d] # None \/ Lives(d)' => called'[d] # None
  BY <1>1, <1>3 DEF Lives
<1> QED
  BY <1>1, <1>2, <1>3, <1>5, <1>6, <1>7, <1>8

LEMMA ActivateSound ==
  ASSUME ListenInv, NEW c \in ListenCalls, Activate(c)
  PROVE  ListenInv'
<1> USE DEF ListenInv, ListenTypeOK
<1>1. /\ tool[c] # None /\ called[c] \in ListenIds
      /\ tool' = [tool EXCEPT ![c] = None] /\ active' = [active EXCEPT ![called[c]] = c]
      /\ UNCHANGED <<called, socket, running, collided, stopped>>
  BY DEF Activate, ToolIs, ToolGoes
<1>2. tool'[c] = None /\ \A d \in ListenCalls \ {c} : tool'[d] = tool[d]
  BY <1>1
<1>3. active'[called[c]] = c /\ \A i \in ListenIds \ {called[c]} : active'[i] = active[i]
  BY <1>1
<1>4. EveryListenerIsKnown'
  <2>0. \A d \in stopped : active'[called[d]] # d
    BY <1>1, <1>3 DEF EveryListenerIsKnown, CallsOver
  <2> SUFFICES ASSUME NEW d \in ListenCalls, Lives(d), called[d] \notin collided, d \notin stopped
               PROVE  active'[called[d]] = d \/ ToolIs(d, "opened")'
    BY <1>1, <2>0 DEF EveryListenerIsKnown, Lives
  <2>1. called[d] \in ListenIds /\ d # None
    BY ListenAssumption
  <2>2. active[called[d]] = d \/ ToolIs(d, "opened")
    BY DEF EveryListenerIsKnown
  <2>3. d = c \/ called[d] # called[c]
    BY <1>1, <2>1, <2>2 DEF IdsApart, ToolIs
  <2> QED
    BY <1>2, <1>3, <2>1, <2>2, <2>3 DEF ToolIs
<1>5. IdsApart'
  BY <1>1, <1>2, <1>3 DEF IdsApart
<1>6. CallsOver'
  BY <1>1, <1>2, <1>3 DEF CallsOver
<1> QED
  BY <1>1, <1>2, <1>4, <1>5, <1>6 DEF Lives

LEMMA StopListenerSound ==
  ASSUME ListenInv, NEW i \in ListenIds, StopListener(i)
  PROVE  ListenInv'
<1> USE DEF ListenInv, ListenTypeOK
<1>1. PICK c \in ListenCalls : c = active[i]
  BY DEF StopListener, IsActive
<1>2. /\ socket' = [socket EXCEPT ![c] = AfterStop(socket[c])]
      /\ stopped' = stopped \cup {c} /\ active' = [active EXCEPT ![i] = None]
      /\ UNCHANGED <<tool, called, running, collided>>
  BY <1>1 DEF StopListener
<1>3. active'[i] = None /\ \A j \in ListenIds \ {i} : active'[j] = active[j]
  BY <1>2
<1>4. AfterStop(socket[c]) \in {"ending", "none"} /\ {"ending", "none"} \subseteq Sockets
  BY DEF AfterStop, Sockets
<1>5. /\ socket'[c] \in {"ending", "none"} /\ socket' \in [ListenCalls -> Sockets]
      /\ \A d \in ListenCalls \ {c} : socket'[d] = socket[d]
  BY <1>2, <1>4
<1>6. called[c] = i /\ tool[c] = None /\ c # None
  BY <1>1, ListenAssumption DEF CallsOver
<1>7. EveryListenerIsKnown'
  BY <1>1, <1>2, <1>3, <1>5, <1>6, ListenAssumption DEF EveryListenerIsKnown, ToolIs, Lives
<1>8. IdsApart'
  BY <1>2, <1>3 DEF IdsApart
<1>9. CallsOver'
  BY <1>2, <1>3, <1>6, ListenAssumption DEF CallsOver
<1>10. \A d \in ListenCalls : tool'[d] # None \/ Lives(d)' => called'[d] # None
  BY <1>2, <1>5, <1>6, ListenAssumption DEF Lives
<1> QED
  BY <1>2, <1>3, <1>5, <1>7, <1>8, <1>9, <1>10

(* Notices, reports and the end of a stream bring no listener to life.      *)
LEMMA HandlerSound ==
  ASSUME ListenInv, NEW c \in ListenCalls, Hear(c) \/ Report(c) \/ EndStream(c)
  PROVE  ListenInv'
<1> USE DEF ListenInv, ListenTypeOK
<1>1. UNCHANGED <<tool, called, active, collided, stopped>>
  BY DEF Hear, Report, EndStream
<1>2. /\ socket' \in [ListenCalls -> Sockets] /\ running' \in [ListenCalls -> 0 .. MaxHandlers]
      /\ \A d \in ListenCalls : socket'[d] = socket[d] \/ socket'[d] = "none"
      /\ \A d \in ListenCalls : Lives(d)' => Lives(d)
  BY ListenAssumption DEF Hear, Report, EndStream, Sockets, Lives
<1>3. EveryListenerIsKnown'
  BY <1>1, <1>2 DEF EveryListenerIsKnown, ToolIs
<1>4. IdsApart' /\ CallsOver'
  BY <1>1 DEF IdsApart, CallsOver
<1> QED
  BY <1>1, <1>2, <1>3, <1>4

LEMMA ListenStep == ListenInv /\ [ListenNext]_listenVars => ListenInv'
<1> SUFFICES ASSUME ListenInv, [ListenNext]_listenVars PROVE ListenInv'
  OBVIOUS
<1>1. ASSUME UNCHANGED listenVars PROVE ListenInv'
  BY <1>1 DEF ListenInv, ListenTypeOK, IdsApart, CallsOver, EveryListenerIsKnown, Lives, ToolIs,
     listenVars
<1> QED
  BY <1>1, ListenSound, OpenSound, ActivateSound, StopListenerSound, HandlerSound DEF ListenNext

(* Whatever calls are served in between, a listener that runs can be        *)
(* stopped by its id or was, unless two calls were using that id at once;   *)
(* and one that was stopped keeps no subscription but one that is ending.   *)
THEOREM ListenersKnown == ListenSpec => []EveryListenerIsKnown
<1>1. NoListener => ListenInv
  BY ListenAssumption
  DEF NoListener, ListenInv, ListenTypeOK, IdsApart, CallsOver, EveryListenerIsKnown, Lives, Sockets
<1>2. ListenInv => EveryListenerIsKnown
  BY DEF ListenInv
<1>3. ListenInv /\ [ListenNext]_listenVars => ListenInv'
  BY ListenStep
<1> QED
  BY <1>1, <1>2, <1>3, PTL DEF ListenSpec

-----------------------------------------------------------------------------
(* PublisherSwitch *)

(* A toggle is of a transaction that is kept for it, and what it has read   *)
(* of the account is what the account is until that changes.                *)
ToggleSound ==
  toggle # None =>
    /\ toggle.at \in {"build", "confirm"} => toggle.does \in Instructions
    /\ toggle.at = "confirm" => toggle.tx \in Requests /\ sent[toggle.tx] # None
    /\ toggle.at = "answer" /\ ~changed =>
         /\ toggle.found <=> delegate = "Active"
         /\ ~toggle.found => ~recorded

SwitchInv == SwitchTypeOK /\ ToggleSound /\ SwitchIsHonest

(* What a transaction does, on time or after it was given up.               *)
LEMMA TransactionSound ==
  ASSUME SwitchInv, NEW r \in Requests,
         (\E does \in Instructions : CallTool(r, does)) \/ Land(r) \/ NeverLand(r) \/ Vacate(r)
  PROVE  SwitchInv'
<1> USE DEF SwitchInv, SwitchTypeOK
<1>1. sent' \in [Requests -> Sent \cup {None}]
  <2>1. CASE \E does \in Instructions : CallTool(r, does)
    BY <2>1 DEF CallTool, Sends, Sent
  <2>2. CASE Land(r) \/ NeverLand(r)
    BY <2>2 DEF Land, NeverLand, Pending, Ends, Sent
  <2>3. CASE Vacate(r)
    BY <2>3 DEF Vacate
  <2> QED
    BY <2>1, <2>2, <2>3
<1>2. toggle # None /\ toggle.at = "confirm" => sent'[toggle.tx] # None
  <2> SUFFICES ASSUME toggle # None, toggle.at = "confirm" PROVE sent'[toggle.tx] # None
    OBVIOUS
  <2>1. toggle.tx \in Requests /\ sent[toggle.tx] # None
    BY DEF ToggleSound
  <2>2. CASE \E does \in Instructions : CallTool(r, does)
    BY <2>1, <2>2 DEF CallTool, Sends
  <2>3. ASSUME NEW how \in {"landed", "failed", "expired"}, Ends(r, how), Pending(r)
        PROVE  sent'[toggle.tx] # None
    <3>1. [sent[r] EXCEPT !.at = how] \in Sent
      BY <2>3 DEF Pending, Sent
    <3> QED
      BY <2>1, <2>3, <3>1, SwitchAssumption DEF Ends
  <2>4. CASE Vacate(r)
    BY <2>1, <2>4 DEF Vacate
  <2> QED
    BY <2>2, <2>3, <2>4 DEF Land, NeverLand
<1>3. CASE Land(r)
  <2>1. /\ delegate' \in {"Active", "Revoked", None} /\ changed' \in BOOLEAN /\ recorded' \in BOOLEAN
        /\ UNCHANGED <<publishActive, toggle>>
    BY <1>3 DEF Land, Grant, Revoke, RecordDelegated
  <2>2. ~changed' => ~changed /\ delegate' = delegate /\ (recorded' # recorded => delegate = "Active")
    BY <1>3, <2>1 DEF Land, Grant, Revoke, RecordDelegated
  <2>3. ToggleSound'
    BY <1>2, <2>1, <2>2 DEF ToggleSound
  <2>4. SwitchIsHonest'
    BY <2>1, <2>2 DEF SwitchIsHonest
  <2> QED
    BY <1>1, <2>1, <2>3, <2>4
<1>4. CASE ~Land(r)
  <2>1. UNCHANGED <<delegate, publishActive, toggle, changed, recorded>>
    BY <1>4 DEF CallTool, NeverLand, Vacate
  <2>2. ToggleSound'
    BY <1>2, <2>1 DEF ToggleSound
  <2>3. SwitchIsHonest'
    BY <2>1 DEF SwitchIsHonest
  <2> QED
    BY <1>1, <2>1, <2>2, <2>3
<1> QED
  BY <1>3, <1>4

(* Whatever way a toggle ends, it is not over before the status is loaded.  *)
LEMMA LoadsSound ==
  /\ Loads \in Toggles /\ Loads # None
  /\ Loads.at = "account" /\ Reloads = Loads
<1>1. Loads \in Toggles /\ Loads.at = "account" /\ Reloads = Loads
  BY DEF Loads, Toggles, Reloads
<1> QED
  BY <1>1, SwitchAssumption

LEMMA ToggleStep ==
  ASSUME SwitchInv,
         OpenAgent \/ TogglePublishAccess \/ (\E r \in Requests : SendToggle(r))
           \/ RefuseToggle \/ ConfirmToggle
  PROVE  SwitchInv'
<1> USE DEF SwitchInv, SwitchTypeOK
<1>1. CASE OpenAgent \/ RefuseToggle \/ ConfirmToggle
  <2>1. /\ toggle' = Loads /\ publishActive' \in BOOLEAN \cup {None}
        /\ UNCHANGED <<delegate, sent, changed, recorded>>
    BY <1>1, LoadsSound DEF OpenAgent, RefuseToggle, ConfirmToggle
  <2>2. ToggleSound' /\ SwitchIsHonest'
    BY <2>1, LoadsSound DEF ToggleSound, SwitchIsHonest
  <2> QED
    BY <2>1, <2>2, LoadsSound
<1>2. CASE TogglePublishAccess
  <2> DEFINE call == [at |-> "build", tx |-> None, found |-> FALSE,
                      does |-> IF publishActive THEN "revoke_publisher" ELSE "grant_publisher"]
  <2>1. call \in Toggles /\ call.at = "build" /\ call.does \in Instructions
    BY DEF Toggles, Instructions
  <2>2. toggle' = call /\ UNCHANGED <<delegate, sent, publishActive, changed, recorded>>
    BY <1>2 DEF TogglePublishAccess
  <2> HIDE DEF call
  <2>3. call # None
    BY <2>1, SwitchAssumption
  <2> QED
    BY <2>1, <2>2, <2>3 DEF ToggleSound, SwitchIsHonest
<1>3. ASSUME NEW r \in Requests, SendToggle(r) PROVE SwitchInv'
  <2> DEFINE call == [toggle EXCEPT !.at = "confirm", !.tx = r]
             tx == [does |-> toggle.does, at |-> "sent"]
  <2>1. toggle \in Toggles /\ toggle.does \in Instructions
    BY <1>3 DEF SendToggle, ToggleAt, ToggleSound
  <2>2. call \in Toggles /\ call.at = "confirm" /\ call.tx = r /\ call.does = toggle.does
    BY <2>1 DEF Toggles
  <2>3. tx \in Sent
    BY <2>1 DEF Sent
  <2>4. /\ toggle' = call /\ sent' = [sent EXCEPT ![r] = tx]
        /\ UNCHANGED <<delegate, publishActive, changed, recorded>>
    BY <1>3 DEF SendToggle, Sends
  <2> HIDE DEF call, tx
  <2>5. call # None /\ tx # None /\ sent'[r] = tx
    BY <2>2, <2>3, <2>4, SwitchAssumption
  <2> QED
    BY <2>1, <2>2, <2>3, <2>4, <2>5 DEF ToggleSound, SwitchIsHonest
<1> QED
  BY <1>1, <1>2, <1>3

LEMMA StatusSound ==
  ASSUME SwitchInv, LoadPublisherStatus \/ ShowStatus
  PROVE  SwitchInv'
<1> USE DEF SwitchInv, SwitchTypeOK
<1>1. CASE ShowStatus
  <2>1. /\ toggle \in Toggles /\ toggle' = None /\ publishActive' = toggle.found
        /\ UNCHANGED <<delegate, sent, changed, recorded>>
        /\ ~changed => (toggle.found <=> delegate = "Active") /\ (~toggle.found => ~recorded)
    BY <1>1 DEF ShowStatus, ToggleAt, ToggleSound
  <2>2. toggle.found \in BOOLEAN
    BY <2>1 DEF Toggles
  <2> QED
    BY <2>1, <2>2 DEF ToggleSound, SwitchIsHonest
<1> DEFINE fails == /\ toggle' = None /\ publishActive' = None
                    /\ UNCHANGED <<delegate, sent, changed, recorded>>
<1>2. CASE fails
  BY <1>2 DEF ToggleSound, SwitchIsHonest
<1>3. CASE LoadPublisherStatus /\ ~fails
  <2> DEFINE call == [toggle EXCEPT !.at = "answer", !.found = (delegate = "Active")]
  <2>1. /\ toggle \in Toggles /\ toggle' = call /\ changed' = FALSE /\ recorded' = FALSE
        /\ UNCHANGED <<delegate, sent, publishActive>>
    BY <1>3 DEF LoadPublisherStatus, ToggleAt
  <2>2. call \in Toggles /\ call.at = "answer" /\ call.found = (delegate = "Active")
    BY <2>1 DEF Toggles
  <2> HIDE DEF call
  <2> QED
    BY <2>1, <2>2, SwitchAssumption DEF ToggleSound, SwitchIsHonest
<1> QED
  BY <1>1, <1>2, <1>3

(* Whatever is confirmed, given up or sent by a tool, the switch shows what *)
(* the chain has, and one that shows access as disabled means that nothing  *)
(* is recorded, until the account changes after it was read.                *)
THEOREM SwitchCorrect == SwitchSpec => []SwitchIsHonest
<1>1. NoSwitch => SwitchInv
  BY DEF NoSwitch, SwitchInv, SwitchTypeOK, ToggleSound, SwitchIsHonest
<1>2. SwitchInv /\ [SwitchNext]_switchVars => SwitchInv'
  <2> SUFFICES ASSUME SwitchInv, [SwitchNext]_switchVars PROVE SwitchInv'
    OBVIOUS
  <2>1. CASE UNCHANGED switchVars
    BY <2>1 DEF SwitchInv, SwitchTypeOK, ToggleSound, SwitchIsHonest, switchVars
  <2> QED
    BY <2>1, TransactionSound, ToggleStep, StatusSound DEF SwitchNext
<1>3. SwitchInv => SwitchIsHonest
  BY DEF SwitchInv
<1> QED
  BY <1>1, <1>2, <1>3, PTL DEF SwitchSpec

-----------------------------------------------------------------------------
(* DemoSeed *)

(* What a run has behind it at each of its steps; as long as no two         *)
(* overlapped, the marker is gone once a run has begun to make anything,    *)
(* until it writes its own.                                                 *)
SealedBy(r, s) == sealedTo[s] = r
Sealing(r, s) ==
  \/ seed[r].at \in {"listing", "summary", "writing"}
  \/ seed[r].at = "signals" /\ \E i \in 1 .. seed[r].next - 1 : DemoStreams[i] = s
SeedSound(r) ==
  /\ r \in seedsBegun
  /\ \A s \in seed[r].known : chain[s] # "nothing"
  /\ seed[r].at \notin {"marker", "people"} => r \in people
  /\ ~overlapped =>
       /\ seed[r].at \notin {"marker", "writing"} => marker = None
       /\ seed[r].at = "writing" => marker = MarkerOf(r, FALSE)
       /\ \A s \in Private : Sealing(r, s) => SealedBy(r, s)

OneAtATime == \A r, o \in Seeds : seed[r] # None /\ seed[o] # None => r = o
SeedInv ==
  /\ SeedTypeOK
  /\ \A r \in Seeds : seed[r] # None => SeedSound(r)
  /\ overlapped \/ OneAtATime
  /\ MarkerOpensSignals

LEMMA DemoFacts ==
  /\ Len(DemoStreams) \in Nat \ {0}
  /\ DOMAIN DemoStreams = 1 .. Len(DemoStreams)
  /\ \A i \in 1 .. Len(DemoStreams) : DemoStreams[i] \in StreamSet
  /\ \A s \in Private : s \in StreamSet /\ \E i \in 1 .. Len(DemoStreams) : DemoStreams[i] = s
BY SeedAssumption DEF StreamSet

LEMMA NextStream ==
  ASSUME NEW run \in SeedRuns
  PROVE  /\ run.next \in DOMAIN DemoStreams /\ 1 \in DOMAIN DemoStreams
         /\ run.next # Len(DemoStreams) => run.next + 1 \in DOMAIN DemoStreams
<1>1. run.next \in DOMAIN DemoStreams
  BY DEF SeedRuns
<1> QED
  BY <1>1, DemoFacts

(* A step of one run leaves what the others have behind them.               *)
LEMMA SeedTurn ==
  ASSUME SeedInv, NEW r \in Seeds, seed[r] # None,
         NEW run \in SeedRuns \cup {None}, To(r, run),
         UNCHANGED <<seedsBegun, overlapped>>,
         people \subseteq people',
         \A s \in StreamSet : chain[s] # "nothing" => chain'[s] # "nothing",
         run # None => SeedSound(r)',
         MarkerOpensSignals',
         SeedTypeOK'
  PROVE  SeedInv'
<1>1. seed' = [seed EXCEPT ![r] = run] /\ seed \in [Seeds -> SeedRuns \cup {None}]
  BY DEF To, SeedInv, SeedTypeOK
<1>2. seed'[r] = run /\ \A o \in Seeds \ {r} : seed'[o] = seed[o]
  BY <1>1
<1>3. ASSUME NEW o \in Seeds, seed'[o] # None PROVE SeedSound(o)'
  <2>1. CASE o = r
    BY <1>2, <1>3, <2>1
  <2>2. CASE o # r
    <3>1. seed'[o] = seed[o] /\ SeedSound(o) /\ overlapped
      BY <1>2, <1>3, <2>2 DEF SeedInv, OneAtATime
    <3>2. seed[o].known \subseteq StreamSet
      BY <1>1, <1>3, <3>1 DEF SeedRuns
    <3> QED
      BY <3>1, <3>2 DEF SeedSound
  <2> QED
    BY <2>1, <2>2
<1>4. overlapped' \/ OneAtATime'
  BY <1>2 DEF SeedInv, OneAtATime
<1> QED
  BY <1>3, <1>4 DEF SeedInv

LEMMA StartSeedSound ==
  ASSUME SeedInv, NEW r \in Seeds, NEW force \in BOOLEAN, StartSeed(r, force)
  PROVE  SeedInv'
<1> DEFINE run == [at |-> "marker", next |-> 1, force |-> force, known |-> {}, ready |-> FALSE]
<1>1. run \in SeedRuns
  BY DemoFacts DEF SeedRuns, SeedSteps
<1>2. /\ run.at = "marker" /\ run.known = {}
      /\ seed' = [seed EXCEPT ![r] = run] /\ seedsBegun' = seedsBegun \cup {r}
      /\ overlapped' = (overlapped \/ \E o \in Seeds \ {r} : seed[o] # None)
      /\ UNCHANGED <<marker, people, chain, held, sealedTo, anchored, listed>>
  BY DEF StartSeed, To
<1> HIDE DEF run
<1>3. SeedTypeOK'
  BY <1>1, <1>2 DEF SeedInv, SeedTypeOK
<1>4. seed'[r] = run /\ \A o \in Seeds \ {r} : seed'[o] = seed[o]
  BY <1>2 DEF SeedInv, SeedTypeOK
<1>5. ASSUME NEW o \in Seeds, seed'[o] # None PROVE SeedSound(o)'
  <2>1. CASE o = r
    BY <1>2, <1>4, <2>1 DEF SeedSound, Sealing
  <2>2. CASE o # r
    <3>1. seed'[o] = seed[o] /\ SeedSound(o) /\ overlapped'
      BY <1>2, <1>4, <1>5, <2>2 DEF SeedInv
    <3> QED
      BY <1>2, <3>1 DEF SeedSound
  <2> QED
    BY <2>1, <2>2
<1>6. overlapped' \/ OneAtATime'
  <2> SUFFICES ASSUME ~overlapped', NEW p \in Seeds, NEW o \in Seeds, seed'[p] # None, seed'[o] # None
               PROVE  p = o
    BY DEF OneAtATime
  <2>1. \A q \in Seeds \ {r} : seed[q] = None
    BY <1>2
  <2> QED
    BY <1>4, <2>1
<1>7. MarkerOpensSignals'
  BY <1>2 DEF SeedInv, MarkerOpensSignals
<1> QED
  BY <1>3, <1>5, <1>6, <1>7 DEF SeedInv

(* Once a run has passed the marker, nothing it does is against it: there   *)
(* is none, or one that is not whole.                                       *)
LEMMA NoMarkerYet ==
  ASSUME SeedInv, NEW r \in Seeds, seed[r] # None, seed[r].at # "marker",
         UNCHANGED <<marker, overlapped>>
  PROVE  MarkerOpensSignals'
BY DEF SeedInv, SeedSound, MarkerOf, MarkerOpensSignals

LEMMA CheckMarkerSound ==
  ASSUME SeedInv, NEW r \in Seeds, CheckMarker(r)
  PROVE  SeedInv'
<1>1. /\ seed[r] # None /\ seed[r] \in SeedRuns /\ SeedSound(r)
      /\ UNCHANGED <<seedsBegun, people, chain, held, sealedTo, anchored, listed, overlapped>>
  BY DEF CheckMarker, SeedAt, SeedInv, SeedTypeOK
<1>2. CASE To(r, None) /\ UNCHANGED marker
  <2>1. MarkerOpensSignals'
    BY <1>1, <1>2 DEF SeedInv, MarkerOpensSignals
  <2>2. SeedTypeOK'
    BY <1>1, <1>2 DEF To, SeedInv, SeedTypeOK
  <2> QED
    BY <1>1, <1>2, <2>1, <2>2, SeedTurn
<1>3. CASE StepTo(r, "people") /\ marker' = None
  <2> DEFINE run == [seed[r] EXCEPT !.at = "people", !.next = 1]
  <2>1. run \in SeedRuns /\ run.at = "people" /\ run.known = seed[r].known
    BY <1>1, NextStream DEF SeedRuns, SeedSteps
  <2>2. To(r, run)
    BY <1>3 DEF StepTo
  <2> HIDE DEF run
  <2>3. seed'[r] = run
    BY <1>1, <2>2 DEF To, SeedInv, SeedTypeOK
  <2>4. SeedSound(r)'
    BY <1>1, <1>3, <2>1, <2>3 DEF SeedSound, Sealing
  <2>5. MarkerOpensSignals'
    BY <1>3 DEF MarkerOpensSignals
  <2>6. SeedTypeOK'
    BY <1>1, <1>3, <2>1, <2>2 DEF To, SeedInv, SeedTypeOK
  <2> QED
    BY <1>1, <2>1, <2>2, <2>4, <2>5, <2>6, SeedTurn
<1> QED
  BY <1>2, <1>3 DEF CheckMarker, MarkerAfter

(* Users and the chain.                                                     *)
LEMMA MakeSound ==
  ASSUME SeedInv, NEW r \in Seeds,
         AddPeople(r) \/ EnsureStream(r) \/ EnsureTier(r) \/ SeedSubscribe(r)
  PROVE  SeedInv'
<1>1. /\ seed[r] # None /\ seed[r] \in SeedRuns /\ SeedSound(r)
      /\ seed[r].at \in {"people", "stream", "tier", "subscribe"}
      /\ UNCHANGED <<seedsBegun, marker, sealedTo, anchored, listed, overlapped>>
  BY DEF AddPeople, EnsureStream, EnsureTier, SeedSubscribe, SeedAt, SeedInv, SeedTypeOK
<1>2. Stream(r) \in StreamSet
  BY <1>1, DemoFacts DEF Stream, SeedRuns
<1>3. PICK run \in SeedRuns :
        /\ To(r, run)
        /\ \A s \in run.known \ seed[r].known : s = Stream(r) /\ chain'[s] # "nothing"
        /\ run.at \in {"stream", "tier", "subscribe", "signals"}
        /\ run.at = "signals" => run.next = 1
  <2>1. ASSUME NEW step \in {"stream", "signals"}, StepTo(r, step)
        PROVE  \E next \in SeedRuns :
                 /\ To(r, next) /\ next.known = seed[r].known
                 /\ next.at = step /\ next.next = 1
    <3> DEFINE next == [seed[r] EXCEPT !.at = step, !.next = 1]
    <3>1. next \in SeedRuns /\ next.known = seed[r].known /\ next.at = step /\ next.next = 1
      BY <1>1, NextStream DEF SeedRuns, SeedSteps
    <3>2. To(r, next)
      BY <2>1 DEF StepTo
    <3> HIDE DEF next
    <3> QED
      BY <3>1, <3>2
  <2>2. CASE AddPeople(r) \/ StepTo(r, "signals")
    <3>1. PICK step \in {"stream", "signals"} : StepTo(r, step)
      BY <2>2 DEF AddPeople
    <3>2. PICK next \in SeedRuns :
            To(r, next) /\ next.known = seed[r].known /\ next.at = step /\ next.next = 1
      BY <2>1, <3>1
    <3> QED
      BY <3>2
  <2>3. CASE EnsureStream(r) /\ ~StepTo(r, "signals")
    <3> DEFINE next == [seed[r] EXCEPT !.at = "tier", !.known = @ \cup {Stream(r)}]
    <3>1. To(r, next) /\ chain' = [chain EXCEPT ![Stream(r)] = IF @ = "nothing" THEN "stream" ELSE @]
      BY <2>3 DEF EnsureStream
    <3>2. next \in SeedRuns /\ next.at = "tier" /\ next.known = seed[r].known \cup {Stream(r)}
      BY <1>1, <1>2 DEF SeedRuns, SeedSteps
    <3>3. chain'[Stream(r)] # "nothing"
      BY <1>2, <3>1 DEF SeedInv, SeedTypeOK
    <3> HIDE DEF next
    <3> QED
      BY <3>1, <3>2, <3>3
  <2>4. ASSUME NEW from \in SeedRuns, from.known = seed[r].known,
               NEW step \in {"stream", "subscribe"}, NEW after \in {"subscribe", "signals"},
               Loop(r, from, step, after)
        PROVE  \E next \in SeedRuns :
                 /\ To(r, next) /\ next.known = seed[r].known
                 /\ next.at = step \/ (next.at = after /\ next.next = 1)
    <3>1. CASE from.next = Len(DemoStreams)
      <4> DEFINE next == [from EXCEPT !.at = after, !.next = 1]
      <4>1. next \in SeedRuns /\ next.known = seed[r].known /\ next.at = after /\ next.next = 1
        BY <2>4, NextStream DEF SeedRuns, SeedSteps
      <4> QED
        BY <2>4, <3>1, <4>1 DEF Loop
    <3>2. CASE from.next # Len(DemoStreams)
      <4> DEFINE next == [from EXCEPT !.at = step, !.next = @ + 1]
      <4>1. next \in SeedRuns /\ next.known = seed[r].known /\ next.at = step
        BY <2>4, <3>2, NextStream DEF SeedRuns, SeedSteps
      <4> QED
        BY <2>4, <3>2, <4>1 DEF Loop
    <3> QED
      BY <3>1, <3>2
  <2>5. CASE EnsureTier(r) /\ ~StepTo(r, "signals")
    <3> DEFINE from == [seed[r] EXCEPT !.ready = (seed[r].next = Len(DemoStreams))]
    <3>1. from \in SeedRuns /\ from.known = seed[r].known
      BY <1>1 DEF SeedRuns
    <3>2. Loop(r, from, "stream", "subscribe")
      BY <2>5 DEF EnsureTier
    <3> HIDE DEF from
    <3>3. PICK next \in SeedRuns :
            /\ To(r, next) /\ next.known = seed[r].known
            /\ next.at = "stream" \/ (next.at = "subscribe" /\ next.next = 1)
      BY <2>4, <3>1, <3>2
    <3> QED
      BY <3>3
  <2>6. CASE SeedSubscribe(r)
    <3>1. Loop(r, seed[r], "subscribe", "signals")
      BY <2>6 DEF SeedSubscribe
    <3>2. PICK next \in SeedRuns :
            /\ To(r, next) /\ next.known = seed[r].known
            /\ next.at = "subscribe" \/ (next.at = "signals" /\ next.next = 1)
      BY <1>1, <2>4, <3>1
    <3> QED
      BY <3>2
  <2> QED
    BY <2>2, <2>3, <2>5, <2>6
<1>4. /\ people \subseteq people' /\ people' \subseteq Seeds
      /\ seed[r].at = "people" => r \in people'
      /\ held' \subseteq Seeds \X StreamSet
      /\ chain' \in [StreamSet -> {"nothing", "stream", "tier"}]
      /\ \A s \in StreamSet : chain[s] # "nothing" => chain'[s] # "nothing"
  BY <1>1, <1>2 DEF AddPeople, EnsureStream, EnsureTier, SeedSubscribe, SeedAt, SeedInv, SeedTypeOK
<1>5. seed'[r] = run
  BY <1>3 DEF To, SeedInv, SeedTypeOK
<1>6. SeedSound(r)'
  <2>1. \A s \in Private : ~Sealing(r, s)'
    BY <1>3, <1>5 DEF Sealing
  <2>2. \A s \in run.known : chain'[s] # "nothing"
    BY <1>1, <1>2, <1>3, <1>4 DEF SeedSound, SeedRuns
  <2>3. r \in people' /\ r \in seedsBegun' /\ (~overlapped' => marker' = None)
    BY <1>1, <1>4 DEF SeedSound
  <2> QED
    BY <1>3, <1>5, <2>1, <2>2, <2>3 DEF SeedSound
<1>7. SeedTypeOK'
  BY <1>1, <1>3, <1>4 DEF To, SeedInv, SeedTypeOK
<1>8. MarkerOpensSignals'
  BY <1>1, NoMarkerYet
<1> QED
  BY <1>1, <1>3, <1>4, <1>6, <1>7, <1>8, SeedTurn

(* Once the loop over the streams is done, each private one is sealed to    *)
(* the run that published last.                                             *)
LEMMA PublishSeedSound ==
  ASSUME SeedInv, NEW r \in Seeds, PublishSeed(r)
  PROVE  SeedInv'
<1> DEFINE s == Stream(r)
<1>1. /\ seed[r] # None /\ seed[r] \in SeedRuns /\ SeedSound(r) /\ seed[r].at = "signals"
      /\ sealedTo' = IF s \in Private THEN [sealedTo EXCEPT ![s] = r] ELSE sealedTo
      /\ UNCHANGED <<seedsBegun, marker, people, chain, held, listed, overlapped>>
  BY DEF PublishSeed, SeedAt, SeedInv, SeedTypeOK
<1>2. s \in StreamSet /\ s = DemoStreams[seed[r].next] /\ seed[r].next \in 1 .. Len(DemoStreams)
  BY <1>1, DemoFacts DEF Stream, SeedRuns
<1> HIDE DEF s
<1>3. PICK run \in SeedRuns :
        /\ To(r, run) /\ run.known = seed[r].known
        /\ \/ seed[r].next = Len(DemoStreams) /\ run.at = "listing"
           \/ run.at = "signals" /\ run.next = seed[r].next + 1
  <2>1. CASE seed[r].next = Len(DemoStreams)
    <3> DEFINE next == [seed[r] EXCEPT !.at = "listing", !.next = 1]
    <3>1. next \in SeedRuns /\ next.at = "listing" /\ next.known = seed[r].known
      BY <1>1, NextStream DEF SeedRuns, SeedSteps
    <3> QED
      BY <2>1, <3>1 DEF PublishSeed, Loop
  <2>2. CASE seed[r].next # Len(DemoStreams)
    <3> DEFINE next == [seed[r] EXCEPT !.at = "signals", !.next = @ + 1]
    <3>1. /\ next \in SeedRuns /\ next.at = "signals" /\ next.next = seed[r].next + 1
          /\ next.known = seed[r].known
      BY <1>1, <1>2, <2>2, NextStream DEF SeedRuns, SeedSteps
    <3> QED
      BY <2>2, <3>1 DEF PublishSeed, Loop
  <2> QED
    BY <2>1, <2>2
<1>4. seed'[r] = run
  BY <1>3 DEF To, SeedInv, SeedTypeOK
<1>5. /\ sealedTo' \in [StreamSet -> Seeds \cup {None}]
      /\ anchored' \in [StreamSet -> Seeds \cup {None}]
  BY <1>1, <1>2 DEF PublishSeed, SeedInv, SeedTypeOK, Stream, s
<1>6. ~overlapped' => \A p \in Private : Sealing(r, p)' => SealedBy(r, p)'
  <2> SUFFICES ASSUME ~overlapped, NEW p \in Private, Sealing(r, p)' PROVE sealedTo'[p] = r
    BY <1>1 DEF SealedBy
  <2>1. \E i \in 1 .. seed[r].next : DemoStreams[i] = p
    BY <1>2, <1>3, <1>4, DemoFacts DEF Sealing
  <2>2. CASE p = s
    BY <1>1, <1>2, <2>2 DEF SeedInv, SeedTypeOK
  <2>3. CASE p # s
    <3>1. \E i \in 1 .. seed[r].next - 1 : DemoStreams[i] = p
      BY <1>2, <2>1, <2>3
    <3>2. sealedTo[p] = r
      BY <1>1, <3>1 DEF SeedSound, Sealing, SealedBy
    <3> QED
      BY <1>1, <2>3, <3>2, DemoFacts DEF SeedInv, SeedTypeOK
  <2> QED
    BY <2>2, <2>3
<1>7. SeedSound(r)'
  BY <1>1, <1>3, <1>4, <1>6 DEF SeedSound
<1>8. SeedTypeOK'
  BY <1>1, <1>3, <1>5 DEF To, SeedInv, SeedTypeOK
<1>9. MarkerOpensSignals'
  BY <1>1, NoMarkerYet
<1> QED
  BY <1>1, <1>3, <1>7, <1>8, <1>9, SeedTurn

LEMMA ListSeedSound ==
  ASSUME SeedInv, NEW r \in Seeds, ListSeed(r)
  PROVE  SeedInv'
<1>1. /\ seed[r] # None /\ seed[r] \in SeedRuns /\ SeedSound(r) /\ seed[r].at = "listing"
      /\ UNCHANGED <<seedsBegun, marker, people, chain, held, sealedTo, anchored, overlapped>>
  BY DEF ListSeed, SeedAt, SeedInv, SeedTypeOK
<1>2. PICK run \in SeedRuns :
        To(r, run) /\ run.known = seed[r].known /\ run.at \in {"listing", "summary"}
  <2>1. CASE seed[r].next = Len(DemoStreams)
    <3> DEFINE next == [seed[r] EXCEPT !.at = "summary", !.next = 1]
    <3>1. next \in SeedRuns /\ next.at = "summary" /\ next.known = seed[r].known
      BY <1>1, NextStream DEF SeedRuns, SeedSteps
    <3> QED
      BY <2>1, <3>1 DEF ListSeed, Loop
  <2>2. CASE seed[r].next # Len(DemoStreams)
    <3> DEFINE next == [seed[r] EXCEPT !.at = "listing", !.next = @ + 1]
    <3>1. next \in SeedRuns /\ next.at = "listing" /\ next.known = seed[r].known
      BY <1>1, <2>2, NextStream DEF SeedRuns, SeedSteps
    <3> QED
      BY <2>2, <3>1 DEF ListSeed, Loop
  <2> QED
    BY <2>1, <2>2
<1>3. seed'[r] = run
  BY <1>2 DEF To, SeedInv, SeedTypeOK
<1>4. SeedSound(r)'
  BY <1>1, <1>2, <1>3 DEF SeedSound, Sealing, SealedBy
<1>5. listed' \in [StreamSet -> Listings \cup {None}]
  <2>1. [address |-> Stream(r) \in seed[r].known, authority |-> seed[r].ready] \in Listings
    BY <1>1 DEF Listings, SeedRuns
  <2> QED
    BY <2>1 DEF ListSeed, SeedInv, SeedTypeOK
<1>6. SeedTypeOK'
  BY <1>1, <1>2, <1>5 DEF To, SeedInv, SeedTypeOK
<1>7. MarkerOpensSignals'
  BY <1>1, NoMarkerYet
<1> QED
  BY <1>1, <1>2, <1>4, <1>6, <1>7, SeedTurn

LEMMA OpenMarkerSound ==
  ASSUME SeedInv, NEW r \in Seeds, OpenMarker(r)
  PROVE  SeedInv'
<1>1. /\ seed[r] # None /\ seed[r] \in SeedRuns /\ SeedSound(r) /\ seed[r].at = "summary"
      /\ UNCHANGED <<seedsBegun, people, chain, held, sealedTo, anchored, listed, overlapped>>
  BY DEF OpenMarker, SeedAt, SeedInv, SeedTypeOK
<1> DEFINE run == [seed[r] EXCEPT !.at = "writing", !.next = 1]
<1>2. run \in SeedRuns /\ run.at = "writing" /\ run.known = seed[r].known
  BY <1>1, NextStream DEF SeedRuns, SeedSteps
<1>3. To(r, run)
  BY DEF OpenMarker, StepTo
<1> HIDE DEF run
<1>4. seed'[r] = run
  BY <1>1, <1>3 DEF To, SeedInv, SeedTypeOK
<1>5. /\ marker' = MarkerOf(r, FALSE) /\ MarkerOf(r, FALSE) \in Markers
      /\ ~MarkerOf(r, FALSE).whole
  BY <1>1 DEF OpenMarker, MarkerOf, Markers, SeedRuns
<1>6. MarkerOf(r, FALSE)' = MarkerOf(r, FALSE)
  BY <1>2, <1>4 DEF MarkerOf
<1>7. SeedSound(r)'
  BY <1>1, <1>2, <1>4, <1>5, <1>6 DEF SeedSound, Sealing, SealedBy
<1>8. SeedTypeOK'
  BY <1>1, <1>2, <1>3, <1>5 DEF To, SeedInv, SeedTypeOK
<1>9. MarkerOpensSignals'
  BY <1>5 DEF MarkerOpensSignals
<1> QED
  BY <1>1, <1>2, <1>3, <1>7, <1>8, <1>9, SeedTurn

LEMMA EndSeedSound ==
  ASSUME SeedInv, NEW r \in Seeds, WriteMarker(r) \/ CrashSeed(r)
  PROVE  SeedInv'
<1>1. /\ seed[r] # None /\ seed[r] \in SeedRuns /\ SeedSound(r) /\ To(r, None)
      /\ UNCHANGED <<seedsBegun, people, chain, held, sealedTo, anchored, listed, overlapped>>
  BY DEF WriteMarker, CrashSeed, SeedAt, SeedInv, SeedTypeOK
<1>2. CASE WriteMarker(r)
  <2>1. /\ marker' \in {marker, MarkerOf(r, TRUE), MarkerOf(r, FALSE)}
        /\ seed[r].at = "writing"
    BY <1>2 DEF WriteMarker, SeedAt
  <2>2. \A w \in BOOLEAN : MarkerOf(r, w) \in Markers
    BY <1>1 DEF MarkerOf, Markers, SeedRuns
  <2>3. /\ MarkerOf(r, TRUE).run = r /\ MarkerOf(r, TRUE).addresses = seed[r].known
        /\ ~MarkerOf(r, FALSE).whole
    BY DEF MarkerOf
  <2>4. ~overlapped => marker = MarkerOf(r, FALSE)
    BY <1>1, <2>1 DEF SeedSound
  <2>5. MarkerOpensSignals'
    <3>1. CASE marker' = MarkerOf(r, TRUE)
      BY <1>1, <2>1, <2>3, <3>1 DEF SeedSound, Sealing, SealedBy, MarkerOpensSignals
    <3>2. CASE marker' \in {marker, MarkerOf(r, FALSE)}
      BY <1>1, <2>3, <2>4, <3>2 DEF MarkerOpensSignals
    <3> QED
      BY <2>1, <3>1, <3>2
  <2>6. SeedTypeOK'
    BY <1>1, <2>1, <2>2 DEF To, SeedInv, SeedTypeOK
  <2> QED
    BY <1>1, <2>5, <2>6, SeedTurn
<1>3. CASE CrashSeed(r)
  <2>1. MarkerOpensSignals' /\ SeedTypeOK'
    BY <1>1, <1>3 DEF CrashSeed, To, SeedInv, SeedTypeOK, MarkerOpensSignals
  <2> QED
    BY <1>1, <2>1, SeedTurn
<1> QED
  BY <1>2, <1>3

(* However often the seeder fails, is stopped, is started again or forced,  *)
(* the file names keys that open the demo's private signals, agents that    *)
(* are there and streams that are on chain.                                 *)
THEOREM MarkerCorrect == SeedSpec => []MarkerOpensSignals
<1>1. SeedInit => SeedInv
  BY DEF SeedInit, SeedInv, SeedTypeOK, OneAtATime, MarkerOpensSignals
<1>2. SeedInv /\ [SeedNext]_seedVars => SeedInv'
  <2> SUFFICES ASSUME SeedInv, [SeedNext]_seedVars PROVE SeedInv'
    OBVIOUS
  <2>1. CASE UNCHANGED seedVars
    BY <2>1 DEF SeedInv, SeedTypeOK, OneAtATime, SeedSound, Sealing, SealedBy, MarkerOf,
         MarkerOpensSignals, seedVars
  <2> QED
    BY <2>1, StartSeedSound, CheckMarkerSound, MakeSound, PublishSeedSound, ListSeedSound,
       OpenMarkerSound, EndSeedSound
    DEF SeedNext
<1>3. SeedInv => MarkerOpensSignals
  BY DEF SeedInv
<1> QED
  BY <1>1, <1>2, <1>3, PTL DEF SeedSpec

-----------------------------------------------------------------------------
(* StreamsRail *)

(* Every set of numbers has a least one. *)
LessThan == {p \in Nat \X Nat : p[1] < p[2]}

LEMMA LeastNumber ==
  ASSUME NEW N, N \subseteq Nat, N # {}
  PROVE  \E n \in N : \A m \in N : n <= m
<1>1. IsWellFoundedOn(LessThan, Nat)
  BY NatLessThanWellFounded DEF OpToRel, LessThan
<1>2. PICK n \in N : \A m \in N : <<m, n>> \notin LessThan
  BY <1>1, WFMin
<1>3. \A m \in N : m \in Nat /\ n \in Nat /\ ~(m < n)
  BY <1>2 DEF LessThan
<1> QED
  BY <1>3

StrictTotalOrder(order, E) ==
  /\ \A e \in E : <<e, e>> \notin order
  /\ \A e, f \in E : e # f => <<e, f>> \in order \/ <<f, e>> \in order
  /\ \A e, f, g \in E : <<e, f>> \in order /\ <<f, g>> \in order => <<e, g>> \in order

LEMMA RankGrows ==
  ASSUME NEW E, IsFiniteSet(E), NEW order, StrictTotalOrder(order, E),
         NEW e \in E, NEW f \in E
  PROVE  /\ Cardinality(Before(order, e, E)) \in Nat
         /\ <<e, f>> \in order =>
              Cardinality(Before(order, e, E)) < Cardinality(Before(order, f, E))
<1> DEFINE below(x) == Before(order, x, E)
<1>1. \A x \in E : IsFiniteSet(below(x)) /\ Cardinality(below(x)) \in Nat
  <2>1. \A x \in E : below(x) \in SUBSET E
    BY DEF Before
  <2> QED
    BY <2>1, FS_Subset, FS_CardinalityType
<1>2. ASSUME <<e, f>> \in order PROVE Cardinality(below(e)) < Cardinality(below(f))
  <2>1. e \notin below(e) /\ below(e) \cup {e} \in SUBSET below(f)
    BY <1>2 DEF Before, StrictTotalOrder
  <2>2. Cardinality(below(e) \cup {e}) = Cardinality(below(e)) + 1
    BY <1>1, <2>1, FS_AddElement
  <2>3. Cardinality(below(e) \cup {e}) <= Cardinality(below(f))
    BY <1>1, <2>1, FS_Subset
  <2> HIDE DEF below
  <2> QED
    BY <1>1, <2>2, <2>3
<1> QED
  BY <1>1, <1>2

(* The first of some events are at most Limit, all of them if there are no   *)
(* more, and when some are left out exactly Limit, each before those.        *)
LEMMA FirstOfFacts ==
  ASSUME NEW E, IsFiniteSet(E), NEW order, StrictTotalOrder(order, E)
  PROVE  /\ FirstOf(E, order) \subseteq E
         /\ IsFiniteSet(FirstOf(E, order))
         /\ Cardinality(FirstOf(E, order)) \in Nat
         /\ Cardinality(FirstOf(E, order)) <= Limit
         /\ \A e \in E \ FirstOf(E, order) :
              /\ Cardinality(FirstOf(E, order)) = Limit
              /\ \A f \in FirstOf(E, order) : <<f, e>> \in order
<1> DEFINE first == FirstOf(E, order)
           rank(x) == Cardinality(Before(order, x, E))
<1>1. first \subseteq E /\ \A e \in E : e \in first <=> rank(e) < Limit
  BY DEF FirstOf
<1>2. \A e \in E : rank(e) \in Nat
  BY RankGrows
<1>3. \A e, f \in E : <<e, f>> \in order => rank(e) < rank(f)
  BY RankGrows
<1>4. \A e \in E : Before(order, e, E) \subseteq E /\ IsFiniteSet(Before(order, e, E))
  <2>1. \A e \in E : Before(order, e, E) \in SUBSET E
    BY DEF Before
  <2> QED
    BY <2>1, FS_Subset
<1>5. \A e \in E, f \in E : f \in Before(order, e, E) <=> <<f, e>> \in order
  BY DEF Before
<1> HIDE DEF first, rank
<1>6. IsFiniteSet(first) /\ Cardinality(first) \in Nat
  BY <1>1, FS_Subset, FS_CardinalityType
<1>7. Limit \in Nat \ {0}
  BY RailAssumption
<1>8. \A e \in E \ first, f \in first : <<f, e>> \in order
  <2> SUFFICES ASSUME NEW e \in E \ first, NEW f \in first, <<f, e>> \notin order
               PROVE  FALSE
    OBVIOUS
  <2>1. <<e, f>> \in order
    BY <1>1 DEF StrictTotalOrder
  <2> QED
    BY <1>1, <1>2, <1>3, <1>7, <2>1
<1>9. Cardinality(first) <= Limit
  <2>1. CASE first = {}
    BY <1>7, <2>1, FS_EmptySet
  <2>2. CASE first # {}
    <3> DEFINE gaps == {Limit - rank(f) : f \in first}
    <3>1. gaps \subseteq Nat /\ gaps # {}
      BY <1>1, <1>2, <1>7, <2>2
    <3>2. PICK n \in gaps : \A m \in gaps : n <= m
      <4> HIDE DEF gaps
      <4> QED
        BY <3>1, LeastNumber
    <3>3. PICK last \in first : n = Limit - rank(last)
      BY <3>2
    <3>4. \A f \in first : Limit - rank(last) <= Limit - rank(f)
      BY <3>2, <3>3
    <3>5. \A f \in first : rank(f) <= rank(last)
      BY <1>1, <1>2, <1>7, <3>4
    <3>6. \A f \in first \ {last} : <<f, last>> \in order
      <4> SUFFICES ASSUME NEW f \in first \ {last}, <<f, last>> \notin order
                   PROVE  FALSE
        OBVIOUS
      <4>1. <<last, f>> \in order
        BY <1>1 DEF StrictTotalOrder
      <4>2. rank(last) < rank(f)
        BY <1>1, <1>3, <4>1
      <4> QED
        BY <1>1, <1>2, <3>5, <4>2
    <3>7. first \ {last} \in SUBSET Before(order, last, E)
      BY <1>1, <1>5, <3>6
    <3>8. Cardinality(first \ {last}) <= rank(last)
      BY <1>1, <1>4, <3>7, FS_Subset DEF rank
    <3>9. Cardinality(first \ {last}) = Cardinality(first) - 1
      BY <1>6, FS_RemoveElement
    <3> QED
      BY <1>1, <1>2, <1>6, <1>7, <3>8, <3>9
  <2> QED
    BY <2>1, <2>2
<1>10. ASSUME E \ first # {} PROVE Cardinality(first) = Limit
  <2> DEFINE ranks == {rank(e) : e \in E \ first}
  <2>1. ranks \subseteq Nat /\ ranks # {}
    BY <1>2, <1>10
  <2>2. PICK n \in ranks : \A m \in ranks : n <= m
    <3> HIDE DEF ranks
    <3> QED
      BY <2>1, LeastNumber
  <2>3. PICK next \in E \ first : n = rank(next)
    BY <2>2
  <2>4. \A e \in E \ first : rank(next) <= rank(e)
    BY <2>2, <2>3
  <2>5. Before(order, next, E) \in SUBSET first
    <3> SUFFICES ASSUME NEW e \in E, <<e, next>> \in order, e \notin first PROVE FALSE
      BY <1>4, <1>5
    <3> QED
      BY <1>2, <1>3, <2>4
  <2>6. rank(next) <= Cardinality(first)
    BY <1>6, <2>5, FS_Subset DEF rank
  <2> QED
    BY <1>1, <1>2, <1>6, <1>7, <1>9, <2>6
<1> QED
  BY <1>1, <1>6, <1>8, <1>9, <1>10 DEF first

(* Of events with ids of their own, the three orders are orders.            *)
EventsApart(E) == \A e, f \in E : e.id = f.id => e = f

LEMMA OrdersOfEvents ==
  ASSUME NEW E, E \subseteq Events, EventsApart(E)
  PROVE  /\ StrictTotalOrder(HigherId, E)
         /\ StrictTotalOrder(LowerId, E)
         /\ StrictTotalOrder(Later, E)
<1>1. \A e \in E : e.id \in Nat /\ e.at \in Nat /\ e = [id |-> e.id, at |-> e.at]
  <2> SUFFICES ASSUME NEW e \in Events
               PROVE  e.id \in Nat /\ e.at \in Nat /\ e = [id |-> e.id, at |-> e.at]
    OBVIOUS
  <2>1. e.id \in 1 .. MaxEvents /\ e.at \in Times
    BY DEF Events
  <2>2. e.id \in Nat
    <3>1. MaxEvents \in Nat
      BY RailAssumption
    <3> QED
      BY <2>1, <3>1
  <2>4. e.at \in Nat
    BY <2>1, RailAssumption
  <2>3. e = [id |-> e.id, at |-> e.at]
    BY DEF Events
  <2> QED
    BY <2>2, <2>3, <2>4
<1> USE DEF StrictTotalOrder, EventsApart
<1>2. \A e, f \in E :
        /\ <<e, f>> \in HigherId <=> e.id > f.id
        /\ <<e, f>> \in LowerId <=> e.id < f.id
        /\ <<e, f>> \in Later <=> e.at > f.at \/ (e.at = f.at /\ e.id > f.id)
  BY DEF HigherId, LowerId, Later
<1>3. StrictTotalOrder(HigherId, E)
  BY <1>1, <1>2
<1>4. StrictTotalOrder(LowerId, E)
  BY <1>1, <1>2
<1>5. StrictTotalOrder(Later, E)
  BY <1>1, <1>2
<1> QED
  BY <1>3, <1>4, <1>5

LEMMA HighestIdFacts ==
  ASSUME NEW E, E \subseteq Events
  PROVE  /\ E = {} => HighestId(E) = 0
         /\ E # {} => \E e \in E : HighestId(E) = e.id
         /\ \A e \in E : e.id <= HighestId(E)
         /\ HighestId(E) \in 0 .. MaxEvents
<1>1. CASE E = {}
  BY <1>1, RailAssumption DEF HighestId
<1>2. CASE E # {}
  <2> DEFINE gaps == {MaxEvents - e.id : e \in E}
  <2>1. gaps \subseteq Nat /\ gaps # {}
    BY <1>2, RailAssumption DEF Events
  <2>2. PICK n \in gaps : \A m \in gaps : n <= m
    <3> HIDE DEF gaps
    <3> QED
      BY <2>1, LeastNumber
  <2>3. PICK e \in E : n = MaxEvents - e.id
    BY <2>2
  <2>4. \A f \in E : MaxEvents - e.id <= MaxEvents - f.id
    BY <2>2, <2>3
  <2>5. \A f \in E : e.id >= f.id
    BY <2>4, RailAssumption DEF Events
  <2> DEFINE highest == CHOOSE x \in E : \A f \in E : x.id >= f.id
  <2>6. highest \in E /\ \A f \in E : highest.id >= f.id
    BY <2>5
  <2>7. HighestId(E) = highest.id
    BY <1>2 DEF HighestId
  <2> HIDE DEF highest
  <2> QED
    BY <1>2, <2>6, <2>7, RailAssumption DEF Events
<1> QED
  BY <1>1, <1>2

(* What the newest events were when they were read: but for overtaken ones,  *)
(* an event left out below one of them left as many as fit, all above it.    *)
Newest(page, events, lost) ==
  /\ page \subseteq events /\ Cardinality(page) <= Limit
  /\ \A e \in events \ (page \cup lost) : (\E f \in page : f.id > e.id) =>
       Cardinality(page) = Limit /\ \A f \in page : f.id > e.id

(* The events after an id are the next ones: none is left out among them.    *)
Following(page, after, events, lost) ==
  /\ page \subseteq events
  /\ \A f \in page : f.id > after
  /\ \A e \in events \ (page \cup lost) : e.id > after => \A f \in page : e.id > f.id

AnswerSound(ask, events, lost) ==
  /\ ask.first => ask.after = 0
  /\ ask.after = 0 => Newest(ask.answer, events, lost)
  /\ ask.after # 0 => Following(ask.answer, ask.after, events, lost)

(* A request of the rail as it is mounted asked from no later than it shows. *)
PollingSound(ask, last) ==
  /\ ask.after <= last
  /\ ~ask.first /\ ask.after = 0 => last = 0
  /\ ask.first /\ ask.served /\ ask.answer = {} => last = 0

LivePolls(asks) ==
  {asks[r].after : r \in {q \in Requests : asks[q] # None /\ asks[q].live /\ ~asks[q].first}}

(* An event the rail passed and leaves out fell off it, being earlier than   *)
(* all it shows; or it is below what a first load brought, and then no poll  *)
(* under way can bring it, or any below it, back.                            *)
LeftOut(e, page, polls) ==
  /\ Cardinality(page) = Limit
  /\ \/ \A f \in page : <<f, e>> \in Later
     \/ /\ \A f \in page : <<f, e>> \in HigherId \cup Later
        /\ \A after \in polls : e.id <= after

NothingMissed(events, lost, page, last, polls) ==
  \A e \in events \ (page \cup lost) : e.id <= last => LeftOut(e, page, polls)

StoreInv ==
  /\ IsFiniteSet(log) /\ EventsApart(log \cup inserted) /\ log \cap inserted = {}
  /\ \A e \in log \cup inserted : e.id <= drawn

PageInv ==
  /\ rail \subseteq log /\ Cardinality(rail) <= Limit
  /\ \A e \in rail : e.id <= cursor
  /\ cursor # 0 => \E e \in log : e.id = cursor
  /\ Newest(railCache, log, overtaken)

AsksInv ==
  \A r \in Requests : asked[r] # None =>
    /\ AnswerSound(asked[r], log, overtaken)
    /\ asked[r].live /\ ~raced => PollingSound(asked[r], cursor)

PassedInv == ~raced => NothingMissed(log, overtaken, rail, cursor, LivePolls(asked))

RailInv == RailTypeOK /\ StoreInv /\ PageInv /\ AsksInv /\ PassedInv

LEMMA RailStart == NoRail => RailInv
<1> SUFFICES ASSUME NoRail PROVE RailInv
  OBVIOUS
<1>1. RailTypeOK
  <2>1. 0 \in 0 .. MaxEvents
    BY RailAssumption
  <2> QED
    BY <2>1 DEF NoRail, RailTypeOK
<1>2. StoreInv
  BY FS_EmptySet DEF NoRail, StoreInv, EventsApart
<1>3. PageInv
  BY FS_EmptySet, RailAssumption DEF NoRail, PageInv, Newest
<1>4. AsksInv /\ PassedInv
  BY DEF NoRail, AsksInv, PassedInv, NothingMissed
<1> QED
  BY <1>1, <1>2, <1>3, <1>4 DEF RailInv

(* An event that is committed and does not count as overtaken comes after    *)
(* all that were committed.                                                  *)
LEMMA CommitSound ==
  ASSUME RailInv, NEW e \in Events, CommitEvent(e)
  PROVE  RailInv'
<1> USE DEF CommitEvent
<1>1. RailTypeOK'
  BY DEF RailInv, RailTypeOK
<1>2. StoreInv'
  <2>1. IsFiniteSet(log')
    BY FS_AddElement DEF RailInv, StoreInv
  <2>2. log' \cup inserted' = log \cup inserted /\ log' \cap inserted' = {}
    BY DEF RailInv, StoreInv
  <2> QED
    BY <2>1, <2>2 DEF RailInv, StoreInv
<1>3. \A d \in Events : d.id \in Nat
  <2>1. MaxEvents \in Nat
    BY RailAssumption
  <2> QED
    BY <2>1 DEF Events
<1>4. /\ log' = log \cup {e} /\ overtaken \subseteq overtaken'
      /\ e \notin overtaken' => \A f \in log : f.id < e.id
  <2>1. \A f \in log : f \in Events /\ f.id # e.id
    BY DEF RailInv, RailTypeOK, StoreInv, EventsApart
  <2> QED
    BY <1>3, <2>1
<1>5. log \subseteq Events
  BY DEF RailInv, RailTypeOK
<1>6. ASSUME NEW page, Newest(page, log, overtaken)
      PROVE  Newest(page, log', overtaken')
  BY <1>3, <1>4, <1>5, <1>6 DEF Newest
<1>7. ASSUME NEW page, NEW after, Following(page, after, log, overtaken)
      PROVE  Following(page, after, log', overtaken')
  BY <1>3, <1>4, <1>5, <1>7 DEF Following
<1>8. PageInv'
  BY <1>4, <1>6 DEF RailInv, PageInv
<1>9. AsksInv'
  BY <1>6, <1>7 DEF RailInv, AsksInv, AnswerSound
<1>10. PassedInv'
  <2> SUFFICES ASSUME ~raced, NEW d \in log' \ (rail \cup overtaken'), d.id <= cursor
               PROVE  LeftOut(d, rail, LivePolls(asked))
    BY DEF PassedInv, NothingMissed
  <2>1. d \in log
    <3>1. cursor \in Nat
      BY RailAssumption DEF RailInv, RailTypeOK
    <3>2. cursor # 0 => \E f \in log : f.id = cursor
      BY DEF RailInv, PageInv
    <3>3. e \in Events /\ e.id # 0
      BY DEF Events
    <3> QED
      BY <1>3, <1>4, <1>5, <3>1, <3>2, <3>3
  <2> QED
    BY <1>4, <2>1 DEF RailInv, PassedInv, NothingMissed
<1> QED
  BY <1>1, <1>2, <1>8, <1>9, <1>10 DEF RailInv

LEMMA InsertSound ==
  ASSUME RailInv, \/ \E at \in Times : InsertEvent(at)
                  \/ \E e \in Events : RollBack(e)
  PROVE  RailInv'
<1>1. ASSUME NEW at \in Times, InsertEvent(at)
      PROVE  /\ RailTypeOK' /\ StoreInv'
             /\ UNCHANGED <<log, rail, cursor, railCache, asked, overtaken, raced>>
  <2> DEFINE row == [id |-> drawn + 1, at |-> at]
  <2>1. row \in Events /\ row.id = drawn + 1 /\ drawn \in Nat /\ drawn + 1 \in 0 .. MaxEvents
    BY <1>1, RailAssumption DEF InsertEvent, Events, RailInv, RailTypeOK
  <2>2. inserted' = inserted \cup {row} /\ drawn' = drawn + 1
    BY <1>1 DEF InsertEvent
  <2> HIDE DEF row
  <2>3. RailTypeOK'
    BY <1>1, <2>1, <2>2 DEF InsertEvent, RailInv, RailTypeOK
  <2>4. \A e \in log \cup inserted : e.id \in Nat /\ e.id <= drawn
    BY RailAssumption DEF RailInv, RailTypeOK, StoreInv, Events
  <2>5. StoreInv'
    <3>1. row \notin log \cup inserted
      BY <2>1, <2>4
    <3>2. EventsApart(log \cup inserted \cup {row})
      BY <2>1, <2>4 DEF RailInv, StoreInv, EventsApart
    <3>3. \A e \in log \cup inserted \cup {row} : e.id <= drawn + 1
      BY <2>1, <2>4
    <3>4. log' = log /\ log' \cup inserted' = log \cup inserted \cup {row}
      BY <1>1, <2>2 DEF InsertEvent
    <3> QED
      BY <2>2, <3>1, <3>2, <3>3, <3>4 DEF RailInv, StoreInv
  <2> QED
    BY <1>1, <2>3, <2>5 DEF InsertEvent
<1>2. ASSUME NEW e \in Events, RollBack(e)
      PROVE  /\ RailTypeOK' /\ StoreInv'
             /\ UNCHANGED <<log, rail, cursor, railCache, asked, overtaken, raced>>
  BY <1>2 DEF RollBack, RailInv, RailTypeOK, StoreInv, EventsApart
<1>3. ASSUME RailTypeOK', StoreInv',
             UNCHANGED <<log, rail, cursor, railCache, asked, overtaken, raced>>
      PROVE  RailInv'
  BY <1>3 DEF RailInv, PageInv, AsksInv, PassedInv
<1> QED
  BY <1>1, <1>2, <1>3

(* What the store answers. *)
LEMMA AnswersSound ==
  ASSUME RailInv, NEW after \in 0 .. MaxEvents
  PROVE  /\ RecentEvents(after) \in SUBSET log
         /\ after = 0 => /\ Newest(RecentEvents(after), log, overtaken)
                         /\ RecentEvents(after) = {} => log = {}
         /\ after # 0 => Following(RecentEvents(after), after, log, overtaken)
<1>1. log \subseteq Events /\ IsFiniteSet(log) /\ EventsApart(log)
  BY DEF RailInv, RailTypeOK, StoreInv, EventsApart
<1>2. \A e \in Events : e.id \in Nat
  <2>1. MaxEvents \in Nat
    BY RailAssumption
  <2> QED
    BY <2>1 DEF Events
<1>3. CASE after = 0
  <2> DEFINE page == FirstOf(log, HigherId)
  <2>1. /\ page \subseteq log /\ Cardinality(page) <= Limit /\ IsFiniteSet(page)
        /\ \A e \in log \ page : /\ Cardinality(page) = Limit
                                 /\ \A f \in page : <<f, e>> \in HigherId
    BY <1>1, OrdersOfEvents, FirstOfFacts
  <2>2. RecentEvents(after) = page
    BY <1>3 DEF RecentEvents
  <2> HIDE DEF page
  <2>3. \A e \in log \ page, f \in page : f.id > e.id
    BY <1>1, <2>1 DEF HigherId
  <2>4. page = {} => log = {}
    BY <2>1, FS_EmptySet, RailAssumption
  <2> QED
    BY <1>3, <2>1, <2>2, <2>3, <2>4 DEF Newest
<1>4. CASE after # 0
  <2> DEFINE next == {e \in log : e.id > after}
             page == FirstOf(next, LowerId)
  <2>1. next \subseteq Events /\ IsFiniteSet(next) /\ EventsApart(next)
    <3>1. next \in SUBSET log
      OBVIOUS
    <3>2. IsFiniteSet(next)
      BY <1>1, <3>1, FS_Subset
    <3> QED
      BY <1>1, <3>2 DEF EventsApart
  <2> HIDE DEF next
  <2>2. /\ page \subseteq next
        /\ \A e \in next \ page : \A f \in page : <<f, e>> \in LowerId
    BY <2>1, OrdersOfEvents, FirstOfFacts
  <2>3. RecentEvents(after) = page
    BY <1>4 DEF RecentEvents, next
  <2> HIDE DEF page
  <2>4. \A e \in next \ page, f \in page : e.id > f.id
    BY <1>2, <2>1, <2>2 DEF LowerId
  <2> QED
    BY <1>4, <2>2, <2>3, <2>4 DEF Following, next
<1> QED
  BY <1>3, <1>4

LEMMA ServeEventsSound ==
  ASSUME RailInv, NEW r \in Requests, ServeEvents(r)
  PROVE  RailInv'
<1> DEFINE ask == asked[r]
           answered == [ask EXCEPT !.served = TRUE, !.answer = RecentEvents(ask.after)]
<1>1. /\ ask \in Asked /\ asked \in [Requests -> Asked \cup {None}]
      /\ log \subseteq Events
  BY DEF ServeEvents, RailInv, RailTypeOK
<1>2. /\ RecentEvents(ask.after) \in SUBSET log
      /\ ask.after = 0 => /\ Newest(RecentEvents(ask.after), log, overtaken)
                          /\ RecentEvents(ask.after) = {} => log = {}
      /\ ask.after # 0 => Following(RecentEvents(ask.after), ask.after, log, overtaken)
  <2>1. ask.after \in 0 .. MaxEvents
    BY <1>1 DEF Asked
  <2> HIDE DEF ask
  <2> QED
    BY <2>1, AnswersSound
<1>3. /\ answered \in Asked /\ answered.first = ask.first /\ answered.after = ask.after
      /\ answered.live = ask.live /\ answered.answer = RecentEvents(ask.after)
  BY <1>1, <1>2 DEF Asked
<1>4. /\ asked' = [asked EXCEPT ![r] = answered] /\ asked[r] # None
      /\ UNCHANGED <<drawn, inserted, log, rail, cursor, railCache, overtaken, raced>>
  BY DEF ServeEvents
<1>5. /\ AnswerSound(ask, log, overtaken)
      /\ ask.live /\ ~raced => PollingSound(ask, cursor)
  BY <1>4 DEF RailInv, AsksInv
<1> HIDE DEF answered, ask
<1>6. asked'[r] = answered /\ \A q \in Requests \ {r} : asked'[q] = asked[q]
  BY <1>1, <1>4
<1>7. RailTypeOK'
  BY <1>1, <1>3, <1>4 DEF RailInv, RailTypeOK
<1>8. StoreInv' /\ PageInv'
  BY <1>4 DEF RailInv, StoreInv, PageInv
<1>9. AsksInv'
  <2>1. AnswerSound(answered, log, overtaken)
    BY <1>2, <1>3, <1>5 DEF AnswerSound
  <2>2. answered.live /\ ~raced => PollingSound(answered, cursor)
    <3>1. log = {} => cursor = 0
      BY DEF RailInv, PageInv
    <3> QED
      BY <1>2, <1>3, <1>5, <3>1 DEF PollingSound, AnswerSound
  <2> QED
    BY <1>4, <1>6, <2>1, <2>2 DEF RailInv, AsksInv
<1>10. PassedInv'
  <2>1. LivePolls(asked') = LivePolls(asked)
    <3>1. \A q \in Requests :
            /\ asked'[q] # None <=> asked[q] # None
            /\ asked[q] # None =>
                 /\ asked'[q].live = asked[q].live /\ asked'[q].first = asked[q].first
                 /\ asked'[q].after = asked[q].after
      <4>1. answered # None
        BY <1>3, RailAssumption
      <4> QED
        BY <1>3, <1>4, <1>6, <4>1 DEF ask
    <3> QED
      BY <3>1 DEF LivePolls
  <2> QED
    BY <1>4, <2>1 DEF RailInv, PassedInv
<1> QED
  BY <1>7, <1>8, <1>9, <1>10 DEF RailInv

(* Nothing is missed by a page of the newest events, if no poll is under way. *)
LEMMA FreshPage ==
  ASSUME NEW events, events \subseteq Events, EventsApart(events), NEW lost, NEW page,
         Newest(page, events, lost)
  PROVE  NothingMissed(events, lost, page, HighestId(page), {})
<1> SUFFICES ASSUME NEW e \in events \ (page \cup lost), e.id <= HighestId(page)
             PROVE  LeftOut(e, page, {})
  BY DEF NothingMissed
<1>1. \A d \in Events : d.id \in Nat /\ d.id # 0
  <2>1. MaxEvents \in Nat
    BY RailAssumption
  <2> QED
    BY <2>1 DEF Events
<1>2. page \subseteq events
  BY DEF Newest
<1>3. page # {}
  BY <1>1, HighestIdFacts
<1>4. PICK f \in page : HighestId(page) = f.id
  BY <1>2, <1>3, HighestIdFacts
<1>5. f.id > e.id
  BY <1>1, <1>2, <1>4 DEF EventsApart
<1>6. Cardinality(page) = Limit /\ \A g \in page : g.id > e.id
  BY <1>5 DEF Newest
<1>7. \A g \in page : <<g, e>> \in HigherId
  BY <1>2, <1>6 DEF HigherId
<1> QED
  BY <1>6, <1>7 DEF LeftOut

(* Nor is anything missed when a poll that was under way is merged.         *)
LEMMA MergedPage ==
  ASSUME NEW events, events \subseteq Events, IsFiniteSet(events), EventsApart(events),
         NEW lost, NEW page, page \subseteq events, Cardinality(page) <= Limit,
         NEW last \in Nat, NEW polls, NothingMissed(events, lost, page, last, polls),
         NEW after \in polls, after \in Nat, after <= last,
         NEW answer, Following(answer, after, events, lost),
         NEW left, left \subseteq polls
  PROVE  NothingMissed(events, lost, FirstOf(page \cup answer, Later),
           IF HighestId(answer) > last THEN HighestId(answer) ELSE last, left)
<1> DEFINE all == page \cup answer
           shown == FirstOf(all, Later)
<1> SUFFICES ASSUME NEW e \in events \ (shown \cup lost),
                    e.id <= IF HighestId(answer) > last THEN HighestId(answer) ELSE last
             PROVE  LeftOut(e, shown, left)
  BY DEF NothingMissed
<1>1. \A d \in Events : d.id \in Nat
  <2>1. MaxEvents \in Nat
    BY RailAssumption
  <2> QED
    BY <2>1 DEF Events
<1>2. answer \subseteq events /\ all \in SUBSET events
  BY DEF Following
<1>3. /\ IsFiniteSet(all) /\ IsFiniteSet(page) /\ Cardinality(all) \in Nat /\ Cardinality(page) \in Nat
      /\ EventsApart(all) /\ all \subseteq Events
  BY <1>2, FS_Subset, FS_CardinalityType DEF EventsApart
<1>4. StrictTotalOrder(Later, events) /\ StrictTotalOrder(Later, all)
  BY <1>3, OrdersOfEvents
<1>5. /\ shown \subseteq all /\ Cardinality(shown) <= Limit /\ Cardinality(shown) \in Nat
      /\ \A d \in all \ shown : /\ Cardinality(shown) = Limit
                                /\ \A f \in shown : <<f, d>> \in Later
  BY <1>3, <1>4, FirstOfFacts
<1>6. CASE e \in all
  BY <1>5, <1>6 DEF LeftOut
<1>7. CASE e \notin all
  <2>1. e.id <= last
    <3> SUFFICES ASSUME e.id > last PROVE FALSE
      BY <1>1
    <3>1. \A f \in answer : e.id > f.id
      BY <1>1, <1>7 DEF Following
    <3>2. e.id <= HighestId(answer) /\ e.id # 0
      BY <1>1
    <3>3. answer # {}
      BY <1>1, <3>2, HighestIdFacts
    <3>4. PICK f \in answer : HighestId(answer) = f.id
      BY <1>2, <3>3, HighestIdFacts
    <3> QED
      BY <1>1, <1>2, <3>1, <3>2, <3>4
  <2>2. LeftOut(e, page, polls)
    BY <1>7, <2>1 DEF NothingMissed
  <2>3. Cardinality(page) = Limit
    BY <2>2 DEF LeftOut
  <2>4. Cardinality(shown) = Limit
    <3>1. CASE shown = all
      <4>1. Cardinality(page) <= Cardinality(all)
        BY <1>3, FS_Subset
      <4> QED
        BY <1>3, <1>5, <2>3, <3>1, <4>1, RailAssumption
    <3>2. CASE shown # all
      BY <1>5, <3>2
    <3> QED
      BY <3>1, <3>2
  <2>5. CASE \A f \in page : <<f, e>> \in Later
    <3>1. ASSUME NEW f \in shown, <<f, e>> \notin Later PROVE FALSE
      <4>1. f # e /\ f \in events
        BY <1>2, <1>5, <1>7
      <4>2. <<e, f>> \in Later
        BY <1>4, <3>1, <4>1 DEF StrictTotalOrder
      <4>3. \A g \in page : <<g, f>> \in Later
        BY <1>4, <2>5, <4>1, <4>2 DEF StrictTotalOrder
      <4> DEFINE above == Before(Later, f, all)
      <4>4. above \in SUBSET all /\ page \in SUBSET above
        BY <4>3 DEF Before
      <4>5. Cardinality(page) <= Cardinality(above) /\ Cardinality(above) \in Nat
        BY <1>3, <4>4, FS_Subset, FS_CardinalityType
      <4>6. Cardinality(above) < Limit
        BY DEF FirstOf
      <4> QED
        BY <2>3, <4>5, <4>6, RailAssumption
    <3> QED
      BY <2>4, <3>1 DEF LeftOut
  <2>6. CASE /\ \A f \in page : <<f, e>> \in HigherId \cup Later
             /\ \A a \in polls : e.id <= a
    <3>1. e.id <= after
      BY <2>6
    <3>2. \A f \in answer : f \in Events /\ f.id > after
      BY <1>2 DEF Following
    <3>3. \A f \in answer : f.id > e.id
      BY <1>1, <3>1, <3>2
    <3>4. \A f \in answer : <<f, e>> \in HigherId
      BY <3>2, <3>3 DEF HigherId
    <3> QED
      BY <1>5, <2>4, <2>6, <3>4 DEF LeftOut
  <2> QED
    BY <2>2, <2>5, <2>6 DEF LeftOut
<1> QED
  BY <1>6, <1>7

(* A request is sent, or given up. *)
LEMMA PollSound ==
  ASSUME RailInv, NEW r \in Requests, Poll(r)
  PROVE  RailInv'
<1> DEFINE ask == Request(FALSE, cursor)
<1>1. /\ asked' = [asked EXCEPT ![r] = ask] /\ asked \in [Requests -> Asked \cup {None}]
      /\ asked[r] = None
      /\ UNCHANGED <<drawn, inserted, log, rail, cursor, railCache, overtaken, raced>>
  BY DEF Poll, RailInv, RailTypeOK
<1>2. /\ ask \in Asked /\ ask # None /\ ~ask.first /\ ask.after = cursor /\ ask.live
      /\ ask.answer = {} /\ cursor \in Nat
  <2>1. cursor \in 0 .. MaxEvents
    BY DEF RailInv, RailTypeOK
  <2>2. ask \in Asked
    BY <2>1 DEF Request, Asked
  <2>3. cursor \in Nat
    BY <2>1, RailAssumption
  <2>4. ~ask.first /\ ask.after = cursor /\ ask.live /\ ask.answer = {}
    BY DEF Request
  <2> QED
    BY <2>2, <2>3, <2>4, RailAssumption
<1> HIDE DEF ask
<1>3. asked'[r] = ask /\ \A q \in Requests \ {r} : asked'[q] = asked[q]
  BY <1>1
<1>4. RailTypeOK' /\ StoreInv' /\ PageInv'
  BY <1>1, <1>2 DEF RailInv, RailTypeOK, StoreInv, PageInv
<1>5. AsksInv'
  <2>1. AnswerSound(ask, log, overtaken)
    BY <1>2, FS_EmptySet, RailAssumption DEF AnswerSound, Newest, Following
  <2>2. PollingSound(ask, cursor)
    BY <1>2 DEF PollingSound
  <2> QED
    BY <1>1, <1>2, <1>3, <2>1, <2>2 DEF RailInv, AsksInv
<1>6. PassedInv'
  <2>1. LivePolls(asked') \subseteq LivePolls(asked) \cup {cursor}
    BY <1>2, <1>3 DEF LivePolls
  <2> SUFFICES ASSUME ~raced, NEW e \in log \ (rail \cup overtaken), e.id <= cursor
               PROVE  LeftOut(e, rail, LivePolls(asked'))
    BY <1>1 DEF PassedInv, NothingMissed
  <2>2. LeftOut(e, rail, LivePolls(asked))
    BY DEF RailInv, PassedInv, NothingMissed
  <2> QED
    BY <2>1, <2>2 DEF LeftOut
<1> QED
  BY <1>4, <1>5, <1>6 DEF RailInv

LEMMA FailSound ==
  ASSUME RailInv, NEW r \in Requests, FailToArrive(r)
  PROVE  RailInv'
<1>1. /\ asked'[r] = None /\ \A q \in Requests \ {r} : asked'[q] = asked[q]
      /\ asked' \in [Requests -> Asked \cup {None}]
      /\ UNCHANGED <<drawn, inserted, log, rail, cursor, railCache, overtaken, raced>>
  BY DEF FailToArrive, RailInv, RailTypeOK
<1>2. RailTypeOK' /\ StoreInv' /\ PageInv'
  BY <1>1 DEF RailInv, RailTypeOK, StoreInv, PageInv
<1>3. AsksInv'
  BY <1>1 DEF RailInv, AsksInv
<1>4. LivePolls(asked') \subseteq LivePolls(asked)
  BY <1>1 DEF LivePolls
<1>5. PassedInv'
  BY <1>1, <1>4 DEF RailInv, PassedInv, NothingMissed, LeftOut
<1> QED
  BY <1>2, <1>3, <1>5 DEF RailInv

LEMMA MountSound ==
  ASSUME RailInv, NEW r \in Requests, Mount(r)
  PROVE  RailInv'
<1> DEFINE ask == Request(TRUE, 0)
           past(q) == [asked[q] EXCEPT !.live = FALSE]
<1>1. /\ rail' = railCache /\ cursor' = HighestId(railCache) /\ raced' = FALSE
      /\ UNCHANGED <<drawn, inserted, log, railCache, overtaken>>
  BY DEF Mount
<1>2. ask \in Asked /\ ask.first /\ ask.after = 0 /\ ask.answer = {} /\ ~ask.served
  <2>1. 0 \in 0 .. MaxEvents
    BY RailAssumption
  <2> QED
    BY <2>1 DEF Request, Asked
<1>3. ASSUME NEW q \in Requests, asked[q] # None
      PROVE  /\ asked[q] \in Asked /\ past(q) \in Asked /\ ~past(q).live
             /\ past(q).first = asked[q].first /\ past(q).after = asked[q].after
             /\ past(q).answer = asked[q].answer
  <2>1. asked[q] \in Asked
    BY <1>3 DEF RailInv, RailTypeOK
  <2> QED
    BY <2>1 DEF Asked
<1>4. /\ asked'[r] = ask
      /\ \A q \in Requests \ {r} : asked'[q] = IF asked[q] = None THEN None ELSE past(q)
  BY DEF Mount
<1>5. asked' \in [Requests -> Asked \cup {None}]
  <2>1. asked' = [q \in Requests |-> IF q = r THEN ask
                                     ELSE IF asked[q] = None THEN None ELSE past(q)]
    BY DEF Mount
  <2> HIDE DEF ask, past
  <2> QED
    BY <1>2, <1>3, <2>1
<1> HIDE DEF ask, past
<1>6. railCache \subseteq log /\ log \subseteq Events /\ EventsApart(log)
  BY DEF RailInv, RailTypeOK, StoreInv, PageInv, Newest, EventsApart
<1>7. /\ railCache = {} => HighestId(railCache) = 0
      /\ railCache # {} => \E e \in railCache : HighestId(railCache) = e.id
      /\ \A e \in railCache : e.id <= HighestId(railCache)
      /\ HighestId(railCache) \in 0 .. MaxEvents
  BY <1>6, HighestIdFacts
<1>8. RailTypeOK'
  BY <1>1, <1>5, <1>6, <1>7 DEF RailInv, RailTypeOK
<1>9. StoreInv'
  BY <1>1 DEF RailInv, StoreInv
<1>10. PageInv'
  BY <1>1, <1>6, <1>7 DEF RailInv, PageInv, Newest
<1>11. AsksInv'
  <2> SUFFICES ASSUME NEW q \in Requests, asked'[q] # None
               PROVE  /\ AnswerSound(asked'[q], log', overtaken')
                      /\ asked'[q].live /\ ~raced' => PollingSound(asked'[q], cursor')
    BY DEF AsksInv
  <2>1. CASE q = r
    <3>1. AnswerSound(ask, log, overtaken)
      BY <1>2, FS_EmptySet, RailAssumption DEF AnswerSound, Newest
    <3>2. PollingSound(ask, cursor')
      BY <1>1, <1>2, <1>7, RailAssumption DEF PollingSound
    <3> QED
      BY <1>1, <1>4, <2>1, <3>1, <3>2
  <2>2. CASE q # r
    <3>1. asked'[q] = past(q) /\ asked[q] # None
      BY <1>4, <2>2
    <3>2. AnswerSound(asked[q], log, overtaken)
      BY <3>1 DEF RailInv, AsksInv
    <3> QED
      BY <1>1, <1>3, <3>1, <3>2 DEF AnswerSound
  <2> QED
    BY <2>1, <2>2
<1>12. PassedInv'
  <2>1. LivePolls(asked') = {}
    <3>1. \A q \in Requests : asked'[q] # None => ~asked'[q].live \/ asked'[q].first
      BY <1>2, <1>3, <1>4
    <3> QED
      BY <3>1 DEF LivePolls
  <2>2. NothingMissed(log, overtaken, railCache, HighestId(railCache), {})
    BY <1>6, FreshPage DEF RailInv, PageInv
  <2> QED
    BY <1>1, <2>1, <2>2 DEF PassedInv
<1> QED
  BY <1>8, <1>9, <1>10, <1>11, <1>12 DEF RailInv

(* An answer arrives. *)
LEMMA ArriveSound ==
  ASSUME RailInv, NEW r \in Requests, Arrive(r)
  PROVE  RailInv'
<1> DEFINE ask == asked[r]
           answer == ask.answer
           highest == HighestId(answer)
           others == \E q \in Requests \ {r} : asked[q] # None /\ asked[q].live
<1>1. /\ ask \in Asked /\ ask # None /\ ask.served
      /\ asked'[r] = None /\ \A q \in Requests \ {r} : asked'[q] = asked[q]
      /\ asked' \in [Requests -> Asked \cup {None}]
      /\ UNCHANGED <<drawn, inserted, log, overtaken>>
  BY DEF Arrive, RailInv, RailTypeOK
<1>2. railCache' = IF ask.after = 0 THEN answer ELSE railCache
  BY DEF Arrive
<1>3. IF ask.live /\ (ask.first \/ answer # {})
      THEN /\ rail' = Shown(ask)
           /\ cursor' = IF answer # {} /\ (ask.first \/ highest > cursor)
                        THEN highest ELSE cursor
           /\ raced' = (raced \/ (ask.after = 0 /\ others))
      ELSE UNCHANGED <<rail, cursor, raced>>
  BY DEF Arrive
<1>4. /\ AnswerSound(ask, log, overtaken)
      /\ ask.live /\ ~raced => PollingSound(ask, cursor)
  BY <1>1 DEF RailInv, AsksInv
<1>5. /\ log \subseteq Events /\ IsFiniteSet(log) /\ EventsApart(log) /\ rail \subseteq log
      /\ Cardinality(rail) <= Limit /\ cursor \in 0 .. MaxEvents
      /\ raced \in BOOLEAN
  BY DEF RailInv, RailTypeOK, StoreInv, PageInv, EventsApart
<1>6. /\ answer \subseteq log
      /\ ask.first => ask.after = 0
      /\ ask.after = 0 => Newest(answer, log, overtaken)
      /\ ask.after # 0 => Following(answer, ask.after, log, overtaken)
  BY <1>4 DEF AnswerSound, Newest, Following
<1>7. /\ answer = {} => highest = 0
      /\ answer # {} => \E e \in answer : highest = e.id
      /\ \A e \in answer : e.id <= highest
      /\ highest \in 0 .. MaxEvents
  BY <1>5, <1>6, HighestIdFacts
<1>8. MaxEvents \in Nat /\ Limit \in Nat \ {0} /\ cursor \in Nat /\ highest \in Nat
      /\ \A e \in Events : e.id \in Nat /\ e.id # 0
  <2>1. MaxEvents \in Nat /\ Limit \in Nat \ {0}
    BY RailAssumption
  <2> QED
    BY <1>5, <1>7, <2>1 DEF Events
<1>9. ask.after \in 0 .. MaxEvents /\ ask.live \in BOOLEAN /\ ask.first \in BOOLEAN
  BY <1>1 DEF Asked
<1> DEFINE merged == FirstOf(rail \cup answer, Later)
<1>10. /\ merged \subseteq rail \cup answer /\ Cardinality(merged) <= Limit
       /\ rail \cup answer # merged => Cardinality(merged) = Limit
  <2>1. rail \cup answer \in SUBSET log
    BY <1>5, <1>6
  <2>2. IsFiniteSet(rail \cup answer) /\ EventsApart(rail \cup answer)
    BY <1>5, <2>1, FS_Subset DEF EventsApart
  <2>3. StrictTotalOrder(Later, rail \cup answer)
    BY <1>5, <2>1, <2>2, OrdersOfEvents
  <2> QED
    BY <2>2, <2>3, FirstOfFacts
<1>11. Shown(ask) = IF ask.first THEN answer ELSE merged
  BY DEF Shown
<1>12. /\ LivePolls(asked') \subseteq LivePolls(asked)
       /\ ~others => LivePolls(asked') = {}
  BY <1>1 DEF LivePolls
<1>13. ask.live /\ ~ask.first => ask.after \in LivePolls(asked)
  BY <1>1 DEF LivePolls
<1>14. \A q \in Requests \ {r} : asked[q] # None =>
         /\ AnswerSound(asked[q], log, overtaken)
         /\ asked[q].live /\ ~raced => PollingSound(asked[q], cursor)
  BY DEF RailInv, AsksInv
<1>15. /\ \A e \in rail : e.id <= cursor
       /\ cursor # 0 => \E e \in log : e.id = cursor
       /\ Newest(railCache, log, overtaken)
  BY DEF RailInv, PageInv
<1>16. ~raced => NothingMissed(log, overtaken, rail, cursor, LivePolls(asked))
  BY DEF RailInv, PassedInv
<1> HIDE DEF ask, answer, highest, others, merged
<1>17. StoreInv'
  BY <1>1 DEF RailInv, StoreInv
<1>18. railCache' \subseteq Events /\ Newest(railCache', log', overtaken')
  BY <1>1, <1>2, <1>5, <1>6, <1>15 DEF Newest
<1>19. CASE ~(ask.live /\ (ask.first \/ answer # {}))
  <2>1. UNCHANGED <<rail, cursor, raced>>
    BY <1>3, <1>19
  <2>2. RailTypeOK'
    BY <1>1, <1>18, <2>1 DEF RailInv, RailTypeOK
  <2>3. PageInv'
    BY <1>1, <1>18, <2>1 DEF RailInv, PageInv
  <2>4. AsksInv'
    BY <1>1, <1>14, <2>1 DEF AsksInv
  <2>5. PassedInv'
    BY <1>1, <1>12, <1>16, <2>1 DEF PassedInv, NothingMissed, LeftOut
  <2> QED
    BY <1>17, <2>2, <2>3, <2>4, <2>5 DEF RailInv
<1>20. CASE ask.live /\ (ask.first \/ answer # {})
  <2>1. /\ rail' = IF ask.first THEN answer ELSE merged
        /\ cursor' = IF answer # {} /\ (ask.first \/ highest > cursor)
                     THEN highest ELSE cursor
        /\ raced' = (raced \/ (ask.after = 0 /\ others))
    BY <1>3, <1>11, <1>20
  <2>2. /\ rail' \subseteq log' /\ Cardinality(rail') <= Limit
        /\ cursor' \in 0 .. MaxEvents
    BY <1>1, <1>5, <1>6, <1>7, <1>10, <2>1 DEF Newest
  <2>3. RailTypeOK'
    <3>1. rail' \subseteq Events
      BY <1>1, <1>5, <2>2
    <3>2. raced' \in BOOLEAN
      BY <2>1
    <3> QED
      BY <1>1, <1>18, <2>2, <3>1, <3>2 DEF RailInv, RailTypeOK
  <2>4. PageInv'
    <3>1. \A e \in rail' : e.id <= cursor'
      BY <1>5, <1>6, <1>7, <1>8, <1>10, <1>15, <2>1
    <3>2. cursor' # 0 => \E e \in log' : e.id = cursor'
      BY <1>1, <1>6, <1>7, <1>15, <2>1
    <3> QED
      BY <1>18, <2>2, <3>1, <3>2 DEF PageInv
  <2>5. CASE ask.after = 0
    <3>1. AsksInv'
      <4>1. ASSUME NEW q \in Requests, asked'[q] # None, asked'[q].live, ~raced'
            PROVE  FALSE
        <5>1. q # r /\ asked[q] # None /\ asked[q].live
          BY <1>1, <4>1
        <5> QED
          BY <2>1, <2>5, <4>1, <5>1 DEF others
      <4> QED
        BY <1>1, <1>14, <4>1 DEF AsksInv
    <3>2. PassedInv'
      <4> SUFFICES ASSUME ~raced' PROVE NothingMissed(log, overtaken, rail', cursor', {})
        BY <1>1, <1>12, <2>1, <2>5 DEF PassedInv
      <4>1. ~raced /\ PollingSound(ask, cursor)
        BY <1>4, <1>20, <2>1
      <4>2. rail' = answer /\ cursor' = highest
        <5>1. CASE ask.first
          <6>1. answer = {} => cursor = 0
            BY <1>1, <4>1, <5>1 DEF PollingSound, answer
          <6> QED
            BY <1>7, <2>1, <5>1, <6>1
        <5>2. CASE ~ask.first
          <6>1. cursor = 0 /\ answer # {}
            BY <1>20, <2>5, <4>1, <5>2 DEF PollingSound
          <6>2. rail = {}
            BY <1>5, <1>8, <1>15, <6>1
          <6>3. merged = answer
            <7>1. CASE merged = rail \cup answer
              BY <6>2, <7>1
            <7>2. CASE merged # rail \cup answer
              <8>1. Cardinality(merged) = Limit /\ Cardinality(answer) <= Limit
                BY <1>6, <1>10, <2>5, <7>2 DEF Newest
              <8>2. IsFiniteSet(answer) /\ merged \in SUBSET answer
                BY <1>5, <1>6, <1>10, <6>2, FS_Subset
              <8>3. Cardinality(merged) <= Cardinality(answer) /\ Cardinality(answer) \in Nat
                BY <8>2, FS_Subset, FS_CardinalityType
              <8> QED
                BY <1>8, <8>1, <8>2, <8>3, FS_Subset
            <7> QED
              BY <7>1, <7>2
          <6>4. highest > cursor
            BY <1>5, <1>6, <1>7, <1>8, <6>1
          <6> QED
            BY <2>1, <5>2, <6>1, <6>3, <6>4
        <5> QED
          BY <5>1, <5>2
      <4> QED
        BY <1>5, <1>6, <2>5, <4>2, FreshPage DEF highest
    <3> QED
      BY <1>17, <2>3, <2>4, <3>1, <3>2 DEF RailInv
  <2>6. CASE ask.after # 0
    <3>1. ~ask.first /\ raced' = raced /\ rail' = merged
      BY <1>5, <1>6, <2>1, <2>6
    <3>2. /\ cursor' = IF highest > cursor THEN highest ELSE cursor
          /\ cursor <= cursor'
      BY <1>8, <1>20, <2>1, <3>1
    <3>3. AsksInv'
      <4>1. ASSUME NEW q \in Requests, asked'[q] # None, asked'[q].live, ~raced'
            PROVE  PollingSound(asked'[q], cursor')
        <5>1. q # r /\ asked'[q] = asked[q] /\ asked[q] \in Asked
          BY <1>1, <4>1
        <5>2. PollingSound(asked[q], cursor)
          BY <1>14, <3>1, <4>1, <5>1
        <5>3. cursor # 0
          BY <1>4, <1>8, <1>9, <1>20, <2>6, <3>1, <4>1 DEF PollingSound
        <5>4. asked[q].after \in Nat /\ cursor' \in Nat
          BY <1>8, <3>2, <5>1 DEF Asked
        <5> QED
          BY <1>8, <3>2, <5>1, <5>2, <5>3, <5>4 DEF PollingSound
      <4> QED
        BY <1>1, <1>14, <4>1 DEF AsksInv
    <3>4. PassedInv'
      <4> SUFFICES ASSUME ~raced
                   PROVE  NothingMissed(log, overtaken, merged, cursor', LivePolls(asked'))
        BY <1>1, <3>1 DEF PassedInv
      <4>1. ask.after \in LivePolls(asked) /\ ask.after \in Nat /\ ask.after <= cursor
        BY <1>4, <1>8, <1>9, <1>13, <1>20, <3>1 DEF PollingSound
      <4> DEFINE polls == LivePolls(asked)
                 left == LivePolls(asked')
                 after == ask.after
      <4>2. /\ left \subseteq polls /\ after \in polls /\ after \in Nat /\ after <= cursor
            /\ NothingMissed(log, overtaken, rail, cursor, polls)
            /\ Following(answer, after, log, overtaken)
        BY <1>6, <1>12, <1>16, <2>6, <4>1
      <4> HIDE DEF polls, left, after
      <4>3. NothingMissed(log, overtaken, FirstOf(rail \cup answer, Later),
              IF HighestId(answer) > cursor THEN HighestId(answer) ELSE cursor, left)
        BY <1>5, <1>8, <4>2, MergedPage
      <4> QED
        BY <3>2, <4>3 DEF merged, highest, left
    <3> QED
      BY <1>17, <2>3, <2>4, <3>3, <3>4 DEF RailInv
  <2> QED
    BY <2>5, <2>6
<1> QED
  BY <1>19, <1>20

(* The rail leaves out no event its cursor has passed unless it is full of   *)
(* later or higher ones, for any number of requests under way.               *)
THEOREM RailCorrect == RailSpec => []RailShowsNewest
<1>1. NoRail => RailInv
  BY RailStart
<1>2. RailInv /\ [RailNext]_railVars => RailInv'
  <2> SUFFICES ASSUME RailInv, [RailNext]_railVars PROVE RailInv'
    OBVIOUS
  <2>1. ASSUME UNCHANGED railVars PROVE RailInv'
    BY <2>1 DEF railVars, RailInv, RailTypeOK, StoreInv, PageInv, AsksInv, PassedInv
  <2>2. CASE \E e \in Events : CommitEvent(e)
    BY <2>2, CommitSound
  <2>3. CASE (\E at \in Times : InsertEvent(at)) \/ \E e \in Events : RollBack(e)
    BY <2>3, InsertSound
  <2>4. ASSUME NEW r \in Requests,
               Mount(r) \/ Poll(r) \/ ServeEvents(r) \/ Arrive(r) \/ FailToArrive(r)
        PROVE  RailInv'
    BY <2>4, MountSound, PollSound, ServeEventsSound, ArriveSound, FailSound
  <2> QED
    BY <2>1, <2>2, <2>3, <2>4 DEF RailNext
<1>3. RailInv => RailShowsNewest
  BY DEF RailInv, PassedInv, NothingMissed, LeftOut, RailShowsNewest
<1> QED
  BY <1>1, <1>2, <1>3, PTL DEF RailSpec
=============================================================================
