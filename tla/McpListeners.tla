---------------------------- MODULE McpListeners ----------------------------
(***************************************************************************)
(* The listeners of the MCP server.                                        *)
(*                                                                         *)
(*   mcp-server/src/server.ts   sigints.signals.listen, stop_listener, and *)
(*                              the table activeStreams                    *)
(*   sdk/src/index.ts           listenForSignals and its two transports    *)
(*   sdk/src/jetstream.ts       startJetstreamAccountListener              *)
(*                                                                         *)
(* A call looks in the table, starts a listener, which awaits, and writes  *)
(* the table; other calls are served in between.  What a listener does     *)
(* with a signal is in SignalDelivery; here it is that its handler awaits, *)
(* and reports to the client whatever has become of the listener meanwhile. *)
(***************************************************************************)
EXTENDS Naturals, Absence

CONSTANTS
  ListenIds, \* given by the caller, or a fresh one for every call
  ListenCalls, \* calls of the tool; a call's listener goes by its name
  MaxHandlers  \* bound on the handlers of a listener that run at once

(* ending: the client's half is closed, the server's not yet.               *)
Sockets == {"none", "jetstream", "websocket", "ending"}

Transports == {"auto", "jetstream", "websocket"}

VARIABLES
  tool,      \* a call under way
  called,    \* the calls ever made, with the id they gave
  active,    \* activeStreams
  socket,    \* each listener's subscription to the account; one whose
             \* stream has failed reports it, pings on and stays active
  running,   \* each listener's handlers between a notice and their report
  collided,  \* auxiliary: ids that two calls were using at once
  stopped    \* auxiliary: listeners that stop_listener has closed

listenVars == <<tool, called, active, socket, running, collided, stopped>>

ToolCalls == [at : {"import", "websocket", "opened"}, transport : Transports]

(* What stands for nothing is neither an id nor a call. *)
ASSUME ListenAssumption ==
  /\ None \notin ListenIds \cup ListenCalls \cup ToolCalls
  /\ MaxHandlers \in Nat

ListenTypeOK ==
  /\ tool \in [ListenCalls -> ToolCalls \cup {None}]
  /\ called \in [ListenCalls -> ListenIds \cup {None}]
  /\ active \in [ListenIds -> ListenCalls \cup {None}]
  /\ socket \in [ListenCalls -> Sockets]
  /\ running \in [ListenCalls -> 0 .. MaxHandlers]
  /\ collided \subseteq ListenIds
  /\ stopped \subseteq ListenCalls

NoListener ==
  /\ tool = [c \in ListenCalls |-> None] /\ called = [c \in ListenCalls |-> None]
  /\ active = [i \in ListenIds |-> None]
  /\ socket = [c \in ListenCalls |-> "none"] /\ running = [c \in ListenCalls |-> 0]
  /\ collided = {} /\ stopped = {}

Uses(i) == {c \in ListenCalls : tool[c] # None /\ called[c] = i}
ToolIs(c, step) == tool[c] # None /\ tool[c].at = step
ToolGoes(c, next) == tool' = [tool EXCEPT ![c] = next]

IsActive_Slip(i) == FALSE
IsActive(i) == active[i] # None

(* A stream that is active is left alone.  Orbitflare's endpoint may not be *)
(* configured: then auto takes the websocket at once.                       *)
Listen(c, i, transport) ==
  /\ called[c] = None /\ called' = [called EXCEPT ![c] = i]
  /\ IF IsActive(i) THEN UNCHANGED <<tool, collided>>
     ELSE /\ \E at \in CASE transport = "auto" -> {"import", "websocket"}
                         [] transport = "jetstream" -> {"import"}
                         [] OTHER -> {"websocket"} :
               ToolGoes(c, [at |-> at, transport |-> transport])
          /\ collided' = IF Uses(i) = {} THEN collided ELSE collided \cup {i}
  /\ UNCHANGED <<active, socket, running, stopped>>

(* The modules of gRPC are imported before the stream is opened.  When that *)
(* fails auto turns to the websocket, and jetstream alone is an error.      *)
OpenJetstream(c) ==
  /\ ToolIs(c, "import")
  /\ \/ /\ socket' = [socket EXCEPT ![c] = "jetstream"]
        /\ ToolGoes(c, [tool[c] EXCEPT !.at = "opened"])
     \/ /\ UNCHANGED socket
        /\ ToolGoes(c, IF tool[c].transport = "auto" THEN [tool[c] EXCEPT !.at = "websocket"] ELSE None)
  /\ UNCHANGED <<called, active, running, collided, stopped>>

OpenWebsocket(c) ==
  /\ ToolIs(c, "websocket")
  /\ socket' = [socket EXCEPT ![c] = "websocket"]
  /\ ToolGoes(c, [tool[c] EXCEPT !.at = "opened"])
  /\ UNCHANGED <<called, active, running, collided, stopped>>

Activate(c) ==
  /\ ToolIs(c, "opened")
  /\ active' = [active EXCEPT ![called[c]] = c]
  /\ ToolGoes(c, None)
  /\ UNCHANGED <<called, socket, running, collided, stopped>>

(* A notice starts a handler, which waits for the metadata, decrypts, and   *)
(* ends with or without a message to the client.  Nothing tells it that its *)
(* listener was stopped.                                                    *)
Hear(c) ==
  /\ socket[c] # "none"
  /\ running[c] < MaxHandlers
  /\ running' = [running EXCEPT ![c] = @ + 1]
  /\ UNCHANGED <<tool, called, active, socket, collided, stopped>>

Report(c) ==
  /\ running[c] > 0
  /\ running' = [running EXCEPT ![c] = @ - 1]
  /\ UNCHANGED <<tool, called, active, socket, collided, stopped>>

(* stop_listener; of an id that is not active it only says so.  The close   *)
(* of a websocket is for good, that of a jetstream is stream.end(): what    *)
(* the server sends until it ends its half is heard.                        *)
AfterStop(s) == IF s = "jetstream" THEN "ending" ELSE "none"

StopListener(i) ==
  /\ IsActive(i)
  /\ socket' = [socket EXCEPT ![active[i]] = AfterStop(@)]
  /\ stopped' = stopped \cup {active[i]}
  /\ active' = [active EXCEPT ![i] = None]
  /\ UNCHANGED <<tool, called, running, collided>>

EndStream(c) ==
  /\ socket[c] = "ending"
  /\ socket' = [socket EXCEPT ![c] = "none"]
  /\ UNCHANGED <<tool, called, active, running, collided, stopped>>

ListenNext ==
  \/ \E c \in ListenCalls :
       \/ \E i \in ListenIds, t \in Transports : Listen(c, i, t)
       \/ OpenJetstream(c) \/ OpenWebsocket(c) \/ Activate(c)
       \/ Hear(c) \/ Report(c) \/ EndStream(c)
  \/ \E i \in ListenIds : StopListener(i)

ListenSpec == NoListener /\ [][ListenNext]_listenVars

(* No listener runs that nobody can stop or has stopped: one with a         *)
(* subscription or a handler under way is in the table under its id, or the *)
(* call that started it is about to put it there, or stop_listener has had  *)
(* it; unless two calls used the id at once.  One that was stopped is out   *)
(* of the table and its subscription closed or closing for good; it is not  *)
(* silent yet: its handlers still report, and a jetstream that is ending    *)
(* may start more.                                                          *)
Lives(c) == socket[c] # "none" \/ running[c] > 0

EveryListenerIsKnown ==
  \A c \in ListenCalls :
    /\ Lives(c) =>
         \/ called[c] \in collided \/ active[called[c]] = c
         \/ ToolIs(c, "opened") \/ c \in stopped
    /\ c \in stopped =>
         socket[c] \in {"ending", "none"} /\ active[called[c]] # c
=============================================================================
