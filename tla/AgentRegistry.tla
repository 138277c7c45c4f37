--------------------------- MODULE AgentRegistry ---------------------------
(***************************************************************************)
(* Agents of a wallet: registered as senders of a stream or as listeners,  *)
(* and linked to the subscriptions they listen with.                       *)
(*                                                                         *)
(*   backend/src/routes.ts                POST /agents, and POST and       *)
(*                                        DELETE /agent-subscriptions      *)
(*   backend/src/social/SqlAgentStore.ts, SqlAgentSubscriptionStore.ts     *)
(*   frontend/.../RegisterAgentWizard.tsx three deploy buttons, each to be *)
(*                                        pressed until it succeeds        *)
(*   frontend/.../AgentPageClient.tsx     link and unlink                  *)
(*   mcp-server/src/server.ts             sigints.agents: create, link,    *)
(*                                        unlink                           *)
(*                                                                         *)
(* A request runs one await at a time beside the others; its answer may be *)
(* lost.  Subscriptions and keys come and go on chain at any moment: what a *)
(* request or a page reads of them may be anything.                         *)
(***************************************************************************)
EXTENDS Naturals, FiniteSets

CONSTANTS
  Wallets, Streams,
  Wizards, Pages, Tools, \* registration wizards, agent pages, MCP sessions
  WalletOf,        \* the wallet they are connected to
  MaxAgents, MaxLinks, \* bounds on the rows ever inserted
  NoStream, NoCall, Closed

Clients == Wizards \cup Pages \cup Tools

ASSUME AgentAssumption ==
  /\ WalletOf \in [Clients -> Wallets]
  /\ Wizards \cap (Pages \cup Tools) = {}
  /\ MaxAgents \in Nat /\ MaxLinks \in Nat

AgentIds == 1 .. MaxAgents
LinkIds == 1 .. MaxLinks

(* before, in a row or a request, is auxiliary: the ids of the rows there  *)
(* were when the request began.  The column role has CHECK (role IN         *)
(* ('maker','listener')).                                                   *)
AgentRows ==
  [id : AgentIds, ownerWallet : Wallets, role : {"maker", "listener"},
   streamId : Streams \cup {NoStream},
   before : SUBSET AgentIds]
LinkRows ==
  [id : LinkIds, agentId : AgentIds, streamId : Streams,
   before : SUBSET LinkIds]

(* A request, at its next await.  found: an agent of role maker was found. *)
CreateCalls ==
  [at : {"makers", "both", "insert"}, role : {"maker", "listener", "both"},
   streamId : Streams \cup {NoStream},
   found : BOOLEAN, before : SUBSET AgentIds]
LinkSteps == {"subscription", "existing", "link"}
LinkCalls ==
  [at : LinkSteps, agentId : AgentIds,
   streamId : Streams, before : SUBSET LinkIds]

(* busy: the button that was pressed and is not done, agentDone is          *)
(* agentId # 0.  pass, todo: the streams of the last run of deployLink, and *)
(* those it has still to post.  errors: a post of this run failed.          *)
WizardStates ==
  [busy : {"no", "agent", "link"},
   streamId : Streams \cup {NoStream},
   offered : SUBSET Streams, selected : SUBSET Streams,
   agentId : AgentIds \cup {0}, grantDone : BOOLEAN, linkDone : BOOLEAN,
   pass : SUBSET Streams, todo : SUBSET Streams, errors : BOOLEAN]

ASSUME NothingAssumption ==
  /\ NoCall \notin CreateCalls \cup LinkCalls
  /\ Closed \notin WizardStates

VARIABLES
  agents, nextAgent,  \* table agents
  links, nextLink,    \* table agent_subscriptions
  call,               \* the request of a client
  wizard,
  everLinked          \* auxiliary: every link ever inserted

tables == <<agents, nextAgent, links, nextLink, everLinked>>
vars == <<tables, call, wizard>>

TypeOK ==
  /\ agents \subseteq AgentRows
  /\ nextAgent \in 1 .. MaxAgents + 1
  /\ links \subseteq LinkRows
  /\ nextLink \in 1 .. MaxLinks + 1
  /\ everLinked \subseteq AgentIds \X Streams
  /\ call \in [Clients -> CreateCalls \cup LinkCalls \cup {NoCall}]
  /\ wizard \in [Wizards -> WizardStates \cup {Closed}]

Init ==
  /\ agents = {} /\ nextAgent = 1
  /\ links = {} /\ nextLink = 1
  /\ everLinked = {}
  /\ call = [c \in Clients |-> NoCall]
  /\ wizard = [w \in Wizards |-> Closed]

IdsOf(rows) == {row.id : row \in rows}

(***************************************************************************)
(* What a client makes of an answer: a page shows it, a wizard goes on or  *)
(* stays where it is.  ok is FALSE when the request was refused, failed, or *)
(* its answer was lost.                                                    *)
(***************************************************************************)
(* As elsewhere, _Slip names the mistake the next definition must not make: *)
(* the errors are reported, and the run counts as done all the same.        *)
AfterLinking_Slip(state, s, ok) ==
  LET rest == state.todo \ {s}
  IN  IF rest # {} THEN [state EXCEPT !.todo = rest]
      ELSE [state EXCEPT !.todo = rest, !.busy = "no", !.linkDone = TRUE]

(* deployLink goes on after an error and reports it at the end. *)
AfterLinking(state, s, ok) ==
  LET rest == state.todo \ {s}
      failed == state.errors \/ ~ok
  IN  IF rest # {} THEN [state EXCEPT !.todo = rest, !.errors = failed]
      ELSE [state EXCEPT !.todo = rest, !.errors = failed, !.busy = "no",
              !.linkDone = ~failed]

AfterCreating(state, id, ok) ==
  [state EXCEPT !.agentId = IF ok THEN id ELSE state.agentId, !.busy = "no"]

CreateAnswered(c, id, ok) ==
  /\ call' = [call EXCEPT ![c] = NoCall]
  /\ IF c \in Wizards /\ wizard[c] # Closed
     THEN wizard' = [wizard EXCEPT ![c] = AfterCreating(wizard[c], id, ok)]
     ELSE UNCHANGED wizard

LinkAnswered(c, ok) ==
  /\ call' = [call EXCEPT ![c] = NoCall]
  /\ IF c \in Wizards /\ wizard[c] # Closed
     THEN wizard' = [wizard EXCEPT ![c] =
            AfterLinking(wizard[c], call[c].streamId, ok)]
     ELSE UNCHANGED wizard

(***************************************************************************)
(* POST /agents.                                                           *)
(***************************************************************************)
CallAt(c, at) == call[c] # NoCall /\ call[c].at = at

IsSender(role) == role \in {"maker", "both"}

(* The query forgets the role it was given for another. *)
SendersOf_Slip(s, role) == {a \in agents : a.role = "both" /\ a.streamId = s}

SendersOf(s, role) == {a \in agents : a.role = role /\ a.streamId = s}

NewCreate(role, s) ==
  [at |-> IF IsSender(role) THEN "makers" ELSE "insert", role |-> role,
   streamId |-> s, found |-> FALSE, before |-> IdsOf(agents)]

ListMakers(c) ==
  /\ CallAt(c, "makers")
  /\ call' = [call EXCEPT ![c] =
       [call[c] EXCEPT !.at = "both",
          !.found = SendersOf(call[c].streamId, "maker") # {}]]
  /\ UNCHANGED <<tables, wizard>>

ListBoth(c) ==
  /\ CallAt(c, "both")
  /\ IF call[c].found \/ SendersOf(call[c].streamId, "both") # {}
     THEN CreateAnswered(c, 0, FALSE)
     ELSE /\ call' = [call EXCEPT ![c] = [call[c] EXCEPT !.at = "insert"]]
          /\ UNCHANGED wizard
  /\ UNCHANGED tables

(* The column takes every role the route takes. *)
RoleAllowed_Slip(role) == TRUE

RoleAllowed(role) == role \in {"maker", "listener"}

(* The answer may be lost. *)
CreateAgent(c) ==
  /\ CallAt(c, "insert")
  /\ IF ~RoleAllowed(call[c].role)
     THEN CreateAnswered(c, 0, FALSE) /\ UNCHANGED tables
     ELSE /\ nextAgent <= MaxAgents
          /\ agents' = agents \cup
               {[id |-> nextAgent, ownerWallet |-> WalletOf[c],
                 role |-> call[c].role, streamId |-> call[c].streamId,
                 before |-> call[c].before]}
          /\ nextAgent' = nextAgent + 1
          /\ \E ok \in BOOLEAN : CreateAnswered(c, nextAgent, ok)
          /\ UNCHANGED <<links, nextLink, everLinked>>

(***************************************************************************)
(* POST and DELETE /agent-subscriptions.                                   *)
(***************************************************************************)
(* getAgent and the owner: an agent's row never changes. *)
MayLink(c, id) ==
  \E a \in agents : a.id = id /\ a.ownerWallet = WalletOf[c]

NewLink(id, s) ==
  [at |-> "subscription", agentId |-> id, streamId |-> s,
   before |-> IdsOf(links)]

(* call[c] goes on to its next await, or is refused. *)
GoOn(c, at) ==
  /\ call' = [call EXCEPT ![c] = [call[c] EXCEPT !.at = at]]
  /\ UNCHANGED wizard

Refused(c) == LinkAnswered(c, FALSE)

(* The subscription, the stream's visibility and, for a private stream, the *)
(* key are read from the chain, where each may be as required or not.       *)
EnsureActiveSubscription(c) ==
  /\ CallAt(c, "subscription")
  /\ GoOn(c, "existing") \/ Refused(c)
  /\ UNCHANGED tables

(* Only the links of other agents are looked for. *)
LinksOf_Slip(id, s) == {l \in links : l.agentId # id /\ l.streamId = s}

LinksOf(id, s) == {l \in links : l.agentId = id /\ l.streamId = s}

ListAgentSubscriptions(c) ==
  /\ CallAt(c, "existing")
  /\ IF LinksOf(call[c].agentId, call[c].streamId) = {} THEN GoOn(c, "link")
     ELSE Refused(c)
  /\ UNCHANGED tables

CreateAgentSubscription(c) ==
  /\ CallAt(c, "link")
  /\ nextLink <= MaxLinks
  /\ links' = links \cup
       {[id |-> nextLink, agentId |-> call[c].agentId,
         streamId |-> call[c].streamId, before |-> call[c].before]}
  /\ nextLink' = nextLink + 1
  /\ everLinked' = everLinked \cup {<<call[c].agentId, call[c].streamId>>}
  /\ \E ok \in BOOLEAN : LinkAnswered(c, ok)
  /\ UNCHANGED <<agents, nextAgent>>

(* Nobody asks whose link it is. *)
DeleteAgentSubscription(p) ==
  /\ call[p] = NoCall
  /\ \E l \in links : links' = links \ {l}
  /\ UNCHANGED <<agents, nextAgent, nextLink, everLinked, call, wizard>>

(* Any await may throw; the request then answers with an error. *)
FailCall(c) ==
  /\ call[c] # NoCall
  /\ IF call[c].at \in LinkSteps THEN LinkAnswered(c, FALSE)
     ELSE CreateAnswered(c, 0, FALSE)
  /\ UNCHANGED tables

(***************************************************************************)
(* The wizard.                                                             *)
(***************************************************************************)
(* A preset may select streams before the owner's subscriptions are known; *)
(* what is offered at first comes from a cache.                            *)
OpenWizard(w) ==
  /\ wizard[w] = Closed
  /\ call[w] = NoCall
  /\ \E selected \in SUBSET Streams : \E offered \in SUBSET selected :
       wizard' = [wizard EXCEPT ![w] =
         [busy |-> "no", streamId |-> NoStream,
          offered |-> offered, selected |-> selected, agentId |-> 0,
          grantDone |-> FALSE, linkDone |-> FALSE,
          pass |-> {}, todo |-> {}, errors |-> FALSE]]
  /\ UNCHANGED <<tables, call>>

CloseWizard(w) ==
  /\ wizard[w] # Closed
  /\ wizard' = [wizard EXCEPT ![w] = Closed]
  /\ UNCHANGED <<tables, call>>

(* The owner's subscriptions arrive, or none when the request failed. *)
LoadSubscriptions(w) ==
  /\ wizard[w] # Closed
  /\ \E offered \in SUBSET Streams :
       wizard' = [wizard EXCEPT ![w] = [wizard[w] EXCEPT !.offered = offered]]
  /\ UNCHANGED <<tables, call>>

(* Every step may be gone back to at any time.  Only what is offered can be *)
(* added to the selection.                                                 *)
EditWizard(w) ==
  /\ wizard[w] # Closed
  /\ \E s \in Streams \cup {NoStream},
        selected \in SUBSET (wizard[w].selected \cup wizard[w].offered) :
       wizard' = [wizard EXCEPT ![w] =
         [wizard[w] EXCEPT !.streamId = s, !.selected = selected]]
  /\ UNCHANGED <<tables, call>>

Publishes(state) == state.streamId # NoStream
Listens(state) == state.selected # {}

Role(state) ==
  CASE Publishes(state) /\ Listens(state) -> "both"
    [] Publishes(state) /\ ~Listens(state) -> "maker"
    [] OTHER -> "listener"

(* A button of the deploy step. *)
Ready(w) == wizard[w] # Closed /\ wizard[w].busy = "no"

DeployAgent(w) ==
  /\ Ready(w)
  /\ wizard[w].agentId = 0
  /\ call[w] = NoCall
  /\ Publishes(wizard[w]) \/ Listens(wizard[w])
  /\ wizard' = [wizard EXCEPT ![w] = [wizard[w] EXCEPT !.busy = "agent"]]
  /\ call' = [call EXCEPT ![w] =
       NewCreate(Role(wizard[w]), wizard[w].streamId)]
  /\ UNCHANGED tables

(* grant_publisher is StreamRegistry's.  The wizard does not wait for the   *)
(* confirmation of the transaction it sends, and it may be dropped.         *)
DeployGrant(w) ==
  /\ Ready(w)
  /\ Publishes(wizard[w])
  /\ wizard[w].agentId # 0 /\ ~wizard[w].grantDone
  /\ wizard' = [wizard EXCEPT ![w] = [wizard[w] EXCEPT !.grantDone = TRUE]]
  /\ UNCHANGED <<tables, call>>

(* A selected stream that is not offered any more is passed over. *)
DeployLink(w) ==
  /\ Ready(w)
  /\ Listens(wizard[w])
  /\ wizard[w].agentId # 0 /\ ~wizard[w].linkDone
  /\ Publishes(wizard[w]) => wizard[w].grantDone
  /\ LET pass == wizard[w].selected \cap wizard[w].offered
     IN  wizard' = [wizard EXCEPT ![w] =
           [wizard[w] EXCEPT !.pass = pass, !.todo = pass, !.errors = FALSE,
              !.busy = IF pass = {} THEN "no" ELSE "link",
              !.linkDone = pass = {}]]
  /\ UNCHANGED <<tables, call>>

PostNextLink(w) ==
  /\ wizard[w] # Closed
  /\ wizard[w].busy = "link"
  /\ call[w] = NoCall
  /\ MayLink(w, wizard[w].agentId)
  /\ \E s \in wizard[w].todo :
       call' = [call EXCEPT ![w] = NewLink(wizard[w].agentId, s)]
  /\ UNCHANGED <<tables, wizard>>

(***************************************************************************)
(* The agent page and the MCP tools.                                       *)
(***************************************************************************)
LinkSubscription(p) ==
  /\ call[p] = NoCall
  /\ \E id \in AgentIds, s \in Streams :
       /\ MayLink(p, id)
       /\ call' = [call EXCEPT ![p] = NewLink(id, s)]
  /\ UNCHANGED <<tables, wizard>>

(* sigints.agents.create: the route asks a sender for its stream. *)
CreateByTool(t) ==
  /\ call[t] = NoCall
  /\ \E role \in {"maker", "listener", "both"}, s \in Streams \cup {NoStream} :
       /\ IsSender(role) => s # NoStream
       /\ call' = [call EXCEPT ![t] = NewCreate(role, s)]
  /\ UNCHANGED <<tables, wizard>>

BackendStep(c) ==
  \/ ListMakers(c) \/ ListBoth(c) \/ CreateAgent(c)
  \/ EnsureActiveSubscription(c) \/ ListAgentSubscriptions(c)
  \/ CreateAgentSubscription(c)
  \/ FailCall(c)

WizardStep(w) ==
  \/ OpenWizard(w) \/ CloseWizard(w) \/ LoadSubscriptions(w) \/ EditWizard(w)
  \/ DeployAgent(w) \/ DeployGrant(w) \/ DeployLink(w) \/ PostNextLink(w)

PageStep(p) == LinkSubscription(p) \/ DeleteAgentSubscription(p)

ToolStep(t) == CreateByTool(t) \/ PageStep(t)

Next ==
  \/ \E c \in Clients : BackendStep(c)
  \/ \E w \in Wizards : WizardStep(w)
  \/ \E p \in Pages : PageStep(p)
  \/ \E t \in Tools : ToolStep(t)

Spec == Init /\ [][Next]_vars

(***************************************************************************)
(* Properties.                                                             *)
(***************************************************************************)
(* POST /agents answers 409 "sender agent already exists for stream": a     *)
(* stream gets a second sender agent only from requests that overlapped,    *)
(* neither of which could have seen the other's row.                        *)
OneSenderUnlessOverlapping ==
  \A a, b \in agents :
    a # b /\ IsSender(a.role) /\ IsSender(b.role) /\ a.streamId = b.streamId
      => a.id \notin b.before

(* POST /agent-subscriptions answers 409 "subscription already linked to    *)
(* agent": the same for links, with links removed in between.               *)
LinkedOnceUnlessOverlapping ==
  \A l, m \in links :
    l # m /\ l.agentId = m.agentId /\ l.streamId = m.streamId
      => l.id \notin m.before

(* When the wizard shows the links as done, every stream of the last run of *)
(* deployLink was linked to its agent, whatever earlier runs did, whichever *)
(* of its requests failed and whatever was edited meanwhile.                *)
DoneIsLinked ==
  \A w \in Wizards :
    wizard[w] # Closed /\ wizard[w].linkDone =>
      \A s \in wizard[w].pass : <<wizard[w].agentId, s>> \in everLinked

(* documents/Plan_Agent_Publish_Delegation.md:35: "we should allow agents   *)
(* to both listen + publish".  A request that nothing failed and nobody     *)
(* forestalled registers its agent, whatever its role.                      *)
EveryRoleRegisters ==
  [][\A c \in Clients : CreateAgent(c) => agents' # agents]_vars
=============================================================================
