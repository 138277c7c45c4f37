------------------------ MODULE AgentRegistry_proofs ------------------------
(* Theorems about AgentRegistry, for every value of its constants. *)
EXTENDS AgentRegistry, TLAPS

AllCalls == CreateCalls \cup LinkCalls \cup {NoCall}

(* What holds of an open wizard and its request.  The request it waits for *)
(* is the one its button sent, on behalf of its own agent; what a run of    *)
(* deployLink has behind it is linked as long as it noted no error; and     *)
(* there is no run before there is an agent, which is there for good.       *)
WizardOK(w) ==
  wizard[w] # Closed =>
    /\ wizard[w].agentId = 0 => wizard[w].pass = {}
    /\ wizard[w].busy = "link" /\ ~wizard[w].errors =>
         \A s \in wizard[w].pass \ wizard[w].todo :
           <<wizard[w].agentId, s>> \in everLinked
    /\ wizard[w].linkDone =>
         \A s \in wizard[w].pass : <<wizard[w].agentId, s>> \in everLinked
    /\ call[w] # NoCall /\ call[w].at \in LinkSteps =>
         wizard[w].busy = "link" /\ call[w].agentId = wizard[w].agentId
    /\ call[w] # NoCall /\ call[w].at \notin LinkSteps =>
         wizard[w].busy = "agent" /\ wizard[w].agentId = 0

WizardInv == \A w \in Wizards : WizardOK(w)

(* Ids are handed out in order: a row knows of older rows only. *)
RowsInOrder ==
  /\ \A a \in agents : a.id < nextAgent /\ \A i \in a.before : i < nextAgent
  /\ \A l \in links : l.id < nextLink /\ \A i \in l.before : i < nextLink

LooksForSender(request) ==
  \/ request.at = "insert" /\ IsSender(request.role)
  \/ request.at = "both" /\ ~request.found

(* A request knows of older rows only; when it has found no sender of its   *)
(* stream it knows of none, and when it has found no link neither.          *)
RequestOK(request) ==
  /\ request.at \in LinkSteps => \A i \in request.before : i < nextLink
  /\ request.at \notin LinkSteps => \A i \in request.before : i < nextAgent
  /\ LooksForSender(request) =>
       \A a \in SendersOf(request.streamId, "maker") : a.id \notin request.before
  /\ request.at = "link" =>
       \A l \in LinksOf(request.agentId, request.streamId) :
         l.id \notin request.before

CallOK(c) == call[c] # NoCall => RequestOK(call[c])

TablesInv ==
  /\ RowsInOrder
  /\ \A c \in Clients : CallOK(c)
  /\ OneSenderUnlessOverlapping
  /\ LinkedOnceUnlessOverlapping

AgentInv == TypeOK /\ WizardInv /\ TablesInv

-----------------------------------------------------------------------------
(* What an answer does to the calls and the wizards. *)

LEMMA AfterLinkingType ==
  ASSUME NEW state \in WizardStates, NEW s, NEW ok \in BOOLEAN
  PROVE  AfterLinking(state, s, ok) \in WizardStates
<1> DEFINE rest == state.todo \ {s}
           failed == state.errors \/ ~ok
           done == ~failed
<1>1. failed \in BOOLEAN /\ done \in BOOLEAN /\ rest \in SUBSET Streams
  BY DEF WizardStates
<1>2. AfterLinking(state, s, ok) =
        IF rest # {} THEN [state EXCEPT !.todo = rest, !.errors = failed]
        ELSE [state EXCEPT !.todo = rest, !.errors = failed, !.busy = "no",
                !.linkDone = done]
  BY DEF AfterLinking
<1> HIDE DEF rest, failed, done
<1>3. CASE rest # {}
  <2>1. AfterLinking(state, s, ok) =
          [state EXCEPT !.todo = rest, !.errors = failed]
    BY <1>2, <1>3
  <2> QED
    BY <1>1, <2>1 DEF WizardStates
<1>4. CASE rest = {}
  <2>1. AfterLinking(state, s, ok) =
          [state EXCEPT !.todo = rest, !.errors = failed, !.busy = "no",
             !.linkDone = done]
    BY <1>2, <1>4
  <2> QED
    BY <1>1, <2>1 DEF WizardStates
<1> QED
  BY <1>3, <1>4

LEMMA AfterCreatingType ==
  ASSUME NEW state \in WizardStates, NEW id \in AgentIds \cup {0},
         NEW ok \in BOOLEAN
  PROVE  AfterCreating(state, id, ok) \in WizardStates
BY DEF AfterCreating, WizardStates

LEMMA CreateAnsweredType ==
  ASSUME TypeOK, NEW c \in Clients, NEW id \in AgentIds \cup {0},
         NEW ok \in BOOLEAN, CreateAnswered(c, id, ok)
  PROVE  /\ call' \in [Clients -> AllCalls]
         /\ wizard' \in [Wizards -> WizardStates \cup {Closed}]
<1>1. call' \in [Clients -> AllCalls]
  BY DEF CreateAnswered, TypeOK, AllCalls
<1>2. CASE c \in Wizards /\ wizard[c] # Closed
  <2>1. AfterCreating(wizard[c], id, ok) \in WizardStates
    BY <1>2, AfterCreatingType DEF TypeOK
  <2> QED
    BY <1>1, <1>2, <2>1 DEF CreateAnswered, TypeOK
<1>3. CASE ~(c \in Wizards /\ wizard[c] # Closed)
  BY <1>1, <1>3 DEF CreateAnswered, TypeOK
<1> QED
  BY <1>2, <1>3

LEMMA LinkAnsweredType ==
  ASSUME TypeOK, NEW c \in Clients, NEW ok \in BOOLEAN, LinkAnswered(c, ok)
  PROVE  /\ call' \in [Clients -> AllCalls]
         /\ wizard' \in [Wizards -> WizardStates \cup {Closed}]
<1>1. call' \in [Clients -> AllCalls]
  BY DEF LinkAnswered, TypeOK, AllCalls
<1>2. CASE c \in Wizards /\ wizard[c] # Closed
  <2>1. AfterLinking(wizard[c], call[c].streamId, ok) \in WizardStates
    BY <1>2, AfterLinkingType DEF TypeOK
  <2> QED
    BY <1>1, <1>2, <2>1 DEF LinkAnswered, TypeOK
<1>3. CASE ~(c \in Wizards /\ wizard[c] # Closed)
  BY <1>1, <1>3 DEF LinkAnswered, TypeOK
<1> QED
  BY <1>2, <1>3

-----------------------------------------------------------------------------
(* Type correctness. *)

LEMMA CreateStepType ==
  ASSUME TypeOK, NEW c \in Clients, ListMakers(c) \/ ListBoth(c) \/ CreateAgent(c)
  PROVE  TypeOK'
<1>0. ASSUME CallAt(c, "makers") \/ CallAt(c, "both") \/ CallAt(c, "insert")
      PROVE  call[c] \in CreateCalls
  BY <1>0 DEF TypeOK, CallAt, LinkCalls, LinkSteps
<1>1. CASE ListMakers(c)
  <2>1. call[c] \in CreateCalls
    BY <1>0, <1>1 DEF ListMakers
  <2>2. [call[c] EXCEPT !.at = "both",
           !.found = SendersOf(call[c].streamId, "maker") # {}] \in CreateCalls
    BY <2>1 DEF CreateCalls
  <2> QED
    BY <1>1, <2>2 DEF ListMakers, TypeOK, tables
<1>2. CASE ListBoth(c)
  <2>1. call[c] \in CreateCalls
    BY <1>0, <1>2 DEF ListBoth
  <2>2. CASE CreateAnswered(c, 0, FALSE)
    <3>1. /\ call' \in [Clients -> AllCalls]
          /\ wizard' \in [Wizards -> WizardStates \cup {Closed}]
      BY <2>2, CreateAnsweredType
    <3> QED
      BY <1>2, <3>1 DEF ListBoth, TypeOK, tables, AllCalls
  <2>3. CASE /\ call' = [call EXCEPT ![c] = [call[c] EXCEPT !.at = "insert"]]
             /\ UNCHANGED wizard
    <3>1. [call[c] EXCEPT !.at = "insert"] \in CreateCalls
      BY <2>1 DEF CreateCalls
    <3> QED
      BY <1>2, <2>3, <3>1 DEF ListBoth, TypeOK, tables
  <2> QED
    BY <1>2, <2>2, <2>3 DEF ListBoth
<1>3. CASE CreateAgent(c)
  <2>1. call[c] \in CreateCalls
    BY <1>0, <1>3 DEF CreateAgent
  <2>2. CASE ~RoleAllowed(call[c].role)
    <3>1. /\ call' \in [Clients -> AllCalls]
          /\ wizard' \in [Wizards -> WizardStates \cup {Closed}]
      BY <1>3, <2>2, CreateAnsweredType DEF CreateAgent
    <3> QED
      BY <1>3, <2>2, <3>1 DEF CreateAgent, TypeOK, tables, AllCalls
  <2>3. CASE RoleAllowed(call[c].role)
    <3>1. nextAgent \in AgentIds /\ nextAgent + 1 \in 1 .. MaxAgents + 1
      BY <1>3, <2>3, AgentAssumption DEF CreateAgent, TypeOK, AgentIds
    <3>2. PICK ok \in BOOLEAN : CreateAnswered(c, nextAgent, ok)
      BY <1>3, <2>3 DEF CreateAgent
    <3>3. /\ call' \in [Clients -> AllCalls]
          /\ wizard' \in [Wizards -> WizardStates \cup {Closed}]
      BY <3>1, <3>2, CreateAnsweredType
    <3>4. [id |-> nextAgent, ownerWallet |-> WalletOf[c],
           role |-> call[c].role, streamId |-> call[c].streamId,
           before |-> call[c].before] \in AgentRows
      BY <2>1, <2>3, <3>1, AgentAssumption
      DEF AgentRows, CreateCalls, RoleAllowed
    <3> QED
      BY <1>3, <2>3, <3>1, <3>3, <3>4 DEF CreateAgent, TypeOK, AllCalls
  <2> QED
    BY <2>2, <2>3
<1> QED
  BY <1>1, <1>2, <1>3

LEMMA GoOnType ==
  ASSUME TypeOK, NEW c \in Clients, call[c] \in LinkCalls, NEW at \in LinkSteps,
         GoOn(c, at) \/ Refused(c), UNCHANGED tables
  PROVE  TypeOK'
<1>1. CASE GoOn(c, at)
  <2>1. [call[c] EXCEPT !.at = at] \in LinkCalls
    BY DEF LinkCalls
  <2> QED
    BY <1>1, <2>1 DEF GoOn, TypeOK, tables
<1>2. CASE Refused(c)
  <2>1. /\ call' \in [Clients -> AllCalls]
        /\ wizard' \in [Wizards -> WizardStates \cup {Closed}]
    BY <1>2, LinkAnsweredType DEF Refused
  <2> QED
    BY <2>1 DEF TypeOK, tables, AllCalls
<1> QED
  BY <1>1, <1>2

LEMMA LinkStepType ==
  ASSUME TypeOK, NEW c \in Clients,
         \/ EnsureActiveSubscription(c) \/ ListAgentSubscriptions(c)
         \/ CreateAgentSubscription(c)
  PROVE  TypeOK'
<1>0. ASSUME \E at \in LinkSteps : CallAt(c, at)
      PROVE  call[c] \in LinkCalls
  BY <1>0 DEF TypeOK, CallAt, CreateCalls, LinkSteps
<1>1. CASE EnsureActiveSubscription(c)
  <2>1. call[c] \in LinkCalls
    BY <1>0, <1>1 DEF EnsureActiveSubscription, LinkSteps
  <2>2. PICK at \in LinkSteps : GoOn(c, at) \/ Refused(c)
    BY <1>1 DEF EnsureActiveSubscription, LinkSteps
  <2> QED
    BY <1>1, <2>1, <2>2, GoOnType DEF EnsureActiveSubscription
<1>2. CASE ListAgentSubscriptions(c)
  <2>1. call[c] \in LinkCalls
    BY <1>0, <1>2 DEF ListAgentSubscriptions, LinkSteps
  <2>2. PICK at \in LinkSteps : GoOn(c, at) \/ Refused(c)
    BY <1>2 DEF ListAgentSubscriptions, LinkSteps
  <2> QED
    BY <1>2, <2>1, <2>2, GoOnType DEF ListAgentSubscriptions
<1>3. CASE CreateAgentSubscription(c)
  <2>1. call[c] \in LinkCalls
    BY <1>0, <1>3 DEF CreateAgentSubscription, LinkSteps
  <2>2. PICK ok \in BOOLEAN : LinkAnswered(c, ok)
    BY <1>3 DEF CreateAgentSubscription
  <2>3. /\ call' \in [Clients -> AllCalls]
        /\ wizard' \in [Wizards -> WizardStates \cup {Closed}]
    BY <2>2, LinkAnsweredType
  <2>4. nextLink \in LinkIds /\ nextLink + 1 \in 1 .. MaxLinks + 1
    BY <1>3, AgentAssumption DEF CreateAgentSubscription, TypeOK, LinkIds
  <2>5. [id |-> nextLink, agentId |-> call[c].agentId,
         streamId |-> call[c].streamId, before |-> call[c].before] \in LinkRows
    BY <2>1, <2>4 DEF LinkRows, LinkCalls
  <2>6. <<call[c].agentId, call[c].streamId>> \in AgentIds \X Streams
    BY <2>1 DEF LinkCalls
  <2> QED
    BY <1>3, <2>3, <2>4, <2>5, <2>6 DEF CreateAgentSubscription, TypeOK, AllCalls
<1> QED
  BY <1>1, <1>2, <1>3

LEMMA FailCallType ==
  ASSUME TypeOK, NEW c \in Clients, FailCall(c)
  PROVE  TypeOK'
<1>1. /\ call' \in [Clients -> AllCalls]
      /\ wizard' \in [Wizards -> WizardStates \cup {Closed}]
  <2>1. CASE LinkAnswered(c, FALSE)
    BY <2>1, LinkAnsweredType
  <2>2. CASE CreateAnswered(c, 0, FALSE)
    BY <2>2, CreateAnsweredType
  <2> QED
    BY <2>1, <2>2 DEF FailCall
<1> QED
  BY <1>1 DEF FailCall, TypeOK, tables, AllCalls

(* A wizard that is replaced by another while the tables stay. *)
LEMMA WizardChangeType ==
  ASSUME TypeOK, NEW w \in Wizards, NEW state \in WizardStates \cup {Closed},
         wizard' = [wizard EXCEPT ![w] = state],
         UNCHANGED tables,
         call' \in [Clients -> AllCalls]
  PROVE  TypeOK'
BY DEF TypeOK, tables, AllCalls

LEMMA NewCreateType ==
  ASSUME TypeOK, NEW role \in {"maker", "listener", "both"},
         NEW s \in Streams \cup {NoStream}
  PROVE  NewCreate(role, s) \in CreateCalls
<1>1. IdsOf(agents) \in SUBSET AgentIds
  BY DEF TypeOK, IdsOf, AgentRows
<1> QED
  BY <1>1 DEF NewCreate, CreateCalls

LEMMA NewLinkType ==
  ASSUME TypeOK, NEW id \in AgentIds, NEW s \in Streams
  PROVE  NewLink(id, s) \in LinkCalls
<1>1. IdsOf(links) \in SUBSET LinkIds
  BY DEF TypeOK, IdsOf, LinkRows
<1> QED
  BY <1>1 DEF NewLink, LinkCalls, LinkSteps

LEMMA WizardStepType ==
  ASSUME TypeOK, NEW w \in Wizards, WizardStep(w)
  PROVE  TypeOK'
<1>0. call \in [Clients -> AllCalls]
  BY DEF TypeOK, AllCalls
<1>1. CASE OpenWizard(w)
  <2>1. PICK selected \in SUBSET Streams : \E offered \in SUBSET selected :
          wizard' = [wizard EXCEPT ![w] =
            [busy |-> "no", streamId |-> NoStream,
             offered |-> offered, selected |-> selected, agentId |-> 0,
             grantDone |-> FALSE, linkDone |-> FALSE,
             pass |-> {}, todo |-> {}, errors |-> FALSE]]
    BY <1>1 DEF OpenWizard
  <2>2. PICK offered \in SUBSET selected :
          wizard' = [wizard EXCEPT ![w] =
            [busy |-> "no", streamId |-> NoStream,
             offered |-> offered, selected |-> selected, agentId |-> 0,
             grantDone |-> FALSE, linkDone |-> FALSE,
             pass |-> {}, todo |-> {}, errors |-> FALSE]]
    BY <2>1
  <2>3. [busy |-> "no", streamId |-> NoStream,
         offered |-> offered, selected |-> selected, agentId |-> 0,
         grantDone |-> FALSE, linkDone |-> FALSE,
         pass |-> {}, todo |-> {}, errors |-> FALSE] \in WizardStates
    BY DEF WizardStates
  <2> QED
    BY <1>0, <1>1, <2>2, <2>3, WizardChangeType DEF OpenWizard
<1>2. CASE CloseWizard(w)
  BY <1>0, <1>2, WizardChangeType DEF CloseWizard
<1>3. CASE LoadSubscriptions(w)
  <2>1. PICK offered \in SUBSET Streams :
          wizard' = [wizard EXCEPT ![w] = [wizard[w] EXCEPT !.offered = offered]]
    BY <1>3 DEF LoadSubscriptions
  <2>2. wizard[w] \in WizardStates
    BY <1>3 DEF LoadSubscriptions, TypeOK
  <2>3. [wizard[w] EXCEPT !.offered = offered] \in WizardStates
    BY <2>2 DEF WizardStates
  <2> QED
    BY <1>0, <1>3, <2>1, <2>3, WizardChangeType DEF LoadSubscriptions
<1>4. CASE EditWizard(w)
  <2>1. wizard[w] \in WizardStates
    BY <1>4 DEF EditWizard, TypeOK
  <2>2. PICK s \in Streams \cup {NoStream},
             selected \in SUBSET (wizard[w].selected \cup wizard[w].offered) :
          wizard' = [wizard EXCEPT ![w] =
            [wizard[w] EXCEPT !.streamId = s, !.selected = selected]]
    BY <1>4 DEF EditWizard
  <2>3. [wizard[w] EXCEPT !.streamId = s, !.selected = selected]
          \in WizardStates
    BY <2>1 DEF WizardStates
  <2> QED
    BY <1>0, <1>4, <2>2, <2>3, WizardChangeType DEF EditWizard
<1>5. CASE DeployAgent(w)
  <2>1. wizard[w] \in WizardStates
    BY <1>5 DEF DeployAgent, Ready, TypeOK
  <2>2. [wizard[w] EXCEPT !.busy = "agent"] \in WizardStates
    BY <2>1 DEF WizardStates
  <2>3. Role(wizard[w]) \in {"maker", "listener", "both"}
    BY DEF Role
  <2>4. NewCreate(Role(wizard[w]), wizard[w].streamId) \in CreateCalls
    BY <2>1, <2>3, NewCreateType DEF WizardStates
  <2>5. call' \in [Clients -> AllCalls]
    BY <1>5, <2>4 DEF DeployAgent, TypeOK, AllCalls
  <2> QED
    BY <1>5, <2>2, <2>5, WizardChangeType DEF DeployAgent
<1>6. CASE DeployGrant(w)
  <2>1. wizard[w] \in WizardStates
    BY <1>6 DEF DeployGrant, Ready, TypeOK
  <2>2. [wizard[w] EXCEPT !.grantDone = TRUE] \in WizardStates
    BY <2>1 DEF WizardStates
  <2> QED
    BY <1>0, <1>6, <2>2, WizardChangeType DEF DeployGrant
<1>7. CASE DeployLink(w)
  <2>1. wizard[w] \in WizardStates
    BY <1>7 DEF DeployLink, Ready, TypeOK
  <2> DEFINE pass == wizard[w].selected \cap wizard[w].offered
             busy == IF pass = {} THEN "no" ELSE "link"
             done == pass = {}
             state == [wizard[w] EXCEPT !.pass = pass, !.todo = pass,
                         !.errors = FALSE, !.busy = busy, !.linkDone = done]
  <2>2. wizard' = [wizard EXCEPT ![w] = state]
    BY <1>7 DEF DeployLink
  <2>3. pass \in SUBSET Streams /\ done \in BOOLEAN /\ busy \in {"no", "link"}
    BY <2>1 DEF WizardStates
  <2>4. state \in WizardStates
    <3> HIDE DEF pass, busy, done
    <3> QED
      BY <2>1, <2>3 DEF WizardStates
  <2> HIDE DEF state
  <2> QED
    BY <1>0, <1>7, <2>2, <2>4, WizardChangeType DEF DeployLink
<1>8. CASE PostNextLink(w)
  <2>1. wizard[w] \in WizardStates
    BY <1>8 DEF PostNextLink, TypeOK
  <2>2. PICK s \in wizard[w].todo :
          call' = [call EXCEPT ![w] = NewLink(wizard[w].agentId, s)]
    BY <1>8 DEF PostNextLink
  <2>3. wizard[w].agentId \in AgentIds /\ s \in Streams
    BY <1>8, <2>1 DEF PostNextLink, MayLink, TypeOK, AgentRows, WizardStates
  <2>4. NewLink(wizard[w].agentId, s) \in LinkCalls
    BY <2>3, NewLinkType
  <2> QED
    BY <1>8, <2>2, <2>4 DEF PostNextLink, TypeOK, tables
<1> QED
  BY <1>1, <1>2, <1>3, <1>4, <1>5, <1>6, <1>7, <1>8 DEF WizardStep

LEMMA CallerStepType ==
  ASSUME TypeOK, NEW c \in Clients,
         LinkSubscription(c) \/ DeleteAgentSubscription(c) \/ CreateByTool(c)
  PROVE  TypeOK'
<1>1. CASE LinkSubscription(c)
  <2>1. PICK id \in AgentIds, s \in Streams :
          call' = [call EXCEPT ![c] = NewLink(id, s)]
    BY <1>1 DEF LinkSubscription
  <2>2. NewLink(id, s) \in LinkCalls
    BY NewLinkType
  <2> QED
    BY <1>1, <2>1, <2>2 DEF LinkSubscription, TypeOK, tables
<1>2. CASE DeleteAgentSubscription(c)
  BY <1>2 DEF DeleteAgentSubscription, TypeOK
<1>3. CASE CreateByTool(c)
  <2>1. PICK role \in {"maker", "listener", "both"}, s \in Streams \cup {NoStream} :
          call' = [call EXCEPT ![c] = NewCreate(role, s)]
    BY <1>3 DEF CreateByTool
  <2>2. NewCreate(role, s) \in CreateCalls
    BY NewCreateType
  <2> QED
    BY <1>3, <2>1, <2>2 DEF CreateByTool, TypeOK, tables
<1> QED
  BY <1>1, <1>2, <1>3

LEMMA NextType ==
  ASSUME TypeOK, [Next]_vars
  PROVE  TypeOK'
<1>1. ASSUME NEW c \in Clients, BackendStep(c)
      PROVE  TypeOK'
  BY <1>1, CreateStepType, LinkStepType, FailCallType DEF BackendStep
<1>2. ASSUME NEW w \in Wizards, WizardStep(w)
      PROVE  TypeOK'
  BY <1>2, WizardStepType
<1>3. ASSUME NEW p \in Pages, PageStep(p)
      PROVE  TypeOK'
  BY <1>3, CallerStepType DEF PageStep, Clients
<1>4. ASSUME NEW t \in Tools, ToolStep(t)
      PROVE  TypeOK'
  BY <1>4, CallerStepType DEF ToolStep, PageStep, Clients
<1>5. CASE UNCHANGED vars
  BY <1>5 DEF TypeOK, vars, tables
<1> QED
  BY <1>1, <1>2, <1>3, <1>4, <1>5 DEF Next

-----------------------------------------------------------------------------
(* The wizard. *)

(* What a step does not touch. *)
LEMMA WizardKept ==
  ASSUME NEW w \in Wizards, WizardOK(w),
         wizard'[w] = wizard[w], call'[w] = call[w] \/ call'[w] = NoCall,
         everLinked \subseteq everLinked'
  PROVE  WizardOK(w)'
BY DEF WizardOK

(* A request that ends tells its own wizard only. *)
LEMMA OthersKept ==
  ASSUME TypeOK, NEW c \in Clients, NEW w \in Wizards, w # c, WizardOK(w),
         \/ \E id, ok : CreateAnswered(c, id, ok)
         \/ \E ok : LinkAnswered(c, ok),
         everLinked \subseteq everLinked'
  PROVE  WizardOK(w)'
<1>1. wizard'[w] = wizard[w]
  BY DEF CreateAnswered, LinkAnswered, TypeOK
<1>2. call'[w] = call[w]
  BY DEF CreateAnswered, LinkAnswered, TypeOK, Clients
<1> QED
  BY <1>1, <1>2, WizardKept

LEMMA CreateAnsweredWizard ==
  ASSUME TypeOK, WizardInv, NEW c \in Clients, call[c] \in CreateCalls,
         NEW id \in AgentIds \cup {0}, NEW ok \in BOOLEAN,
         CreateAnswered(c, id, ok), UNCHANGED everLinked
  PROVE  WizardInv'
<1> SUFFICES ASSUME NEW w \in Wizards
             PROVE  WizardOK(w)'
  BY DEF WizardInv
<1>1. WizardOK(w)
  BY DEF WizardInv
<1>2. CASE w # c
  BY <1>1, <1>2, OthersKept
<1>3. CASE w = c /\ wizard[w] = Closed
  BY <1>1, <1>3 DEF CreateAnswered, WizardOK, TypeOK
<1>4. CASE w = c /\ wizard[w] # Closed
  <2>1. /\ wizard'[w] = AfterCreating(wizard[w], id, ok)
        /\ call'[w] = NoCall
    BY <1>4 DEF CreateAnswered, TypeOK, Clients
  <2>2. wizard[w] \in WizardStates
    BY <1>4 DEF TypeOK
  <2>3. call[w] # NoCall /\ call[w].at \notin LinkSteps
    BY <1>4, NothingAssumption DEF CreateCalls, LinkSteps
  <2>4. wizard[w].busy = "agent" /\ wizard[w].pass = {}
    BY <1>1, <1>4, <2>3 DEF WizardOK
  <2>5. CASE ok
    BY <1>1, <1>4, <2>1, <2>2, <2>4, <2>5
    DEF WizardOK, AfterCreating, WizardStates
  <2>6. CASE ~ok
    BY <1>1, <1>4, <2>1, <2>2, <2>4, <2>6
    DEF WizardOK, AfterCreating, WizardStates
  <2> QED
    BY <2>5, <2>6
<1> QED
  BY <1>2, <1>3, <1>4

LEMMA LinkAnsweredWizard ==
  ASSUME TypeOK, WizardInv, NEW c \in Clients, call[c] \in LinkCalls,
         NEW ok \in BOOLEAN, LinkAnswered(c, ok),
         everLinked \subseteq everLinked',
         ok => <<call[c].agentId, call[c].streamId>> \in everLinked'
  PROVE  WizardInv'
<1> SUFFICES ASSUME NEW w \in Wizards
             PROVE  WizardOK(w)'
  BY DEF WizardInv
<1>1. WizardOK(w)
  BY DEF WizardInv
<1>2. CASE w # c
  BY <1>1, <1>2, OthersKept
<1>3. CASE w = c /\ wizard[w] = Closed
  BY <1>1, <1>3 DEF LinkAnswered, WizardOK, TypeOK
<1>4. CASE w = c /\ wizard[w] # Closed
  <2> DEFINE s == call[w].streamId
             rest == wizard[w].todo \ {s}
             failed == wizard[w].errors \/ ~ok
  <2>1. /\ wizard'[w] = AfterLinking(wizard[w], s, ok)
        /\ call'[w] = NoCall
    BY <1>4 DEF LinkAnswered, TypeOK, Clients
  <2>2. wizard[w] \in WizardStates
    BY <1>4 DEF TypeOK
  <2>3. call[w] # NoCall /\ call[w].at \in LinkSteps
    BY <1>4, NothingAssumption DEF LinkCalls
  <2>4. /\ wizard[w].busy = "link"
        /\ call[w].agentId = wizard[w].agentId
    BY <1>1, <1>4, <2>3 DEF WizardOK
  <2>5. ~failed => \A x \in wizard[w].pass \ rest :
          <<wizard[w].agentId, x>> \in everLinked'
    <3> SUFFICES ASSUME ~failed, NEW x \in wizard[w].pass \ rest
                 PROVE  <<wizard[w].agentId, x>> \in everLinked'
      OBVIOUS
    <3>1. CASE x = s
      BY <1>4, <2>4, <3>1
    <3>2. CASE x # s
      BY <1>1, <1>4, <2>4, <3>2 DEF WizardOK
    <3> QED
      BY <3>1, <3>2
  <2>6. CASE rest # {}
    <3>1. wizard'[w] = [wizard[w] EXCEPT !.todo = rest, !.errors = failed]
      BY <2>1, <2>6 DEF AfterLinking
    <3> HIDE DEF rest, failed
    <3> QED
      BY <1>1, <1>4, <2>1, <2>2, <2>4, <2>5, <3>1 DEF WizardOK, WizardStates
  <2>7. CASE rest = {}
    <3> DEFINE done == ~failed
    <3>1. wizard'[w] = [wizard[w] EXCEPT !.todo = rest, !.errors = failed,
                          !.busy = "no", !.linkDone = done]
      BY <2>1, <2>7 DEF AfterLinking
    <3>2. done => \A x \in wizard[w].pass : <<wizard[w].agentId, x>> \in everLinked'
      BY <2>5, <2>7
    <3> HIDE DEF rest, failed, done
    <3> QED
      BY <1>1, <1>4, <2>1, <2>2, <2>4, <3>1, <3>2 DEF WizardOK, WizardStates
  <2> QED
    BY <2>6, <2>7
<1> QED
  BY <1>2, <1>3, <1>4

(* A request that goes on to its next await. *)
LEMMA CallGoesOnWizard ==
  ASSUME TypeOK, WizardInv, NEW c \in Clients, NEW new,
         call' = [call EXCEPT ![c] = new],
         call[c] # NoCall,
         new.at \in LinkSteps <=> call[c].at \in LinkSteps,
         new.at \in LinkSteps => new.agentId = call[c].agentId,
         UNCHANGED <<wizard, everLinked>>
  PROVE  WizardInv'
<1> SUFFICES ASSUME NEW w \in Wizards
             PROVE  WizardOK(w)'
  BY DEF WizardInv
<1>1. WizardOK(w)
  BY DEF WizardInv
<1>2. CASE w # c
  <2>1. call'[w] = call[w]
    BY <1>2 DEF TypeOK, Clients
  <2> QED
    BY <1>1, <2>1, WizardKept
<1>3. CASE w = c
  <2>1. call'[w] = new
    BY <1>3 DEF TypeOK
  <2> QED
    BY <1>1, <1>3, <2>1 DEF WizardOK
<1> QED
  BY <1>2, <1>3

LEMMA CreateStepWizard ==
  ASSUME TypeOK, WizardInv, NEW c \in Clients,
         ListMakers(c) \/ ListBoth(c) \/ CreateAgent(c)
  PROVE  WizardInv'
<1>0. call[c] \in CreateCalls /\ call[c] # NoCall
  BY DEF TypeOK, CallAt, LinkCalls, LinkSteps, ListMakers, ListBoth, CreateAgent
<1>1. CASE ListMakers(c)
  <2> DEFINE new == [call[c] EXCEPT !.at = "both",
                       !.found = SendersOf(call[c].streamId, "maker") # {}]
  <2>1. new.at = "both" /\ call[c].at = "makers"
    BY <1>0, <1>1 DEF ListMakers, CallAt, CreateCalls
  <2>2. call' = [call EXCEPT ![c] = new] /\ UNCHANGED <<wizard, everLinked>>
    BY <1>1 DEF ListMakers, tables
  <2> HIDE DEF new
  <2> QED
    BY <1>0, <2>1, <2>2, CallGoesOnWizard DEF LinkSteps
<1>2. CASE ListBoth(c)
  <2>1. CASE CreateAnswered(c, 0, FALSE)
    BY <1>0, <1>2, <2>1, CreateAnsweredWizard DEF ListBoth, tables
  <2>2. CASE /\ call' = [call EXCEPT ![c] = [call[c] EXCEPT !.at = "insert"]]
             /\ UNCHANGED wizard
    <3> DEFINE new == [call[c] EXCEPT !.at = "insert"]
    <3>1. new.at = "insert" /\ call[c].at = "both"
      BY <1>0, <1>2 DEF ListBoth, CallAt, CreateCalls
    <3>2. call' = [call EXCEPT ![c] = new] /\ UNCHANGED <<wizard, everLinked>>
      BY <1>2, <2>2 DEF ListBoth, tables
    <3> HIDE DEF new
    <3> QED
      BY <1>0, <3>1, <3>2, CallGoesOnWizard DEF LinkSteps
  <2> QED
    BY <1>2, <2>1, <2>2 DEF ListBoth
<1>3. CASE CreateAgent(c)
  <2>1. CASE ~RoleAllowed(call[c].role)
    BY <1>0, <1>3, <2>1, CreateAnsweredWizard DEF CreateAgent, tables
  <2>2. CASE RoleAllowed(call[c].role)
    <3>1. PICK ok \in BOOLEAN : CreateAnswered(c, nextAgent, ok)
      BY <1>3, <2>2 DEF CreateAgent
    <3>2. nextAgent \in AgentIds \cup {0} /\ UNCHANGED everLinked
      BY <1>3, <2>2, AgentAssumption DEF CreateAgent, TypeOK, AgentIds
    <3> QED
      BY <1>0, <3>1, <3>2, CreateAnsweredWizard
  <2> QED
    BY <2>1, <2>2
<1> QED
  BY <1>1, <1>2, <1>3

LEMMA GoOnWizard ==
  ASSUME TypeOK, WizardInv, NEW c \in Clients, call[c] \in LinkCalls,
         NEW at \in LinkSteps, GoOn(c, at) \/ Refused(c), UNCHANGED everLinked
  PROVE  WizardInv'
<1>1. call[c] # NoCall /\ call[c].at \in LinkSteps
  BY NothingAssumption DEF LinkCalls
<1>2. CASE GoOn(c, at)
  <2> DEFINE new == [call[c] EXCEPT !.at = at]
  <2>1. new.at = at /\ new.agentId = call[c].agentId
    BY DEF LinkCalls
  <2>2. call' = [call EXCEPT ![c] = new] /\ UNCHANGED <<wizard, everLinked>>
    BY <1>2 DEF GoOn
  <2> HIDE DEF new
  <2> QED
    BY <1>1, <2>1, <2>2, CallGoesOnWizard
<1>3. CASE Refused(c)
  BY <1>3, LinkAnsweredWizard DEF Refused
<1> QED
  BY <1>2, <1>3

LEMMA LinkStepWizard ==
  ASSUME TypeOK, WizardInv, NEW c \in Clients,
         \/ EnsureActiveSubscription(c) \/ ListAgentSubscriptions(c)
         \/ CreateAgentSubscription(c)
  PROVE  WizardInv'
<1>0. call[c] \in LinkCalls
  BY DEF TypeOK, CallAt, CreateCalls, EnsureActiveSubscription, ListAgentSubscriptions,
     CreateAgentSubscription
<1>1. CASE CreateAgentSubscription(c)
  <2>1. PICK ok \in BOOLEAN : LinkAnswered(c, ok)
    BY <1>1 DEF CreateAgentSubscription
  <2>2. /\ everLinked \subseteq everLinked'
        /\ <<call[c].agentId, call[c].streamId>> \in everLinked'
    BY <1>1 DEF CreateAgentSubscription
  <2> QED
    BY <1>0, <2>1, <2>2, LinkAnsweredWizard
<1>2. CASE ~CreateAgentSubscription(c)
  <2>1. UNCHANGED everLinked
    BY <1>2 DEF EnsureActiveSubscription,
       ListAgentSubscriptions, tables
  <2>2. PICK at \in LinkSteps : GoOn(c, at) \/ Refused(c)
    BY <1>2 DEF EnsureActiveSubscription,
       ListAgentSubscriptions, LinkSteps
  <2> QED
    BY <1>0, <2>1, <2>2, GoOnWizard
<1> QED
  BY <1>1, <1>2

LEMMA FailCallWizard ==
  ASSUME TypeOK, WizardInv, NEW c \in Clients, FailCall(c)
  PROVE  WizardInv'
<1>1. UNCHANGED everLinked
  BY DEF FailCall, tables
<1>2. CASE call[c].at \in LinkSteps
  <2>1. call[c] \in LinkCalls
    BY <1>2 DEF FailCall, TypeOK, CreateCalls, LinkSteps
  <2> QED
    BY <1>1, <1>2, <2>1, LinkAnsweredWizard DEF FailCall
<1>3. CASE call[c].at \notin LinkSteps
  <2>1. call[c] \in CreateCalls
    BY <1>3 DEF FailCall, TypeOK, LinkCalls
  <2> QED
    BY <1>1, <1>3, <2>1, CreateAnsweredWizard DEF FailCall
<1> QED
  BY <1>2, <1>3

(* A wizard's own step leaves the other wizards alone. *)
LEMMA OthersKeptByWizard ==
  ASSUME TypeOK, WizardInv, NEW w \in Wizards, WizardStep(w),
         NEW v \in Wizards, v # w
  PROVE  WizardOK(v)'
<1>1. wizard'[v] = wizard[v] /\ call'[v] = call[v] /\ UNCHANGED everLinked
  BY DEF WizardStep, OpenWizard, CloseWizard, LoadSubscriptions, EditWizard,
     DeployAgent, DeployGrant, DeployLink, PostNextLink, tables, TypeOK, Clients
<1> QED
  BY <1>1, WizardKept DEF WizardInv

(* EditWizard: the wizard is where it was. *)
LEMMA EditedWizard ==
  ASSUME TypeOK, NEW w \in Wizards, WizardOK(w),
         EditWizard(w) \/ LoadSubscriptions(w)
  PROVE  WizardOK(w)'
<1>1. wizard[w] \in WizardStates
  BY DEF EditWizard, LoadSubscriptions, TypeOK
<1>2. call'[w] = call[w] /\ UNCHANGED everLinked
  BY DEF EditWizard, LoadSubscriptions, tables
<1>3. CASE EditWizard(w)
  <2>1. PICK s \in Streams \cup {NoStream},
             selected \in SUBSET (wizard[w].selected \cup wizard[w].offered) :
          wizard' = [wizard EXCEPT ![w] =
            [wizard[w] EXCEPT !.streamId = s, !.selected = selected]]
    BY <1>3 DEF EditWizard
  <2>2. wizard'[w] = [wizard[w] EXCEPT !.streamId = s, !.selected = selected]
    BY <2>1 DEF TypeOK
  <2>3. wizard[w] # Closed
    BY <1>3 DEF EditWizard
  <2> QED
    BY <1>1, <1>2, <2>2, <2>3 DEF WizardOK, WizardStates
<1>4. CASE LoadSubscriptions(w)
  <2>1. PICK offered \in SUBSET Streams :
          wizard' = [wizard EXCEPT ![w] = [wizard[w] EXCEPT !.offered = offered]]
    BY <1>4 DEF LoadSubscriptions
  <2>2. wizard'[w] = [wizard[w] EXCEPT !.offered = offered]
    BY <2>1 DEF TypeOK
  <2>3. wizard[w] # Closed
    BY <1>4 DEF LoadSubscriptions
  <2> QED
    BY <1>1, <1>2, <2>2, <2>3 DEF WizardOK, WizardStates
<1> QED
  BY <1>3, <1>4

LEMMA WizardStepWizard ==
  ASSUME TypeOK, WizardInv, NEW w \in Wizards, WizardStep(w)
  PROVE  WizardInv'
<1> SUFFICES WizardOK(w)'
  BY OthersKeptByWizard DEF WizardInv
<1>0. WizardOK(w)
  BY DEF WizardInv
<1>1. CASE OpenWizard(w)
  <2>1. PICK selected \in SUBSET Streams : \E offered \in SUBSET selected :
          wizard' = [wizard EXCEPT ![w] =
            [busy |-> "no", streamId |-> NoStream,
             offered |-> offered, selected |-> selected, agentId |-> 0,
             grantDone |-> FALSE, linkDone |-> FALSE,
             pass |-> {}, todo |-> {}, errors |-> FALSE]]
    BY <1>1 DEF OpenWizard
  <2>2. PICK offered \in SUBSET selected :
          wizard'[w] =
            [busy |-> "no", streamId |-> NoStream,
             offered |-> offered, selected |-> selected, agentId |-> 0,
             grantDone |-> FALSE, linkDone |-> FALSE,
             pass |-> {}, todo |-> {}, errors |-> FALSE]
    BY <2>1 DEF TypeOK
  <2>3. /\ wizard'[w].busy = "no" /\ wizard'[w].pass = {}
        /\ wizard'[w].linkDone = FALSE
    BY <2>2
  <2>4. call'[w] = NoCall
    BY <1>1 DEF OpenWizard
  <2> QED
    BY <2>3, <2>4 DEF WizardOK
<1>2. CASE CloseWizard(w)
  BY <1>2 DEF CloseWizard, WizardOK, TypeOK
<1>3. CASE EditWizard(w) \/ LoadSubscriptions(w)
  BY <1>0, <1>3, EditedWizard
<1>4. CASE DeployAgent(w)
  <2>1. /\ wizard[w] \in WizardStates /\ wizard[w] # Closed
        /\ wizard[w].agentId = 0 /\ UNCHANGED everLinked
    BY <1>4 DEF DeployAgent, Ready, TypeOK, tables
  <2>2. wizard'[w] = [wizard[w] EXCEPT !.busy = "agent"]
    BY <1>4 DEF DeployAgent, TypeOK
  <2>3. call'[w].at \in {"makers", "insert"}
    BY <1>4 DEF DeployAgent, NewCreate, TypeOK, Clients
  <2> QED
    BY <1>0, <2>1, <2>2, <2>3 DEF WizardOK, WizardStates, LinkSteps
<1>5. CASE DeployGrant(w)
  <2>1. /\ wizard[w] \in WizardStates /\ wizard[w] # Closed
        /\ call'[w] = call[w] /\ UNCHANGED everLinked
    BY <1>5 DEF DeployGrant, Ready, TypeOK, tables
  <2>2. wizard'[w] = [wizard[w] EXCEPT !.grantDone = TRUE]
    BY <1>5 DEF DeployGrant, TypeOK
  <2> QED
    BY <1>0, <2>1, <2>2 DEF WizardOK, WizardStates
<1>6. CASE DeployLink(w)
  <2>1. /\ wizard[w] \in WizardStates /\ wizard[w] # Closed
        /\ wizard[w].busy = "no" /\ wizard[w].agentId # 0
        /\ call'[w] = call[w] /\ UNCHANGED everLinked
    BY <1>6 DEF DeployLink, Ready, TypeOK, tables
  <2>2. call[w] = NoCall
    BY <1>0, <2>1 DEF WizardOK
  <2> DEFINE pass == wizard[w].selected \cap wizard[w].offered
             busy == IF pass = {} THEN "no" ELSE "link"
             done == pass = {}
  <2>3. wizard'[w] = [wizard[w] EXCEPT !.pass = pass, !.todo = pass,
                        !.errors = FALSE, !.busy = busy, !.linkDone = done]
    BY <1>6 DEF DeployLink, TypeOK
  <2>4. done => pass = {}
    OBVIOUS
  <2>5. /\ wizard'[w].pass = pass /\ wizard'[w].todo = pass
        /\ wizard'[w].linkDone = done
        /\ wizard'[w].agentId = wizard[w].agentId
    <3> HIDE DEF pass, busy, done
    <3> QED
      BY <2>1, <2>3 DEF WizardStates
  <2> HIDE DEF pass, done
  <2> QED
    BY <1>0, <2>1, <2>2, <2>4, <2>5 DEF WizardOK
<1>7. CASE PostNextLink(w)
  <2>1. wizard'[w] = wizard[w] /\ UNCHANGED everLinked
    BY <1>7 DEF PostNextLink, tables
  <2>2. call'[w].at \in LinkSteps /\ call'[w].agentId = wizard[w].agentId
    BY <1>7 DEF PostNextLink, NewLink, LinkSteps, TypeOK, Clients
  <2>3. wizard[w].busy = "link"
    BY <1>7 DEF PostNextLink
  <2> QED
    BY <1>0, <2>1, <2>2, <2>3 DEF WizardOK
<1> QED
  BY <1>1, <1>2, <1>3, <1>4, <1>5, <1>6, <1>7 DEF WizardStep

LEMMA NextWizard ==
  ASSUME TypeOK, WizardInv, [Next]_vars
  PROVE  WizardInv'
<1>1. ASSUME NEW c \in Clients, BackendStep(c)
      PROVE  WizardInv'
  BY <1>1, CreateStepWizard, LinkStepWizard, FailCallWizard DEF BackendStep
<1>2. ASSUME NEW w \in Wizards, WizardStep(w)
      PROVE  WizardInv'
  BY <1>2, WizardStepWizard
<1>3. ASSUME NEW c \in Pages \cup Tools, PageStep(c) \/ ToolStep(c)
      PROVE  WizardInv'
  <2> SUFFICES ASSUME NEW w \in Wizards
               PROVE  WizardOK(w)'
    BY DEF WizardInv
  <2>1. w # c
    BY AgentAssumption
  <2>2. wizard'[w] = wizard[w] /\ call'[w] = call[w] /\ UNCHANGED everLinked
    BY <1>3, <2>1 DEF PageStep, ToolStep, LinkSubscription,
       DeleteAgentSubscription, CreateByTool, tables,
       TypeOK, Clients
  <2> QED
    BY <2>2, WizardKept DEF WizardInv
<1>4. CASE UNCHANGED vars
  BY <1>4 DEF WizardInv, WizardOK, vars, tables
<1> QED
  BY <1>1, <1>2, <1>3, <1>4 DEF Next

-----------------------------------------------------------------------------
(* The tables. *)

(* No row is inserted or removed, and one request moves. *)
LEMMA RequestMoves ==
  ASSUME TypeOK, TablesInv, UNCHANGED tables, NEW c \in Clients, NEW new,
         call' = [call EXCEPT ![c] = new], new # NoCall => RequestOK(new)
  PROVE  TablesInv'
<1>1. RowsInOrder' /\ OneSenderUnlessOverlapping' /\ LinkedOnceUnlessOverlapping'
  BY DEF TablesInv, RowsInOrder, OneSenderUnlessOverlapping,
     LinkedOnceUnlessOverlapping, tables
<1>2. ASSUME NEW d \in Clients
      PROVE  CallOK(d)'
  <2>1. CASE d = c
    <3>1. call'[d] = new
      BY <2>1 DEF TypeOK
    <3> QED
      BY <3>1 DEF CallOK, RequestOK, SendersOf, LinksOf, tables
  <2>2. CASE d # c
    <3>1. call'[d] = call[d]
      BY <2>2 DEF TypeOK
    <3> QED
      BY <3>1 DEF TablesInv, CallOK, RequestOK, SendersOf, LinksOf, tables
  <2> QED
    BY <2>1, <2>2
<1> QED
  BY <1>1, <1>2 DEF TablesInv

LEMMA RequestEnds ==
  ASSUME TypeOK, TablesInv, UNCHANGED tables, NEW c \in Clients,
         \/ \E id, ok : CreateAnswered(c, id, ok)
         \/ \E ok : LinkAnswered(c, ok)
  PROVE  TablesInv'
<1>1. call' = [call EXCEPT ![c] = NoCall]
  BY DEF CreateAnswered, LinkAnswered
<1> QED
  BY <1>1, RequestMoves

LEMMA NewCreateOK ==
  ASSUME TypeOK, TablesInv, NEW role, NEW s
  PROVE  RequestOK(NewCreate(role, s))
<1> DEFINE new == NewCreate(role, s)
<1>1. /\ new.at \in {"makers", "insert"}
      /\ new.at = "insert" => ~IsSender(new.role)
      /\ new.before = IdsOf(agents)
  BY DEF NewCreate
<1>2. \A i \in IdsOf(agents) : i < nextAgent
  BY DEF TablesInv, RowsInOrder, IdsOf
<1> HIDE DEF new
<1>3. RequestOK(new)
  BY <1>1, <1>2 DEF RequestOK, LooksForSender, LinkSteps
<1> QED
  BY <1>3 DEF new

LEMMA NewLinkOK ==
  ASSUME TypeOK, TablesInv, NEW id, NEW s
  PROVE  RequestOK(NewLink(id, s))
<1> DEFINE new == NewLink(id, s)
<1>1. new.at = "subscription" /\ new.before = IdsOf(links)
  BY DEF NewLink
<1>2. \A i \in IdsOf(links) : i < nextLink
  BY DEF TablesInv, RowsInOrder, IdsOf
<1> HIDE DEF new
<1>3. RequestOK(new)
  BY <1>1, <1>2 DEF RequestOK, LooksForSender, LinkSteps
<1> QED
  BY <1>3 DEF new

(* The row of a request that looked for senders and found none. *)
LEMMA CreateAgentTables ==
  ASSUME TypeOK, TablesInv, NEW c \in Clients, CreateAgent(c)
  PROVE  TablesInv'
<1>0. /\ call[c] \in CreateCalls /\ call[c] # NoCall /\ call[c].at = "insert"
      /\ RequestOK(call[c])
  BY DEF TypeOK, CallAt, LinkCalls, LinkSteps, CreateAgent, TablesInv, CallOK
<1>1. CASE ~RoleAllowed(call[c].role)
  BY <1>1, RequestEnds DEF CreateAgent
<1>2. CASE RoleAllowed(call[c].role)
  <2> DEFINE row == [id |-> nextAgent, ownerWallet |-> WalletOf[c],
                     role |-> call[c].role, streamId |-> call[c].streamId,
                     before |-> call[c].before]
  <2>1. /\ agents' = agents \cup {row} /\ nextAgent' = nextAgent + 1
        /\ UNCHANGED <<links, nextLink>>
    BY <1>2 DEF CreateAgent
  <2>2. call' = [call EXCEPT ![c] = NoCall]
    BY <1>2 DEF CreateAgent, CreateAnswered
  <2>3. /\ row.id = nextAgent /\ row.before = call[c].before
        /\ row.role = call[c].role /\ row.streamId = call[c].streamId
    OBVIOUS
  <2> HIDE DEF row
  <2>4. nextAgent \in Nat /\ call[c].before \subseteq Nat
    BY <1>0, AgentAssumption DEF TypeOK, CreateCalls, AgentIds
  <2>5. \A i \in call[c].before : i < nextAgent
    BY <1>0 DEF RequestOK, LinkSteps
  <2>6. \A a \in agents : /\ a.id \in Nat /\ a.before \subseteq Nat
                          /\ a.role \in {"maker", "listener"}
    BY DEF TypeOK, AgentRows, AgentIds
  <2>7. RowsInOrder'
    BY <2>1, <2>3, <2>4, <2>5, <2>6 DEF TablesInv, RowsInOrder
  <2>8. OneSenderUnlessOverlapping'
    <3> SUFFICES ASSUME NEW a \in agents', NEW b \in agents', a # b,
                        IsSender(a.role), IsSender(b.role),
                        a.streamId = b.streamId
                 PROVE  a.id \notin b.before
      BY DEF OneSenderUnlessOverlapping
    <3>1. CASE a \in agents /\ b \in agents
      BY <3>1 DEF TablesInv, OneSenderUnlessOverlapping
    <3>2. CASE a \in agents /\ b = row
      <4>1. a.role = "maker"
        BY <2>6, <3>2 DEF IsSender
      <4>2. LooksForSender(call[c])
        BY <1>0, <2>3, <3>2 DEF LooksForSender
      <4> QED
        BY <1>0, <2>3, <3>2, <4>1, <4>2 DEF RequestOK, SendersOf
    <3>3. CASE a = row /\ b \in agents
      BY <2>3, <2>4, <2>6, <3>3 DEF TablesInv, RowsInOrder
    <3> QED
      BY <2>1, <3>1, <3>2, <3>3
  <2>9. LinkedOnceUnlessOverlapping'
    BY <2>1 DEF TablesInv, LinkedOnceUnlessOverlapping
  <2>10. ASSUME NEW d \in Clients
         PROVE  CallOK(d)'
    <3>1. CASE d = c
      BY <2>2, <3>1 DEF CallOK, TypeOK
    <3>2. CASE d # c /\ call[d] # NoCall
      <4>1. call'[d] = call[d] /\ RequestOK(call[d])
        BY <2>2, <3>2 DEF TypeOK, TablesInv, CallOK
      <4>2. call[d].before \subseteq Nat
        BY <3>2 DEF TypeOK, CreateCalls, LinkCalls, AgentIds, LinkIds
      <4>3. call[d].at \notin LinkSteps =>
              nextAgent \notin call[d].before
              /\ \A i \in call[d].before : i < nextAgent'
        BY <2>1, <2>4, <4>1, <4>2 DEF RequestOK
      <4>4. LooksForSender(call[d]) =>
              \A a \in SendersOf(call[d].streamId, "maker")' :
                a.id \notin call[d].before
        BY <2>1, <2>3, <4>1, <4>3
        DEF RequestOK, SendersOf, LooksForSender, LinkSteps
      <4>5. RequestOK(call[d])'
        BY <2>1, <4>1, <4>3, <4>4 DEF RequestOK, LooksForSender, LinksOf
      <4> QED
        BY <4>1, <4>5 DEF CallOK
    <3>3. CASE d # c /\ call[d] = NoCall
      BY <2>2, <3>3 DEF CallOK, TypeOK
    <3> QED
      BY <3>1, <3>2, <3>3
  <2> QED
    BY <2>7, <2>8, <2>9, <2>10 DEF TablesInv
<1> QED
  BY <1>1, <1>2

(* The row of a request that looked for its link and found none. *)
LEMMA CreateAgentSubscriptionTables ==
  ASSUME TypeOK, TablesInv, NEW c \in Clients, CreateAgentSubscription(c)
  PROVE  TablesInv'
<1>0. /\ call[c] \in LinkCalls /\ call[c] # NoCall /\ call[c].at = "link"
      /\ RequestOK(call[c])
  BY DEF TypeOK, CallAt, CreateCalls, CreateAgentSubscription, TablesInv, CallOK
<1> DEFINE row == [id |-> nextLink, agentId |-> call[c].agentId,
                   streamId |-> call[c].streamId, before |-> call[c].before]
<1>1. /\ links' = links \cup {row} /\ nextLink' = nextLink + 1
      /\ UNCHANGED <<agents, nextAgent>>
  BY DEF CreateAgentSubscription
<1>2. call' = [call EXCEPT ![c] = NoCall]
  BY DEF CreateAgentSubscription, LinkAnswered
<1>3. /\ row.id = nextLink /\ row.before = call[c].before
      /\ row.agentId = call[c].agentId /\ row.streamId = call[c].streamId
  OBVIOUS
<1> HIDE DEF row
<1>4. nextLink \in Nat /\ call[c].before \subseteq Nat
  BY <1>0, AgentAssumption DEF TypeOK, LinkCalls, LinkIds
<1>5. \A i \in call[c].before : i < nextLink
  BY <1>0 DEF RequestOK, LinkSteps
<1>6. \A l \in links : l.id \in Nat /\ l.before \subseteq Nat
  BY DEF TypeOK, LinkRows, LinkIds
<1>7. RowsInOrder'
  BY <1>1, <1>3, <1>4, <1>5, <1>6 DEF TablesInv, RowsInOrder
<1>8. LinkedOnceUnlessOverlapping'
  <2> SUFFICES ASSUME NEW l \in links', NEW m \in links', l # m,
                      l.agentId = m.agentId, l.streamId = m.streamId
               PROVE  l.id \notin m.before
    BY DEF LinkedOnceUnlessOverlapping
  <2>1. CASE l \in links /\ m \in links
    BY <2>1 DEF TablesInv, LinkedOnceUnlessOverlapping
  <2>2. CASE l \in links /\ m = row
    BY <1>0, <1>3, <2>2 DEF RequestOK, LinksOf
  <2>3. CASE l = row /\ m \in links
    BY <1>3, <1>4, <1>6, <2>3 DEF TablesInv, RowsInOrder
  <2> QED
    BY <1>1, <2>1, <2>2, <2>3
<1>9. OneSenderUnlessOverlapping'
  BY <1>1 DEF TablesInv, OneSenderUnlessOverlapping
<1>10. ASSUME NEW d \in Clients
       PROVE  CallOK(d)'
  <2>1. CASE d = c
    BY <1>2, <2>1 DEF CallOK, TypeOK
  <2>2. CASE d # c /\ call[d] # NoCall
    <3>1. call'[d] = call[d] /\ RequestOK(call[d])
      BY <1>2, <2>2 DEF TypeOK, TablesInv, CallOK
    <3>2. call[d].before \subseteq Nat
      BY <2>2 DEF TypeOK, CreateCalls, LinkCalls, AgentIds, LinkIds
    <3>3. call[d].at \in LinkSteps =>
            nextLink \notin call[d].before
            /\ \A i \in call[d].before : i < nextLink'
      BY <1>1, <1>4, <3>1, <3>2 DEF RequestOK
    <3>4. call[d].at = "link" =>
            \A l \in LinksOf(call[d].agentId, call[d].streamId)' :
              l.id \notin call[d].before
      BY <1>1, <1>3, <3>1, <3>3 DEF RequestOK, LinksOf, LinkSteps
    <3>5. RequestOK(call[d])'
      BY <1>1, <3>1, <3>3, <3>4 DEF RequestOK, LooksForSender, SendersOf
    <3> QED
      BY <3>1, <3>5 DEF CallOK
  <2>3. CASE d # c /\ call[d] = NoCall
    BY <1>2, <2>3 DEF CallOK, TypeOK
  <2> QED
    BY <2>1, <2>2, <2>3
<1> QED
  BY <1>7, <1>8, <1>9, <1>10 DEF TablesInv

LEMMA CheckStepTables ==
  ASSUME TypeOK, TablesInv, NEW c \in Clients, ListMakers(c) \/ ListBoth(c)
  PROVE  TablesInv'
<1>0. call[c] \in CreateCalls /\ call[c] # NoCall /\ RequestOK(call[c])
  BY DEF TypeOK, CallAt, LinkCalls, LinkSteps, ListMakers, ListBoth,
     TablesInv, CallOK
<1>1. CASE ListMakers(c)
  <2> DEFINE found == SendersOf(call[c].streamId, "maker") # {}
             new == [call[c] EXCEPT !.at = "both", !.found = found]
  <2>1. call[c].at = "makers"
    BY <1>1 DEF ListMakers, CallAt
  <2>2. /\ new.at = "both" /\ new.found = found /\ new.before = call[c].before
        /\ new.streamId = call[c].streamId
    <3> HIDE DEF found
    <3> QED
      BY <1>0 DEF CreateCalls
  <2>3. call' = [call EXCEPT ![c] = new] /\ UNCHANGED tables
    BY <1>1 DEF ListMakers
  <2> HIDE DEF new
  <2>4. RequestOK(new)
    BY <1>0, <2>1, <2>2 DEF RequestOK, LooksForSender, LinkSteps
  <2> QED
    BY <2>3, <2>4, RequestMoves
<1>2. CASE ListBoth(c) /\ CreateAnswered(c, 0, FALSE)
  BY <1>2, RequestEnds DEF ListBoth
<1>3. CASE ListBoth(c) /\ ~CreateAnswered(c, 0, FALSE)
  <2> DEFINE new == [call[c] EXCEPT !.at = "insert"]
  <2>1. call[c].at = "both" /\ ~call[c].found
    BY <1>3 DEF ListBoth, CallAt
  <2>2. /\ new.at = "insert" /\ new.before = call[c].before
        /\ new.streamId = call[c].streamId
    BY <1>0 DEF CreateCalls
  <2>3. call' = [call EXCEPT ![c] = new] /\ UNCHANGED tables
    BY <1>3 DEF ListBoth
  <2> HIDE DEF new
  <2>4. RequestOK(new)
    BY <1>0, <2>1, <2>2 DEF RequestOK, LooksForSender, LinkSteps
  <2> QED
    BY <2>3, <2>4, RequestMoves
<1> QED
  BY <1>1, <1>2, <1>3

(* A link request that goes on: to its last await when there is no link. *)
LEMMA GoOnTables ==
  ASSUME TypeOK, TablesInv, NEW c \in Clients, call[c] \in LinkCalls,
         NEW at \in LinkSteps, UNCHANGED tables,
         GoOn(c, at) \/ Refused(c),
         GoOn(c, at) /\ at = "link" =>
           LinksOf(call[c].agentId, call[c].streamId) = {}
  PROVE  TablesInv'
<1>1. CASE Refused(c)
  BY <1>1, RequestEnds DEF Refused
<1>2. CASE GoOn(c, at)
  <2> DEFINE new == [call[c] EXCEPT !.at = at]
  <2>1. call[c] # NoCall /\ call[c].at \in LinkSteps /\ RequestOK(call[c])
    BY NothingAssumption DEF LinkCalls, TablesInv, CallOK
  <2>2. /\ new.at = at /\ new.before = call[c].before
        /\ new.agentId = call[c].agentId /\ new.streamId = call[c].streamId
    BY DEF LinkCalls
  <2>3. call' = [call EXCEPT ![c] = new]
    BY <1>2 DEF GoOn
  <2> HIDE DEF new
  <2>4. RequestOK(new)
    BY <1>2, <2>1, <2>2 DEF RequestOK, LooksForSender, LinkSteps
  <2> QED
    BY <2>3, <2>4, RequestMoves
<1> QED
  BY <1>1, <1>2

LEMMA LinkStepTables ==
  ASSUME TypeOK, TablesInv, NEW c \in Clients,
         EnsureActiveSubscription(c) \/ ListAgentSubscriptions(c)
  PROVE  TablesInv'
<1>0. call[c] \in LinkCalls /\ UNCHANGED tables
  BY DEF TypeOK, CallAt, CreateCalls, EnsureActiveSubscription, ListAgentSubscriptions
<1>1. CASE EnsureActiveSubscription(c)
  <2>1. "existing" \in LinkSteps
    BY DEF LinkSteps
  <2> QED
    BY <1>0, <1>1, <2>1, GoOnTables DEF EnsureActiveSubscription
<1>2. CASE ListAgentSubscriptions(c)
  <2>1. CASE LinksOf(call[c].agentId, call[c].streamId) = {}
    BY <1>0, <1>2, <2>1, GoOnTables DEF ListAgentSubscriptions, LinkSteps
  <2>2. CASE LinksOf(call[c].agentId, call[c].streamId) # {}
    BY <1>2, <2>2, RequestEnds DEF ListAgentSubscriptions, Refused
  <2> QED
    BY <2>1, <2>2
<1> QED
  BY <1>1, <1>2

LEMMA CallerStepTables ==
  ASSUME TypeOK, TablesInv, NEW c \in Clients,
         LinkSubscription(c) \/ DeleteAgentSubscription(c) \/ CreateByTool(c)
  PROVE  TablesInv'
<1>1. CASE LinkSubscription(c)
  <2>1. PICK id \in AgentIds, s \in Streams :
          call' = [call EXCEPT ![c] = NewLink(id, s)]
    BY <1>1 DEF LinkSubscription
  <2> QED
    BY <1>1, <2>1, NewLinkOK, RequestMoves DEF LinkSubscription
<1>2. CASE DeleteAgentSubscription(c)
  <2>1. links' \subseteq links /\ UNCHANGED <<agents, nextAgent, nextLink, call>>
    BY <1>2 DEF DeleteAgentSubscription
  <2> QED
    BY <2>1 DEF TablesInv, RowsInOrder, CallOK, RequestOK, LooksForSender,
       SendersOf, LinksOf, OneSenderUnlessOverlapping,
       LinkedOnceUnlessOverlapping
<1>3. CASE CreateByTool(c)
  <2>1. PICK role, s : call' = [call EXCEPT ![c] = NewCreate(role, s)]
    BY <1>3 DEF CreateByTool
  <2> QED
    BY <1>3, <2>1, NewCreateOK, RequestMoves DEF CreateByTool
<1> QED
  BY <1>1, <1>2, <1>3

LEMMA WizardStepTables ==
  ASSUME TypeOK, TablesInv, NEW w \in Wizards, WizardStep(w)
  PROVE  TablesInv'
<1>1. UNCHANGED tables
  BY DEF WizardStep, OpenWizard, CloseWizard, LoadSubscriptions, EditWizard,
     DeployAgent, DeployGrant, DeployLink, PostNextLink
<1>2. CASE DeployAgent(w)
  <2>1. PICK role, s : call' = [call EXCEPT ![w] = NewCreate(role, s)]
    BY <1>2 DEF DeployAgent
  <2> QED
    BY <1>1, <2>1, NewCreateOK, RequestMoves DEF Clients
<1>3. CASE PostNextLink(w)
  <2>1. PICK s : call' = [call EXCEPT ![w] = NewLink(wizard[w].agentId, s)]
    BY <1>3 DEF PostNextLink
  <2> QED
    BY <1>1, <2>1, NewLinkOK, RequestMoves DEF Clients
<1>4. CASE UNCHANGED call
  BY <1>1, <1>4 DEF tables, TablesInv, RowsInOrder, CallOK,
     RequestOK, LooksForSender, SendersOf, LinksOf,
     OneSenderUnlessOverlapping, LinkedOnceUnlessOverlapping
<1> QED
  BY <1>2, <1>3, <1>4 DEF WizardStep, OpenWizard, CloseWizard,
     LoadSubscriptions, EditWizard, DeployGrant, DeployLink

LEMMA NextTables ==
  ASSUME TypeOK, TablesInv, [Next]_vars
  PROVE  TablesInv'
<1>1. ASSUME NEW c \in Clients, BackendStep(c)
      PROVE  TablesInv'
  <2>1. CASE FailCall(c)
    BY <2>1, RequestEnds DEF FailCall
  <2> QED
    BY <1>1, <2>1, CheckStepTables, CreateAgentTables, LinkStepTables,
       CreateAgentSubscriptionTables DEF BackendStep
<1>2. ASSUME NEW w \in Wizards, WizardStep(w)
      PROVE  TablesInv'
  BY <1>2, WizardStepTables
<1>3. ASSUME NEW p \in Pages, PageStep(p)
      PROVE  TablesInv'
  BY <1>3, CallerStepTables DEF PageStep, Clients
<1>4. ASSUME NEW t \in Tools, ToolStep(t)
      PROVE  TablesInv'
  BY <1>4, CallerStepTables DEF ToolStep, PageStep, Clients
<1>5. CASE UNCHANGED vars
  BY <1>5 DEF vars, tables, TablesInv, RowsInOrder, CallOK,
     RequestOK, LooksForSender, SendersOf, LinksOf,
     OneSenderUnlessOverlapping, LinkedOnceUnlessOverlapping
<1> QED
  BY <1>1, <1>2, <1>3, <1>4, <1>5 DEF Next

-----------------------------------------------------------------------------
(* The theorems. *)

LEMMA AgentInvariant ==
  Spec => []AgentInv
<1>1. Init => AgentInv
  BY AgentAssumption, NothingAssumption
  DEF Init, AgentInv, TypeOK, WizardInv, WizardOK, TablesInv, RowsInOrder,
      CallOK, OneSenderUnlessOverlapping, LinkedOnceUnlessOverlapping
<1>2. AgentInv /\ [Next]_vars => AgentInv'
  BY NextType, NextWizard, NextTables DEF AgentInv
<1> QED
  BY <1>1, <1>2, PTL DEF Spec

(* Every row, request and wizard is what its type says; in particular no    *)
(* row of the table agents has a role its CHECK does not allow.             *)
THEOREM TypeCorrect ==
  Spec => []TypeOK
<1>1. AgentInv => TypeOK
  BY DEF AgentInv
<1> QED
  BY <1>1, AgentInvariant, PTL

(* For any number of wallets, streams and clients, a stream gets a second   *)
(* sender agent only from requests to POST /agents that overlapped.         *)
THEOREM OneSenderCorrect ==
  Spec => []OneSenderUnlessOverlapping
<1>1. AgentInv => OneSenderUnlessOverlapping
  BY DEF AgentInv, TablesInv
<1> QED
  BY <1>1, AgentInvariant, PTL

(* Likewise an agent is linked twice to a stream only by requests to POST   *)
(* /agent-subscriptions that overlapped.                                    *)
THEOREM LinkedOnceCorrect ==
  Spec => []LinkedOnceUnlessOverlapping
<1>1. AgentInv => LinkedOnceUnlessOverlapping
  BY DEF AgentInv, TablesInv
<1> QED
  BY <1>1, AgentInvariant, PTL

(* However often its buttons were pressed, a wizard that shows the links as *)
(* done has had every stream of its last run linked to its agent.           *)
THEOREM DoneIsLinkedCorrect ==
  Spec => []DoneIsLinked
<1>1. AgentInv => DoneIsLinked
  BY DEF AgentInv, WizardInv, WizardOK, DoneIsLinked
<1> QED
  BY <1>1, AgentInvariant, PTL
=============================================================================
