------------------------ MODULE LangGraphRunsProofs ------------------------
(***************************************************************************)
(* Proofs about LangGraphRuns, for any requests, processes, threads and    *)
(* deployments: the types, and that the tools of a template which requires *)
(* approval wait for it.  The invariant behind the second says three       *)
(* things: names are given once and kept (NamesInv), what a thread holds   *)
(* and what a call carries belong to the run of that name (ThreadsInv,     *)
(* LegsInv), and a state that is past its gate, or will be when its node   *)
(* is done, is a released run's (GateInv).  For calls that take turns, a   *)
(* second invariant (TurnInv) says which items a thread has called and     *)
(* gathered where it stands, and what its stored run shows of it: nothing  *)
(* is called twice, and a run at rest shows where its thread stands.       *)
(***************************************************************************)
EXTENDS LangGraphRuns, FiniteSetTheorems, TLAPS

(* What the variables hold.                                                *)
Name == [place : Place, id : Id]
Stored == [status : Status, task : {"pending", None}]
Leg == [call : {"run", "resume", "supplement"}, at : Replica, request : Request,
        step : {"name", "node", "respond", "inject", "invoke"}, id : Id \cup {0},
        decision : Decision \cup {None}, state : RunState \cup {None},
        todo : SUBSET Item, done : SUBSET Entry]

TypeOK == /\ deployment \in Deployments
          /\ count \in [Replica -> Nat]
          /\ saver \in [Place -> [Id -> RunState \cup {None}]]
          /\ runs \in [Replica -> [Id -> Response \cup {None}]]
          /\ tasks \in [Replica -> [Id -> {"pending", None} \cup Decision]]
          /\ mirror \in [Request -> Stored \cup {None}]
          /\ leg \in [Worker -> Leg \cup {Idle}]
          /\ ident \in [Request -> Name \cup {None}]
          /\ invoked \in [Request -> [Item -> 0 .. 2]]
          /\ approved \in SUBSET Request
          /\ restarts \in Nat

-----------------------------------------------------------------------------
(* A run is named once, by one call; what a process has counted since it   *)
(* started are runs that have a name or are about to get one.              *)
Naming(w) == leg[w] # Idle /\ leg[w].step = "name"
Named(x) == {r \in Request : \/ ident[r] # None
                             \/ \E w \in Worker : Naming(w) /\ leg[w].at = x /\ leg[w].request = r}
NamesInv ==
    /\ \A w \in Worker : Naming(w) =>
           /\ leg[w].call = "run" /\ ident[leg[w].request] = None /\ count[leg[w].at] >= 1
           /\ \A v \in Worker : Naming(v) /\ leg[v].request = leg[w].request => v = w
    /\ \A x \in Replica : count[x] <= Cardinality(Named(x))
    /\ \A r \in Request : mirror[r] # None => ident[r] # None

(* A thread, and the state a call carries, belong to the run of that name; *)
(* a call about a run goes to the run's own name.                          *)
NameOf(p, id) == [place |-> p, id |-> id]
Owns(s, p, id) == ident[s.request] = NameOf(p, id)
ThreadsInv == \A p \in Place, id \in Id : saver[p][id] # None => Owns(saver[p][id], p, id)
LegsInv ==
    \A w \in Worker : leg[w] # Idle =>
        /\ leg[w].step # "name" => leg[w].id \in Id /\ ident[leg[w].request] # None
        /\ leg[w].step \in {"node", "respond"} =>
               leg[w].state # None /\ Owns(leg[w].state, BuildCheckpointer(leg[w].at), leg[w].id)
        /\ leg[w].step = "invoke" => Thread(leg[w].at, leg[w].id) # None
        /\ leg[w].step \in {"inject", "invoke"} => leg[w].call # "run" /\ leg[w].id = ident[leg[w].request].id
        /\ leg[w].step \in {"inject", "invoke"} /\ leg[w].decision = "approved" => leg[w].request \in approved
BaseInv == TypeOK /\ NamesInv /\ ThreadsInv /\ LegsInv

-----------------------------------------------------------------------------
(* The runs whose tools may be called: of templates that hold none, the    *)
(* approved ones, and those that share their name, which are not promised. *)
Released == {r \in Request : TemplateOf(r).held => r \in approved \/ SharesName(r)}

(* A state that is past its gate, or will be when its node is done.        *)
Past(s) == s.approval = "approved" \/ s.next \in {"ApprovalApproved", "ToolExec"} \/ s.last = "ApprovalApproved"
Gated(s) == /\ Past(s) => s.request \in Released
            /\ s.next = "KnowledgeRetrieve" => ~TemplateOf(s.request).held

GateInv ==
    /\ \A p \in Place, id \in Id : saver[p][id] # None => Gated(saver[p][id])
    /\ \A w \in Worker : leg[w] # Idle /\ leg[w].step \in {"node", "respond"} => Gated(leg[w].state)
    /\ \A w \in Worker : leg[w] # Idle /\ leg[w].step = "node" => leg[w].todo \subseteq ItemsOf(leg[w].state)
    /\ \A r \in Request : (\E i \in Item : invoked[r][i] > 0) => r \in Released

-----------------------------------------------------------------------------
(* Settings, templates and places.                                         *)
LEMMA Settings ==
    ASSUME TypeOK
    PROVE  /\ deployment.template \in [Request -> DOMAIN Templates] /\ deployment.subgraph \in BOOLEAN
           /\ deployment.replicas \subseteq Replica /\ deployment.requests \subseteq Request
           /\ deployment.threads \in 1 .. Cardinality(Worker) /\ deployment.restarts \in Nat
  BY DeploymentsAssumption DEF TypeOK

LEMMA TemplateFacts ==
    ASSUME TypeOK, NEW r \in Request
    PROVE  /\ TemplateOf(r).tools \subseteq Item /\ TemplateOf(r).held \in BOOLEAN
           /\ TemplateOf(r).held => deployment.template[r] # "knowledge_qa"
  <1>1. PICK t \in DOMAIN Templates : t = deployment.template[r]
    BY Settings
  <1>2. Templates[t].held \in BOOLEAN /\ (Templates[t].held => t # "knowledge_qa")
    <2>1. t \in {"knowledge_qa", "ticket_summary", "rca"}
      BY DEF Templates
    <2>2. /\ Templates["knowledge_qa"].held = FALSE /\ Templates["ticket_summary"].held = FALSE
          /\ Templates["rca"].held = TRUE
      BY DEF Templates
    <2>3. CASE t = "rca"
      BY <2>2, <2>3
    <2>4. CASE t = "knowledge_qa"
      BY <2>2, <2>4
    <2>5. CASE t = "ticket_summary"
      BY <2>2, <2>5
    <2> QED BY <2>1, <2>3, <2>4, <2>5
  <1>3. Templates[t].tools \subseteq Item
    BY DEF Item
  <1> QED BY <1>1, <1>2, <1>3 DEF TemplateOf

LEMMA PlaceFacts ==
    ASSUME NEW x \in Replica
    PROVE  /\ BuildCheckpointer(x) \in Place /\ x \in Place
           /\ \A y \in Replica : BuildCheckpointer(x) = y => x = y
  BY NoneAssumption DEF BuildCheckpointer, ConstructRemoteSaver, Place

LEMMA IdFacts == Cardinality(Request) \in Nat /\ Id \subseteq Nat /\ 0 \notin Id
                 /\ \A n \in Nat : n \in Id <=> 1 <= n /\ n <= Cardinality(Request)
  BY RequestsAssumption, FS_CardinalityType DEF Id

-----------------------------------------------------------------------------
(* The calls of a run, and what a node leaves of them.                     *)
LEMMA CallsMade == ASSUME NEW S \in SUBSET Item, NEW f \in [S -> CallStatus] PROVE f \in Calls
  BY DEF Calls

LEMMA CallsHave == ASSUME NEW c \in Calls
                   PROVE  DOMAIN c \subseteq Item /\ c \in [DOMAIN c -> CallStatus]
  <1>1. PICK S \in SUBSET Item : c \in [S -> CallStatus]
    BY DEF Calls
  <1> QED BY <1>1

LEMMA StatusInType ==
    ASSUME NEW done \in SUBSET Entry, NEW i, NEW other \in CallStatus
    PROVE  StatusIn(done, i, other) \in CallStatus
  <1>1. CASE \E e \in done : e.item = i
    <2>1. (CHOOSE e \in done : e.item = i) \in Entry
      BY <1>1
    <2>2. \A e \in Entry : e.status \in CallStatus
      BY DEF Entry, Outcomes, CallStatus
    <2> QED BY <1>1, <2>1, <2>2 DEF StatusIn
  <1>2. CASE ~\E e \in done : e.item = i
    BY <1>2 DEF StatusIn
  <1> QED BY <1>1, <1>2

LEMMA SetPlannedType == ASSUME NEW c \in Calls, NEW to \in CallStatus PROVE SetPlanned(c, to) \in Calls
  <1>1. SetPlanned(c, to) \in [DOMAIN c -> CallStatus]
    BY CallsHave DEF SetPlanned
  <1> QED BY <1>1, CallsHave, CallsMade

LEMMA StateFields ==
    ASSUME NEW s \in RunState
    PROVE  /\ s.request \in Request /\ s.status \in Status /\ s.approval \in Approval /\ s.calls \in Calls
           /\ s.results \in SUBSET Entry /\ s.output \in SUBSET Entry /\ s.last \in Node \cup {"START"}
           /\ s.next \in Node
  BY DEF RunState, Approval, Calls, Entry, Outcomes

(* A state after its calls, its results, its status or its approval were   *)
(* replaced.                                                               *)
Like(t, s) == /\ t \in RunState /\ t.request = s.request /\ t.next = s.next /\ t.last = s.last
LEMMA WithCalls == ASSUME NEW s \in RunState, NEW c \in Calls, NEW t, t = [s EXCEPT !.calls = c]
                   PROVE  Like(t, s) /\ t.approval = s.approval
  BY DEF Like, RunState, Calls
LEMMA WithResults == ASSUME NEW s \in RunState, NEW o \in SUBSET Entry, NEW t, t = [s EXCEPT !.results = o]
                     PROVE  Like(t, s) /\ t.approval = s.approval
  BY DEF Like, RunState, Entry, Outcomes
LEMMA WithStatus == ASSUME NEW s \in RunState, NEW v \in Status, NEW t, t = [s EXCEPT !.status = v]
                    PROVE  Like(t, s) /\ t.approval = s.approval
  BY DEF Like, RunState
LEMMA WithApproval == ASSUME NEW s \in RunState, NEW a \in Approval, NEW t, t = [s EXCEPT !.approval = a]
                      PROVE  Like(t, s) /\ t.approval = a
  BY DEF Like, RunState, Approval

LEMMA ExecutedFacts ==
    ASSUME TypeOK, NEW s \in RunState, NEW done \in SUBSET Entry
    PROVE  /\ Like(Executed(s, done), s)
           /\ Executed(s, done).approval = "approved" => s.approval = "approved" \/ s.next = "ApprovalApproved"
  <1> SUFFICES ASSUME NEW t, t = Executed(s, done)
               PROVE  /\ Like(t, s)
                      /\ t.approval = "approved" => s.approval = "approved" \/ s.next = "ApprovalApproved"
    OBVIOUS
  <1>0. {"waiting_approval", "supplement_pending", "completed", "failed"} \subseteq Status
        /\ {"approved", "rejected", "not_required"} \subseteq Approval
        /\ {"planned", "completed", "skipped"} \subseteq CallStatus
    BY DEF Status, Approval, Decision, CallStatus
  <1>1. CASE s.next = "ToolPlan"
    <2>1. PICK c : c = [i \in ToolsOf(s) |->
                 IF deployment.subgraph \/ TemplateOf(s.request).held THEN "planned" ELSE StatusIn(done, i, "completed")]
      OBVIOUS
    <2>2. \A i : StatusIn(done, i, "completed") \in CallStatus
      BY <1>0, StatusInType
    <2>3. c \in [ToolsOf(s) -> CallStatus] /\ ToolsOf(s) \in SUBSET Item
      BY <1>0, <2>1, <2>2, StateFields, TemplateFacts DEF ToolsOf
    <2>4. c \in Calls
      BY <2>3, CallsMade
    <2>5. Executed(s, done) = [s EXCEPT !.calls = c]
      BY <1>1, <2>1 DEF Executed, NodeToolPlan
    <2> QED BY <2>4, <2>5, WithCalls
  <1>2. CASE s.next \in {"ToolExec", "KnowledgeRetrieve"}
    <2>1. Executed(s, done) = [s EXCEPT !.results = s.results \cup done]
      BY <1>2 DEF Executed, NodeToolExec, NodeKnowledgeRetrieve
    <2>2. s.results \cup done \in SUBSET Entry
      BY StateFields
    <2> QED BY <2>1, <2>2, WithResults
  <1>3. CASE s.next = "ToolAggregate"
    <2> DEFINE res == {e \in s.results : e.item \notin Scope}
               own == {e \in res : e.request = s.request}
               c == [i \in DOMAIN s.calls |-> StatusIn(own, i, StatusIn(res, i, s.calls[i]))]
    <2>1. res \in SUBSET Entry /\ own \in SUBSET Entry
      BY StateFields
    <2>2. Executed(s, done) = [s EXCEPT !.calls = c, !.output = res]
      BY <1>3 DEF Executed, NodeToolAggregate
    <2> HIDE DEF res, own
    <2>3. DOMAIN s.calls \in SUBSET Item /\ s.calls \in [DOMAIN s.calls -> CallStatus]
      BY StateFields, CallsHave
    <2>4. \A i \in DOMAIN s.calls : StatusIn(own, i, StatusIn(res, i, s.calls[i])) \in CallStatus
      BY <2>1, <2>3, StatusInType
    <2>5. c \in [DOMAIN s.calls -> CallStatus]
      BY <2>4
    <2> HIDE DEF c
    <2>6. c \in Calls
      BY <2>3, <2>5, CallsMade
    <2> QED BY <2>1, <2>2, <2>6 DEF Like, RunState, Calls, Entry, Outcomes
  <1>4. CASE s.next = "KnowledgeAggregate"
    <2> DEFINE res == {e \in s.results : e.item \in Scope}
               items == {e.item : e \in res}
               c == [i \in items |-> StatusIn(res, i, "completed")]
    <2>1. res \in SUBSET Entry
      BY StateFields
    <2>2. Executed(s, done) = [s EXCEPT !.calls = c, !.output = res]
      BY <1>4 DEF Executed, NodeKnowledgeAggregate
    <2> HIDE DEF res
    <2>3. items \in SUBSET Item
      BY <2>1 DEF Entry
    <2> HIDE DEF items
    <2>4. \A i \in items : StatusIn(res, i, "completed") \in CallStatus
      BY <1>0, <2>1, StatusInType
    <2>5. c \in [items -> CallStatus]
      BY <2>4
    <2> HIDE DEF c
    <2>6. c \in Calls
      BY <2>3, <2>5, CallsMade
    <2> QED BY <2>1, <2>2, <2>6 DEF Like, RunState, Calls, Entry, Outcomes
  <1>5. CASE s.next \in {"ApprovalRequired", "SupplementRequired"}
    <2>1. \/ t = [s EXCEPT !.status = "waiting_approval"]
          \/ t = [s EXCEPT !.status = "supplement_pending"]
      BY <1>5 DEF Executed, NodeApprovalRequired, NodeSupplementRequired
    <2> QED BY <1>0, <2>1, WithStatus
  <1>6. CASE s.next = "ApprovalApproved"
    <2>1. PICK c : c = IF deployment.subgraph THEN s.calls ELSE SetPlanned(s.calls, "completed")
      OBVIOUS
    <2>2. c \in Calls
      BY <1>0, <2>1, StateFields, SetPlannedType
    <2>3. Executed(s, done) = [s EXCEPT !.status = "completed", !.approval = "approved", !.calls = c]
      BY <1>6, <2>1 DEF Executed, NodeApprovalApproved
    <2> QED BY <1>0, <1>6, <2>2, <2>3 DEF Like, RunState, Calls, Approval
  <1>7. CASE s.next = "ApprovalRejected"
    <2>1. Executed(s, done) = [s EXCEPT !.status = "failed", !.approval = "rejected",
                                        !.calls = SetPlanned(s.calls, "skipped")]
      BY <1>7 DEF Executed, NodeApprovalRejected
    <2>2. SetPlanned(s.calls, "skipped") \in Calls
      BY <1>0, StateFields, SetPlannedType
    <2> QED BY ZenonT(40), <1>0, <2>1, <2>2 DEF Like, RunState, Calls, Approval
  <1>8. CASE s.next = "Completed"
    <2>1. Executed(s, done) = [s EXCEPT !.status = "completed", !.approval = "not_required"]
      BY <1>8 DEF Executed, NodeCompleted
    <2> QED BY <1>0, <2>1 DEF Like, RunState, Approval
  <1>9. CASE s.next \in {"TemplateLoaded", "RunStarted", "END"}
    <2>1. Executed(s, done) = s
      BY <1>9 DEF Executed
    <2> QED BY <2>1 DEF Like
  <1> QED BY <1>1, <1>2, <1>3, <1>4, <1>5, <1>6, <1>7, <1>8, <1>9, StateFields DEF Node

LEMMA EdgeFacts ==
    ASSUME TypeOK, NEW s \in RunState, NEW node \in Node
    PROVE  /\ Edge(node, s) \in Node
           /\ Edge(node, s) = "KnowledgeRetrieve" => ~TemplateOf(s.request).held
           /\ Edge(node, s) = "ApprovalApproved" => s.approval = "approved"
           /\ Edge(node, s) = "ToolExec" => ~TemplateOf(s.request).held \/ node = "ApprovalApproved"
  <1>0. TemplateOf(s.request).held => deployment.template[s.request] # "knowledge_qa"
    BY StateFields, TemplateFacts
  <1>1. CASE node = "RunStarted"
    <2>1. Edge(node, s) = RouteAfterRunStarted(s)
      BY <1>1 DEF Edge
    <2> QED BY <1>0, <2>1 DEF RouteAfterRunStarted, Node
  <1>2. CASE node = "ToolPlan"
    <2>1. Edge(node, s) = RouteAfterToolPlan(s)
      BY <1>2 DEF Edge
    <2> QED BY <2>1 DEF RouteAfterToolPlan, Node
  <1>3. CASE node = "ToolAggregate"
    <2>1. Edge(node, s) = RouteAfterToolAggregate(s)
      BY <1>3 DEF Edge
    <2> QED BY <2>1 DEF RouteAfterToolAggregate, Node
  <1>4. CASE node = "ApprovalRequired"
    <2>1. Edge(node, s) = RouteAfterApproval(s)
      BY <1>4 DEF Edge
    <2> QED BY <2>1 DEF RouteAfterApproval, Node
  <1>5. CASE node = "ApprovalApproved"
    <2>1. Edge(node, s) = RouteAfterApprovalApproved(s)
      BY <1>5 DEF Edge
    <2> QED BY <1>5, <2>1 DEF RouteAfterApprovalApproved, Node
  <1>6. CASE node \notin {"RunStarted", "ToolPlan", "ToolAggregate", "ApprovalRequired", "ApprovalApproved"}
    <2>1. Edge(node, s) \in {"RunStarted", "ToolPlan", "KnowledgeAggregate", "Completed", "ToolAggregate", "END"}
      BY <1>6 DEF Edge, Node
    <2> QED BY <2>1 DEF Node
  <1> QED BY <1>1, <1>2, <1>3, <1>4, <1>5, <1>6

-----------------------------------------------------------------------------
(* From node to node.                                                      *)
LEMMA MovedFacts ==
    ASSUME TypeOK, NEW s \in RunState, NEW node \in Node
    PROVE  /\ Moved(s, node) \in RunState /\ Moved(s, node).request = s.request
           /\ Moved(s, node).approval = s.approval /\ Moved(s, node).last = node
           /\ Moved(s, node).next = Edge(node, s)
  <1>1. PICK n \in Node : n = Edge(node, s)
    BY EdgeFacts
  <1>2. PICK t : t = [s EXCEPT !.last = node, !.next = n]
    OBVIOUS
  <1>3. t \in RunState /\ t.request = s.request /\ t.approval = s.approval /\ t.last = node /\ t.next = n
    BY <1>2 DEF RunState
  <1>4. Moved(s, node) = t
    BY <1>1, <1>2 DEF Moved
  <1> QED BY <1>1, <1>3, <1>4

LEMMA ReleasedFree == ASSUME TypeOK, NEW r \in Request, ~TemplateOf(r).held PROVE r \in Released
  BY DEF Released

LEMMA ExecutesGated ==
    ASSUME TypeOK, NEW s \in RunState, NEW done \in SUBSET Entry
    PROVE  LET t == Moved(Executed(s, done), s.next)
           IN  t \in RunState /\ t.request = s.request /\ (Gated(s) => Gated(t))
  <1>1. PICK e \in RunState : /\ e = Executed(s, done) /\ e.request = s.request
                              /\ e.approval = "approved" => s.approval = "approved" \/ s.next = "ApprovalApproved"
    BY ExecutedFacts DEF Like
  <1>2. s.next \in Node /\ s.request \in Request
    BY StateFields
  <1>3. PICK t \in RunState : /\ t = Moved(e, s.next) /\ t.request = s.request /\ t.approval = e.approval
                              /\ t.last = s.next /\ t.next = Edge(s.next, e)
    BY <1>1, <1>2, MovedFacts
  <1>4. /\ Edge(s.next, e) = "KnowledgeRetrieve" => ~TemplateOf(e.request).held
        /\ Edge(s.next, e) = "ApprovalApproved" => e.approval = "approved"
        /\ Edge(s.next, e) = "ToolExec" => ~TemplateOf(e.request).held \/ s.next = "ApprovalApproved"
    BY <1>2, EdgeFacts
  <1>5. /\ t.next = "KnowledgeRetrieve" => ~TemplateOf(s.request).held
        /\ t.next = "ApprovalApproved" => t.approval = "approved"
        /\ t.next = "ToolExec" => ~TemplateOf(s.request).held \/ s.next = "ApprovalApproved"
    BY <1>1, <1>3, <1>4
  <1>6. ASSUME Gated(s) PROVE Gated(t)
    <2>1. ASSUME Past(t) PROVE t.request \in Released
      <3>1. Past(s) \/ ~TemplateOf(s.request).held
        BY <1>1, <1>2, <1>3, <1>5, <2>1 DEF Past
      <3> QED BY <1>2, <1>3, <1>6, <3>1, ReleasedFree DEF Gated
    <2> QED BY <1>3, <1>5, <2>1 DEF Gated
  <1> QED BY <1>1, <1>3, <1>6

LEMMA UpdatesGated ==
    ASSUME TypeOK, NEW s \in RunState, NEW d \in Decision \cup {None}
    PROVE  LET t == UpdateState(s, d)
           IN  /\ t \in RunState /\ t.request = s.request
               /\ Gated(s) /\ (d = "approved" => s.request \in Released) => Gated(t)
  <1>0. PICK e : e = IF d = None THEN s ELSE [s EXCEPT !.approval = d]
    OBVIOUS
  <1>1. /\ e \in RunState /\ e.request = s.request /\ e.next = s.next /\ e.last = s.last
        /\ e.approval \in {s.approval, d}
    <2>1. CASE d = None
      BY <1>0, <2>1
    <2>2. CASE d # None
      <3>1. d \in Approval /\ e = [s EXCEPT !.approval = d]
        BY <1>0, <2>2 DEF Approval
      <3> QED BY <3>1, WithApproval DEF Like
    <2> QED BY <2>1, <2>2
  <1>2. s.last \in Node \cup {"START"} /\ s.next \in Node /\ s.request \in Request
    BY StateFields
  <1>3. CASE s.last = "START"
    <2>1. UpdateState(s, d) = e
      BY <1>0, <1>1, <1>3 DEF UpdateState
    <2> QED BY <1>1, <2>1 DEF Gated, Past
  <1>4. CASE s.last # "START"
    <2>1. PICK t \in RunState : /\ t = Moved(e, s.last) /\ t.request = s.request /\ t.approval = e.approval
                                /\ t.last = s.last /\ t.next = Edge(s.last, e)
      BY <1>1, <1>2, <1>4, MovedFacts
    <2>2. UpdateState(s, d) = t
      BY <1>0, <1>1, <1>4, <2>1 DEF UpdateState
    <2>3. ASSUME Gated(s), d = "approved" => s.request \in Released PROVE Gated(t)
      <3>1. ASSUME Past(t) PROVE t.request \in Released
        <4>1. Past(s) \/ ~TemplateOf(s.request).held \/ d = "approved"
          BY <1>1, <1>2, <1>4, <2>1, <3>1, EdgeFacts DEF Past
        <4> QED BY <1>2, <2>1, <2>3, <4>1, ReleasedFree DEF Gated
      <3>2. t.next = "KnowledgeRetrieve" => ~TemplateOf(s.request).held
        BY <1>1, <1>2, <1>4, <2>1, EdgeFacts
      <3> QED BY <2>1, <3>1, <3>2 DEF Gated
    <2> QED BY <2>1, <2>2, <2>3
  <1> QED BY <1>3, <1>4

LEMMA SourcesAre ==
    ASSUME TypeOK, NEW r \in Request
    PROVE  KnowledgeSources(r) \subseteq Scope /\ KnowledgeSources(r) \subseteq Item
  <1>1. deployment.scopes \in [Request -> SUBSET (Scope \cup {None})]
    BY DeploymentsAssumption DEF TypeOK
  <1>2. KnowledgeSources(r) \subseteq Scope
    BY <1>1, ScopeAssumption DEF KnowledgeSources
  <1> QED BY <1>2 DEF Item

LEMMA ItemsFacts ==
    ASSUME TypeOK, NEW s \in RunState
    PROVE  ItemsOf(s) \subseteq Item /\ (Gated(s) /\ ItemsOf(s) # {} => s.request \in Released)
  <1>1. ToolsOf(s) \subseteq Item /\ KnowledgeSources(s.request) \subseteq Item /\ s.request \in Request
    BY StateFields, TemplateFacts, SourcesAre DEF ToolsOf
  <1>2. CASE s.next = "ToolExec"
    <2>1. ItemsOf(s) = ToolsOf(s)
      BY <1>2 DEF ItemsOf
    <2> QED BY <1>1, <1>2, <2>1 DEF Gated, Past
  <1>3. CASE s.next = "KnowledgeRetrieve"
    <2>1. ItemsOf(s) = KnowledgeSources(s.request)
      BY <1>3 DEF ItemsOf
    <2> QED BY <1>1, <1>3, <2>1, ReleasedFree DEF Gated
  <1>4. CASE s.next = "ToolPlan" /\ ~deployment.subgraph /\ ~TemplateOf(s.request).held
    <2>1. ItemsOf(s) = ToolsOf(s)
      BY <1>4 DEF ItemsOf
    <2> QED BY <1>1, <1>4, <2>1, ReleasedFree
  <1>5. CASE /\ s.next \notin {"ToolExec", "KnowledgeRetrieve"}
             /\ ~(s.next = "ToolPlan" /\ ~deployment.subgraph /\ ~TemplateOf(s.request).held)
    <2>1. ItemsOf(s) = {}
      BY <1>5 DEF ItemsOf
    <2> QED BY <2>1
  <1> QED BY <1>2, <1>3, <1>4, <1>5

LEMMA InitialFacts ==
    ASSUME TypeOK, NEW r \in Request, NEW kept \in SUBSET Entry
    PROVE  Initial(r, kept) \in RunState /\ Initial(r, kept).request = r /\ Gated(Initial(r, kept))
  <1>1. << >> \in Calls
    <2>1. << >> \in [{} -> CallStatus]
      OBVIOUS
    <2> QED BY <2>1, CallsMade
  <1>2. PICK c \in Calls : c = << >>
    BY <1>1
  <1>3. PICK s : s = [request |-> r, status |-> "running", approval |-> "not_required", calls |-> c,
                      results |-> kept, output |-> {}, last |-> "START", next |-> "TemplateLoaded"]
    OBVIOUS
  <1>4. s \in RunState /\ s.request = r /\ s.approval = "not_required" /\ s.last = "START" /\ s.next = "TemplateLoaded"
    BY <1>3 DEF RunState, Status, Approval, Node, Calls, Entry, Outcomes
  <1>5. Initial(r, kept) = s
    BY <1>2, <1>3 DEF Initial
  <1>6. Gated(s)
    BY <1>4 DEF Gated, Past
  <1> QED BY <1>4, <1>5, <1>6

-----------------------------------------------------------------------------
(* Legs.                                                                   *)
LEMMA LegFacts ==
    ASSUME TypeOK, NEW w \in Worker, leg[w] # Idle
    PROVE  /\ leg[w] \in Leg /\ leg[w].call \in {"run", "resume", "supplement"} /\ leg[w].at \in Replica
           /\ leg[w].request \in Request /\ leg[w].step \in {"name", "node", "respond", "inject", "invoke"}
           /\ leg[w].id \in Id \cup {0} /\ leg[w].decision \in Decision \cup {None}
           /\ leg[w].state \in RunState \cup {None} /\ leg[w].todo \subseteq Item /\ leg[w].done \in SUBSET Entry
  BY DEF TypeOK, Leg

LEMMA IdleNoLeg == \A l \in Leg : l # Idle
  <1>1. \A l \in Leg : l.step # "idle"
    BY DEF Leg
  <1>2. Idle.step = "idle"
    BY DEF Idle
  <1> QED BY <1>1, <1>2

Others(w) == /\ leg' \in [Worker -> Leg \cup {Idle}]
             /\ \A v \in Worker \ {w} : leg'[v] = leg[v]
LEMMA LegSet == ASSUME TypeOK, NEW w \in Worker, NEW l \in Leg \cup {Idle}, leg' = [leg EXCEPT ![w] = l]
                PROVE  Others(w) /\ leg'[w] = l
  BY DEF TypeOK, Others

Halts(s) == s.next = "END" \/ s.next \in InterruptNodes
Same(l, m) == /\ l.call = m.call /\ l.at = m.at /\ l.request = m.request /\ l.id = m.id
              /\ l.decision = m.decision
LEMMA OnwardsFacts ==
    ASSUME TypeOK, NEW l \in Leg, NEW s \in RunState
    PROVE  /\ Onwards(l, s) \in Leg /\ Same(Onwards(l, s), l) /\ Onwards(l, s).state = s
           /\ Onwards(l, s).done = {} /\ Onwards(l, s).step = (IF Halts(s) THEN "respond" ELSE "node")
           /\ \/ Onwards(l, s).step = "respond"
              \/ Onwards(l, s).step = "node" /\ Onwards(l, s).todo = ItemsOf(s)
  <1>1. PICK items \in SUBSET Item : items = ItemsOf(s)
    BY ItemsFacts
  <1>2. PICK o : o = Onwards(l, s)
    OBVIOUS
  <1>3. ASSUME o = [l EXCEPT !.state = s, !.step = "respond", !.todo = {}, !.done = {}]
        PROVE  o \in Leg /\ Same(o, l) /\ o.state = s /\ o.step = "respond" /\ o.done = {}
    BY <1>3 DEF Leg, Same
  <1>4. ASSUME o = [l EXCEPT !.state = s, !.step = "node", !.todo = items, !.done = {}]
        PROVE  o \in Leg /\ Same(o, l) /\ o.state = s /\ o.step = "node" /\ o.todo = items /\ o.done = {}
    BY <1>4 DEF Leg, Same
  <1>5. IF Halts(s) THEN o = [l EXCEPT !.state = s, !.step = "respond", !.todo = {}, !.done = {}]
        ELSE o = [l EXCEPT !.state = s, !.step = "node", !.todo = items, !.done = {}]
    BY <1>1, <1>2 DEF Onwards, Halts
  <1> QED BY <1>1, <1>2, <1>3, <1>4, <1>5

-----------------------------------------------------------------------------
(* Threads.                                                                *)
Put(p, id, s) == /\ saver' \in [Place -> [Id -> RunState \cup {None}]]
                 /\ \A q \in Place, i \in Id :
                        saver'[q][i] = IF q = p /\ i = id THEN s ELSE saver[q][i]
LEMMA SaveDoes ==
    ASSUME TypeOK, NEW x \in Replica, NEW id \in Id, NEW s \in RunState, Save(x, id, s)
    PROVE  Put(BuildCheckpointer(x), id, s)
  <1>1. PICK p \in Place : p = BuildCheckpointer(x)
    BY PlaceFacts
  <1>2. saver' = [saver EXCEPT ![p][id] = s]
    BY <1>1 DEF Save
  <1>3. Put(p, id, s)
    BY <1>2 DEF Put, TypeOK
  <1> QED BY <1>1, <1>3

LEMMA ThreadType ==
    ASSUME TypeOK, NEW x \in Replica, NEW id \in Id, Thread(x, id) # None
    PROVE  /\ Thread(x, id) \in RunState
           /\ BuildCheckpointer(x) \in Place /\ Thread(x, id) = saver[BuildCheckpointer(x)][id]
  BY PlaceFacts DEF Thread, TypeOK

-----------------------------------------------------------------------------
(* What each action does.                                                  *)
Goes(w, call, x, r, step, id, d) ==
    /\ Others(w) /\ leg'[w] # Idle /\ leg'[w].call = call /\ leg'[w].at = x /\ leg'[w].request = r
    /\ leg'[w].step = step /\ leg'[w].id = id /\ leg'[w].decision = d /\ leg'[w].done = {}
Carries(w, s) == /\ leg'[w].state = s
                 /\ \/ leg'[w].step = "respond"
                    \/ leg'[w].step = "node" /\ leg'[w].todo = ItemsOf(s)
Onward(w, s) == /\ Carries(w, s) /\ leg'[w].done = {}
                /\ leg'[w].step = (IF Halts(s) THEN "respond" ELSE "node")
Successor(s, done) == Moved(Executed(s, done), s.next)
Stays(w) == /\ leg[w] # Idle /\ Others(w) /\ leg'[w] # Idle /\ leg'[w].call = leg[w].call
            /\ leg'[w].at = leg[w].at /\ leg'[w].request = leg[w].request /\ leg'[w].decision = leg[w].decision
Rests(w) == Others(w) /\ leg'[w] = Idle

LEMMA RestsDoes == ASSUME TypeOK, NEW w \in Worker, leg' = [leg EXCEPT ![w] = Idle] PROVE Rests(w)
  BY LegSet DEF Rests

LEMMA RunDoes ==
    ASSUME TypeOK, NEW w \in Worker, NEW x \in Replica, NEW r \in Request, Run(w, x, r)
    PROVE  /\ UNCHANGED <<deployment, saver, runs, tasks, mirror, ident, invoked, approved, restarts>>
           /\ leg[w] = Idle /\ ident[r] = None /\ \A v \in Worker : leg[v] # Idle => leg[v].request # r
           /\ count' = [count EXCEPT ![x] = count[x] + 1]
           /\ Goes(w, "run", x, r, "name", 0, None) /\ Cardinality(Busy) < deployment.threads
  <1>0. PICK l : l = [call |-> "run", at |-> x, request |-> r, step |-> "name", id |-> 0,
                      decision |-> None, state |-> None, todo |-> {}, done |-> {}]
    OBVIOUS
  <1>1. /\ l \in Leg /\ l = LegOf("run", x, r, "name")
        /\ l.call = "run" /\ l.at = x /\ l.request = r /\ l.step = "name" /\ l.id = 0 /\ l.decision = None
        /\ l.done = {}
    BY <1>0 DEF LegOf, Leg
  <1>2. leg' = [leg EXCEPT ![w] = l]
    BY <1>1 DEF Run
  <1>3. Goes(w, "run", x, r, "name", 0, None)
    BY <1>1, <1>2, LegSet, IdleNoLeg DEF Goes
  <1> QED BY <1>3 DEF Run, Busy

(* The number a run is named by.                                           *)
LEMMA NumberFacts ==
    ASSUME BaseInv, NEW w \in Worker, Naming(w)
    PROVE  count[leg[w].at] \in Id
  <1>1. TypeOK /\ leg[w].at \in Replica
    BY LegFacts DEF BaseInv, Naming
  <1>2. count[leg[w].at] \in Nat /\ count[leg[w].at] >= 1
        /\ count[leg[w].at] <= Cardinality(Named(leg[w].at))
    BY <1>1 DEF BaseInv, NamesInv, TypeOK
  <1>3. IsFiniteSet(Named(leg[w].at)) /\ Cardinality(Named(leg[w].at)) <= Cardinality(Request)
    BY RequestsAssumption, FS_Subset DEF Named
  <1>4. Cardinality(Named(leg[w].at)) \in Nat
    BY <1>3, FS_CardinalityType
  <1> QED BY <1>2, <1>3, <1>4, IdFacts

Kept(p, id) == IF saver[p][id] = None THEN {} ELSE saver[p][id].results

LEMMA StartRunDoes ==
    ASSUME BaseInv, NEW w \in Worker, StartRun(w)
    PROVE  /\ UNCHANGED <<deployment, count, runs, tasks, mirror, invoked, approved, restarts>>
           /\ Naming(w) /\ Stays(w)
           /\ \E id \in Id, s \in RunState :
                  /\ leg'[w].id = id /\ Carries(w, s)
                  /\ Put(BuildCheckpointer(leg[w].at), id, s)
                  /\ s.request = leg[w].request /\ Gated(s) /\ Onward(w, s)
                  /\ s = Initial(leg[w].request, Kept(BuildCheckpointer(leg[w].at), id))
                  /\ ident' = [ident EXCEPT ![leg[w].request] = NameOf(BuildCheckpointer(leg[w].at), id)]
  <1>0. TypeOK
    BY DEF BaseInv
  <1>1. Naming(w)
    BY DEF StartRun, Naming
  <1>2. leg[w] # Idle /\ leg[w] \in Leg /\ leg[w].at \in Replica /\ leg[w].request \in Request
    BY <1>0, <1>1, LegFacts DEF Naming
  <1>3. PICK x \in Replica, id \in Id : x = leg[w].at /\ id = count[x]
    BY <1>1, <1>2, NumberFacts
  <1>4. PICK kept \in SUBSET Entry : kept = IF Thread(x, id) = None THEN {} ELSE Thread(x, id).results
    <2>1. Thread(x, id) # None => Thread(x, id).results \in SUBSET Entry
      BY <1>0, ThreadType, StateFields
    <2> QED BY <2>1
  <1>5. PICK s \in RunState : s = Initial(leg[w].request, kept) /\ s.request = leg[w].request /\ Gated(s)
    BY <1>0, <1>2, InitialFacts
  <1>6. PICK l : l = [leg[w] EXCEPT !.id = id]
    OBVIOUS
  <1>7. l \in Leg /\ l.id = id /\ l.call = leg[w].call /\ l.at = leg[w].at /\ l.request = leg[w].request
        /\ l.decision = leg[w].decision
    BY <1>2, <1>6 DEF Leg
  <1>8. PICK o \in Leg : /\ o = Onwards(l, s) /\ Same(o, l) /\ o.state = s
                         /\ o.step = "respond" \/ (o.step = "node" /\ o.todo = ItemsOf(s))
                         /\ o.done = {} /\ o.step = (IF Halts(s) THEN "respond" ELSE "node")
    BY <1>0, <1>7, OnwardsFacts
  <1>9. /\ Save(x, id, s)
        /\ ident' = [ident EXCEPT ![leg[w].request] = NameOf(BuildCheckpointer(x), id)]
        /\ leg' = [leg EXCEPT ![w] = o]
        /\ UNCHANGED <<deployment, count, runs, tasks, mirror, invoked, approved, restarts>>
    BY <1>3, <1>4, <1>5, <1>6, <1>8 DEF StartRun, NameOf
  <1>10. Others(w) /\ leg'[w] = o /\ o # Idle
    BY <1>0, <1>9, LegSet, IdleNoLeg
  <1>11. Put(BuildCheckpointer(leg[w].at), id, s)
    BY <1>0, <1>3, <1>9, SaveDoes
  <1>12. Stays(w) /\ Carries(w, s) /\ Onward(w, s) /\ leg'[w].id = id
    BY <1>2, <1>7, <1>8, <1>10 DEF Stays, Carries, Same, Onward
  <1>13. s = Initial(leg[w].request, Kept(BuildCheckpointer(leg[w].at), id))
    BY <1>3, <1>4, <1>5 DEF Kept, Thread
  <1> QED BY <1>1, <1>3, <1>5, <1>9, <1>11, <1>12, <1>13

(* One item more was called, and is no longer to do.                       *)
CallsOne(w, i, e) ==
    LET r == leg[w].state.request
    IN  /\ e.item = i /\ e.request = r
        /\ leg'[w].todo = leg[w].todo \ {i} /\ leg'[w].done = leg[w].done \cup {e}
        /\ invoked'[r][i] = IF invoked[r][i] < 2 THEN invoked[r][i] + 1 ELSE invoked[r][i]
        /\ \A j \in Item : j # i => invoked'[r][j] = invoked[r][j]

LEMMA InvokeDoes ==
    ASSUME TypeOK, LegsInv, NEW w \in Worker, InvokeTool(w) \/ InvokeScope(w)
    PROVE  /\ UNCHANGED <<deployment, count, saver, runs, tasks, mirror, ident, approved, restarts>>
           /\ Stays(w) /\ leg[w].step = "node" /\ leg'[w].step = "node" /\ leg'[w].id = leg[w].id
           /\ leg'[w].state = leg[w].state /\ leg[w].state \in RunState /\ leg'[w].todo \subseteq leg[w].todo
           /\ leg[w].todo # {}
           /\ invoked' \in [Request -> [Item -> 0 .. 2]]
           /\ \A r \in Request : r # leg[w].state.request => invoked'[r] = invoked[r]
           /\ \E i \in leg[w].todo, e \in Entry : CallsOne(w, i, e)
  <1>1. PICK items : Invoke(w, items)
    BY DEF InvokeTool, InvokeScope
  <1>2. leg[w] # Idle /\ leg[w].step = "node"
    BY <1>1 DEF Invoke
  <1>3. /\ leg[w] \in Leg /\ leg[w].state \in RunState /\ leg[w].todo \subseteq Item /\ leg[w].done \in SUBSET Entry
        /\ leg[w].state.request \in Request
    BY <1>2, LegFacts, StateFields DEF LegsInv
  <1>4. PICK r \in Request : r = leg[w].state.request
    BY <1>3
  <1>5. PICK i \in leg[w].todo, outcome \in Outcomes :
            /\ invoked' = [invoked EXCEPT ![r][i] = IF @ < 2 THEN @ + 1 ELSE @]
            /\ leg' = [leg EXCEPT ![w] = [leg[w] EXCEPT
                   !.todo = @ \ {i},
                   !.done = @ \cup {[item |-> i, status |-> outcome, request |-> r]}]]
    BY <1>1, <1>4 DEF Invoke, Outcomes
  <1>6. PICK e \in Entry : e = [item |-> i, status |-> outcome, request |-> r]
    BY <1>3, <1>5 DEF Entry
  <1>7. PICK l : l = [leg[w] EXCEPT !.todo = @ \ {i}, !.done = @ \cup {e}]
    OBVIOUS
  <1>8. /\ l \in Leg /\ Same(l, leg[w]) /\ l.step = leg[w].step /\ l.state = leg[w].state
        /\ l.todo = leg[w].todo \ {i} /\ l.done = leg[w].done \cup {e}
    BY <1>3, <1>7 DEF Leg, Same
  <1>9. leg' = [leg EXCEPT ![w] = l]
    BY <1>5, <1>6, <1>7
  <1>10. Others(w) /\ leg'[w] = l /\ l # Idle
    BY <1>8, <1>9, LegSet, IdleNoLeg
  <1>11. /\ invoked' \in [Request -> [Item -> 0 .. 2]] /\ \A q \in Request : q # r => invoked'[q] = invoked[q]
         /\ invoked'[r][i] = IF invoked[r][i] < 2 THEN invoked[r][i] + 1 ELSE invoked[r][i]
         /\ \A j \in Item : j # i => invoked'[r][j] = invoked[r][j]
    <2>1. i \in Item /\ invoked \in [Request -> [Item -> 0 .. 2]]
      BY <1>3, <1>5 DEF TypeOK
    <2>2. invoked[r] \in [Item -> 0 .. 2]
      BY <2>1
    <2>3. PICK n \in 0 .. 2 : n = IF invoked[r][i] < 2 THEN invoked[r][i] + 1 ELSE invoked[r][i]
      BY <2>1, <2>2
    <2>4. invoked' = [invoked EXCEPT ![r][i] = n]
      BY <1>5, <2>3
    <2> QED BY <2>1, <2>2, <2>3, <2>4
  <1>12. UNCHANGED <<deployment, count, saver, runs, tasks, mirror, ident, approved, restarts>>
    BY <1>1 DEF Invoke
  <1>14. CallsOne(w, i, e)
    <2>1. e.item = i /\ e.request = r
      BY <1>6
    <2> QED BY <1>4, <1>8, <1>10, <1>11, <2>1 DEF CallsOne
  <1>13. Stays(w)
    BY <1>2, <1>8, <1>10 DEF Stays, Same
  <1> QED BY <1>2, <1>3, <1>4, <1>5, <1>6, <1>8, <1>10, <1>11, <1>12, <1>13, <1>14 DEF Same

LEMMA ExecuteNodeDoes ==
    ASSUME TypeOK, LegsInv, NEW w \in Worker, ExecuteNode(w)
    PROVE  /\ UNCHANGED <<deployment, count, runs, tasks, mirror, ident, invoked, approved, restarts>>
           /\ leg[w].step = "node" /\ Stays(w) /\ leg'[w].id = leg[w].id
           /\ \E s \in RunState :
                  /\ Carries(w, s) /\ Put(BuildCheckpointer(leg[w].at), leg[w].id, s)
                  /\ s.request = leg[w].state.request /\ (Gated(leg[w].state) => Gated(s))
                  /\ Onward(w, s) /\ s = Successor(leg[w].state, leg[w].done)
           /\ leg[w].todo = {}
  <1>1. leg[w] # Idle /\ leg[w].step = "node"
    BY DEF ExecuteNode
  <1>2. /\ leg[w] \in Leg /\ leg[w].state \in RunState /\ leg[w].done \in SUBSET Entry
        /\ leg[w].at \in Replica /\ leg[w].id \in Id
    BY <1>1, LegFacts DEF LegsInv
  <1>3. PICK old \in RunState : old = leg[w].state
    BY <1>2
  <1>4. PICK s \in RunState : /\ s = Moved(Executed(old, leg[w].done), old.next) /\ s.request = old.request
                              /\ Gated(old) => Gated(s)
    BY <1>2, ExecutesGated
  <1>5. PICK o \in Leg : /\ o = Onwards(leg[w], s) /\ Same(o, leg[w]) /\ o.state = s
                         /\ o.step = "respond" \/ (o.step = "node" /\ o.todo = ItemsOf(s))
                         /\ o.done = {} /\ o.step = (IF Halts(s) THEN "respond" ELSE "node")
    BY <1>2, OnwardsFacts
  <1>6. Save(leg[w].at, leg[w].id, s) /\ leg' = [leg EXCEPT ![w] = o]
    BY <1>3, <1>4, <1>5 DEF ExecuteNode
  <1>7. Others(w) /\ leg'[w] = o /\ o # Idle
    BY <1>6, LegSet, IdleNoLeg
  <1>8. Put(BuildCheckpointer(leg[w].at), leg[w].id, s)
    BY <1>2, <1>6, SaveDoes
  <1>9. Stays(w) /\ Carries(w, s) /\ Onward(w, s) /\ leg'[w].id = leg[w].id
    BY <1>1, <1>5, <1>7 DEF Stays, Carries, Same, Onward
  <1>10. UNCHANGED <<deployment, count, runs, tasks, mirror, ident, invoked, approved, restarts>> /\ leg[w].todo = {}
    BY DEF ExecuteNode
  <1>11. s = Successor(leg[w].state, leg[w].done)
    BY <1>3, <1>4 DEF Successor
  <1> QED BY <1>1, <1>3, <1>4, <1>8, <1>9, <1>10, <1>11

(* A call that finds its thread parked.                                    *)
LEMMA BeginResumeDoes ==
    ASSUME BaseInv, NEW w \in Worker, NEW x \in Replica, NEW r \in Request, NEW call \in {"resume", "supplement"},
           NEW d \in Decision \cup {None}, BeginResume(w, x, r, call, d)
    PROVE  /\ leg[w] = Idle /\ ident[r] # None /\ ident[r] \in Name /\ ident[r].id \in Id
           /\ Goes(w, call, x, r, "inject", ident[r].id, d) /\ Cardinality(Busy) < deployment.threads
  <1>0. TypeOK
    BY DEF BaseInv
  <1>1. leg[w] = Idle /\ mirror[r] # None
    BY DEF BeginResume
  <1>2. ident[r] # None /\ ident[r] \in Name /\ ident[r].id \in Id
    BY <1>0, <1>1 DEF BaseInv, NamesInv, TypeOK, Name
  <1>3. PICK id \in Id : id = ident[r].id
    BY <1>2
  <1>4. PICK l0 : l0 = LegOf(call, x, r, "inject")
    OBVIOUS
  <1>5. l0 \in Leg /\ l0.call = call /\ l0.at = x /\ l0.request = r /\ l0.step = "inject" /\ l0.done = {}
    BY <1>4 DEF LegOf, Leg
  <1>6. PICK l : l = [l0 EXCEPT !.id = id, !.decision = d]
    OBVIOUS
  <1>7. /\ l \in Leg /\ l.call = call /\ l.at = x /\ l.request = r /\ l.step = "inject" /\ l.id = id
        /\ l.decision = d /\ l.done = {}
    BY <1>5, <1>6 DEF Leg
  <1>8. leg' = [leg EXCEPT ![w] = l]
    BY <1>3, <1>4, <1>6 DEF BeginResume
  <1>9. Cardinality(Busy) < deployment.threads
    BY DEF BeginResume
  <1> QED BY <1>0, <1>1, <1>2, <1>3, <1>8, <1>7, <1>9, LegSet, IdleNoLeg DEF Goes

LEMMA ResumeDoes ==
    ASSUME BaseInv, NEW w \in Worker, NEW x \in Replica, NEW r \in Request, NEW d \in Decision, Resume(w, x, r, d)
    PROVE  /\ UNCHANGED <<deployment, count, saver, runs, tasks, mirror, ident, invoked, restarts>>
           /\ leg[w] = Idle /\ ident[r] # None /\ ident[r].id \in Id
           /\ Goes(w, "resume", x, r, "inject", ident[r].id, d)
           /\ approved \subseteq approved' /\ approved' \subseteq Request /\ (d = "approved" => r \in approved')
           /\ Cardinality(Busy) < deployment.threads /\ IsParkedAtApproval(x, ident[r].id)
  <1>1. BeginResume(w, x, r, "resume", d)
    BY DEF Resume
  <1>2. /\ leg[w] = Idle /\ ident[r] # None /\ ident[r].id \in Id /\ Cardinality(Busy) < deployment.threads
        /\ Goes(w, "resume", x, r, "inject", ident[r].id, d)
    BY <1>1, BeginResumeDoes
  <1> QED BY <1>2 DEF Resume, BaseInv, TypeOK

LEMMA SupplementDoes ==
    ASSUME BaseInv, NEW w \in Worker, NEW x \in Replica, NEW r \in Request, ResumeFromSupplement(w, x, r)
    PROVE  /\ UNCHANGED <<deployment, count, saver, runs, tasks, mirror, ident, invoked, approved, restarts>>
           /\ leg[w] = Idle /\ ident[r] # None /\ ident[r].id \in Id
           /\ Goes(w, "supplement", x, r, "inject", ident[r].id, None)
           /\ Cardinality(Busy) < deployment.threads /\ IsParkedAtSupplement(x, ident[r].id)
  <1>1. BeginResume(w, x, r, "supplement", None)
    BY DEF ResumeFromSupplement
  <1> QED BY <1>1, BeginResumeDoes DEF ResumeFromSupplement

LEMMA StepSet ==
    ASSUME TypeOK, NEW w \in Worker, leg[w] # Idle, NEW l, NEW step \in {"invoke"}, l = [leg[w] EXCEPT !.step = step]
    PROVE  l \in Leg /\ Same(l, leg[w]) /\ l.step = step /\ l.done = leg[w].done
  <1>1. leg[w] \in Leg
    BY LegFacts
  <1> QED BY <1>1 DEF Leg, Same

LEMMA InjectDoes ==
    ASSUME BaseInv, NEW w \in Worker, Inject(w)
    PROVE  /\ UNCHANGED <<deployment, count, runs, tasks, mirror, ident, invoked, approved, restarts>>
           /\ leg[w] # Idle /\ leg[w].step = "inject"
           /\ \/ Rests(w) /\ saver' = saver /\ saver[BuildCheckpointer(leg[w].at)][leg[w].id] = None
              \/ /\ Stays(w) /\ leg'[w].step = "invoke" /\ leg'[w].id = leg[w].id /\ leg'[w].done = leg[w].done
                 /\ \E old \in RunState, s \in RunState :
                        /\ old = saver[BuildCheckpointer(leg[w].at)][leg[w].id] /\ s.request = old.request
                        /\ s = UpdateState(old, leg[w].decision)
                        /\ Put(BuildCheckpointer(leg[w].at), leg[w].id, s)
                        /\ Gated(old) /\ (leg[w].decision = "approved" => old.request \in Released) => Gated(s)
  <1>0. TypeOK
    BY DEF BaseInv
  <1>1. leg[w] # Idle /\ leg[w].step = "inject"
    BY DEF Inject
  <1>2. leg[w] \in Leg /\ leg[w].at \in Replica /\ leg[w].id \in Id /\ leg[w].decision \in Decision \cup {None}
    BY <1>0, <1>1, LegFacts DEF BaseInv, LegsInv
  <1>3. CASE Thread(leg[w].at, leg[w].id) = None
    BY <1>0, <1>1, <1>3, RestsDoes DEF Inject, Thread
  <1>4. CASE Thread(leg[w].at, leg[w].id) # None
    <2>1. PICK old \in RunState : /\ old = Thread(leg[w].at, leg[w].id)
                                  /\ old = saver[BuildCheckpointer(leg[w].at)][leg[w].id]
      BY <1>0, <1>2, <1>4, ThreadType
    <2>2. PICK s \in RunState : /\ s = UpdateState(old, leg[w].decision) /\ s.request = old.request
                                /\ Gated(old) /\ (leg[w].decision = "approved" => old.request \in Released) => Gated(s)
      BY <1>0, <1>2, UpdatesGated
    <2>3. PICK l : l = [leg[w] EXCEPT !.step = "invoke"]
      OBVIOUS
    <2>4. l \in Leg /\ Same(l, leg[w]) /\ l.step = "invoke" /\ l.done = leg[w].done
      BY <1>0, <1>1, <2>3, StepSet
    <2>5. Save(leg[w].at, leg[w].id, s) /\ leg' = [leg EXCEPT ![w] = l]
      BY <1>4, <2>1, <2>2, <2>3 DEF Inject
    <2>6. Others(w) /\ leg'[w] = l /\ l # Idle
      BY <1>0, <2>4, <2>5, LegSet, IdleNoLeg
    <2>7. Put(BuildCheckpointer(leg[w].at), leg[w].id, s)
      BY <1>0, <1>2, <2>5, SaveDoes
    <2>8. Stays(w) /\ leg'[w].step = "invoke" /\ leg'[w].id = leg[w].id /\ leg'[w].done = leg[w].done
      BY <1>1, <2>4, <2>6 DEF Stays, Same
    <2> QED BY <1>1, <2>1, <2>2, <2>7, <2>8 DEF Inject
  <1> QED BY <1>3, <1>4

LEMMA InvokeThreadDoes ==
    ASSUME BaseInv, NEW w \in Worker, InvokeThread(w)
    PROVE  /\ UNCHANGED <<deployment, count, saver, runs, tasks, mirror, ident, invoked, approved, restarts>>
           /\ Stays(w) /\ leg[w].step = "invoke" /\ leg'[w].id = leg[w].id
           /\ \E s \in RunState : /\ s = saver[BuildCheckpointer(leg[w].at)][leg[w].id] /\ Carries(w, s)
                                  /\ leg'[w].step = (IF s.next = "END" THEN "respond" ELSE "node")
           /\ leg'[w].done = leg[w].done
  <1>0. TypeOK
    BY DEF BaseInv
  <1>1. leg[w] # Idle /\ leg[w].step = "invoke"
    BY DEF InvokeThread
  <1>2. leg[w] \in Leg /\ leg[w].at \in Replica /\ leg[w].id \in Id /\ Thread(leg[w].at, leg[w].id) # None
    BY <1>0, <1>1, LegFacts DEF BaseInv, LegsInv
  <1>3. PICK s \in RunState : /\ s = Thread(leg[w].at, leg[w].id)
                              /\ s = saver[BuildCheckpointer(leg[w].at)][leg[w].id]
    BY <1>0, <1>2, ThreadType
  <1>4. PICK items \in SUBSET Item : items = ItemsOf(s)
    BY <1>0, ItemsFacts
  <1>5. PICK l : l = IF s.next = "END" THEN [leg[w] EXCEPT !.state = s, !.step = "respond"]
                     ELSE [leg[w] EXCEPT !.state = s, !.step = "node", !.todo = items]
    OBVIOUS
  <1>6. /\ l \in Leg /\ Same(l, leg[w]) /\ l.state = s
        /\ l.step = "respond" \/ (l.step = "node" /\ l.todo = items)
        /\ l.step = (IF s.next = "END" THEN "respond" ELSE "node") /\ l.done = leg[w].done
    <2>1. CASE s.next = "END"
      <3>1. l = [leg[w] EXCEPT !.state = s, !.step = "respond"]
        BY <1>5, <2>1
      <3> QED BY <1>2, <2>1, <3>1 DEF Leg, Same
    <2>2. CASE s.next # "END"
      <3>1. l = [leg[w] EXCEPT !.state = s, !.step = "node", !.todo = items]
        BY <1>5, <2>2
      <3> QED BY <1>2, <2>2, <3>1 DEF Leg, Same
    <2> QED BY <2>1, <2>2
  <1>7. leg' = [leg EXCEPT ![w] = l]
    BY <1>3, <1>4, <1>5 DEF InvokeThread
  <1>8. Others(w) /\ leg'[w] = l /\ l # Idle
    BY <1>0, <1>6, <1>7, LegSet, IdleNoLeg
  <1>9. Stays(w) /\ Carries(w, s) /\ leg'[w].id = leg[w].id
    BY <1>1, <1>4, <1>6, <1>8 DEF Stays, Carries, Same
  <1>10. leg'[w].step = (IF s.next = "END" THEN "respond" ELSE "node") /\ leg'[w].done = leg[w].done
    BY <1>6, <1>8
  <1> QED BY <1>1, <1>3, <1>9, <1>10 DEF InvokeThread

LEMMA ViewType ==
    ASSUME NEW x, NEW id, NEW s \in RunState PROVE ViewOf(x, id, s) \in RunState
  <1>1. PICK t : t = [s EXCEPT !.status = "waiting_approval", !.approval = "pending"]
    OBVIOUS
  <1>2. PICK u : u = [s EXCEPT !.status = "supplement_pending"]
    OBVIOUS
  <1>3. t \in RunState
    BY <1>1 DEF RunState, Status, Approval
  <1>4. u \in RunState
    BY <1>2 DEF RunState, Status
  <1> QED BY <1>1, <1>2, <1>3, <1>4 DEF ViewOf, PausedState, SupplementPausedState

LEMMA AnswerType ==
    ASSUME NEW s \in RunState PROVE ToResponse(s) \in Response
  BY StateFields DEF ToResponse, Response, Approval, Entry, Outcomes

(* A run is answered, and its task set, where the leg is.                  *)
Answers(w, a) == \A x \in Replica, id \in Id :
                     runs'[x][id] = IF x = leg[w].at /\ id = leg[w].id THEN a ELSE runs[x][id]
Tasked(w, d) == \A x \in Replica, id \in Id :
                    tasks'[x][id] = IF x = leg[w].at /\ id = leg[w].id THEN d ELSE tasks[x][id]

LEMMA RespondRunDoes ==
    ASSUME BaseInv, NEW w \in Worker, RespondRun(w)
    PROVE  /\ UNCHANGED <<deployment, count, saver, ident, invoked, approved, restarts>>
           /\ leg[w] # Idle /\ leg[w].step = "respond" /\ Rests(w)
           /\ runs' \in [Replica -> [Id -> Response \cup {None}]]
           /\ tasks' \in [Replica -> [Id -> {"pending", None} \cup Decision]]
           /\ mirror' \in [Request -> Stored \cup {None}]
           /\ \A r \in Request : mirror'[r] # None => mirror[r] # None \/ ident[r] # None
           /\ leg[w].call = "run" /\ \A r \in Request : r # leg[w].request => mirror'[r] = mirror[r]
           /\ Answers(w, ToResponse(ViewOf(leg[w].at, leg[w].id, leg[w].state)))
           /\ IF TemplateOf(leg[w].request).held THEN Tasked(w, "pending") ELSE tasks' = tasks
  <1>0. TypeOK
    BY DEF BaseInv
  <1>1. leg[w] # Idle /\ leg[w].step = "respond" /\ leg' = [leg EXCEPT ![w] = Idle] /\ leg[w].call = "run"
    BY DEF RespondRun
  <1>2. /\ leg[w] \in Leg /\ leg[w].at \in Replica /\ leg[w].id \in Id /\ leg[w].request \in Request
        /\ leg[w].state \in RunState /\ ident[leg[w].request] # None
    BY <1>0, <1>1, LegFacts DEF BaseInv, LegsInv
  <1>3. PICK view \in RunState : view = ViewOf(leg[w].at, leg[w].id, leg[w].state)
    BY <1>2, ViewType
  <1>4. PICK a \in Response : a = ToResponse(view)
    BY AnswerType
  <1>5. PICK m \in Stored : m = [status |-> view.status, task |-> IF view.approval = "pending" THEN "pending" ELSE None]
    <2>1. PICK t \in {"pending", None}, v \in Status :
              t = (IF view.approval = "pending" THEN "pending" ELSE None) /\ v = view.status
      BY StateFields
    <2>2. PICK m : m = [status |-> v, task |-> t]
      OBVIOUS
    <2>3. m \in Stored
      BY <2>2 DEF Stored
    <2> QED BY <2>1, <2>2, <2>3
  <1>6. /\ runs' = [runs EXCEPT ![leg[w].at][leg[w].id] = a]
        /\ tasks' = IF TemplateOf(leg[w].request).held
                    THEN [tasks EXCEPT ![leg[w].at][leg[w].id] = "pending"] ELSE tasks
        /\ mirror' = [mirror EXCEPT ![leg[w].request] = m]
        /\ UNCHANGED <<deployment, count, saver, ident, invoked, approved, restarts>>
    BY <1>3, <1>4, <1>5 DEF RespondRun, CreateRunViaLangGraph
  <1>7. runs' \in [Replica -> [Id -> Response \cup {None}]]
    BY <1>0, <1>2, <1>6 DEF TypeOK
  <1>8. tasks' \in [Replica -> [Id -> {"pending", None} \cup Decision]]
    BY <1>0, <1>2, <1>6 DEF TypeOK
  <1>9. /\ mirror' \in [Request -> Stored \cup {None}]
        /\ \A r \in Request : mirror'[r] # None => mirror[r] # None \/ ident[r] # None
        /\ \A r \in Request : r # leg[w].request => mirror'[r] = mirror[r]
    BY <1>0, <1>2, <1>6 DEF TypeOK
  <1>10. Answers(w, a)
    BY <1>0, <1>2, <1>6 DEF TypeOK, Answers
  <1>11. IF TemplateOf(leg[w].request).held THEN Tasked(w, "pending") ELSE tasks' = tasks
    BY <1>0, <1>2, <1>6 DEF TypeOK, Tasked
  <1> QED BY <1>0, <1>1, <1>3, <1>4, <1>6, <1>7, <1>8, <1>9, <1>10, <1>11, RestsDoes

LEMMA TaskSet ==
    ASSUME TypeOK, NEW x \in Replica, NEW id \in Id, NEW d \in Decision \cup {None},
           tasks' = [tasks EXCEPT ![x][id] = d]
    PROVE  tasks' \in [Replica -> [Id -> {"pending", None} \cup Decision]]
  <1>1. PICK T : T = {"pending", None} \cup Decision
    OBVIOUS
  <1>2. d \in T /\ tasks \in [Replica -> [Id -> T]]
    BY <1>1 DEF TypeOK
  <1>3. tasks' \in [Replica -> [Id -> T]]
    BY <1>2
  <1> QED BY <1>1, <1>3

LEMMA RespondResumeDoes ==
    ASSUME BaseInv, NEW w \in Worker, RespondResume(w)
    PROVE  /\ UNCHANGED <<deployment, count, saver, mirror, ident, invoked, approved, restarts>>
           /\ leg[w] # Idle /\ leg[w].step = "respond" /\ Rests(w)
           /\ runs' \in [Replica -> [Id -> Response \cup {None}]]
           /\ tasks' \in [Replica -> [Id -> {"pending", None} \cup Decision]]
           /\ leg[w].call # "run" /\ Answers(w, ToResponse(leg[w].state))
           /\ IF leg[w].call = "resume" /\ PendingApprovalTask(leg[w].at, leg[w].id)
              THEN Tasked(w, leg[w].decision) ELSE tasks' = tasks
  <1>0. TypeOK
    BY DEF BaseInv
  <1>1. leg[w] # Idle /\ leg[w].step = "respond" /\ leg' = [leg EXCEPT ![w] = Idle] /\ leg[w].call # "run"
    BY DEF RespondResume
  <1>2. /\ leg[w] \in Leg /\ leg[w].at \in Replica /\ leg[w].id \in Id
        /\ leg[w].state \in RunState /\ leg[w].decision \in Decision \cup {None}
    BY <1>0, <1>1, LegFacts DEF BaseInv, LegsInv
  <1>4. PICK a \in Response : a = ToResponse(leg[w].state)
    BY <1>2, AnswerType
  <1>5. PICK d \in Decision \cup {None} : d = leg[w].decision
    BY <1>2
  <1>6. /\ runs' = [runs EXCEPT ![leg[w].at][leg[w].id] = a]
        /\ tasks' = IF leg[w].call = "resume" /\ PendingApprovalTask(leg[w].at, leg[w].id)
                    THEN [tasks EXCEPT ![leg[w].at][leg[w].id] = d] ELSE tasks
        /\ UNCHANGED <<deployment, count, saver, mirror, ident, invoked, approved, restarts>>
    BY <1>4, <1>5 DEF RespondResume
  <1>7. runs' \in [Replica -> [Id -> Response \cup {None}]]
    BY <1>0, <1>2, <1>6 DEF TypeOK
  <1>8. tasks' \in [Replica -> [Id -> {"pending", None} \cup Decision]]
    <2>1. ASSUME tasks' = [tasks EXCEPT ![leg[w].at][leg[w].id] = d]
          PROVE  tasks' \in [Replica -> [Id -> {"pending", None} \cup Decision]]
      BY <1>0, <1>2, <2>1, TaskSet
    <2> QED BY <1>0, <1>6, <2>1 DEF TypeOK
  <1>9. Answers(w, a)
    BY <1>0, <1>2, <1>6 DEF TypeOK, Answers
  <1>10. IF leg[w].call = "resume" /\ PendingApprovalTask(leg[w].at, leg[w].id)
         THEN Tasked(w, d) ELSE tasks' = tasks
    BY <1>0, <1>2, <1>6 DEF TypeOK, Tasked
  <1> QED BY <1>0, <1>1, <1>4, <1>5, <1>6, <1>7, <1>8, <1>9, <1>10, RestsDoes

LEMMA DecidedType ==
    ASSUME NEW run \in Response, NEW d \in Decision PROVE Decided(run, d) \in Response
  <1>1. PICK calls : calls = [t \in DOMAIN run.calls |-> IF d = "approved" THEN "completed" ELSE "skipped"]
    OBVIOUS
  <1>2. PICK S \in SUBSET Item : run.calls \in [S -> CallStatus]
    BY DEF Response, Calls
  <1>3. calls \in [S -> CallStatus]
    BY <1>1, <1>2 DEF CallStatus
  <1>4. calls \in Calls
    BY <1>2, <1>3 DEF Calls
  <1>5. PICK status \in Status : status = IF d = "approved" THEN "completed" ELSE "failed"
    BY DEF Status
  <1>6. PICK t : t = [run EXCEPT !.status = status, !.approval = d, !.calls = calls]
    OBVIOUS
  <1>7. t \in Response
    BY <1>4, <1>5, <1>6 DEF Response, Approval
  <1>8. t = Decided(run, d)
    BY <1>1, <1>5, <1>6 DEF Decided
  <1> QED BY <1>7, <1>8

LEMMA DecideDoes ==
    ASSUME BaseInv, NEW x \in Replica, NEW r \in Request, NEW d \in Decision, Decide(x, r, d)
    PROVE  /\ UNCHANGED <<deployment, count, saver, mirror, leg, ident, invoked, approved, restarts>>
           /\ runs' \in [Replica -> [Id -> Response \cup {None}]]
           /\ tasks' \in [Replica -> [Id -> {"pending", None} \cup Decision]]
  <1>0. TypeOK
    BY DEF BaseInv
  <1>1. mirror[r] # None
    BY DEF Decide
  <1>2. ident[r] # None /\ ident[r] \in Name /\ ident[r].id \in Id
    BY <1>0, <1>1 DEF BaseInv, NamesInv, TypeOK, Name
  <1>3. PICK id \in Id : id = ident[r].id
    BY <1>2
  <1>4. runs[x][id] \in Response
    BY <1>0, <1>3 DEF Decide, TypeOK
  <1>5. PICK a \in Response : a = Decided(runs[x][id], d)
    BY <1>4, DecidedType
  <1>6. /\ runs' = [runs EXCEPT ![x][id] = a]
        /\ tasks' = tasks \/ tasks' = [tasks EXCEPT ![x][id] = d]
        /\ UNCHANGED <<deployment, count, saver, mirror, leg, ident, invoked, approved, restarts>>
    BY <1>3, <1>5 DEF Decide
  <1>7. runs' \in [Replica -> [Id -> Response \cup {None}]]
    BY <1>0, <1>3, <1>6 DEF TypeOK
  <1>8. tasks' \in [Replica -> [Id -> {"pending", None} \cup Decision]]
    <2>1. ASSUME tasks' = [tasks EXCEPT ![x][id] = d]
          PROVE  tasks' \in [Replica -> [Id -> {"pending", None} \cup Decision]]
      BY <1>0, <1>3, <2>1, TaskSet
    <2> QED BY <1>0, <1>6, <2>1 DEF TypeOK
  <1> QED BY <1>6, <1>7, <1>8

LEMMA RestartDoes ==
    ASSUME TypeOK, NEW x \in Replica, Restart(x)
    PROVE  /\ UNCHANGED <<deployment, mirror, ident, invoked, approved>>
           /\ restarts' \in Nat
           /\ count' = [count EXCEPT ![x] = 0]
           /\ saver' \in [Place -> [Id -> RunState \cup {None}]]
           /\ \A id \in Id : saver'[x][id] = None
           /\ \A p \in Place : p # x => saver'[p] = saver[p]
           /\ runs' \in [Replica -> [Id -> Response \cup {None}]]
           /\ tasks' \in [Replica -> [Id -> {"pending", None} \cup Decision]]
           /\ leg' \in [Worker -> Leg \cup {Idle}]
           /\ \A w \in Worker : \/ leg'[w] = leg[w] /\ (leg[w] # Idle => leg[w].at # x)
                                \/ leg'[w] = Idle /\ leg[w] # Idle /\ leg[w].at = x
  <1>1. x \in Place
    BY DEF Place
  <1>2. saver' = [saver EXCEPT ![x] = [id \in Id |-> None]]
    BY DEF Restart
  <1>3. /\ saver' \in [Place -> [Id -> RunState \cup {None}]]
        /\ \A id \in Id : saver'[x][id] = None
        /\ \A p \in Place : p # x => saver'[p] = saver[p]
    BY <1>1, <1>2 DEF TypeOK
  <1>4. leg' = [w \in Worker |-> IF leg[w] # Idle /\ leg[w].at = x THEN Idle ELSE leg[w]]
    BY DEF Restart
  <1>5. leg' \in [Worker -> Leg \cup {Idle}]
    BY <1>4 DEF TypeOK
  <1>6. \A w \in Worker : \/ leg'[w] = leg[w] /\ (leg[w] # Idle => leg[w].at # x)
                          \/ leg'[w] = Idle /\ leg[w] # Idle /\ leg[w].at = x
    BY <1>4
  <1>7. /\ runs' \in [Replica -> [Id -> Response \cup {None}]]
        /\ tasks' \in [Replica -> [Id -> {"pending", None} \cup Decision]]
    BY DEF Restart, TypeOK
  <1>8. restarts' \in Nat
    BY DEF Restart, TypeOK
  <1> QED BY <1>3, <1>5, <1>6, <1>7, <1>8 DEF Restart

(* The steps of the system, one by one.                                    *)
LEMMA NextCases ==
    ASSUME [Next]_vars
    PROVE  \/ \E w \in Worker, x \in Replica, r \in Request :
                  \/ Run(w, x, r) \/ ResumeFromSupplement(w, x, r)
                  \/ \E d \in Decision : Resume(w, x, r, d)
           \/ \E w \in Worker : \/ StartRun(w) \/ InvokeTool(w) \/ InvokeScope(w) \/ ExecuteNode(w)
                                \/ RespondRun(w) \/ Inject(w) \/ InvokeThread(w) \/ RespondResume(w)
           \/ \E x \in Replica, r \in Request, d \in Decision : Decide(x, r, d)
           \/ \E x \in Replica : Restart(x)
           \/ UNCHANGED vars
  BY DEF Next, LegStep

-----------------------------------------------------------------------------
(* Types.                                                                  *)
LEMMA TypeStep == ASSUME BaseInv, [Next]_vars PROVE TypeOK'
  <1>0. TypeOK /\ LegsInv
    BY DEF BaseInv
  <1> USE DEF TypeOK, Others, Put, Rests, Stays, Goes
  <1>1. ASSUME NEW w \in Worker, NEW x \in Replica, NEW r \in Request, Run(w, x, r) PROVE TypeOK'
    <2>1. /\ UNCHANGED <<deployment, saver, runs, tasks, mirror, ident, invoked, approved, restarts>>
          /\ count' = [count EXCEPT ![x] = count[x] + 1] /\ Others(w)
      BY <1>0, <1>1, RunDoes
    <2>2. leg' \in [Worker -> Leg \cup {Idle}]
      BY <2>1
    <2>3. count' \in [Replica -> Nat]
      BY <1>0, <2>1
    <2> QED BY <1>0, <2>1, <2>2, <2>3
  <1>2. ASSUME NEW w \in Worker, NEW x \in Replica, NEW r \in Request, NEW d \in Decision, Resume(w, x, r, d)
        PROVE  TypeOK'
    BY <1>0, <1>2, ResumeDoes
  <1>3. ASSUME NEW w \in Worker, NEW x \in Replica, NEW r \in Request, ResumeFromSupplement(w, x, r) PROVE TypeOK'
    BY <1>0, <1>3, SupplementDoes
  <1>4. ASSUME NEW w \in Worker, StartRun(w) PROVE TypeOK'
    <2>1. PICK id \in Id : ident' = [ident EXCEPT ![leg[w].request] = NameOf(BuildCheckpointer(leg[w].at), id)]
      BY <1>4, StartRunDoes
    <2>2. leg[w].at \in Replica /\ leg[w].request \in Request
      BY <1>0, <1>4, StartRunDoes, LegFacts
    <2>3. PICK n \in Name : n = NameOf(BuildCheckpointer(leg[w].at), id)
      BY <2>2, PlaceFacts DEF NameOf, Name
    <2>4. ident' \in [Request -> Name \cup {None}]
      BY <1>0, <2>1, <2>2, <2>3
    <2> QED BY <1>0, <1>4, <2>4, StartRunDoes
  <1>5. ASSUME NEW w \in Worker, InvokeTool(w) \/ InvokeScope(w) PROVE TypeOK'
    BY <1>0, <1>5, InvokeDoes
  <1>6. ASSUME NEW w \in Worker, ExecuteNode(w) PROVE TypeOK'
    BY <1>0, <1>6, ExecuteNodeDoes
  <1>7. ASSUME NEW w \in Worker, RespondRun(w) PROVE TypeOK'
    BY <1>0, <1>7, RespondRunDoes
  <1>8. ASSUME NEW w \in Worker, Inject(w) PROVE TypeOK'
    BY <1>0, <1>8, InjectDoes
  <1>9. ASSUME NEW w \in Worker, InvokeThread(w) PROVE TypeOK'
    BY <1>0, <1>9, InvokeThreadDoes
  <1>10. ASSUME NEW w \in Worker, RespondResume(w) PROVE TypeOK'
    BY <1>0, <1>10, RespondResumeDoes
  <1>11. ASSUME NEW x \in Replica, NEW r \in Request, NEW d \in Decision, Decide(x, r, d) PROVE TypeOK'
    BY <1>0, <1>11, DecideDoes
  <1>12. ASSUME NEW x \in Replica, Restart(x) PROVE TypeOK'
    <2>1. count' \in [Replica -> Nat]
      <3>1. count' = [count EXCEPT ![x] = 0]
        BY <1>12 DEF Restart
      <3> QED BY <1>0, <3>1
    <2>2. UNCHANGED <<deployment, mirror, ident, invoked, approved>>
      BY <1>0, <1>12, RestartDoes
    <2>3. /\ restarts' \in Nat
          /\ saver' \in [Place -> [Id -> RunState \cup {None}]]
          /\ runs' \in [Replica -> [Id -> Response \cup {None}]]
          /\ tasks' \in [Replica -> [Id -> {"pending", None} \cup Decision]]
          /\ leg' \in [Worker -> Leg \cup {Idle}]
      BY <1>0, <1>12, RestartDoes
    <2> QED BY <1>0, <2>1, <2>2, <2>3
  <1>13. ASSUME UNCHANGED vars PROVE TypeOK'
    BY <1>0, <1>13 DEF vars
  <1> QED BY <1>1, <1>2, <1>3, <1>4, <1>5, <1>6, <1>7, <1>8, <1>9, <1>10, <1>11, <1>12, <1>13, NextCases

-----------------------------------------------------------------------------
(* Names are given once and kept.                                          *)
IdentGrows == \A r \in Request : ident[r] # None => ident'[r] = ident[r]
SameNames == /\ count' = count /\ ident' = ident
             /\ \A r \in Request : mirror'[r] # None => mirror[r] # None \/ ident[r] # None
             /\ \A w \in Worker : leg'[w] = leg[w] \/ (~Naming(w) /\ ~Naming(w)')

LEMMA NamedFacts ==
    ASSUME NEW A \in SUBSET Request, NEW B \in SUBSET Request, A \subseteq B
    PROVE  /\ Cardinality(A) \in Nat /\ Cardinality(B) \in Nat /\ Cardinality(A) <= Cardinality(B)
           /\ \A r \in B : r \notin A => Cardinality(A) + 1 <= Cardinality(B)
  <1>1. IsFiniteSet(A) /\ IsFiniteSet(B)
    BY RequestsAssumption, FS_Subset
  <1>2. Cardinality(A) \in Nat /\ Cardinality(B) \in Nat /\ Cardinality(A) <= Cardinality(B)
    BY <1>1, FS_Subset, FS_CardinalityType
  <1>3. ASSUME NEW r \in B, r \notin A PROVE Cardinality(A) + 1 <= Cardinality(B)
    <2>1. Cardinality(A \cup {r}) = Cardinality(A) + 1
      BY <1>1, <1>3, FS_AddElement
    <2>2. A \cup {r} \subseteq B
      BY <1>3
    <2> QED BY <1>1, <2>1, <2>2, FS_Subset
  <1> QED BY <1>2, <1>3

LEMMA NamesKept == ASSUME BaseInv, TypeOK', SameNames PROVE NamesInv'
  <1>1. \A w \in Worker : Naming(w)' => Naming(w) /\ leg'[w] = leg[w]
    BY DEF SameNames, Naming
  <1>2. \A w \in Worker : Naming(w) => Naming(w)' /\ leg'[w] = leg[w]
    BY DEF SameNames, Naming
  <1>3. \A w \in Worker : Naming(w)' =>
           /\ leg'[w].call = "run" /\ ident'[leg'[w].request] = None /\ count'[leg'[w].at] >= 1
           /\ \A v \in Worker : Naming(v)' /\ leg'[v].request = leg'[w].request => v = w
    BY <1>1 DEF BaseInv, NamesInv, SameNames
  <1>4. ASSUME NEW x \in Replica PROVE count'[x] <= Cardinality(Named(x)')
    <2>1. Named(x) \in SUBSET Request /\ Named(x)' \in SUBSET Request /\ Named(x) \subseteq Named(x)'
      BY <1>2 DEF Named, SameNames
    <2>2. count[x] <= Cardinality(Named(x)) /\ count[x] \in Nat
      BY DEF BaseInv, NamesInv, TypeOK
    <2>3. count'[x] = count[x]
      BY DEF SameNames
    <2> QED BY <2>1, <2>2, <2>3, NamedFacts
  <1>5. \A r \in Request : mirror'[r] # None => ident'[r] # None
    BY DEF BaseInv, NamesInv, SameNames
  <1> QED BY <1>3, <1>4, <1>5 DEF NamesInv

LEMMA RunNames ==
    ASSUME BaseInv, TypeOK', NEW w \in Worker, NEW x \in Replica, NEW r \in Request, Run(w, x, r)
    PROVE  NamesInv'
  <1>0. TypeOK
    BY DEF BaseInv
  <1>1. /\ ident' = ident /\ mirror' = mirror
        /\ leg[w] = Idle /\ ident[r] = None /\ \A v \in Worker : leg[v] # Idle => leg[v].request # r
        /\ count' = [count EXCEPT ![x] = count[x] + 1]
        /\ \A v \in Worker \ {w} : leg'[v] = leg[v]
        /\ leg'[w] # Idle /\ leg'[w].call = "run" /\ leg'[w].at = x /\ leg'[w].request = r /\ leg'[w].step = "name"
    BY <1>0, RunDoes DEF Goes, Others
  <1>2. count \in [Replica -> Nat] /\ count' \in [Replica -> Nat] /\ count'[x] = count[x] + 1
        /\ \A y \in Replica : y # x => count'[y] = count[y]
    BY <1>0, <1>1 DEF TypeOK
  <1>3. Naming(w)' /\ ~Naming(w) /\ \A v \in Worker \ {w} : Naming(v)' <=> Naming(v)
    BY <1>1 DEF Naming
  <1>4. ASSUME NEW v \in Worker, Naming(v)'
        PROVE  /\ leg'[v].call = "run" /\ ident'[leg'[v].request] = None /\ count'[leg'[v].at] >= 1
               /\ \A u \in Worker : Naming(u)' /\ leg'[u].request = leg'[v].request => u = v
    <2>1. CASE v = w
      <3>1. \A u \in Worker \ {w} : Naming(u) => leg[u].request # r
        BY <1>1 DEF Naming
      <3> QED BY <1>1, <1>2, <1>3, <2>1, <3>1
    <2>2. CASE v # w
      <3>1. Naming(v) /\ leg'[v] = leg[v] /\ leg[v] # Idle
        BY <1>1, <1>3, <1>4, <2>2 DEF Naming
      <3>2. /\ leg[v].call = "run" /\ ident[leg[v].request] = None /\ count[leg[v].at] >= 1
            /\ \A u \in Worker : Naming(u) /\ leg[u].request = leg[v].request => u = v
        BY <3>1 DEF BaseInv, NamesInv
      <3>3. leg[v].at \in Replica /\ count'[leg[v].at] >= count[leg[v].at]
        BY <1>0, <1>2, <3>1, LegFacts
      <3>4. leg[v].request # r
        BY <1>1, <3>1
      <3>5. count'[leg[v].at] >= 1
        BY <1>2, <3>2, <3>3
      <3> QED BY <1>1, <1>3, <3>1, <3>2, <3>4, <3>5
    <2> QED BY <2>1, <2>2
  <1>5. ASSUME NEW y \in Replica PROVE count'[y] <= Cardinality(Named(y)')
    <2>1. Named(y) \in SUBSET Request /\ Named(y)' \in SUBSET Request /\ Named(y) \subseteq Named(y)'
      BY <1>1, <1>3 DEF Named
    <2>2. count[y] <= Cardinality(Named(y))
      BY DEF BaseInv, NamesInv
    <2>3. r \notin Named(y)
      BY <1>1 DEF Named, Naming
    <2>4. y = x => r \in Named(y)'
      BY <1>1, <1>3 DEF Named
    <2>5. CASE y = x
      BY <1>2, <2>1, <2>2, <2>3, <2>4, <2>5, NamedFacts
    <2>6. CASE y # x
      BY <1>2, <2>1, <2>2, <2>6, NamedFacts
    <2> QED BY <2>5, <2>6
  <1>6. \A q \in Request : mirror'[q] # None => ident'[q] # None
    BY <1>1 DEF BaseInv, NamesInv
  <1> QED BY <1>4, <1>5, <1>6 DEF NamesInv

LEMMA StartRunNames == ASSUME BaseInv, TypeOK', NEW w \in Worker, StartRun(w) PROVE NamesInv' /\ IdentGrows
  <1>0. TypeOK
    BY DEF BaseInv
  <1>1. /\ count' = count /\ mirror' = mirror /\ Naming(w)
        /\ \A v \in Worker \ {w} : leg'[v] = leg[v]
        /\ leg'[w].step # "name"
    BY StartRunDoes DEF Stays, Others, Carries
  <1>2. PICK r \in Request, n \in Name : r = leg[w].request /\ ident' = [ident EXCEPT ![r] = n]
    <2>1. leg[w].at \in Replica /\ leg[w].request \in Request
      BY <1>0, <1>1, LegFacts DEF Naming
    <2> QED BY <2>1, StartRunDoes, PlaceFacts DEF NameOf, Name
  <1>3. ident[r] = None /\ n # None
    BY <1>1, <1>2, NoneAssumption DEF BaseInv, NamesInv, Name
  <1>4. ident'[r] = n /\ \A q \in Request : q # r => ident'[q] = ident[q]
    BY <1>0, <1>2 DEF TypeOK
  <1>5. \A v \in Worker : Naming(v)' => Naming(v) /\ leg'[v] = leg[v] /\ v # w
    BY <1>1 DEF Naming
  <1>6. ASSUME NEW v \in Worker, Naming(v)'
        PROVE  /\ leg'[v].call = "run" /\ ident'[leg'[v].request] = None /\ count'[leg'[v].at] >= 1
               /\ \A u \in Worker : Naming(u)' /\ leg'[u].request = leg'[v].request => u = v
    <2>1. /\ leg[v].call = "run" /\ ident[leg[v].request] = None /\ count[leg[v].at] >= 1
          /\ \A u \in Worker : Naming(u) /\ leg[u].request = leg[v].request => u = v
      BY <1>5, <1>6 DEF BaseInv, NamesInv
    <2>2. leg[v].request # r /\ leg[v].request \in Request
      BY <1>0, <1>1, <1>2, <1>5, <1>6, <2>1, LegFacts DEF Naming
    <2> QED BY <1>1, <1>4, <1>5, <1>6, <2>1, <2>2
  <1>7. ASSUME NEW y \in Replica PROVE count'[y] <= Cardinality(Named(y)')
    <2>1. Named(y) \subseteq Named(y)'
      <3>1. \A q \in Request : ident[q] # None => ident'[q] # None
        BY <1>3, <1>4
      <3>2. \A v \in Worker : Naming(v) => v = w \/ (Naming(v)' /\ leg'[v] = leg[v])
        BY <1>1 DEF Naming
      <3>3. ident'[leg[w].request] # None
        BY <1>2, <1>3, <1>4
      <3> QED BY <3>1, <3>2, <3>3 DEF Named
    <2>2. Named(y) \in SUBSET Request /\ Named(y)' \in SUBSET Request
      BY DEF Named
    <2>3. count[y] <= Cardinality(Named(y)) /\ count[y] \in Nat /\ count'[y] = count[y]
      BY <1>0, <1>1 DEF BaseInv, NamesInv, TypeOK
    <2> QED BY <2>1, <2>2, <2>3, NamedFacts
  <1>8. \A q \in Request : mirror'[q] # None => ident'[q] # None
    BY <1>1, <1>3, <1>4 DEF BaseInv, NamesInv
  <1>9. IdentGrows
    BY <1>3, <1>4 DEF IdentGrows
  <1> QED BY <1>6, <1>7, <1>8, <1>9 DEF NamesInv

LEMMA RestartNames == ASSUME BaseInv, TypeOK', NEW x \in Replica, Restart(x) PROVE NamesInv'
  <1>0. TypeOK
    BY DEF BaseInv
  <1>1. /\ ident' = ident /\ mirror' = mirror /\ count' = [count EXCEPT ![x] = 0]
        /\ \A w \in Worker : \/ leg'[w] = leg[w] /\ (leg[w] # Idle => leg[w].at # x)
                             \/ leg'[w] = Idle /\ leg[w] # Idle /\ leg[w].at = x
    BY <1>0, RestartDoes
  <1>2. count \in [Replica -> Nat] /\ count'[x] = 0 /\ \A y \in Replica : y # x => count'[y] = count[y]
    BY <1>0, <1>1 DEF TypeOK
  <1>3. \A v \in Worker : Naming(v)' => Naming(v) /\ leg'[v] = leg[v] /\ leg[v].at # x
    BY <1>1 DEF Naming
  <1>4. ASSUME NEW v \in Worker, Naming(v)'
        PROVE  /\ leg'[v].call = "run" /\ ident'[leg'[v].request] = None /\ count'[leg'[v].at] >= 1
               /\ \A u \in Worker : Naming(u)' /\ leg'[u].request = leg'[v].request => u = v
    <2>1. /\ leg[v].call = "run" /\ ident[leg[v].request] = None /\ count[leg[v].at] >= 1
          /\ \A u \in Worker : Naming(u) /\ leg[u].request = leg[v].request => u = v
      BY <1>3, <1>4 DEF BaseInv, NamesInv
    <2>2. leg[v].at \in Replica
      BY <1>0, <1>3, <1>4, LegFacts DEF Naming
    <2> QED BY <1>1, <1>2, <1>3, <1>4, <2>1, <2>2
  <1>5. ASSUME NEW y \in Replica PROVE count'[y] <= Cardinality(Named(y)')
    <2>1. Named(y) \in SUBSET Request /\ Named(y)' \in SUBSET Request
      BY DEF Named
    <2>2. CASE y = x
      BY <1>2, <2>1, <2>2, NamedFacts
    <2>3. CASE y # x
      <3>1. \A w \in Worker : Naming(w) /\ leg[w].at = y => Naming(w)' /\ leg'[w] = leg[w]
        BY <1>1, <2>3 DEF Naming
      <3>2. Named(y) \subseteq Named(y)'
        BY <1>1, <3>1 DEF Named
      <3>3. count[y] <= Cardinality(Named(y))
        BY DEF BaseInv, NamesInv
      <3> QED BY <1>2, <2>1, <2>3, <3>2, <3>3, NamedFacts
    <2> QED BY <2>2, <2>3
  <1>6. \A q \in Request : mirror'[q] # None => ident'[q] # None
    BY <1>1 DEF BaseInv, NamesInv
  <1> QED BY <1>4, <1>5, <1>6 DEF NamesInv

LEMMA NamesStep == ASSUME BaseInv, TypeOK', [Next]_vars PROVE NamesInv' /\ IdentGrows
  <1>0. TypeOK /\ LegsInv
    BY DEF BaseInv
  <1> DEFINE Goal == NamesInv' /\ IdentGrows
  <1>A. ASSUME SameNames PROVE Goal
    BY <1>A, NamesKept DEF IdentGrows, SameNames
  <1> USE DEF Others, Rests, Stays, Goes, Naming
  <1>1. ASSUME NEW w \in Worker, NEW x \in Replica, NEW r \in Request, Run(w, x, r) PROVE Goal
    BY <1>0, <1>1, RunNames, RunDoes DEF IdentGrows
  <1>2. ASSUME NEW w \in Worker, NEW x \in Replica, NEW r \in Request, NEW d \in Decision, Resume(w, x, r, d)
        PROVE  Goal
    <2>1. SameNames
      BY <1>0, <1>2, ResumeDoes DEF SameNames
    <2> QED BY <1>A, <2>1
  <1>3. ASSUME NEW w \in Worker, NEW x \in Replica, NEW r \in Request, ResumeFromSupplement(w, x, r) PROVE Goal
    <2>1. SameNames
      BY <1>0, <1>3, SupplementDoes DEF SameNames
    <2> QED BY <1>A, <2>1
  <1>4. ASSUME NEW w \in Worker, StartRun(w) PROVE Goal
    BY <1>4, StartRunNames
  <1>5. ASSUME NEW w \in Worker, InvokeTool(w) \/ InvokeScope(w) PROVE Goal
    <2>1. SameNames
      BY <1>0, <1>5, InvokeDoes DEF SameNames
    <2> QED BY <1>A, <2>1
  <1>6. ASSUME NEW w \in Worker, ExecuteNode(w) PROVE Goal
    <2>1. SameNames
      BY <1>0, <1>6, ExecuteNodeDoes DEF SameNames, Carries
    <2> QED BY <1>A, <2>1
  <1>7. ASSUME NEW w \in Worker, RespondRun(w) PROVE Goal
    <2>1. SameNames
      BY <1>0, <1>7, RespondRunDoes DEF SameNames
    <2> QED BY <1>A, <2>1
  <1>8. ASSUME NEW w \in Worker, Inject(w) PROVE Goal
    <2>1. SameNames
      BY <1>0, <1>8, InjectDoes DEF SameNames
    <2> QED BY <1>A, <2>1
  <1>9. ASSUME NEW w \in Worker, InvokeThread(w) PROVE Goal
    <2>1. SameNames
      BY <1>0, <1>9, InvokeThreadDoes DEF SameNames, Carries
    <2> QED BY <1>A, <2>1
  <1>10. ASSUME NEW w \in Worker, RespondResume(w) PROVE Goal
    <2>1. SameNames
      BY <1>0, <1>10, RespondResumeDoes DEF SameNames
    <2> QED BY <1>A, <2>1
  <1>11. ASSUME NEW x \in Replica, NEW r \in Request, NEW d \in Decision, Decide(x, r, d) PROVE Goal
    <2>1. SameNames
      BY <1>0, <1>11, DecideDoes DEF SameNames
    <2> QED BY <1>A, <2>1
  <1>12. ASSUME NEW x \in Replica, Restart(x) PROVE Goal
    BY <1>0, <1>12, RestartNames, RestartDoes DEF IdentGrows
  <1>13. ASSUME UNCHANGED vars PROVE Goal
    <2>1. SameNames
      BY <1>13 DEF SameNames, vars
    <2> QED BY <1>A, <2>1
  <1> QED BY <1>1, <1>2, <1>3, <1>4, <1>5, <1>6, <1>7, <1>8, <1>9, <1>10, <1>11, <1>12, <1>13, NextCases

-----------------------------------------------------------------------------
(* Threads and legs stay with the run of their name.                       *)
SaverKept == \A p \in Place, id \in Id : saver'[p][id] # None => saver'[p][id] = saver[p][id]
PutFor(p, id, s) == Put(p, id, s) /\ s.request \in Request /\ ident'[s.request] = NameOf(p, id)

LEMMA NameThere == ASSUME NEW p \in Place, NEW id \in Id PROVE NameOf(p, id) # None
  BY NoneAssumption DEF NameOf

LEMMA ThreadsStays == ASSUME BaseInv, IdentGrows, SaverKept PROVE ThreadsInv'
  <1>1. SUFFICES ASSUME NEW p \in Place, NEW id \in Id, saver'[p][id] # None
                 PROVE  ident'[saver'[p][id].request] = NameOf(p, id)
    BY DEF ThreadsInv, Owns
  <1>2. saver'[p][id] = saver[p][id] /\ saver[p][id] # None
    BY <1>1 DEF SaverKept
  <1>3. saver[p][id].request \in Request /\ ident[saver[p][id].request] = NameOf(p, id)
    BY <1>2, StateFields DEF BaseInv, TypeOK, ThreadsInv, Owns
  <1> QED BY <1>2, <1>3, NameThere DEF IdentGrows

LEMMA ThreadsPut == ASSUME BaseInv, IdentGrows, NEW p \in Place, NEW id \in Id, NEW s, PutFor(p, id, s)
                    PROVE  ThreadsInv'
  <1>1. SUFFICES ASSUME NEW q \in Place, NEW i \in Id, saver'[q][i] # None
                 PROVE  ident'[saver'[q][i].request] = NameOf(q, i)
    BY DEF ThreadsInv, Owns
  <1>2. CASE q = p /\ i = id
    BY <1>2 DEF PutFor, Put
  <1>3. CASE ~(q = p /\ i = id)
    <2>1. saver'[q][i] = saver[q][i] /\ saver[q][i] # None
      BY <1>1, <1>3 DEF PutFor, Put
    <2>2. saver[q][i].request \in Request /\ ident[saver[q][i].request] = NameOf(q, i)
      BY <2>1, StateFields DEF BaseInv, TypeOK, ThreadsInv, Owns
    <2> QED BY <2>1, <2>2, NameThere DEF IdentGrows
  <1> QED BY <1>2, <1>3

LegOK(w) ==
    /\ leg[w].step # "name" => leg[w].id \in Id /\ ident[leg[w].request] # None
    /\ leg[w].step \in {"node", "respond"} =>
           leg[w].state # None /\ Owns(leg[w].state, BuildCheckpointer(leg[w].at), leg[w].id)
    /\ leg[w].step = "invoke" => Thread(leg[w].at, leg[w].id) # None
    /\ leg[w].step \in {"inject", "invoke"} => leg[w].call # "run" /\ leg[w].id = ident[leg[w].request].id
    /\ leg[w].step \in {"inject", "invoke"} /\ leg[w].decision = "approved" => leg[w].request \in approved

LEMMA LegsAre == LegsInv <=> \A w \in Worker : leg[w] # Idle => LegOK(w)
  BY DEF LegsInv, LegOK

LEMMA LegNext ==
    ASSUME deployment' = deployment, NEW w \in Worker, NEW x, NEW id, NEW p,
           leg'[w].at = x, leg'[w].id = id, BuildCheckpointer(x) = p,
           leg'[w].step # "name" => id \in Id /\ ident'[leg'[w].request] # None,
           leg'[w].step \in {"node", "respond"} =>
               leg'[w].state # None /\ ident'[leg'[w].state.request] = NameOf(p, id),
           leg'[w].step = "invoke" => saver'[p][id] # None,
           leg'[w].step \in {"inject", "invoke"} => leg'[w].call # "run" /\ id = ident'[leg'[w].request].id,
           leg'[w].step \in {"inject", "invoke"} /\ leg'[w].decision = "approved" => leg'[w].request \in approved'
    PROVE  LegOK(w)'
  BY DEF LegOK, Owns, Thread, BuildCheckpointer, ConstructRemoteSaver

(* A leg that a step leaves alone, and whose thread is not lost.           *)
LEMMA LegKept ==
    ASSUME BaseInv, IdentGrows, approved \subseteq approved', deployment' = deployment,
           NEW w \in Worker, leg[w] # Idle, leg'[w] = leg[w],
           \A id \in Id : LET p == BuildCheckpointer(leg[w].at) IN saver[p][id] # None => saver'[p][id] # None
    PROVE  LegOK(w)'
  <1>1. LegOK(w)
    BY LegsAre DEF BaseInv
  <1>2. leg[w] \in Leg /\ leg[w].request \in Request /\ leg[w].at \in Replica /\ leg[w].id \in Id \cup {0}
        /\ (leg[w].state # None => leg[w].state.request \in Request)
    BY LegFacts, StateFields DEF BaseInv
  <1>3. PICK x \in Replica, id \in Id \cup {0}, p \in Place :
            x = leg[w].at /\ id = leg[w].id /\ p = BuildCheckpointer(x)
    BY <1>2, PlaceFacts
  <1>4. leg[w].step # "name" => id \in Id /\ ident'[leg[w].request] # None
                                 /\ ident'[leg[w].request] = ident[leg[w].request]
    BY <1>1, <1>2, <1>3 DEF LegOK, IdentGrows
  <1>5. leg[w].step \in {"node", "respond"} =>
            leg[w].state # None /\ ident'[leg[w].state.request] = NameOf(p, id)
    <2>1. SUFFICES ASSUME leg[w].step \in {"node", "respond"}
                   PROVE  leg[w].state # None /\ ident'[leg[w].state.request] = NameOf(p, id)
      OBVIOUS
    <2>2. id \in Id /\ leg[w].state # None /\ ident[leg[w].state.request] = NameOf(p, id)
      BY <1>1, <1>3, <2>1 DEF LegOK, Owns
    <2> QED BY <1>2, <2>2, NameThere DEF IdentGrows
  <1>6. leg[w].step = "invoke" => saver'[p][id] # None
    BY <1>1, <1>3 DEF LegOK, Thread
  <1>7. /\ leg[w].step \in {"inject", "invoke"} => leg[w].call # "run" /\ id = ident'[leg[w].request].id
        /\ leg[w].step \in {"inject", "invoke"} /\ leg[w].decision = "approved" => leg[w].request \in approved'
    BY <1>1, <1>3, <1>4 DEF LegOK
  <1> QED BY <1>3, <1>4, <1>5, <1>6, <1>7, LegNext

(* No thread is lost but by a restart.                                     *)
ThreadsLast == \A p \in Place, id \in Id : saver[p][id] # None => saver'[p][id] # None
LEMMA PutLasts == ASSUME NEW p, NEW id, NEW s \in RunState, Put(p, id, s) PROVE ThreadsLast
  BY NoneAssumption DEF ThreadsLast, Put

(* The other legs, and one that rests.                                     *)
LEMMA LegsRest ==
    ASSUME BaseInv, IdentGrows, approved \subseteq approved', deployment' = deployment, ThreadsLast,
           NEW w \in Worker, \A v \in Worker \ {w} : leg'[v] = leg[v],
           leg'[w] = Idle \/ LegOK(w)'
    PROVE  LegsInv'
  <1>1. ASSUME NEW v \in Worker \ {w}, leg'[v] # Idle PROVE LegOK(v)'
    <2>1. leg'[v] = leg[v] /\ leg[v] # Idle
      BY <1>1
    <2>2. BuildCheckpointer(leg[v].at) \in Place
      BY <2>1, LegFacts, PlaceFacts DEF BaseInv
    <2> QED BY <2>1, <2>2, LegKept DEF ThreadsLast
  <1>2. \A v \in Worker : leg'[v] # Idle => LegOK(v)'
    BY <1>1
  <1> QED BY <1>2 DEF LegsInv, LegOK

LEMMA LegOnward ==
    ASSUME BaseInv, IdentGrows, deployment' = deployment, approved \subseteq approved',
           NEW w \in Worker, NEW p \in Place, NEW id \in Id, NEW s \in RunState, Stays(w), Carries(w, s),
           leg'[w].id = id, p = BuildCheckpointer(leg[w].at), ident'[leg[w].request] # None,
           ident'[s.request] = NameOf(p, id)
    PROVE  LegOK(w)'
  <1>1. /\ leg'[w].at = leg[w].at /\ leg'[w].request = leg[w].request /\ leg'[w].state = s
        /\ leg'[w].step \in {"node", "respond"}
    BY DEF Stays, Carries
  <1>2. s # None
    BY NoneAssumption
  <1> QED BY <1>1, <1>2, LegNext

LEMMA AllKept ==
    ASSUME BaseInv, IdentGrows, saver' = saver, approved' = approved, deployment' = deployment, leg' = leg
    PROVE  LegsInv'
  <1>1. ASSUME NEW v \in Worker, leg[v] # Idle PROVE LegOK(v)'
    BY <1>1, LegKept
  <1> QED BY <1>1 DEF LegsInv, LegOK

(* What a step leaves of the threads and the legs.                         *)
ThreadsAndLegs == ThreadsInv' /\ LegsInv'
LEMMA ThreadLegsStep == ASSUME BaseInv, TypeOK', IdentGrows, [Next]_vars PROVE ThreadsAndLegs
  <1>0. TypeOK /\ LegsInv /\ ThreadsInv
    BY DEF BaseInv
  <1>A. ASSUME saver' = saver PROVE ThreadsInv' /\ ThreadsLast
    BY <1>A, ThreadsStays DEF SaverKept, ThreadsLast
  <1>1. ASSUME NEW w \in Worker, NEW x \in Replica, NEW r \in Request, Run(w, x, r) PROVE ThreadsAndLegs
    <2>1. /\ saver' = saver /\ deployment' = deployment /\ approved' = approved
          /\ \A v \in Worker \ {w} : leg'[v] = leg[v]
          /\ leg'[w].step = "name" /\ leg'[w].at = x
      BY <1>0, <1>1, RunDoes DEF Goes, Others
    <2>2. LegOK(w)'
      BY <2>1 DEF LegOK
    <2> QED BY <1>A, <2>1, <2>2, LegsRest DEF ThreadsAndLegs
  <1>2. ASSUME NEW w \in Worker, NEW x \in Replica, NEW r \in Request, NEW d \in Decision, Resume(w, x, r, d)
        PROVE  ThreadsAndLegs
    <2>1. /\ saver' = saver /\ deployment' = deployment /\ approved \subseteq approved' /\ ident' = ident
          /\ \A v \in Worker \ {w} : leg'[v] = leg[v]
          /\ leg'[w].call = "resume" /\ leg'[w].at = x /\ leg'[w].request = r /\ leg'[w].step = "inject"
          /\ leg'[w].id = ident[r].id /\ leg'[w].decision = d
          /\ ident[r] # None /\ ident[r].id \in Id /\ (d = "approved" => r \in approved')
      BY <1>0, <1>2, ResumeDoes DEF Goes, Others
    <2>2. PICK id \in Id, p \in Place : id = ident[r].id /\ p = BuildCheckpointer(x)
      BY <2>1, PlaceFacts
    <2>3. LegOK(w)'
      BY <2>1, <2>2, LegNext
    <2> QED BY <1>A, <2>1, <2>3, LegsRest DEF ThreadsAndLegs
  <1>3. ASSUME NEW w \in Worker, NEW x \in Replica, NEW r \in Request, ResumeFromSupplement(w, x, r) PROVE ThreadsAndLegs
    <2>1. /\ saver' = saver /\ deployment' = deployment /\ approved = approved' /\ ident' = ident
          /\ \A v \in Worker \ {w} : leg'[v] = leg[v]
          /\ leg'[w].call = "supplement" /\ leg'[w].at = x /\ leg'[w].request = r /\ leg'[w].step = "inject"
          /\ leg'[w].id = ident[r].id /\ leg'[w].decision = None
          /\ ident[r] # None /\ ident[r].id \in Id
      BY <1>0, <1>3, SupplementDoes DEF Goes, Others
    <2>2. PICK id \in Id, p \in Place : id = ident[r].id /\ p = BuildCheckpointer(x)
      BY <2>1, PlaceFacts
    <2>3. None # "approved"
      BY NoneAssumption DEF Decision
    <2>4. LegOK(w)'
      BY <2>1, <2>2, <2>3, LegNext
    <2> QED BY <1>A, <2>1, <2>4, LegsRest DEF ThreadsAndLegs
  <1>4. ASSUME NEW w \in Worker, StartRun(w) PROVE ThreadsAndLegs
    <2>1. /\ deployment' = deployment /\ approved' = approved /\ Naming(w) /\ Stays(w)
          /\ \A v \in Worker \ {w} : leg'[v] = leg[v]
      BY <1>4, StartRunDoes DEF Stays, Others
    <2>2. PICK p \in Place : p = BuildCheckpointer(leg[w].at)
      BY <1>0, <2>1, LegFacts, PlaceFacts DEF Naming
    <2>3. PICK id \in Id, s \in RunState :
              /\ leg'[w].id = id /\ Carries(w, s) /\ Put(p, id, s) /\ s.request = leg[w].request
              /\ ident' = [ident EXCEPT ![leg[w].request] = NameOf(p, id)]
      BY <1>4, <2>2, StartRunDoes
    <2>4. s.request \in Request /\ ident'[s.request] = NameOf(p, id) /\ NameOf(p, id) # None
      BY <1>0, <2>3, StateFields, NameThere DEF TypeOK
    <2>5. ThreadsInv' /\ ThreadsLast
      BY <2>3, <2>4, ThreadsPut, PutLasts DEF PutFor
    <2>6. LegOK(w)'
      BY <2>1, <2>2, <2>3, <2>4, LegOnward
    <2> QED BY <2>1, <2>5, <2>6, LegsRest DEF ThreadsAndLegs
  <1>5. ASSUME NEW w \in Worker, InvokeTool(w) \/ InvokeScope(w) PROVE ThreadsAndLegs
    <2>1. /\ saver' = saver /\ deployment' = deployment /\ approved' = approved /\ ident' = ident
          /\ \A v \in Worker \ {w} : leg'[v] = leg[v]
          /\ leg[w] # Idle /\ leg'[w].at = leg[w].at /\ leg'[w].request = leg[w].request
          /\ leg[w].step = "node" /\ leg'[w].step = "node" /\ leg'[w].id = leg[w].id
          /\ leg'[w].state = leg[w].state
      BY <1>0, <1>5, InvokeDoes DEF Stays, Others
    <2>2. PICK p \in Place : p = BuildCheckpointer(leg[w].at)
      BY <1>0, <2>1, LegFacts, PlaceFacts
    <2>3. /\ leg[w].id \in Id /\ ident[leg[w].request] # None /\ leg[w].state # None
          /\ ident[leg[w].state.request] = NameOf(p, leg[w].id)
      BY <1>0, <2>1, <2>2 DEF LegsInv, Owns
    <2>4. LegOK(w)'
      BY <2>1, <2>2, <2>3, LegNext
    <2> QED BY <1>A, <2>1, <2>4, LegsRest DEF ThreadsAndLegs
  <1>6. ASSUME NEW w \in Worker, ExecuteNode(w) PROVE ThreadsAndLegs
    <2>1. /\ deployment' = deployment /\ approved' = approved /\ ident' = ident
          /\ leg[w].step = "node" /\ Stays(w) /\ leg'[w].id = leg[w].id /\ leg[w] # Idle
          /\ \A v \in Worker \ {w} : leg'[v] = leg[v]
      BY <1>0, <1>6, ExecuteNodeDoes DEF Stays, Others
    <2>2. PICK p \in Place : p = BuildCheckpointer(leg[w].at)
      BY <1>0, <2>1, LegFacts, PlaceFacts
    <2>3. /\ leg[w].id \in Id /\ ident[leg[w].request] # None /\ leg[w].request \in Request
          /\ ident[leg[w].state.request] = NameOf(p, leg[w].id)
      BY <1>0, <2>1, <2>2, LegFacts DEF LegsInv, Owns
    <2>4. PICK s \in RunState : /\ Carries(w, s) /\ Put(p, leg[w].id, s) /\ s.request = leg[w].state.request
      BY <1>0, <1>6, <2>2, ExecuteNodeDoes
    <2>5. s.request \in Request /\ ident'[s.request] = NameOf(p, leg[w].id)
      BY <2>1, <2>3, <2>4, StateFields
    <2>6. ThreadsInv' /\ ThreadsLast
      BY <2>3, <2>4, <2>5, ThreadsPut, PutLasts DEF PutFor
    <2>7. LegOK(w)'
      BY <2>1, <2>2, <2>3, <2>4, <2>5, LegOnward
    <2> QED BY <2>1, <2>6, <2>7, LegsRest DEF ThreadsAndLegs
  <1>7. ASSUME NEW w \in Worker, RespondRun(w) PROVE ThreadsAndLegs
    <2>1. /\ saver' = saver /\ deployment' = deployment /\ approved' = approved
          /\ leg'[w] = Idle /\ \A v \in Worker \ {w} : leg'[v] = leg[v]
      BY <1>7, RespondRunDoes DEF Rests, Others
    <2> QED BY <1>A, <2>1, LegsRest DEF ThreadsAndLegs
  <1>8. ASSUME NEW w \in Worker, Inject(w) PROVE ThreadsAndLegs
    <2>1. /\ deployment' = deployment /\ approved' = approved /\ ident' = ident
          /\ leg[w] # Idle /\ leg[w].step = "inject"
          /\ \A v \in Worker \ {w} : leg'[v] = leg[v]
      BY <1>8, InjectDoes DEF Stays, Rests, Others
    <2>2. CASE Rests(w) /\ saver' = saver
      BY <1>A, <2>1, <2>2, LegsRest DEF ThreadsAndLegs, Rests
    <2>3. CASE ~(Rests(w) /\ saver' = saver)
      <3>1. PICK p \in Place, id \in Id : p = BuildCheckpointer(leg[w].at) /\ id = leg[w].id
        BY <1>0, <2>1, LegFacts, PlaceFacts DEF LegsInv
      <3>2. /\ Stays(w) /\ leg'[w].step = "invoke" /\ leg'[w].id = id
        BY <1>8, <2>3, <3>1, InjectDoes
      <3>3. PICK old \in RunState, s \in RunState :
                old = saver[p][id] /\ s.request = old.request /\ Put(p, id, s)
        BY <1>8, <2>3, <3>1, InjectDoes
      <3>4. ident[old.request] = NameOf(p, id) /\ old.request \in Request
        BY <1>0, <3>3, NoneAssumption, StateFields DEF ThreadsInv, Owns
      <3>5. ThreadsInv' /\ ThreadsLast
        BY <2>1, <3>3, <3>4, ThreadsPut, PutLasts DEF PutFor
      <3>6. saver'[p][id] # None
        BY <3>3, NoneAssumption DEF Put
      <3>7. /\ leg'[w].call = leg[w].call /\ leg'[w].at = leg[w].at /\ leg'[w].request = leg[w].request
            /\ leg'[w].decision = leg[w].decision
        BY <3>2 DEF Stays
      <3>8. /\ ident[leg[w].request] # None /\ leg[w].call # "run" /\ id = ident[leg[w].request].id
            /\ leg[w].decision = "approved" => leg[w].request \in approved
        BY <1>0, <2>1, <3>1 DEF LegsInv
      <3>9. LegOK(w)'
        BY <2>1, <3>1, <3>2, <3>6, <3>7, <3>8, LegNext
      <3> QED BY <2>1, <3>5, <3>9, LegsRest DEF ThreadsAndLegs
    <2> QED BY <2>2, <2>3
  <1>9. ASSUME NEW w \in Worker, InvokeThread(w) PROVE ThreadsAndLegs
    <2>1. /\ saver' = saver /\ deployment' = deployment /\ approved' = approved /\ ident' = ident
          /\ Stays(w) /\ leg[w].step = "invoke" /\ leg[w] # Idle
          /\ \A v \in Worker \ {w} : leg'[v] = leg[v]
      BY <1>9, InvokeThreadDoes DEF Stays, Others
    <2>2. PICK p \in Place, id \in Id : p = BuildCheckpointer(leg[w].at) /\ id = leg[w].id
      BY <1>0, <2>1, LegFacts, PlaceFacts DEF LegsInv
    <2>3. PICK s \in RunState : s = saver[p][id] /\ Carries(w, s) /\ leg'[w].id = id
      BY <1>9, <2>2, InvokeThreadDoes
    <2>4. ident[s.request] = NameOf(p, id) /\ ident[leg[w].request] # None
      BY <1>0, <2>1, <2>3, NoneAssumption DEF ThreadsInv, LegsInv, Owns
    <2>5. LegOK(w)'
      BY <2>1, <2>2, <2>3, <2>4, LegOnward
    <2> QED BY <1>A, <2>1, <2>5, LegsRest DEF ThreadsAndLegs
  <1>10. ASSUME NEW w \in Worker, RespondResume(w) PROVE ThreadsAndLegs
    <2>1. /\ saver' = saver /\ deployment' = deployment /\ approved' = approved
          /\ leg'[w] = Idle /\ \A v \in Worker \ {w} : leg'[v] = leg[v]
      BY <1>10, RespondResumeDoes DEF Rests, Others
    <2> QED BY <1>A, <2>1, LegsRest DEF ThreadsAndLegs
  <1>11. ASSUME NEW x \in Replica, NEW r \in Request, NEW d \in Decision, Decide(x, r, d) PROVE ThreadsAndLegs
    <2>1. saver' = saver /\ deployment' = deployment /\ approved' = approved /\ leg' = leg
      BY <1>11, DecideDoes
    <2> QED BY <1>A, <2>1, AllKept DEF ThreadsAndLegs
  <1>12. ASSUME NEW x \in Replica, Restart(x) PROVE ThreadsAndLegs
    <2>1. /\ deployment' = deployment /\ approved' = approved
          /\ saver' \in [Place -> [Id -> RunState \cup {None}]]
          /\ \A id \in Id : saver'[x][id] = None
          /\ \A p \in Place : p # x => saver'[p] = saver[p]
          /\ \A w \in Worker : \/ leg'[w] = leg[w] /\ (leg[w] # Idle => leg[w].at # x)
                               \/ leg'[w] = Idle /\ leg[w] # Idle /\ leg[w].at = x
      BY <1>0, <1>12, RestartDoes
    <2>2. ThreadsInv'
      BY <2>1, ThreadsStays DEF SaverKept
    <2>3. ASSUME NEW w \in Worker, leg'[w] # Idle PROVE LegOK(w)'
      <3>1. leg'[w] = leg[w] /\ leg[w] # Idle /\ leg[w].at # x
        BY <2>1, <2>3
      <3>2. PICK p \in Place : p = BuildCheckpointer(leg[w].at) /\ p # x
        BY <1>0, <3>1, LegFacts, PlaceFacts
      <3>3. saver'[p] = saver[p]
        BY <2>1, <3>2
      <3> QED BY <2>1, <3>1, <3>2, <3>3, LegKept
    <2> QED BY <2>2, <2>3 DEF ThreadsAndLegs, LegsInv, LegOK
  <1>13. ASSUME UNCHANGED vars PROVE ThreadsAndLegs
    <2>1. saver' = saver /\ deployment' = deployment /\ approved' = approved /\ leg' = leg
      BY <1>13 DEF vars
    <2> QED BY <1>A, <2>1, AllKept DEF ThreadsAndLegs
  <1> QED BY <1>1, <1>2, <1>3, <1>4, <1>5, <1>6, <1>7, <1>8, <1>9, <1>10, <1>11, <1>12, <1>13, NextCases

-----------------------------------------------------------------------------
(* The runs whose tools may be called stay so.                             *)
LEMMA ReleasedGrows ==
    ASSUME TypeOK, IdentGrows, approved \subseteq approved', deployment' = deployment
    PROVE  Released \subseteq Released'
  <1>1. ASSUME NEW r \in Request, SharesName(r) PROVE SharesName(r)'
    <2>1. PICK q \in Request \ {r} : ident[r] # None /\ ident[q] # None /\ ident[q].id = ident[r].id
      BY <1>1 DEF SharesName
    <2>2. ident'[r] = ident[r] /\ ident'[q] = ident[q]
      BY <2>1 DEF IdentGrows
    <2> QED BY <2>1, <2>2 DEF SharesName
  <1>2. ASSUME NEW r \in Request, r \in Released PROVE r \in Released'
    <2>1. TemplateOf(r)' = TemplateOf(r)
      BY DEF TemplateOf
    <2> QED BY <1>1, <1>2, <2>1 DEF Released
  <1> QED BY <1>2 DEF Released

Grows == IdentGrows /\ approved \subseteq approved' /\ deployment' = deployment

LEMMA GatedGrows ==
    ASSUME TypeOK, Grows, NEW s \in RunState, Gated(s) PROVE Gated(s)'
  <1>1. TemplateOf(s.request)' = TemplateOf(s.request) /\ Past(s)' = Past(s)
    BY DEF TemplateOf, Past, Grows
  <1>2. Released \subseteq Released'
    BY ReleasedGrows DEF Grows
  <1> QED BY <1>1, <1>2 DEF Gated

LEMMA ItemsStay == ASSUME Grows, NEW s PROVE ItemsOf(s)' = ItemsOf(s)
  BY DEF Grows, ItemsOf, ToolsOf, TemplateOf, KnowledgeSources

ThreadsGated == \A p \in Place, id \in Id : saver[p][id] # None => Gated(saver[p][id])
LegGated(w) == /\ leg[w].step \in {"node", "respond"} => Gated(leg[w].state)
               /\ leg[w].step = "node" => leg[w].todo \subseteq ItemsOf(leg[w].state)
ItemsGated == \A r \in Request : (\E i \in Item : invoked[r][i] > 0) => r \in Released
LEMMA GateIs == GateInv <=> ThreadsGated /\ (\A w \in Worker : leg[w] # Idle => LegGated(w)) /\ ItemsGated
  BY DEF GateInv, ThreadsGated, LegGated, ItemsGated

LEMMA ThreadsNext ==
    ASSUME \A p \in Place, id \in Id : saver'[p][id] # None =>
               \E s \in RunState : s = saver'[p][id] /\ Gated(s)'
    PROVE  ThreadsGated'
  BY DEF ThreadsGated, Gated, Past

LEMMA ThreadsStayGated == ASSUME BaseInv, Grows, ThreadsGated, SaverKept PROVE ThreadsGated'
  <1>1. ASSUME NEW p \in Place, NEW id \in Id, saver'[p][id] # None
        PROVE  \E s \in RunState : s = saver'[p][id] /\ Gated(s)'
    <2>1. PICK s \in RunState : s = saver'[p][id] /\ s = saver[p][id]
      BY <1>1 DEF SaverKept, BaseInv, TypeOK
    <2>2. Gated(s)'
      BY <1>1, <2>1, GatedGrows DEF ThreadsGated, BaseInv
    <2> QED BY <2>1, <2>2
  <1> QED BY <1>1, ThreadsNext

LEMMA ThreadsPutGated ==
    ASSUME BaseInv, Grows, ThreadsGated, NEW p \in Place, NEW id \in Id, NEW s \in RunState, Put(p, id, s), Gated(s)
    PROVE  ThreadsGated'
  <1>1. ASSUME NEW q \in Place, NEW i \in Id, saver'[q][i] # None
        PROVE  \E t \in RunState : t = saver'[q][i] /\ Gated(t)'
    <2>1. PICK t \in RunState : t = saver'[q][i]
      BY <1>1 DEF Put
    <2>2. t = s \/ t = saver[q][i]
      BY <2>1 DEF Put
    <2>3. Gated(t)
      BY <1>1, <2>1, <2>2, NoneAssumption DEF ThreadsGated
    <2>4. Gated(t)'
      BY <2>3, GatedGrows DEF BaseInv
    <2> QED BY <2>1, <2>4
  <1> QED BY <1>1, ThreadsNext

LEMMA LegKeptGated ==
    ASSUME BaseInv, Grows, NEW w \in Worker, leg[w] # Idle, leg'[w] = leg[w], LegGated(w) PROVE LegGated(w)'
  <1>1. SUFFICES ASSUME leg[w].step \in {"node", "respond"} PROVE LegGated(w)'
    BY DEF LegGated
  <1>2. PICK s \in RunState : s = leg[w].state
    BY <1>1, LegFacts DEF BaseInv, LegsInv
  <1>3. Gated(s)'
    BY <1>1, <1>2, GatedGrows DEF LegGated, BaseInv
  <1>4. leg'[w].step = "node" => leg'[w].todo \subseteq ItemsOf(s)'
    BY <1>2, ItemsStay DEF LegGated
  <1> QED BY <1>2, <1>3, <1>4 DEF LegGated, Gated, Past, ItemsOf, ToolsOf, TemplateOf

LEMMA LegOnwardGated ==
    ASSUME BaseInv, Grows, NEW w \in Worker, NEW s \in RunState, Carries(w, s), Gated(s) PROVE LegGated(w)'
  <1>1. Gated(s)'
    BY GatedGrows DEF BaseInv
  <1>2. ItemsOf(s)' = ItemsOf(s)
    BY ItemsStay
  <1>3. leg'[w].state = s /\ (leg'[w].step = "respond" \/ leg'[w].todo = ItemsOf(s))
    BY DEF Carries
  <1> QED BY <1>1, <1>2, <1>3 DEF LegGated, Gated, Past, ItemsOf, ToolsOf, TemplateOf

LEMMA ItemsStayGated == ASSUME BaseInv, Grows, ItemsGated, invoked' = invoked PROVE ItemsGated'
  BY ReleasedGrows DEF ItemsGated, Grows, BaseInv

(* One leg moves, and what it carries is gated.                            *)
LEMMA OneLegGated ==
    ASSUME BaseInv, GateInv, Grows, ThreadsGated', ItemsGated', NEW w \in Worker,
           \A v \in Worker \ {w} : leg'[v] = leg[v], leg'[w] = Idle \/ LegGated(w)'
    PROVE  GateInv'
  <1>1. ASSUME NEW v \in Worker \ {w}, leg'[v] # Idle PROVE LegGated(v)'
    BY <1>1, LegKeptGated, GateIs
  <1> QED BY <1>1, GateIs DEF GateInv, ThreadsGated, LegGated, ItemsGated

LEMMA DecisionReleases ==
    ASSUME BaseInv, NEW w \in Worker, leg[w] # Idle, leg[w].step = "inject", leg[w].decision = "approved",
           NEW s \in RunState, s = saver[BuildCheckpointer(leg[w].at)][leg[w].id]
    PROVE  s.request \in Released
  <1>1. PICK p \in Place, id \in Id, r \in Request :
            p = BuildCheckpointer(leg[w].at) /\ id = leg[w].id /\ r = leg[w].request
    BY LegFacts, PlaceFacts DEF BaseInv, LegsInv
  <1>2. ident[r] # None /\ ident[r].id = id /\ r \in approved
    BY <1>1 DEF BaseInv, LegsInv
  <1>3. s.request \in Request /\ ident[s.request] = NameOf(p, id)
    BY <1>1, StateFields, NoneAssumption DEF BaseInv, ThreadsInv, Owns
  <1>4. NameOf(p, id).id = id /\ NameOf(p, id) # None
    BY NameThere DEF NameOf
  <1>5. CASE s.request = r
    BY <1>2, <1>3, <1>5 DEF Released
  <1>6. CASE s.request # r
    BY <1>2, <1>3, <1>4, <1>6 DEF Released, SharesName
  <1> QED BY <1>5, <1>6

LEMMA GateStep == ASSUME BaseInv, GateInv, TypeOK', IdentGrows, [Next]_vars PROVE GateInv'
  <1>0. TypeOK /\ LegsInv /\ ThreadsGated /\ ItemsGated /\ \A w \in Worker : leg[w] # Idle => LegGated(w)
    BY GateIs DEF BaseInv
  <1>A. ASSUME Grows, saver' = saver PROVE ThreadsGated'
    BY <1>0, <1>A, ThreadsStayGated DEF SaverKept
  <1>1. ASSUME NEW w \in Worker, NEW x \in Replica, NEW r \in Request, Run(w, x, r) PROVE GateInv'
    <2>1. /\ Grows /\ saver' = saver /\ invoked' = invoked
          /\ \A v \in Worker \ {w} : leg'[v] = leg[v]
          /\ leg'[w].step = "name"
      BY <1>0, <1>1, RunDoes DEF Goes, Others, Grows
    <2>2. LegGated(w)'
      BY <2>1 DEF LegGated
    <2> QED BY <1>0, <1>A, <2>1, <2>2, ItemsStayGated, OneLegGated
  <1>2. ASSUME NEW w \in Worker, NEW x \in Replica, NEW r \in Request, NEW d \in Decision, Resume(w, x, r, d)
        PROVE  GateInv'
    <2>1. /\ Grows /\ saver' = saver /\ invoked' = invoked
          /\ \A v \in Worker \ {w} : leg'[v] = leg[v]
          /\ leg'[w].step = "inject"
      BY <1>0, <1>2, ResumeDoes DEF Goes, Others, Grows
    <2>2. LegGated(w)'
      BY <2>1 DEF LegGated
    <2> QED BY <1>0, <1>A, <2>1, <2>2, ItemsStayGated, OneLegGated
  <1>3. ASSUME NEW w \in Worker, NEW x \in Replica, NEW r \in Request, ResumeFromSupplement(w, x, r) PROVE GateInv'
    <2>1. /\ Grows /\ saver' = saver /\ invoked' = invoked
          /\ \A v \in Worker \ {w} : leg'[v] = leg[v]
          /\ leg'[w].step = "inject"
      BY <1>0, <1>3, SupplementDoes DEF Goes, Others, Grows
    <2>2. LegGated(w)'
      BY <2>1 DEF LegGated
    <2> QED BY <1>0, <1>A, <2>1, <2>2, ItemsStayGated, OneLegGated
  <1>4. ASSUME NEW w \in Worker, StartRun(w) PROVE GateInv'
    <2>1. /\ Grows /\ invoked' = invoked /\ Naming(w)
          /\ \A v \in Worker \ {w} : leg'[v] = leg[v]
      BY <1>4, StartRunDoes DEF Stays, Others, Grows
    <2>2. PICK p \in Place : p = BuildCheckpointer(leg[w].at)
      BY <1>0, <2>1, LegFacts, PlaceFacts DEF Naming
    <2>3. PICK id \in Id, s \in RunState : Carries(w, s) /\ Put(p, id, s) /\ Gated(s)
      BY <1>4, <2>2, StartRunDoes
    <2>4. ThreadsGated'
      BY <1>0, <2>1, <2>3, ThreadsPutGated
    <2>5. LegGated(w)'
      BY <2>1, <2>3, LegOnwardGated
    <2> QED BY <1>0, <2>1, <2>4, <2>5, ItemsStayGated, OneLegGated
  <1>5. ASSUME NEW w \in Worker, InvokeTool(w) \/ InvokeScope(w) PROVE GateInv'
    <2>1. /\ Grows /\ saver' = saver /\ TypeOK
          /\ \A v \in Worker \ {w} : leg'[v] = leg[v]
          /\ leg[w] # Idle /\ leg[w].step = "node" /\ leg'[w].step = "node"
          /\ leg'[w].todo \subseteq leg[w].todo /\ leg[w].todo # {}
      BY <1>0, <1>5, InvokeDoes DEF Stays, Others, Grows
    <2>2. PICK s \in RunState : s = leg[w].state /\ s = leg'[w].state
      BY <1>0, <1>5, InvokeDoes
    <2>3. /\ \A r \in Request : r # s.request => invoked'[r] = invoked[r]
          /\ s.request \in Request
      BY <1>0, <1>5, <2>2, InvokeDoes, StateFields
    <2>4. Gated(s) /\ leg[w].todo \subseteq ItemsOf(s)
      BY <1>0, <2>1, <2>2 DEF LegGated
    <2>5. s.request \in Released /\ Released \subseteq Released'
      BY <2>1, <2>4, ItemsFacts, ReleasedGrows DEF Grows
    <2>6. ItemsGated'
      BY <1>0, <2>3, <2>5 DEF ItemsGated
    <2>7. Gated(s)' /\ ItemsOf(s)' = ItemsOf(s)
      BY <2>1, <2>4, GatedGrows, ItemsStay
    <2>8. LegGated(w)'
      BY <2>1, <2>2, <2>4, <2>7 DEF LegGated, Gated, Past, ItemsOf, ToolsOf, TemplateOf
    <2> QED BY <1>A, <2>1, <2>6, <2>8, OneLegGated
  <1>6. ASSUME NEW w \in Worker, ExecuteNode(w) PROVE GateInv'
    <2>1. /\ Grows /\ invoked' = invoked
          /\ leg[w].step = "node" /\ leg[w] # Idle
          /\ \A v \in Worker \ {w} : leg'[v] = leg[v]
      BY <1>0, <1>6, ExecuteNodeDoes DEF Stays, Others, Grows
    <2>2. PICK p \in Place, id \in Id : p = BuildCheckpointer(leg[w].at) /\ id = leg[w].id
      BY <1>0, <2>1, LegFacts, PlaceFacts DEF LegsInv
    <2>3. Gated(leg[w].state)
      BY <1>0, <2>1 DEF LegGated
    <2>4. PICK s \in RunState : Carries(w, s) /\ Put(p, id, s) /\ Gated(s)
      BY <1>0, <1>6, <2>2, <2>3, ExecuteNodeDoes
    <2>5. ThreadsGated'
      BY <1>0, <2>1, <2>4, ThreadsPutGated
    <2>6. LegGated(w)'
      BY <2>1, <2>4, LegOnwardGated
    <2> QED BY <1>0, <2>1, <2>5, <2>6, ItemsStayGated, OneLegGated
  <1>7. ASSUME NEW w \in Worker, RespondRun(w) PROVE GateInv'
    <2>1. /\ Grows /\ saver' = saver /\ invoked' = invoked
          /\ leg'[w] = Idle /\ \A v \in Worker \ {w} : leg'[v] = leg[v]
      BY <1>7, RespondRunDoes DEF Rests, Others, Grows
    <2> QED BY <1>0, <1>A, <2>1, ItemsStayGated, OneLegGated
  <1>8. ASSUME NEW w \in Worker, Inject(w) PROVE GateInv'
    <2>1. /\ Grows /\ invoked' = invoked
          /\ leg[w] # Idle /\ leg[w].step = "inject"
          /\ \A v \in Worker \ {w} : leg'[v] = leg[v]
      BY <1>8, InjectDoes DEF Stays, Rests, Others, Grows
    <2>2. CASE Rests(w) /\ saver' = saver
      BY <1>0, <1>A, <2>1, <2>2, ItemsStayGated, OneLegGated DEF Rests
    <2>3. CASE ~(Rests(w) /\ saver' = saver)
      <3>1. PICK p \in Place, id \in Id : p = BuildCheckpointer(leg[w].at) /\ id = leg[w].id
        BY <1>0, <2>1, LegFacts, PlaceFacts DEF LegsInv
      <3>2. leg'[w].step = "invoke"
        BY <1>8, <2>3, InjectDoes
      <3>3. PICK old \in RunState, s \in RunState :
                /\ old = saver[BuildCheckpointer(leg[w].at)][leg[w].id] /\ Put(p, id, s)
                /\ Gated(old) /\ (leg[w].decision = "approved" => old.request \in Released) => Gated(s)
        BY <1>8, <2>3, <3>1, InjectDoes
      <3>4. Gated(old)
        BY <1>0, <3>1, <3>3, NoneAssumption DEF ThreadsGated
      <3>5. Gated(s)
        BY <2>1, <3>3, <3>4, DecisionReleases
      <3>6. ThreadsGated'
        BY <1>0, <2>1, <3>3, <3>5, ThreadsPutGated
      <3>7. LegGated(w)'
        BY <3>2 DEF LegGated
      <3> QED BY <1>0, <2>1, <3>6, <3>7, ItemsStayGated, OneLegGated
    <2> QED BY <2>2, <2>3
  <1>9. ASSUME NEW w \in Worker, InvokeThread(w) PROVE GateInv'
    <2>1. /\ Grows /\ saver' = saver /\ invoked' = invoked
          /\ leg[w].step = "invoke" /\ leg[w] # Idle
          /\ \A v \in Worker \ {w} : leg'[v] = leg[v]
      BY <1>9, InvokeThreadDoes DEF Stays, Others, Grows
    <2>2. PICK p \in Place, id \in Id : p = BuildCheckpointer(leg[w].at) /\ id = leg[w].id
      BY <1>0, <2>1, LegFacts, PlaceFacts DEF LegsInv
    <2>3. PICK s \in RunState : s = saver[p][id] /\ Carries(w, s)
      BY <1>9, <2>2, InvokeThreadDoes
    <2>4. Gated(s)
      BY <1>0, <2>3, NoneAssumption DEF ThreadsGated
    <2>5. LegGated(w)'
      BY <2>1, <2>3, <2>4, LegOnwardGated
    <2> QED BY <1>0, <1>A, <2>1, <2>5, ItemsStayGated, OneLegGated
  <1>10. ASSUME NEW w \in Worker, RespondResume(w) PROVE GateInv'
    <2>1. /\ Grows /\ saver' = saver /\ invoked' = invoked
          /\ leg'[w] = Idle /\ \A v \in Worker \ {w} : leg'[v] = leg[v]
      BY <1>10, RespondResumeDoes DEF Rests, Others, Grows
    <2> QED BY <1>0, <1>A, <2>1, ItemsStayGated, OneLegGated
  <1>B. ASSUME Grows, SaverKept, invoked' = invoked, \A w \in Worker : leg'[w] = leg[w] \/ leg'[w] = Idle
        PROVE  GateInv'
    <2>1. ThreadsGated' /\ ItemsGated'
      BY <1>0, <1>B, ThreadsStayGated, ItemsStayGated
    <2>2. ASSUME NEW w \in Worker, leg'[w] # Idle PROVE LegGated(w)'
      BY <1>0, <1>B, <2>2, LegKeptGated
    <2> QED BY <2>1, <2>2 DEF GateInv, ThreadsGated, LegGated, ItemsGated
  <1>11. ASSUME NEW x \in Replica, NEW r \in Request, NEW d \in Decision, Decide(x, r, d) PROVE GateInv'
    <2>1. Grows /\ SaverKept /\ invoked' = invoked /\ \A w \in Worker : leg'[w] = leg[w]
      BY <1>11, DecideDoes DEF Grows, SaverKept
    <2> QED BY <1>B, <2>1
  <1>12. ASSUME NEW x \in Replica, Restart(x) PROVE GateInv'
    <2>1. Grows /\ SaverKept /\ invoked' = invoked /\ \A w \in Worker : leg'[w] = leg[w] \/ leg'[w] = Idle
      BY <1>0, <1>12, RestartDoes DEF Grows, SaverKept
    <2> QED BY <1>B, <2>1
  <1>13. ASSUME UNCHANGED vars PROVE GateInv'
    <2>1. Grows /\ SaverKept /\ invoked' = invoked /\ \A w \in Worker : leg'[w] = leg[w]
      BY <1>13 DEF Grows, SaverKept, vars
    <2> QED BY <1>B, <2>1
  <1> QED BY <1>1, <1>2, <1>3, <1>4, <1>5, <1>6, <1>7, <1>8, <1>9, <1>10, <1>11, <1>12, <1>13, NextCases

-----------------------------------------------------------------------------
LEMMA InitBase == Init => BaseInv
  <1>1. SUFFICES ASSUME Init PROVE BaseInv
    OBVIOUS
  <1>2. TypeOK
    BY <1>1 DEF Init, TypeOK
  <1>3. \A w \in Worker : leg[w] = Idle
    BY <1>1 DEF Init
  <1>4. NamesInv
    <2>1. ASSUME NEW x \in Replica PROVE count[x] <= Cardinality(Named(x))
      <3>1. count[x] = 0 /\ Named(x) \in SUBSET Request
        BY <1>1 DEF Init, Named
      <3> QED BY <3>1, NamedFacts
    <2> QED BY <1>1, <1>3, <2>1 DEF NamesInv, Naming, Init
  <1>5. ThreadsInv /\ LegsInv
    BY <1>1, <1>3 DEF ThreadsInv, LegsInv, Init
  <1> QED BY <1>2, <1>4, <1>5 DEF BaseInv

LEMMA InitGate == Init => GateInv
  <1>1. SUFFICES ASSUME Init PROVE GateInv
    OBVIOUS
  <1>2. \A r \in Request, i \in Item : ~(invoked[r][i] > 0)
    BY <1>1 DEF Init
  <1> QED BY <1>1, <1>2 DEF GateInv, Init

LEMMA BaseStep == ASSUME BaseInv, [Next]_vars PROVE BaseInv' /\ IdentGrows
  <1>1. TypeOK' /\ NamesInv' /\ IdentGrows
    BY TypeStep, NamesStep
  <1>2. ThreadsInv' /\ LegsInv'
    BY <1>1, ThreadLegsStep DEF ThreadsAndLegs
  <1> QED BY <1>1, <1>2 DEF BaseInv

(* Every variable keeps its type: runs are numbered within the requests,   *)
(* since a process counts only runs that were named, and the threads, the  *)
(* stored answers and the legs hold what the graph's nodes make.           *)
THEOREM TypeCorrect == Spec => []TypeOK
  <1>1. BaseInv /\ [Next]_vars => BaseInv'
    BY BaseStep
  <1>2. BaseInv => TypeOK
    BY DEF BaseInv
  <1> QED BY <1>1, <1>2, InitBase, PTL DEF Spec

(* For any number of requests, processes, threads and settings, no tool of *)
(* a template that requires approval is called before its run is approved, *)
(* unless the run shares its name with another (_route_after_tool_plan).   *)
THEOREM HeldToolsAreApproved == Spec => []HeldToolsWait
  <1>1. BaseInv /\ GateInv /\ [Next]_vars => (BaseInv /\ GateInv)'
    BY BaseStep, GateStep DEF BaseInv
  <1>2. GateInv => HeldToolsWait
    BY DEF GateInv, HeldToolsWait, Released
  <1> QED BY <1>1, <1>2, InitBase, InitGate, PTL DEF Spec

-----------------------------------------------------------------------------
(***************************************************************************)
(* Calls that take turns.  Where a run's thread stands says which of its   *)
(* items were called, and what it gathered; what was answered says where   *)
(* the thread stands.                                                      *)
(***************************************************************************)
Held(r) == TemplateOf(r).held
Know(r) == /\ deployment.parallel /\ deployment.template[r] = "knowledge_qa"
           /\ ~RequiresSupplement(r)
Fanned(r) == Know(r) \/ deployment.subgraph
PlanOf(r) == IF Know(r) THEN KnowledgeSources(r) ELSE TemplateOf(r).tools
Open == {"running", "supplement_pending"}
Ended == {"completed", "failed"}

(* The items of the plan were called, and those to come were not.          *)
Worked(s) == \/ s.next \in {"KnowledgeAggregate", "ToolAggregate", "Completed"}
             \/ s.next = "END" /\ s.last \in {"Completed", "ToolAggregate"}
Spent(s) == IF Worked(s) THEN PlanOf(s.request) ELSE {}

(* The path of a run through the graph.                                    *)
ToolNodes == {"ToolExec", "ToolAggregate"}
GateNodes == {"ApprovalRequired", "ApprovalApproved", "ApprovalRejected"}
Walk(s) ==
    /\ s.next \in {"TemplateLoaded", "RunStarted", "SupplementRequired", "KnowledgeRetrieve",
                   "KnowledgeAggregate", "ToolPlan", "ApprovalRequired"} => s.status \in Open
    /\ s.next = "SupplementRequired" => s.last = "RunStarted" /\ RequiresSupplement(s.request)
    /\ s.next \in {"KnowledgeRetrieve", "KnowledgeAggregate"} => Know(s.request)
    /\ s.next \in ToolNodes \cup GateNodes \cup {"SupplementRequired", "ToolPlan"} => ~Know(s.request)
    /\ s.next \in ToolNodes => deployment.subgraph
    /\ s.next \in ToolNodes /\ Held(s.request) => s.approval = "approved" /\ s.status = "completed"
    /\ s.approval = "approved" => Held(s.request)
    /\ s.next = "ApprovalRequired" => s.last = "ToolPlan"
    /\ s.next \in GateNodes => Held(s.request)
    /\ s.next = "Completed" => ~Held(s.request)
    /\ s.next \in {"TemplateLoaded", "RunStarted"} => s.status = "running" /\ DOMAIN s.calls = {}
    /\ s.next \in {"KnowledgeRetrieve", "KnowledgeAggregate", "Completed"} => ~RetrievesNothing(s.request)
    /\ s.next = "END" => IF RetrievesNothing(s.request) THEN s.status = "running" ELSE s.status \in Ended
    /\ s.next \in ToolNodes \cup GateNodes => DOMAIN s.calls = TemplateOf(s.request).tools

(* What a run that has its name to itself has gathered.                    *)
Singly(entries, r) == /\ \A e \in entries : e.request = r
                      /\ \A e, f \in entries : e.item = f.item => e = f
ItemsIn(entries) == {e.item : e \in entries}
Gathered(s) == /\ Singly(s.results, s.request)
               /\ ItemsIn(s.results) = IF Fanned(s.request) THEN Spent(s) ELSE {}
Reported(s) == /\ s.output = IF s.next \in {"Completed", "END"} THEN s.results ELSE {}
               /\ s.next \in {"Completed", "END"} =>
                    /\ \A e \in s.results : e.item \in DOMAIN s.calls /\ s.calls[e.item] = e.status
                    /\ \A i \in DOMAIN s.calls : s.calls[i] # "planned"
Tidy(s) == ~SharesName(s.request) => Gathered(s) /\ Reported(s)

Counted(r, items) == \A i \in Item : invoked[r][i] = IF i \in items THEN 1 ELSE 0

OneLeg == \A v, w \in Worker : leg[v] # Idle /\ leg[w] # Idle => v = w
AtNode(p, id) == \E w \in Worker : /\ leg[w] # Idle /\ leg[w].step = "node"
                                   /\ BuildCheckpointer(leg[w].at) = p /\ leg[w].id = id
ThreadStands(p, id, s) == /\ Walk(s) /\ Tidy(s)
                          /\ ~AtNode(p, id) => Counted(s.request, Spent(s))
ThreadsStand == \A p \in Place, id \in Id, s \in RunState : saver[p][id] = s => ThreadStands(p, id, s)
NamedLast == \A r \in Request : ident[r] # None => saver[ident[r].place][ident[r].id] # None
CalledOnce == /\ \A r \in Request, i \in Item : invoked[r][i] <= 1
              /\ \A r \in Request : ident[r] = None => Counted(r, {})

(* A leg: a call about a run that is parked, or with the state it saved.   *)
Decides == GateNodes \cup ToolNodes
Before == {"TemplateLoaded", "RunStarted", "ToolPlan"}
Poised(w) == /\ leg[w].done = {}
             /\ \/ /\ leg[w].call = "resume" /\ leg[w].decision \in Decision
                   /\ IsParkedAtApproval(leg[w].at, leg[w].id)
                \/ /\ leg[w].call = "supplement" /\ leg[w].decision = None
                   /\ IsParkedAtSupplement(leg[w].at, leg[w].id)
Belongs(w, s) ==
    /\ Thread(leg[w].at, leg[w].id) = s
    /\ leg[w].call = "run" => s.request = leg[w].request
    /\ leg[w].call = "resume" => Held(s.request) /\ leg[w].decision \in Decision
    /\ leg[w].call = "supplement" => ~Held(s.request)
Works(w, s) ==
    /\ s.next # "END" /\ (leg[w].call = "resume" => s.next \in Decides)
    /\ leg[w].call = "run" /\ Held(s.request) /\ "ApprovalRequired" \in InterruptNodes => s.next \in Before
    /\ leg[w].todo \subseteq ItemsOf(s) /\ Singly(leg[w].done, s.request)
    /\ ItemsIn(leg[w].done) = ItemsOf(s) \ leg[w].todo
    /\ Counted(s.request, Spent(s) \cup ItemsIn(leg[w].done))
Stops(w, s) ==
    /\ s.next = "END" \/ s.next \in InterruptNodes
    /\ leg[w].call = "resume" => s.next = "END"
    /\ leg[w].call = "run" /\ Held(s.request) /\ "ApprovalRequired" \in InterruptNodes =>
           s.next = "ApprovalRequired"
LegStands(w) ==
    /\ leg[w].step \in {"inject", "invoke"} => Poised(w)
    /\ \A s \in RunState : leg[w].state = s =>
           /\ leg[w].step \in {"node", "respond"} => Belongs(w, s)
           /\ leg[w].step = "node" => Works(w, s)
           /\ leg[w].step = "respond" => Stops(w, s)
LegsStand == \A w \in Worker : leg[w] # Idle => LegStands(w)

(* A run shown as completed is its thread's last state.                    *)
IsAnswer(run, s) == s.next = "END" /\ run = ToResponse(s)
ShownRuns ==
    \A x \in Replica, id \in Id, run \in Response :
        runs[x][id] = run /\ run.status = "completed" =>
            \/ SharesName(run.request)
            \/ \E s \in RunState : saver[BuildCheckpointer(x)][id] = s /\ IsAnswer(run, s)

(* What the process that served a run last shows of it.                    *)
Shows(x, id, s) ==
    /\ runs[x][id] # None /\ runs[x][id].request = s.request
    /\ \/ IsAnswer(runs[x][id], s) /\ tasks[x][id] # "pending"
       \/ s.next = "ApprovalRequired" /\ runs[x][id].status = "waiting_approval" /\ tasks[x][id] = "pending"
       \/ s.next = "SupplementRequired" /\ runs[x][id].status \in Open /\ tasks[x][id] # "pending"
Answered(r) == \E x \in Replica, id \in Id, s \in RunState :
                   /\ ident[r] = [place |-> BuildCheckpointer(x), id |-> id]
                   /\ saver[BuildCheckpointer(x)][id] = s /\ Shows(x, id, s)
RunsAnswered ==
    \A r \in Request :
        /\ mirror[r] # None /\ ~SharesName(r)
        /\ \A w \in Worker : leg[w] # Idle /\ leg[w].step # "name" => leg[w].id # ident[r].id
        => Answered(r)
TasksOfHeld == \A x \in Replica, id \in Id : tasks[x][id] = "pending" =>
                   \E r \in Request : Held(r) /\ ident[r] # None /\ ident[r].id = id

RunningInv == OneLeg /\ ThreadsStand /\ NamedLast /\ CalledOnce /\ LegsStand
ShowingInv == ShownRuns /\ TasksOfHeld /\ ("ApprovalRequired" \in InterruptNodes => RunsAnswered)
TurnInv == InTurn => RunningInv /\ (~deployment.bypass => ShowingInv)

-----------------------------------------------------------------------------
(* What the nodes make of a state, field by field.                         *)

LEMMA MovedKeeps ==
    ASSUME TypeOK, NEW s \in RunState, NEW node \in Node
    PROVE  /\ Moved(s, node).status = s.status /\ Moved(s, node).calls = s.calls
           /\ Moved(s, node).results = s.results /\ Moved(s, node).output = s.output
  <1>1. PICK n \in Node : n = Edge(node, s)
    BY EdgeFacts
  <1>2. PICK t : t = [s EXCEPT !.last = node, !.next = n]
    OBVIOUS
  <1>3. t.status = s.status /\ t.calls = s.calls /\ t.results = s.results /\ t.output = s.output
    BY <1>2 DEF RunState
  <1>4. Moved(s, node) = t
    BY <1>1, <1>2 DEF Moved
  <1> QED BY <1>3, <1>4

(* A state made of another, and what its status, its approval, its calls,  *)
(* its results and its output are.                                         *)
Made(t, s, status, approval, calls, results, output) ==
    /\ t \in RunState /\ t.request = s.request
    /\ t.status = status /\ t.approval = approval /\ t.calls = calls
    /\ t.results = results /\ t.output = output

LEMMA SuccessorMade ==
    ASSUME TypeOK, NEW s \in RunState, NEW done \in SUBSET Entry, NEW e, e = Executed(s, done)
    PROVE  /\ Made(Successor(s, done), s, e.status, e.approval, e.calls, e.results, e.output)
           /\ Successor(s, done).last = s.next /\ Successor(s, done).next = Edge(s.next, e)
           /\ e.request = s.request /\ e \in RunState
  <1>1. e \in RunState /\ e.request = s.request /\ s.next \in Node
    BY ExecutedFacts, StateFields DEF Like
  <1>2. Successor(s, done) = Moved(e, s.next)
    BY DEF Successor
  <1> QED BY <1>1, <1>2, MovedFacts, MovedKeeps DEF Made

LEMMA ExecutedMade ==
    ASSUME TypeOK, NEW s \in RunState, NEW done \in SUBSET Entry
    PROVE  LET e == Executed(s, done)
           IN  /\ s.next \in {"TemplateLoaded", "RunStarted"} =>
                      Made(e, s, s.status, s.approval, s.calls, s.results, s.output)
               /\ s.next \in {"ToolExec", "KnowledgeRetrieve"} =>
                      Made(e, s, s.status, s.approval, s.calls, s.results \cup done, s.output)
               /\ s.next = "SupplementRequired" =>
                      Made(e, s, "supplement_pending", s.approval, s.calls, s.results, s.output)
               /\ s.next = "ApprovalRequired" =>
                      Made(e, s, "waiting_approval", s.approval, s.calls, s.results, s.output)
               /\ s.next = "Completed" =>
                      Made(e, s, "completed", "not_required", s.calls, s.results, s.output)
               /\ s.next = "ApprovalRejected" =>
                      Made(e, s, "failed", "rejected", SetPlanned(s.calls, "skipped"), s.results, s.output)
               /\ s.next = "ApprovalApproved" =>
                      Made(e, s, "completed", "approved",
                           IF deployment.subgraph THEN s.calls ELSE SetPlanned(s.calls, "completed"),
                           s.results, s.output)
  <1> SUFFICES ASSUME NEW e, e = Executed(s, done)
               PROVE  /\ s.next \in {"TemplateLoaded", "RunStarted"} =>
                             Made(e, s, s.status, s.approval, s.calls, s.results, s.output)
                      /\ s.next \in {"ToolExec", "KnowledgeRetrieve"} =>
                             Made(e, s, s.status, s.approval, s.calls, s.results \cup done, s.output)
                      /\ s.next = "SupplementRequired" =>
                             Made(e, s, "supplement_pending", s.approval, s.calls, s.results, s.output)
                      /\ s.next = "ApprovalRequired" =>
                             Made(e, s, "waiting_approval", s.approval, s.calls, s.results, s.output)
                      /\ s.next = "Completed" =>
                             Made(e, s, "completed", "not_required", s.calls, s.results, s.output)
                      /\ s.next = "ApprovalRejected" =>
                             Made(e, s, "failed", "rejected", SetPlanned(s.calls, "skipped"), s.results, s.output)
                      /\ s.next = "ApprovalApproved" =>
                             Made(e, s, "completed", "approved",
                                  IF deployment.subgraph THEN s.calls ELSE SetPlanned(s.calls, "completed"),
                                  s.results, s.output)
    OBVIOUS
  <1>0. e \in RunState /\ e.request = s.request
    BY ExecutedFacts DEF Like
  <1>1. CASE s.next \in {"TemplateLoaded", "RunStarted"}
    <2>1. e = s
      BY <1>1 DEF Executed
    <2> QED BY <1>0, <1>1, <2>1 DEF Made
  <1>2. CASE s.next \in {"ToolExec", "KnowledgeRetrieve"}
    <2>1. e = [s EXCEPT !.results = s.results \cup done]
      BY <1>2 DEF Executed, NodeToolExec, NodeKnowledgeRetrieve
    <2> QED BY <1>0, <1>2, <2>1 DEF Made, RunState
  <1>3. CASE s.next = "SupplementRequired"
    <2>1. e = [s EXCEPT !.status = "supplement_pending"]
      BY <1>3 DEF Executed, NodeSupplementRequired
    <2> QED BY <1>0, <1>3, <2>1 DEF Made, RunState
  <1>4. CASE s.next = "ApprovalRequired"
    <2>1. e = [s EXCEPT !.status = "waiting_approval"]
      BY <1>4 DEF Executed, NodeApprovalRequired
    <2> QED BY <1>0, <1>4, <2>1 DEF Made, RunState
  <1>5. CASE s.next = "Completed"
    <2>1. e = [s EXCEPT !.status = "completed", !.approval = "not_required"]
      BY <1>5 DEF Executed, NodeCompleted
    <2> QED BY <1>0, <1>5, <2>1 DEF Made, RunState
  <1>6. CASE s.next = "ApprovalRejected"
    <2>1. e = [s EXCEPT !.status = "failed", !.approval = "rejected", !.calls = SetPlanned(s.calls, "skipped")]
      BY <1>6 DEF Executed, NodeApprovalRejected
    <2> QED BY <1>0, <1>6, <2>1 DEF Made, RunState
  <1>7. CASE s.next = "ApprovalApproved"
    <2>1. PICK c : c = IF deployment.subgraph THEN s.calls ELSE SetPlanned(s.calls, "completed")
      OBVIOUS
    <2>2. e = [s EXCEPT !.status = "completed", !.approval = "approved", !.calls = c]
      BY <1>7, <2>1 DEF Executed, NodeApprovalApproved
    <2>3. Made(e, s, "completed", "approved", c, s.results, s.output)
      BY <1>0, <2>2 DEF Made, RunState
    <2> QED BY <1>7, <2>1, <2>3
  <1> QED BY <1>1, <1>2, <1>3, <1>4, <1>5, <1>6, <1>7

(* The nodes that read their items' results.                               *)
Planned(s, done) == [t \in ToolsOf(s) |->
                        IF deployment.subgraph \/ TemplateOf(s.request).held THEN "planned"
                        ELSE StatusIn(done, t, "completed")]
ToolResults(s) == {e \in s.results : e.item \notin Scope}
ScopeResults(s) == {e \in s.results : e.item \in Scope}
OwnResults(s) == {e \in ToolResults(s) : e.request = s.request}
ToolCalls(s) == [t \in DOMAIN s.calls |->
                    StatusIn(OwnResults(s), t, StatusIn(ToolResults(s), t, s.calls[t]))]
ScopeCalls(s) == [i \in {e.item : e \in ScopeResults(s)} |-> StatusIn(ScopeResults(s), i, "completed")]

LEMMA ReadersMade ==
    ASSUME TypeOK, NEW s \in RunState, NEW done \in SUBSET Entry
    PROVE  LET e == Executed(s, done)
           IN  /\ s.next = "ToolPlan" =>
                      Made(e, s, s.status, s.approval, Planned(s, done), s.results, s.output)
               /\ s.next = "ToolAggregate" =>
                      Made(e, s, s.status, s.approval, ToolCalls(s), s.results, ToolResults(s))
               /\ s.next = "KnowledgeAggregate" =>
                      Made(e, s, s.status, s.approval, ScopeCalls(s), s.results, ScopeResults(s))
  <1> SUFFICES ASSUME NEW e, e = Executed(s, done)
               PROVE  /\ s.next = "ToolPlan" =>
                             Made(e, s, s.status, s.approval, Planned(s, done), s.results, s.output)
                      /\ s.next = "ToolAggregate" =>
                             Made(e, s, s.status, s.approval, ToolCalls(s), s.results, ToolResults(s))
                      /\ s.next = "KnowledgeAggregate" =>
                             Made(e, s, s.status, s.approval, ScopeCalls(s), s.results, ScopeResults(s))
    OBVIOUS
  <1>0. e \in RunState /\ e.request = s.request
    BY ExecutedFacts DEF Like
  <1>1. CASE s.next = "ToolPlan"
    <2>1. e = [s EXCEPT !.calls = Planned(s, done)]
      BY <1>1 DEF Executed, NodeToolPlan, Planned
    <2> QED BY <1>0, <1>1, <2>1 DEF Made, RunState
  <1>2. CASE s.next = "ToolAggregate"
    <2>1. PICK c, o : c = ToolCalls(s) /\ o = ToolResults(s)
      OBVIOUS
    <2>2. e = [s EXCEPT !.calls = c, !.output = o]
      BY <1>2, <2>1 DEF Executed, NodeToolAggregate, ToolCalls, ToolResults, OwnResults
    <2>3. Made(e, s, s.status, s.approval, c, s.results, o)
      BY <1>0, <2>2 DEF Made, RunState
    <2> QED BY <1>2, <2>1, <2>3
  <1>3. CASE s.next = "KnowledgeAggregate"
    <2>1. PICK c, o : c = ScopeCalls(s) /\ o = ScopeResults(s)
      OBVIOUS
    <2>2. e = [s EXCEPT !.calls = c, !.output = o]
      BY <1>3, <2>1 DEF Executed, NodeKnowledgeAggregate, ScopeCalls, ScopeResults
    <2>3. Made(e, s, s.status, s.approval, c, s.results, o)
      BY <1>0, <2>2 DEF Made, RunState
    <2> QED BY <1>3, <2>1, <2>3
  <1> QED BY <1>1, <1>2, <1>3

-----------------------------------------------------------------------------
(* Plans and routes.                                                       *)
LEMMA PlanFacts ==
    ASSUME TypeOK, NEW r \in Request
    PROVE  /\ Know(r) => ~Held(r) /\ ~RequiresSupplement(r)
           /\ RequiresSupplement(r) => ~Held(r)
           /\ RetrievesNothing(r) <=> Know(r) /\ KnowledgeSources(r) = {}
           /\ PlanOf(r) \subseteq Item
           /\ TemplateOf(r).tools \subseteq Item /\ TemplateOf(r).tools \cap Scope = {}
  <1>1. TemplateOf(r).held => deployment.template[r] # "knowledge_qa"
    BY TemplateFacts
  <1>2. KnowledgeSources(r) \subseteq Item /\ (RetrievesNothing(r) <=> Know(r) /\ KnowledgeSources(r) = {})
    BY SourcesAre DEF RetrievesNothing, Know
  <1>3. TemplateOf(r).tools \cap Scope = {}
    <2>1. PICK t \in DOMAIN Templates : t = deployment.template[r]
      BY Settings
    <2> QED BY <2>1, ScopeAssumption DEF TemplateOf
  <1> QED BY <1>1, <1>2, <1>3, TemplateFacts DEF Know, Held, RequiresSupplement, PlanOf

LEMMA EdgesAre ==
    ASSUME TypeOK, NEW s \in RunState
    PROVE  /\ Edge("TemplateLoaded", s) = "RunStarted" /\ Edge("SupplementRequired", s) = "ToolPlan"
           /\ Edge("RunStarted", s) = (IF RequiresSupplement(s.request) THEN "SupplementRequired"
                                       ELSE IF ~Know(s.request) THEN "ToolPlan"
                                       ELSE IF RetrievesNothing(s.request) THEN "END" ELSE "KnowledgeRetrieve")
           /\ Edge("KnowledgeRetrieve", s) = "KnowledgeAggregate" /\ Edge("KnowledgeAggregate", s) = "Completed"
           /\ Edge("ToolPlan", s) = (IF Held(s.request) THEN "ApprovalRequired"
                                     ELSE IF deployment.subgraph THEN "ToolExec" ELSE "Completed")
           /\ Edge("ToolExec", s) = "ToolAggregate"
           /\ Edge("ToolAggregate", s) = (IF s.approval = "approved" THEN "END"
                                          ELSE IF Held(s.request) THEN "ApprovalRequired" ELSE "Completed")
           /\ Edge("ApprovalRequired", s) = (IF s.approval = "approved" THEN "ApprovalApproved" ELSE "ApprovalRejected")
           /\ Edge("ApprovalApproved", s) = (IF deployment.subgraph THEN "ToolExec" ELSE "END")
           /\ Edge("ApprovalRejected", s) = "END" /\ Edge("Completed", s) = "END"
  <1>1. Edge("RunStarted", s) = (IF RequiresSupplement(s.request) THEN "SupplementRequired"
                                 ELSE IF ~Know(s.request) THEN "ToolPlan"
                                 ELSE IF RetrievesNothing(s.request) THEN "END" ELSE "KnowledgeRetrieve")
    <2>1. Edge("RunStarted", s) = RouteAfterRunStarted(s)
      BY DEF Edge
    <2> QED BY <2>1 DEF RouteAfterRunStarted, Know, RetrievesNothing
  <1>2. Edge("ToolPlan", s) = (IF Held(s.request) THEN "ApprovalRequired"
                               ELSE IF deployment.subgraph THEN "ToolExec" ELSE "Completed")
    <2>1. Edge("ToolPlan", s) = RouteAfterToolPlan(s)
      BY DEF Edge
    <2> QED BY <2>1 DEF RouteAfterToolPlan, Held
  <1>3. Edge("ToolAggregate", s) = (IF s.approval = "approved" THEN "END"
                                    ELSE IF Held(s.request) THEN "ApprovalRequired" ELSE "Completed")
    <2>1. Edge("ToolAggregate", s) = RouteAfterToolAggregate(s)
      BY DEF Edge
    <2> QED BY <2>1 DEF RouteAfterToolAggregate, Held
  <1>4. Edge("ApprovalRequired", s) = (IF s.approval = "approved" THEN "ApprovalApproved" ELSE "ApprovalRejected")
    <2>1. Edge("ApprovalRequired", s) = RouteAfterApproval(s)
      BY DEF Edge
    <2> QED BY <2>1 DEF RouteAfterApproval
  <1>5. Edge("ApprovalApproved", s) = (IF deployment.subgraph THEN "ToolExec" ELSE "END")
    <2>1. Edge("ApprovalApproved", s) = RouteAfterApprovalApproved(s)
      BY DEF Edge
    <2> QED BY <2>1 DEF RouteAfterApprovalApproved
  <1>6. /\ Edge("TemplateLoaded", s) = "RunStarted" /\ Edge("SupplementRequired", s) = "ToolPlan"
        /\ Edge("KnowledgeRetrieve", s) = "KnowledgeAggregate" /\ Edge("KnowledgeAggregate", s) = "Completed"
        /\ Edge("ToolExec", s) = "ToolAggregate"
        /\ Edge("ApprovalRejected", s) = "END" /\ Edge("Completed", s) = "END"
    BY DEF Edge
  <1> QED BY <1>1, <1>2, <1>3, <1>4, <1>5, <1>6

LEMMA ItemsAre ==
    ASSUME TypeOK, NEW s \in RunState, Walk(s)
    PROVE  /\ s.next \in {"ToolExec", "KnowledgeRetrieve"} => ItemsOf(s) = PlanOf(s.request)
           /\ s.next = "ToolPlan" =>
                  ItemsOf(s) = IF deployment.subgraph \/ Held(s.request) THEN {} ELSE PlanOf(s.request)
           /\ s.next \notin {"ToolExec", "KnowledgeRetrieve", "ToolPlan"} => ItemsOf(s) = {}
  <1>1. CASE s.next = "ToolExec"
    <2>1. ItemsOf(s) = TemplateOf(s.request).tools
      BY <1>1 DEF ItemsOf, ToolsOf
    <2> QED BY <1>1, <2>1 DEF Walk, PlanOf, ToolNodes
  <1>2. CASE s.next = "KnowledgeRetrieve"
    <2>1. ItemsOf(s) = KnowledgeSources(s.request)
      BY <1>2 DEF ItemsOf
    <2> QED BY <1>2, <2>1 DEF Walk, PlanOf
  <1>3. CASE s.next = "ToolPlan"
    <2>1. ItemsOf(s) = IF ~deployment.subgraph /\ ~TemplateOf(s.request).held THEN TemplateOf(s.request).tools ELSE {}
      BY <1>3 DEF ItemsOf, ToolsOf
    <2> QED BY <1>3, <2>1 DEF Walk, PlanOf, Held
  <1>4. CASE s.next \notin {"ToolExec", "KnowledgeRetrieve", "ToolPlan"}
    BY <1>4 DEF ItemsOf
  <1> QED BY <1>1, <1>2, <1>3, <1>4

LEMMA StatusFound ==
    ASSUME NEW entries \in SUBSET Entry, NEW e \in entries, \A f \in entries : f.item = e.item => f = e, NEW other
    PROVE  StatusIn(entries, e.item, other) = e.status
  <1>1. (CHOOSE f \in entries : f.item = e.item) = e
    OBVIOUS
  <1> QED BY <1>1 DEF StatusIn

(* What is gathered and reported, carried from one state to the next.      *)
LEMMA TidyCarried ==
    ASSUME NEW s \in RunState, NEW t \in RunState, t.request = s.request,
           t.results = s.results, t.output = s.output,
           Spent(t) = Spent(s) \/ ~Fanned(s.request), Tidy(s),
           s.next \notin {"Completed", "END"}, t.next \notin {"Completed", "END"}
    PROVE  Tidy(t)
  BY DEF Tidy, Gathered, Reported

LEMMA TidyEnds ==
    ASSUME NEW s \in RunState, NEW t \in RunState, t.request = s.request,
           t.results = s.results, t.output = s.output,
           Spent(t) = Spent(s) \/ ~Fanned(s.request), Spent(s) = {}, Tidy(s),
           s.next \notin {"Completed", "END"}, t.next \in {"Completed", "END"},
           \A i \in DOMAIN t.calls : t.calls[i] # "planned"
    PROVE  Tidy(t)
  <1> SUFFICES ASSUME ~SharesName(s.request) PROVE Gathered(t) /\ Reported(t)
    BY DEF Tidy
  <1>1. Gathered(s) /\ Reported(s) /\ ItemsIn(s.results) = {}
    BY DEF Tidy, Gathered
  <1>2. s.results = {}
    BY <1>1 DEF ItemsIn
  <1> QED BY <1>1, <1>2 DEF Gathered, Reported

(* A state goes on to the next.                                            *)
Finished(s, done) == Singly(done, s.request) /\ ItemsIn(done) = ItemsOf(s)
GoesOn(s, t, done) == /\ Walk(t) /\ Spent(t) = Spent(s) \cup ItemsOf(s)
                      /\ Tidy(s) /\ Finished(s, done) => Tidy(t)

LEMMA PlanningGoesOn ==
    ASSUME TypeOK, NEW s \in RunState, NEW done \in SUBSET Entry, Walk(s), s.next = "ToolPlan"
    PROVE  GoesOn(s, Successor(s, done), done)
  <1>0. PICK e \in RunState : e = Executed(s, done)
    BY ExecutedFacts DEF Like
  <1>1. PICK t \in RunState :
            /\ t = Successor(s, done)
            /\ t.request = s.request /\ t.status = s.status /\ t.approval = s.approval
            /\ t.calls = Planned(s, done) /\ t.results = s.results /\ t.output = s.output
            /\ t.last = "ToolPlan" /\ t.next = Edge("ToolPlan", e) /\ e.request = s.request
    BY <1>0, ReadersMade, SuccessorMade DEF Made
  <1>2. /\ s.request \in Request /\ ~Know(s.request)
        /\ t.next = (IF Held(s.request) THEN "ApprovalRequired"
                     ELSE IF deployment.subgraph THEN "ToolExec" ELSE "Completed")
        /\ ItemsOf(s) = IF deployment.subgraph \/ Held(s.request) THEN {} ELSE PlanOf(s.request)
    BY <1>0, <1>1, EdgesAre, ItemsAre, StateFields DEF Walk
  <1>3. DOMAIN t.calls = TemplateOf(s.request).tools
    BY <1>1 DEF Planned, ToolsOf
  <1>4. Walk(t)
    <2>1. ~RetrievesNothing(s.request)
      BY <1>2, PlanFacts
    <2> QED BY <1>1, <1>2, <1>3, <2>1 DEF Walk, ToolNodes, GateNodes
  <1>5. Spent(s) = {} /\ Spent(t) = IF deployment.subgraph \/ Held(s.request) THEN {} ELSE PlanOf(s.request)
    BY <1>1, <1>2 DEF Spent, Worked
  <1>6. ASSUME Tidy(s), Finished(s, done) PROVE Tidy(t)
    <2>1. CASE deployment.subgraph \/ Held(s.request)
      BY <1>1, <1>2, <1>5, <1>6, <2>1, TidyCarried
    <2>2. CASE ~deployment.subgraph /\ ~Held(s.request)
      <3>1. \A i \in DOMAIN t.calls : t.calls[i] = StatusIn(done, i, "completed")
        BY <1>1, <2>2 DEF Planned, Held
      <3>2. ASSUME NEW i \in DOMAIN t.calls PROVE t.calls[i] # "planned"
        <4>1. PICK f \in done : f.item = i
          BY <1>2, <1>3, <1>6, <2>2 DEF Finished, ItemsIn, PlanOf
        <4>2. StatusIn(done, i, "completed") = f.status
          BY <1>6, <4>1, StatusFound DEF Finished, Singly
        <4> QED BY <3>1, <4>2 DEF Entry, Outcomes
      <3> QED BY <1>1, <1>2, <1>5, <1>6, <2>2, <3>2, TidyEnds DEF Fanned
    <2> QED BY <2>1, <2>2
  <1> QED BY <1>1, <1>2, <1>4, <1>5, <1>6 DEF GoesOn

LEMMA FanOutGoesOn ==
    ASSUME TypeOK, NEW s \in RunState, NEW done \in SUBSET Entry, Walk(s), s.next \in {"ToolExec", "KnowledgeRetrieve"}
    PROVE  GoesOn(s, Successor(s, done), done)
  <1>0. PICK e \in RunState : e = Executed(s, done)
    BY ExecutedFacts DEF Like
  <1>1. PICK t \in RunState :
            /\ t = Successor(s, done)
            /\ t.request = s.request /\ t.status = s.status /\ t.approval = s.approval
            /\ t.calls = s.calls /\ t.results = s.results \cup done /\ t.output = s.output
            /\ t.last = s.next /\ t.next = Edge(s.next, e) /\ e.request = s.request
    BY <1>0, ExecutedMade, SuccessorMade DEF Made
  <1>2. /\ s.request \in Request /\ ItemsOf(s) = PlanOf(s.request)
        /\ t.next = (IF s.next = "ToolExec" THEN "ToolAggregate" ELSE "KnowledgeAggregate")
    BY <1>0, <1>1, EdgesAre, ItemsAre, StateFields
  <1>3. Walk(t)
    BY <1>1, <1>2 DEF Walk, ToolNodes, GateNodes
  <1>4. Spent(s) = {} /\ Spent(t) = PlanOf(s.request)
    BY <1>1, <1>2 DEF Spent, Worked
  <1>5. ASSUME Tidy(s), Finished(s, done), ~SharesName(s.request) PROVE Gathered(t) /\ Reported(t)
    <2>1. Gathered(s) /\ Reported(s) /\ ItemsIn(s.results) = {}
      BY <1>4, <1>5 DEF Tidy, Gathered
    <2>2. t.results = done
      BY <1>1, <2>1 DEF ItemsIn
    <2>3. Fanned(s.request)
      BY DEF Fanned, Walk, ToolNodes
    <2> QED BY <1>1, <1>2, <1>4, <1>5, <2>1, <2>2, <2>3 DEF Gathered, Reported, Finished
  <1> QED BY <1>1, <1>2, <1>3, <1>4, <1>5 DEF GoesOn, Tidy

(* The results of a run that has its name to itself, put to its calls.     *)
LEMMA ToolCallsMatch ==
    ASSUME TypeOK, NEW s \in RunState, Walk(s), s.next = "ToolAggregate", Gathered(s)
    PROVE  /\ ToolResults(s) = s.results /\ DOMAIN ToolCalls(s) = TemplateOf(s.request).tools
           /\ \A e \in s.results : e.item \in DOMAIN ToolCalls(s) /\ ToolCalls(s)[e.item] = e.status
           /\ \A i \in DOMAIN ToolCalls(s) : \E e \in s.results : e.item = i
  <1>1. /\ s.request \in Request /\ s.results \in SUBSET Entry /\ ~Know(s.request) /\ Fanned(s.request)
        /\ DOMAIN s.calls = TemplateOf(s.request).tools
    BY StateFields DEF Walk, ToolNodes, Fanned
  <1>2. Spent(s) = TemplateOf(s.request).tools
    BY <1>1 DEF Spent, Worked, PlanOf
  <1>3. ItemsIn(s.results) = TemplateOf(s.request).tools
    BY <1>1, <1>2 DEF Gathered
  <1>4. ToolResults(s) = s.results
    BY <1>1, <1>3, PlanFacts DEF ToolResults, ItemsIn
  <1>5. OwnResults(s) = s.results
    BY <1>4 DEF OwnResults, Gathered, Singly
  <1>6. DOMAIN ToolCalls(s) = TemplateOf(s.request).tools
    BY <1>1 DEF ToolCalls
  <1>7. ASSUME NEW e \in s.results PROVE e.item \in DOMAIN ToolCalls(s) /\ ToolCalls(s)[e.item] = e.status
    <2>1. e.item \in DOMAIN s.calls
      BY <1>1, <1>3 DEF ItemsIn
    <2>2. ToolCalls(s)[e.item] = StatusIn(s.results, e.item, StatusIn(s.results, e.item, s.calls[e.item]))
      BY <1>4, <1>5, <2>1 DEF ToolCalls
    <2>3. \A f \in s.results : f.item = e.item => f = e
      BY DEF Gathered, Singly
    <2> QED BY <1>1, <1>6, <2>1, <2>2, <2>3, StatusFound
  <1> QED BY <1>3, <1>4, <1>6, <1>7 DEF ItemsIn

LEMMA ScopeCallsMatch ==
    ASSUME TypeOK, NEW s \in RunState, Walk(s), s.next = "KnowledgeAggregate", Gathered(s)
    PROVE  /\ ScopeResults(s) = s.results
           /\ \A e \in s.results : e.item \in DOMAIN ScopeCalls(s) /\ ScopeCalls(s)[e.item] = e.status
           /\ \A i \in DOMAIN ScopeCalls(s) : \E e \in s.results : e.item = i
  <1>1. /\ s.request \in Request /\ s.results \in SUBSET Entry /\ Know(s.request) /\ Fanned(s.request)
    BY StateFields DEF Walk, Fanned
  <1>2. Spent(s) = KnowledgeSources(s.request)
    BY <1>1 DEF Spent, Worked, PlanOf
  <1>3. ItemsIn(s.results) \subseteq Scope
    BY <1>1, <1>2, SourcesAre DEF Gathered
  <1>4. ScopeResults(s) = s.results
    BY <1>3 DEF ScopeResults, ItemsIn
  <1>5. ScopeCalls(s) = [i \in ItemsIn(s.results) |-> StatusIn(s.results, i, "completed")]
    BY <1>4 DEF ScopeCalls, ItemsIn
  <1>6. ASSUME NEW e \in s.results PROVE e.item \in DOMAIN ScopeCalls(s) /\ ScopeCalls(s)[e.item] = e.status
    <2>1. e.item \in ItemsIn(s.results)
      BY DEF ItemsIn
    <2>2. ScopeCalls(s)[e.item] = StatusIn(s.results, e.item, "completed")
      BY <1>5, <2>1
    <2>3. \A f \in s.results : f.item = e.item => f = e
      BY DEF Gathered, Singly
    <2> QED BY <1>1, <1>5, <2>1, <2>2, <2>3, StatusFound
  <1>7. \A i \in DOMAIN ScopeCalls(s) : \E e \in s.results : e.item = i
    BY <1>5 DEF ItemsIn
  <1> QED BY <1>4, <1>6, <1>7

LEMMA FanInGoesOn ==
    ASSUME TypeOK, NEW s \in RunState, NEW done \in SUBSET Entry, Walk(s),
           s.next \in {"ToolAggregate", "KnowledgeAggregate"}
    PROVE  GoesOn(s, Successor(s, done), done)
  <1>0. PICK e \in RunState : e = Executed(s, done)
    BY ExecutedFacts DEF Like
  <1>1. PICK t \in RunState :
            /\ t = Successor(s, done)
            /\ t.request = s.request /\ t.status = s.status /\ t.approval = s.approval
            /\ t.calls = (IF s.next = "ToolAggregate" THEN ToolCalls(s) ELSE ScopeCalls(s))
            /\ t.results = s.results
            /\ t.output = (IF s.next = "ToolAggregate" THEN ToolResults(s) ELSE ScopeResults(s))
            /\ t.last = s.next /\ t.next = Edge(s.next, e) /\ e.request = s.request /\ e.approval = s.approval
    BY <1>0, ReadersMade, SuccessorMade DEF Made
  <1>2. s.request \in Request /\ ItemsOf(s) = {}
    BY ItemsAre, StateFields
  <1>3. IF s.next = "ToolAggregate" /\ s.approval = "approved"
        THEN t.next = "END" /\ s.status = "completed"
        ELSE t.next = "Completed" /\ ~Held(s.request)
    <2>1. CASE s.next = "ToolAggregate"
      <3>1. t.next = (IF s.approval = "approved" THEN "END"
                      ELSE IF Held(s.request) THEN "ApprovalRequired" ELSE "Completed")
        BY <1>0, <1>1, <2>1, EdgesAre
      <3> QED BY <2>1, <3>1 DEF Walk, ToolNodes
    <2>2. CASE s.next = "KnowledgeAggregate"
      <3>1. t.next = "Completed"
        BY <1>0, <1>1, <2>2, EdgesAre
      <3>2. Know(s.request)
        BY <2>2 DEF Walk
      <3> QED BY <1>2, <2>2, <3>1, <3>2, PlanFacts
    <2> QED BY <2>1, <2>2
  <1>4. Walk(t)
    <2>1. t.next \in {"Completed", "END"}
      BY <1>3
    <2>2. t.approval = "approved" => Held(t.request)
      BY <1>1 DEF Walk
    <2>3. ~RetrievesNothing(t.request)
      <3>1. CASE s.next = "ToolAggregate"
        <4>1. ~Know(s.request)
          BY <3>1 DEF Walk, ToolNodes
        <4> QED BY <1>1, <1>2, <4>1, PlanFacts
      <3>2. CASE s.next = "KnowledgeAggregate"
        BY <1>1, <3>2 DEF Walk
      <3> QED BY <3>1, <3>2
    <2>4. t.next = "END" => t.status \in Ended
      BY <1>1, <1>3 DEF Ended
    <2>5. t.next = "Completed" => ~Held(t.request)
      BY <1>1, <1>3
    <2> QED BY <2>1, <2>2, <2>3, <2>4, <2>5 DEF Walk, ToolNodes, GateNodes
  <1>5. Spent(s) = PlanOf(s.request) /\ Spent(t) = PlanOf(s.request)
    BY <1>1, <1>3 DEF Spent, Worked
  <1>6. ASSUME Gathered(s) PROVE Gathered(t) /\ Reported(t)
    <2>1. /\ t.output = s.results
          /\ \A f \in s.results : f.item \in DOMAIN t.calls /\ t.calls[f.item] = f.status
          /\ \A i \in DOMAIN t.calls : \E f \in s.results : f.item = i
      BY <1>1, <1>6, ToolCallsMatch, ScopeCallsMatch
    <2>2. \A f \in s.results : f.status # "planned"
      BY StateFields DEF Entry, Outcomes
    <2>3. \A i \in DOMAIN t.calls : t.calls[i] # "planned"
      BY <2>1, <2>2
    <2> QED BY <1>1, <1>3, <1>5, <1>6, <2>1, <2>3 DEF Gathered, Reported
  <1> QED BY <1>1, <1>2, <1>4, <1>5, <1>6 DEF GoesOn, Tidy

LEMMA NonePlanned ==
    ASSUME NEW c \in Calls, NEW to \in {"completed", "skipped"}
    PROVE  /\ \A i \in DOMAIN SetPlanned(c, to) : SetPlanned(c, to)[i] # "planned"
           /\ DOMAIN SetPlanned(c, to) = DOMAIN c
  BY DEF SetPlanned

(* The nodes that call nothing and read no result.                         *)
LEMMA EarlyGoesOn ==
    ASSUME TypeOK, NEW s \in RunState, NEW done \in SUBSET Entry, Walk(s),
           s.next \in {"TemplateLoaded", "RunStarted", "SupplementRequired", "ApprovalRequired"}
    PROVE  GoesOn(s, Successor(s, done), done)
  <1>0. PICK e \in RunState : e = Executed(s, done)
    BY ExecutedFacts DEF Like
  <1>1. PICK t \in RunState :
            /\ t = Successor(s, done)
            /\ t.request = s.request /\ t.approval = s.approval
            /\ t.status \in {s.status, "supplement_pending", "waiting_approval"}
            /\ s.next # "ApprovalRequired" => t.status # "waiting_approval" \/ t.status = s.status
            /\ s.next \in {"TemplateLoaded", "RunStarted"} => t.status = s.status
            /\ t.calls = s.calls /\ t.results = s.results /\ t.output = s.output
            /\ t.last = s.next /\ t.next = Edge(s.next, e) /\ e.request = s.request /\ e.approval = s.approval
    BY <1>0, ExecutedMade, SuccessorMade DEF Made
  <1>2. s.request \in Request /\ ItemsOf(s) = {}
    BY ItemsAre, StateFields
  <1>3. /\ s.next = "TemplateLoaded" => t.next = "RunStarted"
        /\ s.next = "RunStarted" => t.next = (IF RequiresSupplement(s.request) THEN "SupplementRequired"
                                              ELSE IF ~Know(s.request) THEN "ToolPlan"
                                              ELSE IF RetrievesNothing(s.request) THEN "END" ELSE "KnowledgeRetrieve")
        /\ s.next = "SupplementRequired" => t.next = "ToolPlan"
        /\ s.next = "ApprovalRequired" => t.next \in {"ApprovalApproved", "ApprovalRejected"}
    BY <1>0, <1>1, EdgesAre
  <1>4. Walk(t)
    <2>1. /\ Know(s.request) => ~RequiresSupplement(s.request) /\ ~Held(s.request)
          /\ RetrievesNothing(s.request) => Know(s.request)
      BY <1>2, PlanFacts
    <2>2. s.next = "ApprovalRequired" => ~Know(s.request) /\ Held(s.request) /\ DOMAIN s.calls = TemplateOf(s.request).tools
      BY DEF Walk, GateNodes
    <2>3. s.next = "SupplementRequired" => ~Know(s.request)
      BY DEF Walk
    <2>4. s.status \in Open /\ (s.approval = "approved" => Held(s.request))
      BY DEF Walk
    <2>5. s.next # "ApprovalRequired" => t.status \in Open
      BY <1>1, <2>4 DEF Open
    <2>6. s.next \in {"TemplateLoaded", "RunStarted"} => t.status = "running" /\ DOMAIN t.calls = {}
      BY <1>1 DEF Walk
    <2>7. CASE s.next = "TemplateLoaded"
      BY <1>1, <1>3, <2>4, <2>5, <2>6, <2>7 DEF Walk, ToolNodes, GateNodes
    <2>8. CASE s.next = "RunStarted"
      BY <1>1, <1>3, <2>1, <2>4, <2>5, <2>6, <2>8 DEF Walk, ToolNodes, GateNodes
    <2>9. CASE s.next = "SupplementRequired"
      BY <1>1, <1>3, <2>3, <2>4, <2>5, <2>9 DEF Walk, ToolNodes, GateNodes
    <2>10. CASE s.next = "ApprovalRequired"
      BY <1>1, <1>3, <2>2, <2>4, <2>10 DEF Walk, ToolNodes, GateNodes
    <2> QED BY <2>7, <2>8, <2>9, <2>10
  <1>5. Spent(s) = {} /\ Spent(t) = {}
    BY <1>1, <1>3 DEF Spent, Worked
  <1>6. ASSUME Tidy(s) PROVE Tidy(t)
    <2>1. CASE t.next = "END"
      <3>1. s.next = "RunStarted"
        BY <1>3, <2>1
      <3>2. DOMAIN t.calls = {}
        BY <1>1, <3>1 DEF Walk
      <3>3. \A i \in DOMAIN t.calls : t.calls[i] # "planned"
        BY <3>2
      <3> QED BY <1>1, <1>5, <1>6, <2>1, <3>3, TidyEnds
    <2>2. CASE t.next # "END"
      BY <1>1, <1>3, <1>5, <1>6, <2>2, TidyCarried
    <2> QED BY <2>1, <2>2
  <1> QED BY <1>1, <1>2, <1>4, <1>5, <1>6 DEF GoesOn

LEMMA DecidedGoesOn ==
    ASSUME TypeOK, NEW s \in RunState, NEW done \in SUBSET Entry, Walk(s),
           s.next \in {"ApprovalApproved", "ApprovalRejected"}
    PROVE  GoesOn(s, Successor(s, done), done)
  <1>0. PICK e \in RunState : e = Executed(s, done)
    BY ExecutedFacts DEF Like
  <1>a. PICK c : c = IF s.next = "ApprovalRejected" THEN SetPlanned(s.calls, "skipped")
                     ELSE IF deployment.subgraph THEN s.calls ELSE SetPlanned(s.calls, "completed")
    OBVIOUS
  <1>1. PICK t \in RunState :
            /\ t = Successor(s, done)
            /\ t.request = s.request
            /\ t.approval = (IF s.next = "ApprovalApproved" THEN "approved" ELSE "rejected")
            /\ t.status = (IF s.next = "ApprovalApproved" THEN "completed" ELSE "failed")
            /\ t.calls = c /\ t.results = s.results /\ t.output = s.output
            /\ t.last = s.next /\ t.next = Edge(s.next, e) /\ e.request = s.request
    BY <1>0, <1>a, ExecutedMade, SuccessorMade DEF Made
  <1>2. /\ s.request \in Request /\ ItemsOf(s) = {} /\ s.calls \in Calls
        /\ Held(s.request) /\ ~Know(s.request) /\ DOMAIN s.calls = TemplateOf(s.request).tools
    BY ItemsAre, StateFields DEF Walk, GateNodes
  <1>3. t.next = (IF s.next = "ApprovalApproved" /\ deployment.subgraph THEN "ToolExec" ELSE "END")
    BY <1>0, <1>1, EdgesAre
  <1>4. /\ DOMAIN c = TemplateOf(s.request).tools
        /\ t.next = "END" => \A i \in DOMAIN c : c[i] # "planned"
    BY <1>a, <1>2, <1>3, NonePlanned
  <1>5. Walk(t)
    <2>1. ~RetrievesNothing(s.request)
      BY <1>2, PlanFacts
    <2> QED BY <1>1, <1>2, <1>3, <1>4, <2>1 DEF Walk, ToolNodes, GateNodes, Ended
  <1>6. Spent(s) = {} /\ Spent(t) = {}
    BY <1>1, <1>3 DEF Spent, Worked
  <1>7. ASSUME Tidy(s) PROVE Tidy(t)
    <2>1. CASE t.next = "END"
      BY <1>1, <1>4, <1>6, <1>7, <2>1, TidyEnds
    <2>2. CASE t.next # "END"
      BY <1>1, <1>3, <1>6, <1>7, <2>2, TidyCarried
    <2> QED BY <2>1, <2>2
  <1> QED BY <1>1, <1>2, <1>5, <1>6, <1>7 DEF GoesOn

LEMMA CompletedGoesOn ==
    ASSUME TypeOK, NEW s \in RunState, NEW done \in SUBSET Entry, Walk(s), s.next = "Completed"
    PROVE  GoesOn(s, Successor(s, done), done)
  <1>0. PICK e \in RunState : e = Executed(s, done)
    BY ExecutedFacts DEF Like
  <1>1. PICK t \in RunState :
            /\ t = Successor(s, done)
            /\ t.request = s.request /\ t.approval = "not_required" /\ t.status = "completed"
            /\ t.calls = s.calls /\ t.results = s.results /\ t.output = s.output
            /\ t.last = "Completed" /\ t.next = Edge("Completed", e) /\ e.request = s.request
    BY <1>0, ExecutedMade, SuccessorMade DEF Made
  <1>2. s.request \in Request /\ ItemsOf(s) = {} /\ t.next = "END"
    BY <1>0, <1>1, ItemsAre, StateFields, EdgesAre
  <1>3. Walk(t)
    BY <1>1, <1>2 DEF Walk, ToolNodes, GateNodes, Ended
  <1>4. Spent(s) = PlanOf(s.request) /\ Spent(t) = PlanOf(s.request)
    BY <1>1, <1>2 DEF Spent, Worked
  <1>5. ASSUME Gathered(s), Reported(s) PROVE Gathered(t) /\ Reported(t)
    BY <1>1, <1>2, <1>4, <1>5 DEF Gathered, Reported
  <1> QED BY <1>1, <1>2, <1>3, <1>4, <1>5 DEF GoesOn, Tidy

(* Whatever the node.                                                      *)
LEMMA StateGoesOn ==
    ASSUME TypeOK, NEW s \in RunState, NEW done \in SUBSET Entry, Walk(s), s.next # "END"
    PROVE  GoesOn(s, Successor(s, done), done)
  <1>1. s.next \in Node
    BY StateFields
  <1> QED BY <1>1, PlanningGoesOn, FanOutGoesOn, FanInGoesOn, EarlyGoesOn, DecidedGoesOn, CompletedGoesOn DEF Node

-----------------------------------------------------------------------------
(* What a step leaves true of a state, and of a count.                     *)
LEMMA SharingGrows == ASSUME IdentGrows, NEW r \in Request, SharesName(r) PROVE SharesName(r)'
  <1>1. PICK q \in Request \ {r} : ident[r] # None /\ ident[q] # None /\ ident[q].id = ident[r].id
    BY DEF SharesName
  <1>2. ident'[r] = ident[r] /\ ident'[q] = ident[q]
    BY <1>1 DEF IdentGrows
  <1> QED BY <1>1, <1>2 DEF SharesName

LEMMA SettingsStay ==
    ASSUME deployment' = deployment, NEW s
    PROVE  /\ Spent(s)' = Spent(s) /\ ItemsOf(s)' = ItemsOf(s) /\ Held(s.request)' = Held(s.request)
           /\ InterruptNodes' = InterruptNodes /\ (Walk(s) => Walk(s)') /\ Fanned(s.request)' = Fanned(s.request)
           /\ RequiresSupplement(s.request)' = RequiresSupplement(s.request)
  <1>1. /\ TemplateOf(s.request)' = TemplateOf(s.request)
        /\ RequiresSupplement(s.request)' = RequiresSupplement(s.request)
    BY DEF TemplateOf, RequiresSupplement
  <1>2. /\ Know(s.request)' = Know(s.request) /\ Held(s.request)' = Held(s.request)
        /\ KnowledgeSources(s.request)' = KnowledgeSources(s.request)
        /\ RetrievesNothing(s.request)' = RetrievesNothing(s.request)
    BY <1>1 DEF Know, Held, RetrievesNothing, KnowledgeSources
  <1>3. Spent(s)' = Spent(s)
    BY <1>1, <1>2 DEF Spent, Worked, PlanOf
  <1>4. ItemsOf(s)' = ItemsOf(s)
    BY <1>1, <1>2 DEF ItemsOf, ToolsOf
  <1>5. Walk(s) => Walk(s)'
    BY <1>1, <1>2 DEF Walk
  <1>6. Fanned(s.request)' = Fanned(s.request)
    BY <1>2 DEF Fanned
  <1> QED BY <1>1, <1>2, <1>3, <1>4, <1>5, <1>6 DEF InterruptNodes

LEMMA TidyStays ==
    ASSUME IdentGrows, deployment' = deployment, NEW s \in RunState, Tidy(s) PROVE Tidy(s)'
  <1>1. SharesName(s.request) => SharesName(s.request)'
    BY StateFields, SharingGrows
  <1>2. Gathered(s)' = Gathered(s)
    BY SettingsStay DEF Gathered
  <1>3. Reported(s)' = Reported(s)
    BY DEF Reported
  <1> QED BY <1>1, <1>2, <1>3 DEF Tidy

LEMMA CountStays == ASSUME NEW r \in Request, invoked'[r] = invoked[r], NEW items, Counted(r, items)
                    PROVE  Counted(r, items)'
  BY DEF Counted

(* A thread that a step leaves alone.                                      *)
LEMMA ThreadStays ==
    ASSUME TypeOK, IdentGrows, deployment' = deployment, NEW p \in Place, NEW id \in Id, NEW s \in RunState,
           ThreadStands(p, id, s), AtNode(p, id)' \/ (~AtNode(p, id) /\ invoked'[s.request] = invoked[s.request])
    PROVE  ThreadStands(p, id, s)'
  <1>1. Walk(s)' /\ Tidy(s)' /\ Spent(s)' = Spent(s) /\ s.request \in Request
    BY SettingsStay, TidyStays, StateFields DEF ThreadStands
  <1>2. ~AtNode(p, id)' => Counted(s.request, Spent(s))'
    <2>1. SUFFICES ASSUME ~AtNode(p, id)' PROVE Counted(s.request, Spent(s))'
      OBVIOUS
    <2>2. Counted(s.request, Spent(s)) /\ invoked'[s.request] = invoked[s.request]
      BY <2>1 DEF ThreadStands
    <2>3. PICK items : items = Spent(s)
      OBVIOUS
    <2>4. Counted(s.request, items)'
      BY <1>1, <2>2, <2>3, CountStays
    <2> QED BY <1>1, <2>3, <2>4 DEF Counted
  <1> QED BY <1>1, <1>2 DEF ThreadStands

(* One leg at a time.                                                      *)
LEMMA NoLegs ==
    ASSUME TypeOK, InTurn, OneLeg, Cardinality(Busy) < deployment.threads PROVE \A v \in Worker : leg[v] = Idle
  <1>1. Cardinality(Busy) < 1
    BY DEF InTurn
  <1>2. ASSUME NEW v \in Worker, leg[v] # Idle PROVE FALSE
    <2>1. Busy = {v}
      BY <1>2 DEF Busy, OneLeg
    <2>2. Cardinality({v}) = 1
      BY FS_Singleton
    <2> QED BY <1>1, <2>1, <2>2
  <1> QED BY <1>2

LEMMA OneLegStays ==
    ASSUME OneLeg, NEW w \in Worker, \A v \in Worker \ {w} : leg[v] = Idle /\ leg'[v] = leg[v]
    PROVE  OneLeg'
  BY DEF OneLeg

LEMMA OthersIdle ==
    ASSUME OneLeg, NEW w \in Worker, leg[w] # Idle, NEW v \in Worker \ {w} PROVE leg[v] = Idle
  BY DEF OneLeg

(* The node that the one leg is at.                                        *)
LEMMA WhoseNode ==
    ASSUME NEW w \in Worker, \A v \in Worker \ {w} : leg[v] = Idle, NEW p, NEW id
    PROVE  AtNode(p, id) <=> /\ leg[w] # Idle /\ leg[w].step = "node"
                             /\ BuildCheckpointer(leg[w].at) = p /\ leg[w].id = id
  BY DEF AtNode

LEMMA WhoseNextNode ==
    ASSUME deployment' = deployment, NEW w \in Worker, \A v \in Worker \ {w} : leg'[v] = Idle, NEW p, NEW id
    PROVE  AtNode(p, id)' <=> /\ leg'[w] # Idle /\ leg'[w].step = "node"
                              /\ BuildCheckpointer(leg'[w].at) = p /\ leg'[w].id = id
  BY DEF AtNode, BuildCheckpointer, ConstructRemoteSaver

(* What a leg has to show after a step.                                    *)
LEMMA LegStandsNext ==
    ASSUME deployment' = deployment, NEW w \in Worker, NEW x, NEW p, NEW id, leg'[w].at = x, leg'[w].id = id,
           BuildCheckpointer(x) = p,
           leg'[w].step \in {"inject", "invoke"} =>
               /\ leg'[w].done = {} /\ saver'[p][id] # None
               /\ \/ /\ leg'[w].call = "resume" /\ leg'[w].decision \in Decision
                     /\ saver'[p][id].next = "ApprovalRequired"
                  \/ /\ leg'[w].call = "supplement" /\ leg'[w].decision = None
                     /\ saver'[p][id].next = "SupplementRequired",
           leg'[w].step \in {"node", "respond"} =>
               \E s \in RunState :
                   /\ leg'[w].state = s /\ Belongs(w, s)' /\ (leg'[w].step = "node" => Works(w, s)')
                   /\ leg'[w].step = "respond" => Stops(w, s)'
    PROVE  LegStands(w)'
  <1>1. leg'[w].step \in {"inject", "invoke"} => Poised(w)'
    BY DEF Poised, IsParkedAtApproval, IsParkedAtSupplement, Thread, BuildCheckpointer, ConstructRemoteSaver
  <1>2. ASSUME NEW s \in RunState, leg'[w].state = s
        PROVE  /\ leg'[w].step \in {"node", "respond"} => Belongs(w, s)'
               /\ leg'[w].step = "node" => Works(w, s)'
               /\ leg'[w].step = "respond" => Stops(w, s)'
    BY <1>2
  <1> QED BY <1>1, <1>2 DEF LegStands

LEMMA BelongsNext ==
    ASSUME deployment' = deployment, NEW w \in Worker, NEW x, NEW p, NEW id, NEW s \in RunState,
           leg'[w].at = x, leg'[w].id = id, BuildCheckpointer(x) = p, saver'[p][id] = s,
           leg'[w].call = "run" => s.request = leg'[w].request,
           leg'[w].call = "resume" => Held(s.request) /\ leg'[w].decision \in Decision,
           leg'[w].call = "supplement" => ~Held(s.request)
    PROVE  Belongs(w, s)'
  <1>1. Held(s.request)' = Held(s.request)
    BY SettingsStay
  <1> QED BY <1>1 DEF Belongs, Thread, BuildCheckpointer, ConstructRemoteSaver

LEMMA WorksNext ==
    ASSUME deployment' = deployment, NEW w \in Worker, NEW s \in RunState, NEW items, NEW called,
           s.next # "END", leg'[w].call = "resume" => s.next \in Decides,
           leg'[w].call = "run" /\ Held(s.request) /\ "ApprovalRequired" \in InterruptNodes => s.next \in Before,
           items = ItemsOf(s), leg'[w].todo \subseteq items, Singly(leg'[w].done, s.request),
           ItemsIn(leg'[w].done) = items \ leg'[w].todo,
           called = Spent(s) \cup ItemsIn(leg'[w].done), Counted(s.request, called)'
    PROVE  Works(w, s)'
  <1>1. /\ Held(s.request)' = Held(s.request) /\ InterruptNodes' = InterruptNodes
        /\ ItemsOf(s)' = items /\ (Spent(s) \cup ItemsIn(leg[w].done))' = called
    BY SettingsStay DEF ItemsIn
  <1>2. Counted(s.request, Spent(s) \cup ItemsIn(leg[w].done))'
    BY <1>1 DEF Counted
  <1>3. Singly(leg[w].done, s.request)' /\ ItemsIn(leg[w].done)' = items \ leg'[w].todo
    BY DEF Singly, ItemsIn
  <1> QED BY <1>1, <1>2, <1>3 DEF Works, Decides, Before

LEMMA StopsNext ==
    ASSUME deployment' = deployment, NEW w \in Worker, NEW s \in RunState, Halts(s),
           leg'[w].call = "resume" => s.next = "END",
           leg'[w].call = "run" /\ Held(s.request) /\ "ApprovalRequired" \in InterruptNodes =>
               s.next = "ApprovalRequired"
    PROVE  Stops(w, s)'
  <1>1. Held(s.request)' = Held(s.request) /\ InterruptNodes' = InterruptNodes
    BY SettingsStay
  <1> QED BY <1>1 DEF Stops, Halts

-----------------------------------------------------------------------------
(* Steps that call nothing, save nothing and name nothing.                 *)
Quiet == saver' = saver /\ ident' = ident /\ invoked' = invoked
LEMMA QuietRuns ==
    ASSUME BaseInv, RunningInv, Grows, Quiet, OneLeg', LegsStand',
           \A p \in Place, id \in Id : AtNode(p, id) => AtNode(p, id)'
    PROVE  RunningInv'
  <1>1. ASSUME NEW p \in Place, NEW id \in Id, NEW s \in RunState, saver'[p][id] = s PROVE ThreadStands(p, id, s)'
    <2>1. ThreadStands(p, id, s)
      BY <1>1 DEF RunningInv, ThreadsStand, Quiet
    <2>2. AtNode(p, id)' \/ (~AtNode(p, id) /\ invoked'[s.request] = invoked[s.request])
      BY DEF Quiet
    <2> QED BY <2>1, <2>2, ThreadStays DEF BaseInv, Grows
  <1>2. ThreadsStand'
    BY <1>1 DEF ThreadsStand
  <1>3. NamedLast'
    BY DEF RunningInv, NamedLast, Quiet
  <1>4. CalledOnce'
    <2>1. \A r \in Request : ident[r] = None => Counted(r, {})'
      BY CountStays DEF RunningInv, CalledOnce, Quiet
    <2> QED BY <2>1 DEF RunningInv, CalledOnce, Quiet
  <1> QED BY <1>2, <1>3, <1>4 DEF RunningInv

LEMMA NoLegsNext == ASSUME \A v \in Worker : leg'[v] = Idle PROVE OneLeg' /\ LegsStand'
  BY DEF OneLeg, LegsStand

(* One leg acts, and rests or has something to show.                       *)
LEMMA OneLegNext ==
    ASSUME NEW w \in Worker, \A v \in Worker \ {w} : leg'[v] = Idle, leg'[w] = Idle \/ LegStands(w)'
    PROVE  OneLeg' /\ LegsStand'
  BY DEF OneLeg, LegsStand

LEMMA TheOthers ==
    ASSUME OneLeg, NEW w \in Worker, leg[w] # Idle, Others(w)
    PROVE  \A v \in Worker \ {w} : leg[v] = Idle /\ leg'[v] = Idle
  BY OthersIdle DEF Others

(* A leg that answers was at no node.                                      *)
LEMMA RestRuns ==
    ASSUME BaseInv, RunningInv, Grows, Quiet, NEW w \in Worker, leg[w] # Idle, leg[w].step # "node", Rests(w)
    PROVE  RunningInv'
  <1>1. \A v \in Worker \ {w} : leg[v] = Idle /\ leg'[v] = Idle
    BY TheOthers DEF RunningInv, Rests
  <1>2. OneLeg' /\ LegsStand'
    BY <1>1, OneLegNext DEF Rests
  <1>3. \A p \in Place, id \in Id : ~AtNode(p, id)
    BY <1>1, WhoseNode
  <1> QED BY <1>2, <1>3, QuietRuns

LEMMA BeginRuns ==
    ASSUME BaseInv, RunningInv, InTurn, Grows, Quiet, NEW w \in Worker, Cardinality(Busy) < deployment.threads,
           Others(w), LegStands(w)'
    PROVE  RunningInv'
  <1>1. \A v \in Worker : leg[v] = Idle
    BY NoLegs DEF BaseInv, RunningInv
  <1>2. OneLeg' /\ LegsStand'
    BY <1>1, OneLegNext DEF Others
  <1>3. \A p \in Place, id \in Id : ~AtNode(p, id)
    BY <1>1, WhoseNode
  <1> QED BY <1>2, <1>3, QuietRuns

LEMMA RunRuns ==
    ASSUME BaseInv, RunningInv, InTurn, Grows, NEW w \in Worker, NEW x \in Replica, NEW r \in Request, Run(w, x, r)
    PROVE  RunningInv'
  <1>1. /\ UNCHANGED <<deployment, saver, ident, invoked>> /\ Others(w) /\ Cardinality(Busy) < deployment.threads
        /\ leg'[w].at = x /\ leg'[w].id = 0 /\ leg'[w].step = "name"
    BY RunDoes DEF BaseInv, Goes
  <1>2. LegStands(w)'
    BY <1>1, LegStandsNext
  <1> QED BY <1>1, <1>2, BeginRuns DEF Quiet

LEMMA ResumeRuns ==
    ASSUME BaseInv, RunningInv, InTurn, Grows, NEW w \in Worker, NEW x \in Replica, NEW r \in Request,
           NEW d \in Decision, Resume(w, x, r, d)
    PROVE  RunningInv'
  <1>1. /\ UNCHANGED <<deployment, saver, ident, invoked>> /\ Others(w) /\ Cardinality(Busy) < deployment.threads
        /\ leg'[w].at = x /\ leg'[w].id = ident[r].id /\ leg'[w].step = "inject" /\ leg'[w].call = "resume"
        /\ leg'[w].decision = d /\ leg'[w].done = {} /\ IsParkedAtApproval(x, ident[r].id)
    BY ResumeDoes DEF Goes
  <1>2. PICK p, id : p = BuildCheckpointer(x) /\ id = ident[r].id
    OBVIOUS
  <1>3. saver'[p][id] # None /\ saver'[p][id].next = "ApprovalRequired"
    BY <1>1, <1>2 DEF IsParkedAtApproval, Thread
  <1>4. LegStands(w)'
    BY <1>1, <1>2, <1>3, LegStandsNext
  <1> QED BY <1>1, <1>4, BeginRuns DEF Quiet

LEMMA SupplementRuns ==
    ASSUME BaseInv, RunningInv, InTurn, Grows, NEW w \in Worker, NEW x \in Replica, NEW r \in Request,
           ResumeFromSupplement(w, x, r)
    PROVE  RunningInv'
  <1>1. /\ UNCHANGED <<deployment, saver, ident, invoked>> /\ Others(w) /\ Cardinality(Busy) < deployment.threads
        /\ leg'[w].at = x /\ leg'[w].id = ident[r].id /\ leg'[w].step = "inject" /\ leg'[w].call = "supplement"
        /\ leg'[w].decision = None /\ leg'[w].done = {} /\ IsParkedAtSupplement(x, ident[r].id)
    BY SupplementDoes DEF Goes
  <1>2. PICK p, id : p = BuildCheckpointer(x) /\ id = ident[r].id
    OBVIOUS
  <1>3. saver'[p][id] # None /\ saver'[p][id].next = "SupplementRequired"
    BY <1>1, <1>2 DEF IsParkedAtSupplement, Thread
  <1>4. LegStands(w)'
    BY <1>1, <1>2, <1>3, LegStandsNext
  <1> QED BY <1>1, <1>4, BeginRuns DEF Quiet

(* A thread that a poised leg finds.                                       *)
LEMMA PoisedThread ==
    ASSUME BaseInv, RunningInv, NEW w \in Worker, leg[w] # Idle, leg[w].step \in {"inject", "invoke"},
           NEW p \in Place, NEW id \in Id, p = BuildCheckpointer(leg[w].at), id = leg[w].id,
           NEW s \in RunState, s = saver[p][id]
    PROVE  /\ ThreadStands(p, id, s) /\ leg[w].done = {} /\ leg[w].call # "run" /\ Spent(s) = {} /\ ItemsOf(s) = {}
           /\ leg[w].call = "resume" => /\ s.next = "ApprovalRequired" /\ Held(s.request) /\ s.last = "ToolPlan"
                                        /\ leg[w].decision \in Decision
           /\ leg[w].call = "supplement" =>
                  /\ s.next = "SupplementRequired" /\ ~Held(s.request) /\ s.last = "RunStarted"
                  /\ RequiresSupplement(s.request) /\ leg[w].decision = None
  <1>0. ThreadStands(p, id, s) /\ Walk(s) /\ s.request \in Request
    BY StateFields DEF RunningInv, ThreadsStand, ThreadStands
  <1>1. Poised(w)
    BY DEF RunningInv, LegsStand, LegStands
  <1>2. \/ leg[w].call = "resume" /\ leg[w].decision \in Decision /\ s.next = "ApprovalRequired"
        \/ leg[w].call = "supplement" /\ leg[w].decision = None /\ s.next = "SupplementRequired"
    BY <1>1 DEF Poised, IsParkedAtApproval, IsParkedAtSupplement, Thread
  <1>3. s.next = "ApprovalRequired" => Held(s.request) /\ s.last = "ToolPlan"
    BY <1>0 DEF Walk, GateNodes
  <1>4. s.next = "SupplementRequired" => /\ ~Held(s.request) /\ s.last = "RunStarted"
                                         /\ RequiresSupplement(s.request)
    BY <1>0, PlanFacts DEF Walk, BaseInv
  <1>5. Spent(s) = {} /\ ItemsOf(s) = {}
    BY <1>0, <1>2, ItemsAre DEF Spent, Worked, BaseInv
  <1> QED BY <1>0, <1>1, <1>2, <1>3, <1>4, <1>5 DEF Poised

LEMMA InvokeThreadRuns ==
    ASSUME BaseInv, RunningInv, Grows, NEW w \in Worker, InvokeThread(w)
    PROVE  RunningInv'
  <1>1. /\ UNCHANGED <<deployment, saver, ident, invoked>> /\ Stays(w) /\ leg[w].step = "invoke" /\ leg[w] # Idle
        /\ leg'[w].id = leg[w].id /\ leg'[w].done = leg[w].done
    BY InvokeThreadDoes DEF Stays
  <1>2. PICK s \in RunState : /\ s = saver[BuildCheckpointer(leg[w].at)][leg[w].id] /\ Carries(w, s)
                              /\ leg'[w].step = (IF s.next = "END" THEN "respond" ELSE "node")
    BY InvokeThreadDoes
  <1>3. leg[w].at \in Replica /\ leg[w].id \in Id
    BY <1>1, LegFacts DEF BaseInv, LegsInv
  <1>4. PICK x \in Replica, p \in Place, id \in Id : x = leg[w].at /\ p = BuildCheckpointer(x) /\ id = leg[w].id
    BY <1>3, PlaceFacts
  <1>5. /\ ThreadStands(p, id, s) /\ leg[w].done = {} /\ leg[w].call # "run" /\ Spent(s) = {} /\ ItemsOf(s) = {}
        /\ leg[w].call = "resume" => /\ s.next = "ApprovalRequired" /\ Held(s.request) /\ leg[w].decision \in Decision
        /\ leg[w].call = "supplement" => s.next = "SupplementRequired" /\ ~Held(s.request)
        /\ leg[w].call \in {"resume", "supplement"}
    BY SMTT(30), <1>1, <1>2, <1>4, PoisedThread, LegFacts DEF BaseInv
  <1>6. \A v \in Worker \ {w} : leg[v] = Idle /\ leg'[v] = Idle
    BY <1>1, TheOthers DEF RunningInv, Stays
  <1>7. \A q \in Place, i \in Id : ~AtNode(q, i)
    BY <1>1, <1>6, WhoseNode
  <1>8. Counted(s.request, {})'
    <2>1. Counted(s.request, {}) /\ s.request \in Request
      BY <1>5, <1>7, StateFields DEF ThreadStands
    <2> QED BY <1>1, <2>1, CountStays
  <1>9. /\ leg'[w].at = x /\ leg'[w].id = id /\ leg'[w].call = leg[w].call /\ leg'[w].decision = leg[w].decision
        /\ leg'[w].done = {} /\ leg'[w].step = "node" /\ leg'[w].todo = {} /\ leg'[w].state = s
    BY <1>1, <1>2, <1>4, <1>5 DEF Stays, Carries
  <1>10. Belongs(w, s)'
    BY SMTT(30), <1>1, <1>2, <1>4, <1>5, <1>9, BelongsNext
  <1>11. Works(w, s)'
    <2>1. PICK called : called = Spent(s) \cup ItemsIn(leg'[w].done)
      OBVIOUS
    <2>2. called = {} /\ ItemsIn(leg'[w].done) = {} /\ Singly(leg'[w].done, s.request)
      BY <1>5, <1>9, <2>1 DEF ItemsIn, Singly
    <2>3. s.next # "END" /\ (leg'[w].call = "resume" => s.next \in Decides) /\ leg'[w].call # "run"
      BY <1>5, <1>9 DEF Decides, GateNodes
    <2> QED BY ZenonT(40), <1>1, <1>5, <1>8, <1>9, <2>1, <2>2, <2>3, WorksNext
  <1>12. LegStands(w)'
    BY <1>1, <1>4, <1>9, <1>10, <1>11, LegStandsNext
  <1>13. OneLeg' /\ LegsStand'
    BY <1>6, <1>12, OneLegNext
  <1> QED BY <1>1, <1>7, <1>13, QuietRuns DEF Quiet

-----------------------------------------------------------------------------
(* Steps that save a state: what becomes of the threads.                   *)
LEMMA PutStands ==
    ASSUME BaseInv, RunningInv, Grows, NEW p \in Place, NEW id \in Id, NEW s \in RunState,
           Put(p, id, s), ThreadStands(p, id, s)', invoked' = invoked,
           \A q \in Place, i \in Id : ~(q = p /\ i = id) => ~AtNode(q, i)
    PROVE  ThreadsStand'
  <1>1. ASSUME NEW q \in Place, NEW i \in Id, NEW t \in RunState, saver'[q][i] = t PROVE ThreadStands(q, i, t)'
    <2>1. CASE q = p /\ i = id
      <3>1. t = s
        BY <1>1, <2>1 DEF Put
      <3> QED BY <2>1, <3>1
    <2>2. CASE ~(q = p /\ i = id)
      <3>1. saver[q][i] = t
        BY <1>1, <2>2 DEF Put
      <3>2. ThreadStands(q, i, t)
        BY <3>1 DEF RunningInv, ThreadsStand
      <3> QED BY <2>2, <3>2, ThreadStays DEF BaseInv, Grows
    <2> QED BY <2>1, <2>2
  <1> QED BY <1>1 DEF ThreadsStand

LEMMA NamedStays ==
    ASSUME BaseInv, RunningInv, Grows, ThreadsLast, ident' = ident PROVE NamedLast'
  <1>1. ASSUME NEW r \in Request, ident'[r] # None PROVE saver'[ident'[r].place][ident'[r].id] # None
    <2>1. ident[r] \in Name /\ ident'[r] = ident[r] /\ saver[ident[r].place][ident[r].id] # None
      BY <1>1 DEF BaseInv, TypeOK, RunningInv, NamedLast
    <2>2. ident[r].place \in Place /\ ident[r].id \in Id
      BY <2>1 DEF Name
    <2> QED BY <2>1, <2>2 DEF ThreadsLast
  <1> QED BY <1>1 DEF NamedLast

LEMMA CalledStays ==
    ASSUME BaseInv, RunningInv, Grows, invoked' = invoked PROVE CalledOnce'
  <1>1. \A r \in Request : ident'[r] = None => ident[r] = None
    BY DEF Grows, IdentGrows
  <1>2. \A r \in Request : ident'[r] = None => Counted(r, {})'
    BY <1>1, CountStays DEF RunningInv, CalledOnce
  <1> QED BY <1>2 DEF RunningInv, CalledOnce

(* A state before its first node.                                          *)
LEMMA NoCalls == DOMAIN <<>> = {}
  OBVIOUS

LEMMA InitialMade ==
    ASSUME TypeOK, NEW r \in Request, NEW kept \in SUBSET Entry, NEW s, s = Initial(r, kept)
    PROVE  /\ Walk(s) /\ Spent(s) = {} /\ ItemsOf(s) = {} /\ ~Halts(s) /\ s.next = "TemplateLoaded" /\ s.request = r
           /\ kept = {} => Gathered(s) /\ Reported(s)
  <1>1. /\ s.request = r /\ s.status = "running" /\ s.approval = "not_required" /\ s.results = kept
        /\ s.output = {} /\ s.last = "START" /\ s.next = "TemplateLoaded" /\ s.calls = <<>>
    BY DEF Initial
  <1>2. Walk(s)
    BY <1>1, NoCalls DEF Walk, Open, ToolNodes, GateNodes
  <1>3. Spent(s) = {} /\ ItemsOf(s) = {}
    BY <1>1 DEF Spent, Worked, ItemsOf
  <1>4. ~Halts(s)
    BY <1>1, DeploymentsAssumption DEF Halts, InterruptNodes, TypeOK
  <1>5. kept = {} => Gathered(s) /\ Reported(s)
    BY <1>1, <1>3 DEF Gathered, Reported, Singly, ItemsIn
  <1> QED BY <1>1, <1>2, <1>3, <1>4, <1>5

(* A run that is named has no older thread, or shares its name.            *)
LEMMA StartsClean ==
    ASSUME BaseInv, NEW r \in Request, ident[r] = None, NEW p \in Place, NEW id \in Id,
           ident' = [ident EXCEPT ![r] = NameOf(p, id)]
    PROVE  /\ Kept(p, id) = {} \/ SharesName(r)'
           /\ \A s \in RunState : saver[p][id] = s => SharesName(s.request)' /\ s.request # r
           /\ Kept(p, id) \in SUBSET Entry
  <1>1. ident'[r] = NameOf(p, id) /\ ident'[r].id = id /\ ident'[r] # None
    BY NameThere DEF BaseInv, TypeOK, NameOf
  <1>2. ASSUME NEW s \in RunState, saver[p][id] = s
        PROVE  SharesName(s.request)' /\ SharesName(r)' /\ s.request # r
    <2>1. PICK q \in Request : q = s.request /\ ident[q] = NameOf(p, id)
      BY <1>2, StateFields, NoneAssumption DEF BaseInv, ThreadsInv, Owns
    <2>2. q # r /\ ident'[q] = NameOf(p, id)
      BY <2>1, NameThere DEF BaseInv, TypeOK
    <2>3. SharesName(q)' /\ SharesName(r)'
      BY <1>1, <2>2 DEF SharesName
    <2> QED BY <2>1, <2>2, <2>3
  <1>3. saver[p][id] # None => saver[p][id] \in RunState
    BY DEF BaseInv, TypeOK
  <1>4. Kept(p, id) \in SUBSET Entry
    BY <1>3, StateFields DEF Kept
  <1> QED BY <1>2, <1>3, <1>4 DEF Kept

LEMMA StartRunRuns ==
    ASSUME BaseInv, RunningInv, Grows, NEW w \in Worker, StartRun(w)
    PROVE  RunningInv'
  <1>1. /\ UNCHANGED <<deployment, invoked>> /\ Naming(w) /\ Stays(w)
    BY StartRunDoes
  <1>2. leg[w] # Idle /\ leg[w].step = "name" /\ leg[w].call = "run" /\ ident[leg[w].request] = None
        /\ leg[w].at \in Replica /\ leg[w].request \in Request
    BY <1>1, LegFacts DEF BaseInv, NamesInv, Naming
  <1>3. PICK r \in Request, x \in Replica, p \in Place : r = leg[w].request /\ x = leg[w].at /\ p = BuildCheckpointer(x)
    BY <1>2, PlaceFacts
  <1>4. PICK id \in Id, s \in RunState :
            /\ leg'[w].id = id /\ Put(p, id, s) /\ Onward(w, s)
            /\ s = Initial(r, Kept(p, id)) /\ ident' = [ident EXCEPT ![r] = NameOf(p, id)]
    BY <1>3, StartRunDoes
  <1>5. /\ Kept(p, id) = {} \/ SharesName(r)'
        /\ Kept(p, id) \in SUBSET Entry
    BY <1>2, <1>3, <1>4, StartsClean
  <1>6. /\ Walk(s) /\ Spent(s) = {} /\ ItemsOf(s) = {} /\ ~Halts(s) /\ s.next = "TemplateLoaded" /\ s.request = r
        /\ Kept(p, id) = {} => Gathered(s) /\ Reported(s)
    BY <1>4, <1>5, InitialMade DEF BaseInv
  <1>7. \A v \in Worker \ {w} : leg[v] = Idle /\ leg'[v] = Idle
    BY <1>1, <1>2, TheOthers DEF RunningInv, Stays
  <1>8. \A q \in Place, i \in Id : ~AtNode(q, i)
    BY <1>2, <1>7, WhoseNode
  <1>9. /\ leg'[w] # Idle /\ leg'[w].at = x /\ leg'[w].call = "run" /\ leg'[w].request = r /\ leg'[w].state = s
        /\ leg'[w].step = "node" /\ leg'[w].todo = {} /\ leg'[w].done = {}
    BY <1>1, <1>2, <1>3, <1>4, <1>6 DEF Stays, Onward, Carries
  <1>10. AtNode(p, id)'
    BY <1>1, <1>3, <1>4, <1>7, <1>9, WhoseNextNode
  <1>11. ThreadStands(p, id, s)'
    <2>1. Walk(s)' /\ Gathered(s)' = Gathered(s)
      BY <1>1, <1>6, SettingsStay DEF Gathered
    <2>2. Reported(s)' = Reported(s)
      BY <1>1 DEF Reported
    <2>3. SharesName(s.request)' \/ (Gathered(s)' /\ Reported(s)')
      BY <1>5, <1>6, <2>1, <2>2
    <2> QED BY <1>10, <2>1, <2>3 DEF ThreadStands, Tidy
  <1>12. ThreadsStand'
    BY <1>1, <1>4, <1>8, <1>11, PutStands
  <1>13. NamedLast'
    <2>1. saver'[p][id] # None /\ ThreadsLast
      <3>1. s # None /\ saver'[p][id] = s
        BY <1>4, NoneAssumption DEF Put
      <3> QED BY <1>4, <3>1, PutLasts
    <2>2. ASSUME NEW q \in Request, ident'[q] # None PROVE saver'[ident'[q].place][ident'[q].id] # None
      <3>1. CASE q = r
        <4>1. ident'[q].place = p /\ ident'[q].id = id
          BY <1>4, <3>1 DEF BaseInv, TypeOK, NameOf
        <4> QED BY <2>1, <4>1
      <3>2. CASE q # r
        <4>1. ident'[q] = ident[q] /\ ident[q] \in Name /\ saver[ident[q].place][ident[q].id] # None
          BY <1>4, <2>2, <3>2 DEF BaseInv, TypeOK, RunningInv, NamedLast
        <4> QED BY <2>1, <4>1 DEF ThreadsLast, Name
      <3> QED BY <3>1, <3>2
    <2> QED BY <2>2 DEF NamedLast
  <1>14. CalledOnce'
    BY <1>1, CalledStays
  <1>15. Counted(r, {})'
    <2>1. Counted(r, {})
      BY <1>2, <1>3 DEF RunningInv, CalledOnce
    <2> QED BY <1>1, <2>1, CountStays
  <1>16. Belongs(w, s)'
    <2>1. saver'[p][id] = s
      BY <1>4 DEF Put
    <2> QED BY <1>1, <1>3, <1>4, <1>6, <1>9, <2>1, BelongsNext
  <1>17. Works(w, s)'
    <2>1. PICK called : called = Spent(s) \cup ItemsIn(leg'[w].done)
      OBVIOUS
    <2>2. called = {} /\ ItemsIn(leg'[w].done) = {} /\ Singly(leg'[w].done, s.request)
      BY <1>6, <1>9, <2>1 DEF ItemsIn, Singly
    <2> QED BY ZenonT(40), <1>1, <1>6, <1>9, <1>15, <2>1, <2>2, WorksNext DEF Before
  <1>18. LegStands(w)'
    BY <1>1, <1>3, <1>4, <1>9, <1>16, <1>17, LegStandsNext
  <1>19. OneLeg' /\ LegsStand'
    BY <1>7, <1>18, OneLegNext
  <1> QED BY <1>12, <1>13, <1>14, <1>19 DEF RunningInv

(* update_state goes back to the route in front of the gate.               *)
LEMMA UpdatesStand ==
    ASSUME BaseInv, NEW p \in Place, NEW id \in Id, NEW s \in RunState, ThreadStands(p, id, s), Spent(s) = {},
           NEW d \in Decision \cup {None},
           \/ d \in Decision /\ s.next = "ApprovalRequired" /\ Held(s.request) /\ s.last = "ToolPlan"
           \/ d = None /\ s.next = "SupplementRequired" /\ s.last = "RunStarted" /\ RequiresSupplement(s.request),
           NEW t, t = UpdateState(s, d)
    PROVE  /\ t \in RunState /\ t.request = s.request /\ t.next = s.next /\ t.last = s.last
           /\ ThreadStands(p, id, t) /\ Spent(t) = {}
  <1>0. TypeOK /\ Walk(s) /\ Tidy(s)
    BY DEF BaseInv, ThreadStands
  <1>1. PICK e : e = IF d = None THEN s ELSE [s EXCEPT !.approval = d]
    OBVIOUS
  <1>2. /\ e \in RunState /\ e.request = s.request /\ e.status = s.status /\ e.calls = s.calls
        /\ e.results = s.results /\ e.output = s.output
        /\ e.approval \in {s.approval} \cup (IF d = None THEN {} ELSE {d})
    <2>1. CASE d = None
      BY <1>1, <2>1
    <2>2. CASE d # None
      <3>1. e = [s EXCEPT !.approval = d] /\ d \in Approval
        BY <1>1, <2>2 DEF Approval
      <3> QED BY <2>2, <3>1 DEF RunState, Approval
    <2> QED BY <2>1, <2>2
  <1>3. s.last \in Node /\ s.last # "START"
    BY DEF Node
  <1>4. t = Moved(e, s.last)
    <2>1. e.last = s.last
      <3>1. CASE d = None
        BY <1>1, <3>1
      <3>2. CASE d # None
        <4>1. e = [s EXCEPT !.approval = d]
          BY <1>1, <3>2
        <4> QED BY <4>1 DEF RunState
      <3> QED BY <3>1, <3>2
    <2> QED BY <1>1, <1>3, <2>1 DEF UpdateState
  <1>5. /\ t \in RunState /\ t.request = s.request /\ t.status = s.status /\ t.calls = s.calls
        /\ t.results = s.results /\ t.output = s.output /\ t.approval = e.approval
        /\ t.last = s.last /\ t.next = Edge(s.last, e)
    BY <1>0, <1>2, <1>3, <1>4, MovedFacts, MovedKeeps
  <1>6. t.next = s.next
    BY <1>0, <1>2, <1>5, EdgesAre
  <1>7. Walk(t)
    <2>1. s.next = "SupplementRequired" => t.approval = s.approval
      BY <1>2, <1>5
    <2>2. s.next = "ApprovalRequired" => Held(t.request)
      BY <1>5
    <2> QED BY <1>0, <1>5, <1>6, <2>1, <2>2 DEF Walk, ToolNodes, GateNodes
  <1>8. Spent(t) = {}
    BY <1>6 DEF Spent, Worked
  <1>9. Tidy(t)
    BY <1>0, <1>5, <1>6, <1>8, TidyCarried
  <1>10. ~AtNode(p, id) => Counted(t.request, Spent(t))
    BY <1>5, <1>8 DEF ThreadStands
  <1> QED BY <1>5, <1>6, <1>7, <1>8, <1>9, <1>10 DEF ThreadStands

LEMMA InjectRuns ==
    ASSUME BaseInv, RunningInv, Grows, NEW w \in Worker, Inject(w)
    PROVE  RunningInv'
  <1>1. UNCHANGED <<deployment, ident, invoked>> /\ leg[w] # Idle /\ leg[w].step = "inject"
    BY InjectDoes
  <1>2. leg[w].at \in Replica /\ leg[w].id \in Id
    BY <1>1, LegFacts DEF BaseInv, LegsInv
  <1>3. PICK x \in Replica, p \in Place, id \in Id : x = leg[w].at /\ p = BuildCheckpointer(x) /\ id = leg[w].id
    BY <1>2, PlaceFacts
  <1>4. CASE Rests(w) /\ saver' = saver
    BY <1>1, <1>4, RestRuns DEF Quiet
  <1>5. ASSUME ~(Rests(w) /\ saver' = saver) PROVE RunningInv'
    <2>1. /\ Stays(w) /\ leg'[w].step = "invoke" /\ leg'[w].id = id /\ leg'[w].done = leg[w].done
          /\ \E old \in RunState, s \in RunState :
                 /\ old = saver[p][id] /\ s = UpdateState(old, leg[w].decision) /\ Put(p, id, s)
      BY <1>3, <1>5, InjectDoes
    <2>2. PICK old \in RunState, s \in RunState :
              old = saver[p][id] /\ s = UpdateState(old, leg[w].decision) /\ Put(p, id, s)
      BY <2>1
    <2>3. /\ ThreadStands(p, id, old) /\ leg[w].done = {} /\ Spent(old) = {}
          /\ leg[w].call = "resume" => /\ old.next = "ApprovalRequired" /\ Held(old.request) /\ old.last = "ToolPlan"
                                       /\ leg[w].decision \in Decision
          /\ leg[w].call = "supplement" =>
                 /\ old.next = "SupplementRequired" /\ ~Held(old.request) /\ old.last = "RunStarted"
                 /\ RequiresSupplement(old.request) /\ leg[w].decision = None
          /\ leg[w].call \in {"resume", "supplement"} /\ leg[w].decision \in Decision \cup {None}
      BY SMTT(30), <1>1, <1>3, <2>2, PoisedThread, LegFacts DEF BaseInv
    <2>4. s.next = old.next /\ ThreadStands(p, id, s)
      BY <2>2, <2>3, UpdatesStand
    <2>5. \A v \in Worker \ {w} : leg[v] = Idle /\ leg'[v] = Idle
      BY <1>1, <2>1, TheOthers DEF RunningInv, Stays
    <2>6. \A q \in Place, i \in Id : ~AtNode(q, i)
      BY <1>1, <2>5, WhoseNode
    <2>7. ThreadStands(p, id, s)'
      BY <1>1, <2>4, <2>6, ThreadStays DEF BaseInv, Grows
    <2>8. ThreadsStand'
      BY <1>1, <2>2, <2>6, <2>7, PutStands
    <2>9. NamedLast' /\ CalledOnce'
      BY <1>1, <2>2, PutLasts, NamedStays, CalledStays
    <2>10. /\ leg'[w].at = x /\ leg'[w].call = leg[w].call /\ leg'[w].decision = leg[w].decision
           /\ saver'[p][id] = s /\ s # None
      BY <1>3, <2>1, <2>2, NoneAssumption DEF Stays, Put
    <2>11. LegStands(w)'
      BY <1>1, <1>3, <2>1, <2>3, <2>4, <2>10, LegStandsNext
    <2>12. OneLeg' /\ LegsStand'
      BY <2>5, <2>11, OneLegNext
    <2> QED BY <2>8, <2>9, <2>12 DEF RunningInv
  <1> QED BY <1>4, <1>5

-----------------------------------------------------------------------------
(* Where a run of a template that holds its tools goes from a node.        *)
LEMMA HeldGoesOn ==
    ASSUME TypeOK, NEW s \in RunState, NEW done \in SUBSET Entry, Walk(s), Held(s.request)
    PROVE  /\ s.next \in Decides => Successor(s, done).next \in (Decides \ {"ApprovalRequired"}) \cup {"END"}
           /\ s.next \in Before => Successor(s, done).next \in Before \cup {"ApprovalRequired"}
  <1>1. PICK e \in RunState : e = Executed(s, done) /\ e.request = s.request
    BY ExecutedFacts DEF Like
  <1>2. Successor(s, done).next = Edge(s.next, e)
    BY <1>1, SuccessorMade
  <1>3. s.next = "ToolAggregate" => e.approval = "approved"
    <2>1. s.next = "ToolAggregate" => e.approval = s.approval
      BY <1>1, ReadersMade DEF Made
    <2> QED BY <2>1 DEF Walk, ToolNodes
  <1>4. ~RequiresSupplement(s.request) /\ ~Know(s.request)
    BY StateFields, PlanFacts
  <1>5. CASE s.next \in {"TemplateLoaded", "RunStarted", "ToolPlan"}
    BY <1>1, <1>2, <1>4, <1>5, EdgesAre DEF Decides, GateNodes, ToolNodes, Before
  <1>6. CASE s.next \in {"ApprovalRequired", "ApprovalApproved", "ApprovalRejected"}
    BY <1>1, <1>2, <1>6, EdgesAre DEF Decides, GateNodes, ToolNodes, Before
  <1>7. CASE s.next \in {"ToolExec", "ToolAggregate"}
    BY <1>1, <1>2, <1>3, <1>7, EdgesAre DEF Decides, GateNodes, ToolNodes, Before
  <1> QED BY <1>5, <1>6, <1>7 DEF Decides, GateNodes, ToolNodes, Before

LEMMA InterruptsAre == ASSUME TypeOK PROVE InterruptNodes \subseteq {"ApprovalRequired", "SupplementRequired"}
  BY DeploymentsAssumption DEF InterruptNodes, TypeOK

(* What the one leg stands for, at a node.                                 *)
LEMMA AtWork ==
    ASSUME BaseInv, RunningInv, NEW w \in Worker, leg[w] # Idle, leg[w].step = "node"
    PROVE  \E x \in Replica, p \in Place, id \in Id, s \in RunState :
               /\ x = leg[w].at /\ p = BuildCheckpointer(x) /\ id = leg[w].id /\ s = leg[w].state
               /\ saver[p][id] = s /\ Belongs(w, s) /\ Works(w, s) /\ ThreadStands(p, id, s)
               /\ ident[s.request] = NameOf(p, id)
  <1>1. /\ leg[w].at \in Replica /\ leg[w].id \in Id /\ leg[w].state \in RunState
        /\ ident[leg[w].state.request] = NameOf(BuildCheckpointer(leg[w].at), leg[w].id)
    BY LegFacts DEF BaseInv, LegsInv, Owns
  <1>2. PICK x \in Replica, p \in Place, id \in Id, s \in RunState :
            x = leg[w].at /\ p = BuildCheckpointer(x) /\ id = leg[w].id /\ s = leg[w].state
    BY <1>1, PlaceFacts
  <1>3. Belongs(w, s) /\ Works(w, s)
    BY <1>2 DEF RunningInv, LegsStand, LegStands
  <1>4. saver[p][id] = s
    BY <1>2, <1>3 DEF Belongs, Thread
  <1>5. ThreadStands(p, id, s)
    BY <1>4 DEF RunningInv, ThreadsStand
  <1> QED BY <1>1, <1>2, <1>3, <1>4, <1>5

LEMMA ExecuteNodeRuns ==
    ASSUME BaseInv, RunningInv, Grows, NEW w \in Worker, ExecuteNode(w)
    PROVE  RunningInv'
  <1>0. TypeOK
    BY DEF BaseInv
  <1>1. UNCHANGED <<deployment, ident, invoked>> /\ leg[w].step = "node" /\ Stays(w) /\ leg[w].todo = {}
        /\ leg'[w].id = leg[w].id /\ leg[w] # Idle
    BY ExecuteNodeDoes DEF BaseInv, Stays
  <1>2. PICK x \in Replica, p \in Place, id \in Id, s \in RunState :
            /\ x = leg[w].at /\ p = BuildCheckpointer(x) /\ id = leg[w].id /\ s = leg[w].state
            /\ saver[p][id] = s /\ Belongs(w, s) /\ Works(w, s) /\ ThreadStands(p, id, s)
    BY <1>1, AtWork
  <1>3. PICK done \in SUBSET Entry : done = leg[w].done
    BY <1>0, <1>1, LegFacts
  <1>4. PICK t \in RunState : /\ Put(p, id, t) /\ t.request = s.request /\ Onward(w, t) /\ t = Successor(s, done)
    BY <1>2, <1>3, ExecuteNodeDoes DEF BaseInv
  <1>5. /\ Walk(t) /\ Spent(t) = Spent(s) \cup ItemsOf(s) /\ Tidy(t)
        /\ ItemsIn(done) = ItemsOf(s)
    <2>1. GoesOn(s, t, done)
      BY <1>0, <1>2, <1>4, StateGoesOn DEF Works, ThreadStands
    <2>2. Finished(s, done)
      BY <1>1, <1>2, <1>3 DEF Works, Finished
    <2> QED BY <1>2, <2>1, <2>2 DEF GoesOn, ThreadStands, Finished
  <1>6. \A v \in Worker \ {w} : leg[v] = Idle /\ leg'[v] = Idle
    BY <1>1, TheOthers DEF RunningInv, Stays
  <1>7. \A q \in Place, i \in Id : ~(q = p /\ i = id) => ~AtNode(q, i)
    BY <1>2, <1>6, WhoseNode
  <1>8. Counted(s.request, Spent(t))'
    <2>1. PICK called : called = Spent(t)
      OBVIOUS
    <2>2. Counted(s.request, called)
      BY <1>2, <1>3, <1>5, <2>1 DEF Works
    <2>3. Counted(s.request, called)'
      BY <1>1, <2>2, StateFields, CountStays
    <2>4. Spent(t)' = called
      BY <1>1, <2>1, SettingsStay
    <2> QED BY <2>3, <2>4 DEF Counted
  <1>9. Walk(t)' /\ Tidy(t)'
    BY <1>1, <1>5, SettingsStay, TidyStays DEF Grows
  <1>10. ThreadStands(p, id, t)'
    BY <1>4, <1>8, <1>9 DEF ThreadStands, Counted
  <1>11. ThreadsStand'
    BY <1>1, <1>4, <1>7, <1>10, PutStands
  <1>12. NamedLast' /\ CalledOnce'
    BY <1>1, <1>4, PutLasts, NamedStays, CalledStays
  <1>13. /\ leg'[w] # Idle /\ leg'[w].at = x /\ leg'[w].call = leg[w].call /\ leg'[w].request = leg[w].request
         /\ leg'[w].decision = leg[w].decision /\ leg'[w].state = t /\ leg'[w].id = id
         /\ leg'[w].done = {} /\ leg'[w].step = (IF Halts(t) THEN "respond" ELSE "node")
         /\ leg'[w].step = "node" => leg'[w].todo = ItemsOf(t)
    BY <1>1, <1>2, <1>4 DEF Stays, Onward, Carries
  <1>14. /\ s.next # "END" /\ (leg[w].call = "resume" => s.next \in Decides /\ Held(s.request))
         /\ leg[w].call = "run" /\ Held(s.request) /\ "ApprovalRequired" \in InterruptNodes => s.next \in Before
         /\ leg[w].call = "resume" => leg[w].decision \in Decision
         /\ leg[w].call = "run" => t.request = leg[w].request
         /\ leg[w].call = "supplement" => ~Held(t.request)
         /\ Held(t.request) = Held(s.request) /\ Walk(s)
    BY <1>2, <1>4 DEF Works, Belongs, ThreadStands
  <1>15. /\ Held(s.request) /\ s.next \in Decides => t.next \in (Decides \ {"ApprovalRequired"}) \cup {"END"}
         /\ Held(s.request) /\ s.next \in Before => t.next \in Before \cup {"ApprovalRequired"}
    BY <1>0, <1>4, <1>14, HeldGoesOn
  <1>16. Belongs(w, t)'
    <2>1. saver'[p][id] = t
      BY <1>4 DEF Put
    <2> QED BY <1>1, <1>2, <1>13, <1>14, <2>1, BelongsNext
  <1>17. leg'[w].step = "node" => Works(w, t)'
    <2>1. SUFFICES ASSUME leg'[w].step = "node" PROVE Works(w, t)'
      OBVIOUS
    <2>2. ~Halts(t) /\ leg'[w].todo = ItemsOf(t)
      BY <1>13, <2>1
    <2>3. PICK items, called : items = ItemsOf(t) /\ called = Spent(t) \cup ItemsIn(leg'[w].done)
      OBVIOUS
    <2>4. ItemsIn(leg'[w].done) = {} /\ Singly(leg'[w].done, t.request) /\ called = Spent(t)
      BY <1>13, <2>3 DEF ItemsIn, Singly
    <2>5. Counted(t.request, called)'
      <3>1. Spent(t)' = called
        BY <1>1, <2>4, SettingsStay
      <3> QED BY <1>4, <1>8, <3>1 DEF Counted
    <2>6. /\ t.next # "END" /\ (leg[w].call = "resume" => t.next \in Decides)
          /\ leg[w].call = "run" /\ Held(t.request) /\ "ApprovalRequired" \in InterruptNodes => t.next \in Before
      BY <1>14, <1>15, <2>2 DEF Halts
    <2> QED BY <1>1, <1>13, <2>2, <2>3, <2>4, <2>5, <2>6, WorksNext
  <1>18. leg'[w].step = "respond" => Stops(w, t)'
    <2>1. SUFFICES ASSUME leg'[w].step = "respond" PROVE Stops(w, t)'
      OBVIOUS
    <2>2. Halts(t)
      BY <1>13, <2>1
    <2>3. leg[w].call = "resume" => t.next = "END"
      BY <1>0, <1>14, <1>15, <2>2, InterruptsAre DEF Halts, Decides, GateNodes, ToolNodes
    <2>4. leg[w].call = "run" /\ Held(t.request) /\ "ApprovalRequired" \in InterruptNodes => t.next = "ApprovalRequired"
      BY <1>0, <1>14, <1>15, <2>2, InterruptsAre DEF Halts, Before
    <2> QED BY <1>1, <1>13, <2>2, <2>3, <2>4, StopsNext
  <1>19. LegStands(w)'
    BY <1>1, <1>2, <1>13, <1>16, <1>17, <1>18, LegStandsNext
  <1>20. OneLeg' /\ LegsStand'
    BY <1>6, <1>19, OneLegNext
  <1> QED BY <1>11, <1>12, <1>20 DEF RunningInv

(* An item that is called is one that was not.                             *)
LEMMA CallsNew ==
    ASSUME TypeOK, NEW w \in Worker, NEW s \in RunState, Walk(s), Works(w, s), NEW i \in leg[w].todo,
           leg[w].todo \subseteq Item
    PROVE  Spent(s) = {} /\ i \notin ItemsIn(leg[w].done) /\ invoked[s.request][i] = 0 /\ i \in ItemsOf(s)
  <1>1. i \in ItemsOf(s) /\ i \notin ItemsIn(leg[w].done) /\ Counted(s.request, Spent(s) \cup ItemsIn(leg[w].done))
    BY DEF Works
  <1>2. Spent(s) = {}
    BY <1>1, ItemsAre DEF Spent, Worked
  <1> QED BY <1>1, <1>2 DEF Counted

LEMMA InvokeRuns ==
    ASSUME BaseInv, RunningInv, Grows, NEW w \in Worker, InvokeTool(w) \/ InvokeScope(w)
    PROVE  RunningInv'
  <1>0. TypeOK /\ LegsInv
    BY DEF BaseInv
  <1>1. /\ UNCHANGED <<deployment, saver, ident>> /\ Stays(w) /\ leg[w] # Idle /\ leg[w].step = "node"
        /\ leg'[w].step = "node" /\ leg'[w].id = leg[w].id /\ leg'[w].state = leg[w].state
        /\ invoked' \in [Request -> [Item -> 0 .. 2]]
        /\ \A r \in Request : r # leg[w].state.request => invoked'[r] = invoked[r]
    BY <1>0, InvokeDoes DEF Stays
  <1>2. PICK x \in Replica, p \in Place, id \in Id, s \in RunState :
            /\ x = leg[w].at /\ p = BuildCheckpointer(x) /\ id = leg[w].id /\ s = leg[w].state
            /\ saver[p][id] = s /\ Belongs(w, s) /\ Works(w, s) /\ ThreadStands(p, id, s)
            /\ ident[s.request] = NameOf(p, id)
    BY <1>1, AtWork
  <1>3. PICK r \in Request : r = s.request
    BY StateFields
  <1>4. PICK i \in leg[w].todo, e \in Entry : CallsOne(w, i, e)
    BY <1>0, InvokeDoes
  <1>5. leg[w].todo \subseteq Item /\ leg[w].done \in SUBSET Entry
    BY <1>0, <1>1, LegFacts
  <1>6. Spent(s) = {} /\ i \notin ItemsIn(leg[w].done) /\ invoked[r][i] = 0 /\ i \in ItemsOf(s)
    BY <1>0, <1>2, <1>3, <1>5, CallsNew DEF ThreadStands
  <1>7. /\ e.item = i /\ e.request = r
        /\ leg'[w].todo = leg[w].todo \ {i} /\ leg'[w].done = leg[w].done \cup {e}
        /\ invoked'[r][i] = 1
        /\ \A j \in Item : j # i => invoked'[r][j] = invoked[r][j]
    <2>1. invoked'[r][i] = IF invoked[r][i] < 2 THEN invoked[r][i] + 1 ELSE invoked[r][i]
      BY <1>2, <1>3, <1>4 DEF CallsOne
    <2>2. invoked'[r][i] = 1
      BY <1>6, <2>1
    <2> QED BY <1>2, <1>3, <1>4, <2>2 DEF CallsOne
  <1>8. \A v \in Worker \ {w} : leg[v] = Idle /\ leg'[v] = Idle
    BY <1>1, TheOthers DEF RunningInv, Stays
  <1>9. leg'[w] # Idle /\ leg'[w].at = x /\ leg'[w].call = leg[w].call /\ leg'[w].request = leg[w].request
        /\ leg'[w].decision = leg[w].decision /\ leg'[w].id = id /\ leg'[w].state = s
    BY <1>1, <1>2 DEF Stays
  <1>10. \A q \in Place, k \in Id : AtNode(q, k)' <=> q = p /\ k = id
    BY <1>1, <1>2, <1>8, <1>9, WhoseNextNode
  <1>11. \A q \in Place, k \in Id : AtNode(q, k) <=> q = p /\ k = id
    BY <1>1, <1>2, <1>8, WhoseNode
  <1>12. ThreadsStand'
    <2>1. ASSUME NEW q \in Place, NEW k \in Id, NEW t \in RunState, saver'[q][k] = t PROVE ThreadStands(q, k, t)'
      <3>1. ThreadStands(q, k, t) /\ t.request \in Request /\ saver[q][k] = t
        BY <1>1, <2>1, StateFields DEF RunningInv, ThreadsStand
      <3>2. CASE q = p /\ k = id
        BY <1>0, <1>1, <1>10, <3>1, <3>2, ThreadStays DEF Grows
      <3>3. CASE ~(q = p /\ k = id)
        <4>1. ident[t.request] = NameOf(q, k)
          BY <3>1, NoneAssumption DEF BaseInv, ThreadsInv, Owns
        <4>2. t.request # r
          BY <1>2, <1>3, <3>3, <4>1 DEF NameOf
        <4>3. invoked'[t.request] = invoked[t.request]
          BY <1>1, <1>2, <1>3, <3>1, <4>2
        <4> QED BY <1>0, <1>1, <1>11, <3>1, <3>3, <4>3, ThreadStays DEF Grows
      <3> QED BY <3>2, <3>3
    <2> QED BY <2>1 DEF ThreadsStand
  <1>13. NamedLast'
    BY <1>1 DEF RunningInv, NamedLast
  <1>14. CalledOnce'
    <2>1. ASSUME NEW q \in Request, NEW j \in Item PROVE invoked'[q][j] <= 1
      <3>1. invoked[q][j] <= 1
        BY DEF RunningInv, CalledOnce
      <3>2. i \in Item
        BY <1>5
      <3>3. CASE q = r /\ j = i
        BY <1>7, <3>3
      <3>4. CASE q = r /\ j # i
        BY <1>7, <3>1, <3>4
      <3>5. CASE q # r
        BY <1>1, <1>2, <1>3, <3>1, <3>5
      <3> QED BY <3>3, <3>4, <3>5
    <2>2. ASSUME NEW q \in Request, ident'[q] = None PROVE Counted(q, {})'
      <3>1. q # r
        BY <1>1, <1>2, <1>3, <2>2, NameThere
      <3>2. invoked'[q] = invoked[q] /\ Counted(q, {})
        BY <1>1, <1>2, <1>3, <2>2, <3>1 DEF RunningInv, CalledOnce
      <3> QED BY <3>2, CountStays
    <2> QED BY <2>1, <2>2 DEF CalledOnce
  <1>15. Belongs(w, s)'
    BY <1>1, <1>2, <1>9, BelongsNext DEF Belongs
  <1>16. Works(w, s)'
    <2>1. PICK items, called : items = ItemsOf(s) /\ called = Spent(s) \cup ItemsIn(leg'[w].done)
      OBVIOUS
    <2>2. ItemsIn(leg'[w].done) = ItemsIn(leg[w].done) \cup {i}
      BY <1>7 DEF ItemsIn
    <2>3. Singly(leg'[w].done, s.request)
      <3>1. Singly(leg[w].done, r) /\ \A f \in leg[w].done : f.item # i
        BY <1>2, <1>3, <1>6 DEF Works, ItemsIn
      <3> QED BY <1>3, <1>7, <3>1 DEF Singly
    <2>4. ItemsIn(leg'[w].done) = items \ leg'[w].todo /\ leg'[w].todo \subseteq items
      BY ZenonT(40), <1>2, <1>6, <1>7, <2>1, <2>2 DEF Works
    <2>5. Counted(s.request, called)'
      <3>1. PICK before : before = ItemsIn(leg[w].done)
        OBVIOUS
      <3>2. Counted(r, before)
        BY <1>2, <1>3, <1>6, <3>1 DEF Works
      <3>3. called = before \cup {i}
        BY <1>6, <2>1, <2>2, <3>1
      <3>4. \A j \in Item : invoked'[r][j] = IF j \in called THEN 1 ELSE 0
        BY <1>7, <3>2, <3>3 DEF Counted
      <3> QED BY <1>3, <3>4 DEF Counted
    <2>6. /\ s.next # "END" /\ (leg'[w].call = "resume" => s.next \in Decides)
          /\ leg'[w].call = "run" /\ Held(s.request) /\ "ApprovalRequired" \in InterruptNodes => s.next \in Before
      BY <1>2, <1>9 DEF Works
    <2> QED BY <1>1, <2>1, <2>3, <2>4, <2>5, <2>6, WorksNext
  <1>17. LegStands(w)'
    BY <1>1, <1>2, <1>9, <1>15, <1>16, LegStandsNext
  <1>18. OneLeg' /\ LegsStand'
    BY <1>8, <1>17, OneLegNext
  <1> QED BY <1>12, <1>13, <1>14, <1>18 DEF RunningInv

-----------------------------------------------------------------------------
LEMMA GrowsStep == ASSUME BaseInv, IdentGrows, [Next]_vars PROVE Grows
  <1>0. TypeOK /\ LegsInv
    BY DEF BaseInv
  <1>1. deployment' = deployment /\ approved \subseteq approved'
    BY ZenonT(40) DEF Next, LegStep, Run, Resume, ResumeFromSupplement, StartRun, InvokeTool, InvokeScope, Invoke, ExecuteNode,
           RespondRun, Inject, InvokeThread, RespondResume, Decide, Restart, vars
  <1> QED BY <1>1 DEF Grows

LEMMA NoRestart == ASSUME TypeOK, InTurn, NEW x \in Replica, Restart(x) PROVE FALSE
  BY DEF InTurn, Restart, TypeOK

LEMMA RunningStep ==
    ASSUME BaseInv, InTurn, RunningInv, Grows, [Next]_vars
    PROVE  RunningInv'
  <1>0. TypeOK
    BY DEF BaseInv
  <1>1. ASSUME NEW w \in Worker, NEW x \in Replica, NEW r \in Request,
               Run(w, x, r) \/ ResumeFromSupplement(w, x, r) \/ \E d \in Decision : Resume(w, x, r, d)
        PROVE  RunningInv'
    BY <1>1, RunRuns, SupplementRuns, ResumeRuns
  <1>2. ASSUME NEW w \in Worker, StartRun(w) \/ InvokeTool(w) \/ InvokeScope(w) \/ ExecuteNode(w) PROVE RunningInv'
    BY <1>2, StartRunRuns, InvokeRuns, ExecuteNodeRuns
  <1>3. ASSUME NEW w \in Worker, Inject(w) \/ InvokeThread(w) PROVE RunningInv'
    BY <1>3, InjectRuns, InvokeThreadRuns
  <1>4. ASSUME NEW w \in Worker, RespondRun(w) PROVE RunningInv'
    <2>1. Quiet /\ leg[w] # Idle /\ leg[w].step # "node" /\ Rests(w)
      BY <1>4, RespondRunDoes DEF Quiet
    <2> QED BY <2>1, RestRuns
  <1>5. ASSUME NEW w \in Worker, RespondResume(w) PROVE RunningInv'
    <2>1. Quiet /\ leg[w] # Idle /\ leg[w].step # "node" /\ Rests(w)
      BY <1>5, RespondResumeDoes DEF Quiet
    <2> QED BY <2>1, RestRuns
  <1>6. ASSUME leg' = leg, Quiet PROVE RunningInv'
    <2>1. \A p \in Place, id \in Id : AtNode(p, id) => AtNode(p, id)'
      BY <1>6 DEF AtNode, BuildCheckpointer, ConstructRemoteSaver, Grows
    <2>2. OneLeg'
      BY <1>6 DEF OneLeg, RunningInv
    <2>3. ASSUME NEW w \in Worker, leg'[w] # Idle PROVE LegStands(w)'
      <3>1. LegStands(w) /\ leg'[w] = leg[w]
        BY <1>6, <2>3 DEF RunningInv, LegsStand
      <3>2. Poised(w) => Poised(w)'
        BY <1>6 DEF Poised, IsParkedAtApproval, IsParkedAtSupplement, Thread, BuildCheckpointer,
                    ConstructRemoteSaver, Grows, Quiet
      <3>3. ASSUME NEW s \in RunState
            PROVE  /\ Belongs(w, s) => Belongs(w, s)'
                   /\ Works(w, s) => Works(w, s)'
                   /\ Stops(w, s) => Stops(w, s)'
        <4>1. /\ Held(s.request)' = Held(s.request) /\ InterruptNodes' = InterruptNodes
              /\ ItemsOf(s)' = ItemsOf(s) /\ Spent(s)' = Spent(s)
          BY SettingsStay DEF Grows
        <4>2. Belongs(w, s) => Belongs(w, s)'
          BY <1>6, <4>1 DEF Belongs, Thread, BuildCheckpointer, ConstructRemoteSaver, Grows, Quiet
        <4>3. Works(w, s) => Works(w, s)'
          BY <1>6, <4>1 DEF Works, Counted, Singly, ItemsIn, Quiet
        <4>4. Stops(w, s) => Stops(w, s)'
          BY <1>6, <4>1 DEF Stops
        <4> QED BY <4>2, <4>3, <4>4
      <3> QED BY <3>1, <3>2, <3>3 DEF LegStands
    <2>4. LegsStand'
      BY <2>3 DEF LegsStand
    <2> QED BY <1>6, <2>1, <2>2, <2>4, QuietRuns
  <1>7. ASSUME NEW x \in Replica, NEW r \in Request, NEW d \in Decision, Decide(x, r, d) PROVE RunningInv'
    <2>1. leg' = leg /\ Quiet
      BY <1>7, DecideDoes DEF Quiet
    <2> QED BY <1>6, <2>1
  <1>8. ASSUME NEW x \in Replica, Restart(x) PROVE RunningInv'
    BY <1>0, <1>8, NoRestart
  <1>9. ASSUME UNCHANGED vars PROVE RunningInv'
    <2>1. leg' = leg /\ Quiet
      BY <1>9 DEF Quiet, vars
    <2> QED BY <1>6, <2>1
  <1> QED BY <1>1, <1>2, <1>3, <1>4, <1>5, <1>7, <1>8, <1>9, NextCases

-----------------------------------------------------------------------------
(* What is shown of a run.                                                 *)
Away(r) == \A w \in Worker : leg[w] # Idle /\ leg[w].step # "name" => leg[w].id # ident[r].id

LEMMA PlaceStays == ASSUME deployment' = deployment, NEW x PROVE BuildCheckpointer(x)' = BuildCheckpointer(x)
  BY DEF BuildCheckpointer, ConstructRemoteSaver

LEMMA AwayIs == RunsAnswered <=> \A r \in Request : mirror[r] # None /\ ~SharesName(r) /\ Away(r) => Answered(r)
  BY DEF RunsAnswered, Away

LEMMA MirroredNamed ==
    ASSUME BaseInv, Grows, NEW r \in Request, mirror[r] # None
    PROVE  ident[r] # None /\ ident[r] \in Name /\ ident[r].id \in Id /\ ident'[r] = ident[r]
  <1>1. ident[r] # None /\ ident[r] \in Name
    BY DEF BaseInv, NamesInv, TypeOK
  <1> QED BY <1>1 DEF Grows, IdentGrows, Name

LEMMA TasksStay ==
    ASSUME BaseInv, TasksOfHeld, Grows,
           \A x \in Replica, id \in Id : tasks'[x][id] = "pending" => tasks[x][id] = "pending"
    PROVE  TasksOfHeld'
  <1>1. ASSUME NEW x \in Replica, NEW id \in Id, tasks'[x][id] = "pending"
        PROVE  \E r \in Request : Held(r)' /\ ident'[r] # None /\ ident'[r].id = id
    <2>1. PICK r \in Request : Held(r) /\ ident[r] # None /\ ident[r].id = id
      BY <1>1 DEF TasksOfHeld
    <2>2. Held(r)' = Held(r)
      BY DEF Grows, Held, TemplateOf
    <2>3. ident'[r] = ident[r]
      BY <2>1 DEF Grows, IdentGrows
    <2> QED BY <2>1, <2>2, <2>3
  <1> QED BY <1>1 DEF TasksOfHeld

(* Steps that answer nothing.                                              *)
LEMMA ShowingKept ==
    ASSUME BaseInv, ShowingInv, Grows, runs' = runs, tasks' = tasks, mirror' = mirror,
           \A p \in Place, id \in Id, s \in RunState :
               saver[p][id] = s /\ s.next = "END" => saver'[p][id] = s \/ SharesName(s.request)',
           \A r \in Request, p \in Place :
               mirror[r] # None /\ Away(r)' => Away(r) /\ saver'[p][ident[r].id] = saver[p][ident[r].id]
    PROVE  ShowingInv'
  <1>1. ShownRuns'
    <2>1. ASSUME NEW x \in Replica, NEW id \in Id, NEW run \in Response, runs'[x][id] = run, run.status = "completed"
          PROVE  \/ SharesName(run.request)'
                 \/ \E s \in RunState : saver'[BuildCheckpointer(x)'][id] = s /\ IsAnswer(run, s)
      <3>1. PICK p \in Place : p = BuildCheckpointer(x) /\ p = BuildCheckpointer(x)'
        BY PlaceFacts, PlaceStays DEF Grows
      <3>2. run.request \in Request
        BY DEF Response
      <3>3. CASE SharesName(run.request)
        BY <3>2, <3>3, SharingGrows DEF Grows
      <3>4. CASE ~SharesName(run.request)
        <4>0. \/ SharesName(run.request)
              \/ \E s \in RunState : saver[BuildCheckpointer(x)][id] = s /\ IsAnswer(run, s)
          BY <2>1 DEF ShowingInv, ShownRuns
        <4>1. PICK s \in RunState : saver[p][id] = s /\ IsAnswer(run, s)
          BY <3>1, <3>4, <4>0
        <4>2. s.next = "END" /\ run.request = s.request
          BY <4>1 DEF IsAnswer, ToResponse
        <4> QED BY <3>1, <4>1, <4>2
      <3> QED BY <3>3, <3>4
    <2> QED BY <2>1 DEF ShownRuns, IsAnswer
  <1>2. TasksOfHeld'
    BY TasksStay DEF ShowingInv
  <1>3. ASSUME ("ApprovalRequired" \in InterruptNodes)' PROVE RunsAnswered'
    <2>1. RunsAnswered
      BY <1>3 DEF ShowingInv, InterruptNodes, Grows
    <2>2. ASSUME NEW r \in Request, mirror'[r] # None, ~SharesName(r)', Away(r)' PROVE Answered(r)'
      <3>1. Away(r) /\ ~SharesName(r)
        BY <2>2, PlaceFacts, SharingGrows DEF Grows, Place
      <3>2. PICK x \in Replica, id \in Id, s \in RunState :
                /\ ident[r] = [place |-> BuildCheckpointer(x), id |-> id]
                /\ saver[BuildCheckpointer(x)][id] = s /\ Shows(x, id, s)
        BY <2>1, <2>2, <3>1, AwayIs DEF Answered
      <3>3. PICK p \in Place : p = BuildCheckpointer(x) /\ p = BuildCheckpointer(x)'
        BY PlaceFacts, PlaceStays DEF Grows
      <3>4. ident'[r] = [place |-> p, id |-> id] /\ ident[r].id = id
        BY <2>2, <3>2, <3>3, MirroredNamed
      <3>5. saver'[p][id] = s
        BY <2>2, <3>2, <3>3, <3>4
      <3>6. Shows(x, id, s)'
        BY <3>2 DEF Shows
      <3> QED BY <3>3, <3>4, <3>5, <3>6 DEF Answered
    <2> QED BY <2>2 DEF RunsAnswered, Away
  <1> QED BY <1>1, <1>2, <1>3 DEF ShowingInv

(* A step that answers a run, with what the run's thread holds.            *)
LEMMA ShowingAnswered ==
    ASSUME BaseInv, ShowingInv, Grows, saver' = saver, ident' = ident,
           NEW w \in Worker, \A v \in Worker \ {w} : leg[v] = Idle, leg[w] # Idle, leg[w].step = "respond",
           NEW x \in Replica, NEW p \in Place, NEW id \in Id, NEW s \in RunState, NEW a \in Response,
           x = leg[w].at, id = leg[w].id, p = BuildCheckpointer(x), saver[p][id] = s, a.request = s.request,
           ident[s.request] = NameOf(p, id), Answers(w, a), a.status = "completed" => IsAnswer(a, s),
           \A y \in Replica, i \in Id : ~(y = x /\ i = id) => tasks'[y][i] = tasks[y][i],
           tasks'[x][id] = "pending" => tasks[x][id] = "pending" \/ Held(s.request),
           \A r \in Request : ident[r] # None /\ ident[r].id # id => mirror'[r] = mirror[r],
           \A r \in Request : mirror'[r] # None => ident[r] # None,
           "ApprovalRequired" \in InterruptNodes /\ ~SharesName(s.request) => Shows(x, id, s)'
    PROVE  ShowingInv'
  <1>1. ShownRuns'
    <2>1. ASSUME NEW y \in Replica, NEW i \in Id, NEW run \in Response, runs'[y][i] = run, run.status = "completed"
          PROVE  \/ SharesName(run.request)'
                 \/ \E t \in RunState : saver'[BuildCheckpointer(y)'][i] = t /\ IsAnswer(run, t)
      <3>1. BuildCheckpointer(y)' = BuildCheckpointer(y) /\ run.request \in Request
        BY PlaceStays DEF Grows, Response
      <3>2. CASE y = x /\ i = id
        <4>1. run = a
          BY <2>1, <3>2 DEF Answers
        <4> QED BY <2>1, <3>1, <3>2, <4>1
      <3>3. CASE ~(y = x /\ i = id)
        <4>1. runs[y][i] = run
          BY <2>1, <3>3 DEF Answers
        <4>2. \/ SharesName(run.request)
              \/ \E t \in RunState : saver[BuildCheckpointer(y)][i] = t /\ IsAnswer(run, t)
          BY <2>1, <4>1 DEF ShowingInv, ShownRuns
        <4> QED BY <3>1, <4>2, SharingGrows DEF Grows
      <3> QED BY <3>2, <3>3
    <2> QED BY <2>1 DEF ShownRuns, IsAnswer
  <1>2. TasksOfHeld'
    <2>1. ASSUME NEW y \in Replica, NEW i \in Id, tasks'[y][i] = "pending"
          PROVE  \E r \in Request : Held(r)' /\ ident'[r] # None /\ ident'[r].id = i
      <3>1. \A r \in Request : Held(r)' = Held(r)
        BY DEF Grows, Held, TemplateOf
      <3>2. CASE tasks[y][i] = "pending"
        <4>1. PICK r \in Request : Held(r) /\ ident[r] # None /\ ident[r].id = i
          BY <3>2 DEF ShowingInv, TasksOfHeld
        <4> QED BY <3>1, <4>1
      <3>3. CASE tasks[y][i] # "pending"
        <4>1. y = x /\ i = id /\ Held(s.request)
          BY <2>1, <3>3
        <4>2. s.request \in Request /\ ident'[s.request] # None /\ ident'[s.request].id = i
          BY <4>1, StateFields, NameThere DEF NameOf
        <4> QED BY <3>1, <4>1, <4>2
      <3> QED BY <3>2, <3>3
    <2> QED BY <2>1 DEF TasksOfHeld
  <1>3. ASSUME ("ApprovalRequired" \in InterruptNodes)' PROVE RunsAnswered'
    <2>0. "ApprovalRequired" \in InterruptNodes
      BY <1>3 DEF InterruptNodes, Grows
    <2>1. RunsAnswered
      BY <2>0 DEF ShowingInv
    <2>2. ASSUME NEW r \in Request, mirror'[r] # None, ~SharesName(r)' PROVE Answered(r)'
      <3>1. ident[r] # None /\ ident[r] \in Name /\ ident'[r] = ident[r] /\ ~SharesName(r)
        BY <2>2, SharingGrows DEF Grows, BaseInv, TypeOK
      <3>2. CASE ident[r].id = id
        <4>1. r = s.request
          BY <3>1, <3>2, StateFields, NameThere DEF SharesName, NameOf
        <4>2. Shows(x, id, s)'
          BY <2>0, <3>1, <4>1
        <4>3. BuildCheckpointer(x)' = p
          BY PlaceStays DEF Grows
        <4>4. ident'[r] = [place |-> p, id |-> id]
          BY <4>1 DEF NameOf
        <4> QED BY <4>2, <4>3, <4>4 DEF Answered
      <3>3. CASE ident[r].id # id
        <4>1. Away(r) /\ mirror[r] # None
          BY <2>2, <3>1, <3>3 DEF Away
        <4>2. PICK y \in Replica, i \in Id, t \in RunState :
                  /\ ident[r] = [place |-> BuildCheckpointer(y), id |-> i]
                  /\ saver[BuildCheckpointer(y)][i] = t /\ Shows(y, i, t)
          BY <2>1, <3>1, <4>1, AwayIs DEF Answered
        <4>3. i # id
          BY <3>3, <4>2
        <4>4. runs'[y][i] = runs[y][i] /\ tasks'[y][i] = tasks[y][i]
          BY <4>3 DEF Answers
        <4>5. Shows(y, i, t)'
          BY <4>2, <4>4 DEF Shows
        <4>6. BuildCheckpointer(y)' = BuildCheckpointer(y)
          BY PlaceStays DEF Grows
        <4> QED BY <4>2, <4>5, <4>6 DEF Answered
      <3> QED BY <3>2, <3>3
    <2> QED BY <2>2 DEF RunsAnswered
  <1> QED BY <1>1, <1>2, <1>3 DEF ShowingInv

-----------------------------------------------------------------------------
(* A leg that stays with its run.                                          *)
LEMMA StaysAway ==
    ASSUME OneLeg, ident' = ident, NEW w \in Worker, Stays(w), leg'[w].id = leg[w].id, leg'[w].step # "name",
           NEW r \in Request, Away(r)'
    PROVE  Away(r) /\ ident[r].id # leg[w].id
  <1>1. \A v \in Worker \ {w} : leg[v] = Idle
    BY OthersIdle DEF Stays
  <1>2. ident[r].id # leg[w].id
    BY DEF Away, Stays
  <1> QED BY <1>1, <1>2 DEF Away

LEMMA BeginShows ==
    ASSUME BaseInv, RunningInv, ShowingInv, InTurn, Grows, Cardinality(Busy) < deployment.threads,
           UNCHANGED <<saver, runs, tasks, mirror>>
    PROVE  ShowingInv'
  <1>1. \A v \in Worker : leg[v] = Idle
    BY NoLegs DEF BaseInv, RunningInv
  <1>2. \A r \in Request : Away(r)
    BY <1>1 DEF Away
  <1> QED BY <1>2, ShowingKept

LEMMA StayShows ==
    ASSUME BaseInv, RunningInv, ShowingInv, Grows, UNCHANGED <<saver, runs, tasks, mirror, ident>>,
           NEW w \in Worker, Stays(w), leg'[w].id = leg[w].id, leg'[w].step # "name"
    PROVE  ShowingInv'
  <1>1. \A r \in Request : Away(r)' => Away(r)
    BY StaysAway DEF RunningInv
  <1> QED BY <1>1, ShowingKept

LEMMA SaveShows ==
    ASSUME BaseInv, RunningInv, ShowingInv, Grows, UNCHANGED <<runs, tasks, mirror, ident>>,
           NEW w \in Worker, Stays(w), leg'[w].id = leg[w].id, leg'[w].step # "name",
           NEW p \in Place, NEW s \in RunState, NEW t \in RunState, leg[w].id \in Id,
           saver[p][leg[w].id] = s, s.next # "END", Put(p, leg[w].id, t)
    PROVE  ShowingInv'
  <1>1. \A r \in Request : Away(r)' => Away(r) /\ ident[r].id # leg[w].id
    BY StaysAway DEF RunningInv
  <1>2. ASSUME NEW q \in Place, NEW i \in Id, NEW u \in RunState, saver[q][i] = u, u.next = "END"
        PROVE  saver'[q][i] = u
    <2>1. ~(q = p /\ i = leg[w].id)
      BY <1>2
    <2> QED BY <1>2, <2>1 DEF Put
  <1>3. ASSUME NEW r \in Request, NEW q \in Place, mirror[r] # None, Away(r)'
        PROVE  Away(r) /\ saver'[q][ident[r].id] = saver[q][ident[r].id]
    <2>1. ident[r].id \in Id
      BY <1>3, MirroredNamed
    <2> QED BY <1>1, <1>3, <2>1 DEF Put
  <1> QED BY <1>2, <1>3, ShowingKept

LEMMA StartRunShows ==
    ASSUME BaseInv, RunningInv, ShowingInv, Grows, NEW w \in Worker, StartRun(w) PROVE ShowingInv'
  <1>1. UNCHANGED <<deployment, runs, tasks, mirror>> /\ Naming(w) /\ Stays(w)
    BY StartRunDoes
  <1>2. leg[w] # Idle /\ leg[w].step = "name" /\ ident[leg[w].request] = None
        /\ leg[w].at \in Replica /\ leg[w].request \in Request
    BY <1>1, LegFacts DEF BaseInv, NamesInv, Naming
  <1>3. PICK r \in Request, p \in Place : r = leg[w].request /\ p = BuildCheckpointer(leg[w].at)
    BY <1>2, PlaceFacts
  <1>4. PICK id \in Id, s \in RunState :
            /\ leg'[w].id = id /\ Put(p, id, s) /\ Onward(w, s)
            /\ ident' = [ident EXCEPT ![r] = NameOf(p, id)]
    BY <1>3, StartRunDoes
  <1>5. \A t \in RunState : saver[p][id] = t => SharesName(t.request)'
    BY <1>2, <1>3, <1>4, StartsClean
  <1>6. \A q \in Request : Away(q)
    <2>1. \A v \in Worker \ {w} : leg[v] = Idle
      BY <1>2, OthersIdle DEF RunningInv
    <2> QED BY <1>2, <2>1 DEF Away
  <1>7. ASSUME NEW q \in Place, NEW i \in Id, NEW u \in RunState, saver[q][i] = u
        PROVE  saver'[q][i] = u \/ SharesName(u.request)'
    <2>1. CASE q = p /\ i = id
      BY <1>5, <1>7, <2>1
    <2>2. CASE ~(q = p /\ i = id)
      BY <1>4, <1>7, <2>2 DEF Put
    <2> QED BY <2>1, <2>2
  <1>8. ASSUME NEW q \in Request, NEW o \in Place, mirror[q] # None, Away(q)'
        PROVE  saver'[o][ident[q].id] = saver[o][ident[q].id]
    <2>1. ident[q].id \in Id /\ ident'[q] = ident[q]
      BY <1>8, MirroredNamed
    <2>2. leg'[w] # Idle /\ leg'[w].step # "name"
      BY <1>1, <1>4 DEF Stays, Onward, Carries
    <2>3. ident[q].id # id
      BY <1>4, <1>8, <2>1, <2>2 DEF Away
    <2> QED BY <1>4, <2>1, <2>3 DEF Put
  <1> QED BY <1>1, <1>6, <1>7, <1>8, ShowingKept

(* What the one leg stands for, when it answers.                           *)
LEMMA AtRest ==
    ASSUME BaseInv, RunningInv, NEW w \in Worker, leg[w] # Idle, leg[w].step = "respond"
    PROVE  \E x \in Replica, p \in Place, id \in Id, s \in RunState :
               /\ x = leg[w].at /\ p = BuildCheckpointer(x) /\ id = leg[w].id /\ s = leg[w].state
               /\ saver[p][id] = s /\ Belongs(w, s) /\ Stops(w, s) /\ ThreadStands(p, id, s)
               /\ ident[s.request] = NameOf(p, id)
  <1>1. /\ leg[w].at \in Replica /\ leg[w].id \in Id /\ leg[w].state \in RunState
        /\ ident[leg[w].state.request] = NameOf(BuildCheckpointer(leg[w].at), leg[w].id)
    BY LegFacts DEF BaseInv, LegsInv, Owns
  <1>2. PICK x \in Replica, p \in Place, id \in Id, s \in RunState :
            x = leg[w].at /\ p = BuildCheckpointer(x) /\ id = leg[w].id /\ s = leg[w].state
    BY <1>1, PlaceFacts
  <1>3. Belongs(w, s) /\ Stops(w, s)
    BY <1>2 DEF RunningInv, LegsStand, LegStands
  <1>4. saver[p][id] = s
    BY <1>2, <1>3 DEF Belongs, Thread
  <1>5. ThreadStands(p, id, s)
    BY <1>4 DEF RunningInv, ThreadsStand
  <1> QED BY <1>1, <1>2, <1>3, <1>4, <1>5

(* A pending task of a run that has its name to itself is its own.         *)
LEMMA TaskIsOwn ==
    ASSUME BaseInv, TasksOfHeld, NEW s \in RunState, NEW p \in Place, NEW id \in Id, ident[s.request] = NameOf(p, id),
           ~SharesName(s.request), NEW x \in Replica, tasks[x][id] = "pending"
    PROVE  Held(s.request)
  <1>1. PICK r \in Request : Held(r) /\ ident[r] # None /\ ident[r].id = id
    BY DEF TasksOfHeld
  <1>2. s.request \in Request /\ ident[s.request] # None /\ ident[s.request].id = id
    BY StateFields, NameThere DEF NameOf
  <1> QED BY <1>1, <1>2 DEF SharesName

LEMMA AnswerFields ==
    ASSUME NEW s \in RunState
    PROVE  /\ ToResponse(s) \in Response /\ ToResponse(s).request = s.request /\ ToResponse(s).status = s.status
           /\ ToResponse(s).calls = s.calls /\ ToResponse(s).output = s.output
  BY AnswerType DEF ToResponse

(* The view of a parked or finished run.                                   *)
LEMMA ViewIs ==
    ASSUME NEW x, NEW id, NEW s \in RunState, Thread(x, id) = s
    PROVE  LET view == ViewOf(x, id, s)
           IN  /\ view \in RunState /\ view.request = s.request
               /\ s.next = "ApprovalRequired" => view.status = "waiting_approval"
               /\ s.next = "SupplementRequired" => view.status = "supplement_pending"
               /\ s.next \notin {"ApprovalRequired", "SupplementRequired"} => view = s
  <1>0. s # None
    BY NoneAssumption
  <1>1. PICK t : t = [s EXCEPT !.status = "waiting_approval", !.approval = "pending"]
    OBVIOUS
  <1>2. PICK u : u = [s EXCEPT !.status = "supplement_pending"]
    OBVIOUS
  <1>3. t.request = s.request /\ t.status = "waiting_approval"
    BY <1>1 DEF RunState
  <1>4. u.request = s.request /\ u.status = "supplement_pending"
    BY <1>2 DEF RunState
  <1>5. IsParkedAtApproval(x, id) <=> s.next = "ApprovalRequired"
    BY <1>0 DEF IsParkedAtApproval
  <1>6. IsParkedAtSupplement(x, id) <=> s.next = "SupplementRequired"
    BY <1>0 DEF IsParkedAtSupplement
  <1>7. ViewOf(x, id, s) = IF s.next = "ApprovalRequired" THEN t
                           ELSE IF s.next = "SupplementRequired" THEN u ELSE s
    BY <1>1, <1>2, <1>5, <1>6 DEF ViewOf, PausedState, SupplementPausedState
  <1> QED BY <1>3, <1>4, <1>7, ViewType

LEMMA RespondRunShows ==
    ASSUME BaseInv, RunningInv, ShowingInv, Grows, NEW w \in Worker, RespondRun(w) PROVE ShowingInv'
  <1>0. TypeOK
    BY DEF BaseInv
  <1>1. UNCHANGED <<saver, ident>> /\ leg[w] # Idle /\ leg[w].step = "respond" /\ leg[w].call = "run"
    BY RespondRunDoes
  <1>2. PICK x \in Replica, p \in Place, id \in Id, s \in RunState :
            /\ x = leg[w].at /\ p = BuildCheckpointer(x) /\ id = leg[w].id /\ s = leg[w].state
            /\ saver[p][id] = s /\ Belongs(w, s) /\ Stops(w, s) /\ ThreadStands(p, id, s)
            /\ ident[s.request] = NameOf(p, id)
    BY <1>1, AtRest
  <1>3. PICK view \in RunState :
            /\ view = ViewOf(x, id, s) /\ view.request = s.request
            /\ s.next = "ApprovalRequired" => view.status = "waiting_approval"
            /\ s.next = "SupplementRequired" => view.status = "supplement_pending"
            /\ s.next \notin {"ApprovalRequired", "SupplementRequired"} => view = s
    <2>1. Thread(x, id) = s
      BY <1>2 DEF Thread
    <2> QED BY <2>1, ViewIs
  <1>4. PICK a \in Response : a = ToResponse(view) /\ a.request = s.request /\ a.status = view.status
    BY <1>3, AnswerFields
  <1>5. s.request = leg[w].request /\ s.request \in Request
    BY <1>1, <1>2, StateFields DEF Belongs
  <1>6. /\ Answers(w, a) /\ mirror' \in [Request -> Stored \cup {None}]
        /\ \A r \in Request : mirror'[r] # None => mirror[r] # None \/ ident[r] # None
        /\ \A r \in Request : r # s.request => mirror'[r] = mirror[r]
        /\ IF Held(s.request) THEN Tasked(w, "pending") ELSE tasks' = tasks
    BY <1>2, <1>3, <1>4, <1>5, RespondRunDoes DEF Held
  <1>7. s.next \in {"END", "ApprovalRequired", "SupplementRequired"}
    BY <1>0, <1>2, InterruptsAre DEF Stops
  <1>8. a.status = "completed" => IsAnswer(a, s)
    BY <1>3, <1>4, <1>7 DEF IsAnswer
  <1>9. \A v \in Worker \ {w} : leg[v] = Idle
    BY <1>1, OthersIdle DEF RunningInv
  <1>10. /\ \A y \in Replica, i \in Id : ~(y = x /\ i = id) => tasks'[y][i] = tasks[y][i]
         /\ tasks'[x][id] = "pending" => tasks[x][id] = "pending" \/ Held(s.request)
    BY <1>2, <1>6 DEF Tasked
  <1>11. \A r \in Request : ident[r] # None /\ ident[r].id # id => mirror'[r] = mirror[r]
    <2>1. ident[s.request].id = id
      BY <1>2 DEF NameOf
    <2> QED BY <1>6, <2>1
  <1>12. \A r \in Request : mirror'[r] # None => ident[r] # None
    BY <1>6 DEF BaseInv, NamesInv
  <1>13. ASSUME "ApprovalRequired" \in InterruptNodes, ~SharesName(s.request) PROVE Shows(x, id, s)'
    <2>1. runs'[x][id] = a /\ a # None
      BY <1>2, <1>6, NoneAssumption DEF Answers
    <2>2. CASE Held(s.request)
      <3>1. s.next = "ApprovalRequired"
        BY <1>1, <1>2, <1>13, <2>2 DEF Stops
      <3>2. tasks'[x][id] = "pending"
        BY <1>2, <1>6, <2>2 DEF Tasked
      <3> QED BY <1>3, <1>4, <2>1, <3>1, <3>2 DEF Shows
    <2>3. CASE ~Held(s.request)
      <3>1. tasks'[x][id] # "pending"
        BY <1>2, <1>6, <1>13, <2>3, TaskIsOwn DEF ShowingInv
      <3>2. s.next # "ApprovalRequired"
        BY <1>2, <2>3 DEF ThreadStands, Walk, GateNodes
      <3>3. CASE s.next = "END"
        BY <1>3, <1>4, <2>1, <3>1, <3>3 DEF Shows, IsAnswer
      <3>4. CASE s.next = "SupplementRequired"
        BY <1>3, <1>4, <2>1, <3>1, <3>4 DEF Shows, Open
      <3> QED BY <1>7, <3>2, <3>3, <3>4
    <2> QED BY <2>2, <2>3
  <1> QED BY <1>1, <1>2, <1>4, <1>6, <1>8, <1>9, <1>10, <1>11, <1>12, <1>13, ShowingAnswered

LEMMA RespondResumeShows ==
    ASSUME BaseInv, RunningInv, ShowingInv, Grows, NEW w \in Worker, RespondResume(w) PROVE ShowingInv'
  <1>0. TypeOK
    BY DEF BaseInv
  <1>1. UNCHANGED <<saver, ident, mirror>> /\ leg[w] # Idle /\ leg[w].step = "respond"
        /\ leg[w].call \in {"resume", "supplement"}
    BY <1>0, RespondResumeDoes, LegFacts
  <1>2. PICK x \in Replica, p \in Place, id \in Id, s \in RunState :
            /\ x = leg[w].at /\ p = BuildCheckpointer(x) /\ id = leg[w].id /\ s = leg[w].state
            /\ saver[p][id] = s /\ Belongs(w, s) /\ Stops(w, s) /\ ThreadStands(p, id, s)
            /\ ident[s.request] = NameOf(p, id)
    BY <1>1, AtRest
  <1>3. PICK a \in Response : a = ToResponse(s) /\ a.request = s.request /\ a.status = s.status
    BY AnswerFields
  <1>4. /\ Answers(w, a)
        /\ IF leg[w].call = "resume" /\ PendingApprovalTask(x, id)
           THEN Tasked(w, leg[w].decision) ELSE tasks' = tasks
    BY <1>2, <1>3, RespondResumeDoes
  <1>5. s.next \in {"END", "ApprovalRequired", "SupplementRequired"}
    BY <1>0, <1>2, InterruptsAre DEF Stops
  <1>6. s.next # "END" => s.status \in Open
    BY <1>2, <1>5 DEF ThreadStands, Walk
  <1>7. a.status = "completed" => IsAnswer(a, s)
    BY <1>3, <1>6 DEF IsAnswer, Open
  <1>8. \A v \in Worker \ {w} : leg[v] = Idle
    BY <1>1, OthersIdle DEF RunningInv
  <1>9. leg[w].call = "resume" => leg[w].decision # "pending"
    BY <1>2 DEF Belongs, Decision
  <1>10. /\ \A y \in Replica, i \in Id : ~(y = x /\ i = id) => tasks'[y][i] = tasks[y][i]
         /\ tasks'[x][id] = "pending" => tasks[x][id] = "pending" /\ leg[w].call # "resume"
    BY <1>2, <1>4, <1>9 DEF Tasked, PendingApprovalTask
  <1>11. \A r \in Request : mirror'[r] # None => ident[r] # None
    BY <1>1 DEF BaseInv, NamesInv
  <1>12. ASSUME "ApprovalRequired" \in InterruptNodes, ~SharesName(s.request) PROVE Shows(x, id, s)'
    <2>1. runs'[x][id] = a /\ a # None
      BY <1>2, <1>4, NoneAssumption DEF Answers
    <2>2. tasks'[x][id] # "pending"
      <3>1. CASE leg[w].call = "resume"
        BY <1>10, <3>1
      <3>2. CASE leg[w].call = "supplement"
        <4>1. ~Held(s.request)
          BY <1>2, <3>2 DEF Belongs
        <4>2. tasks[x][id] # "pending"
          BY <1>2, <1>12, <4>1, TaskIsOwn DEF ShowingInv
        <4> QED BY <1>10, <4>2
      <3> QED BY <1>1, <3>1, <3>2
    <2>3. s.next # "ApprovalRequired"
      <3>1. CASE leg[w].call = "resume"
        BY <1>2, <3>1 DEF Stops
      <3>2. CASE leg[w].call = "supplement"
        BY <1>2, <3>2 DEF Belongs, ThreadStands, Walk, GateNodes
      <3> QED BY <1>1, <3>1, <3>2
    <2>4. CASE s.next = "END"
      BY <1>3, <2>1, <2>2, <2>4 DEF Shows, IsAnswer
    <2>5. CASE s.next = "SupplementRequired"
      BY <1>3, <1>6, <2>1, <2>2, <2>5 DEF Shows
    <2> QED BY <1>5, <2>3, <2>4, <2>5
  <1> QED BY <1>1, <1>2, <1>3, <1>4, <1>7, <1>8, <1>10, <1>11, <1>12, ShowingAnswered

LEMMA InjectShows ==
    ASSUME BaseInv, RunningInv, ShowingInv, Grows, NEW w \in Worker, Inject(w) PROVE ShowingInv'
  <1>1. UNCHANGED <<runs, tasks, mirror, ident>> /\ leg[w] # Idle /\ leg[w].step = "inject"
    BY InjectDoes
  <1>2. leg[w].at \in Replica /\ leg[w].id \in Id
    BY <1>1, LegFacts DEF BaseInv, LegsInv
  <1>3. PICK p \in Place, id \in Id : p = BuildCheckpointer(leg[w].at) /\ id = leg[w].id
    BY <1>2, PlaceFacts
  <1>4. PICK s \in RunState : s = saver[p][id]
    <2>1. Poised(w)
      BY <1>1 DEF RunningInv, LegsStand, LegStands
    <2>2. saver[p][id] # None
      BY <1>3, <2>1 DEF Poised, IsParkedAtApproval, IsParkedAtSupplement, Thread
    <2> QED BY <2>2 DEF BaseInv, TypeOK
  <1>5. s.next # "END"
    BY <1>1, <1>3, <1>4, PoisedThread, LegFacts DEF BaseInv
  <1>6. /\ Stays(w) /\ leg'[w].step = "invoke" /\ leg'[w].id = leg[w].id
        /\ \E t \in RunState : Put(p, id, t)
    BY <1>3, <1>4, InjectDoes, NoneAssumption
  <1>7. PICK t \in RunState : Put(p, id, t)
    BY <1>6
  <1> QED BY <1>1, <1>3, <1>4, <1>5, <1>6, <1>7, SaveShows

LEMMA ExecuteNodeShows ==
    ASSUME BaseInv, RunningInv, ShowingInv, Grows, NEW w \in Worker, ExecuteNode(w) PROVE ShowingInv'
  <1>1. UNCHANGED <<runs, tasks, mirror, ident>> /\ leg[w].step = "node" /\ Stays(w) /\ leg[w] # Idle
        /\ leg'[w].id = leg[w].id
    BY ExecuteNodeDoes DEF BaseInv, Stays
  <1>2. PICK p \in Place, id \in Id, s \in RunState :
            /\ p = BuildCheckpointer(leg[w].at) /\ id = leg[w].id /\ saver[p][id] = s /\ s.next # "END"
    BY ZenonT(40), <1>1, AtWork DEF Works
  <1>3. PICK t \in RunState : Put(p, id, t) /\ leg'[w].step # "name"
    BY <1>2, ExecuteNodeDoes DEF BaseInv, Carries
  <1> QED BY <1>1, <1>2, <1>3, SaveShows

LEMMA ShowingStep ==
    ASSUME BaseInv, InTurn, ~deployment.bypass, RunningInv, ShowingInv, Grows, [Next]_vars
    PROVE  ShowingInv'
  <1>0. TypeOK /\ LegsInv
    BY DEF BaseInv
  <1>1. ASSUME NEW w \in Worker, NEW x \in Replica, NEW r \in Request, Run(w, x, r) PROVE ShowingInv'
    <2>1. Cardinality(Busy) < deployment.threads /\ UNCHANGED <<saver, runs, tasks, mirror>>
      BY <1>0, <1>1, RunDoes
    <2> QED BY <2>1, BeginShows
  <1>2. ASSUME NEW w \in Worker, NEW x \in Replica, NEW r \in Request, ResumeFromSupplement(w, x, r)
        PROVE  ShowingInv'
    <2>1. Cardinality(Busy) < deployment.threads /\ UNCHANGED <<saver, runs, tasks, mirror>>
      BY <1>2, SupplementDoes
    <2> QED BY <2>1, BeginShows
  <1>3. ASSUME NEW w \in Worker, NEW x \in Replica, NEW r \in Request, NEW d \in Decision, Resume(w, x, r, d)
        PROVE  ShowingInv'
    <2>1. Cardinality(Busy) < deployment.threads /\ UNCHANGED <<saver, runs, tasks, mirror>>
      BY <1>3, ResumeDoes
    <2> QED BY <2>1, BeginShows
  <1>4. ASSUME NEW w \in Worker, StartRun(w) PROVE ShowingInv'
    BY <1>4, StartRunShows
  <1>5. ASSUME NEW w \in Worker, InvokeTool(w) \/ InvokeScope(w) PROVE ShowingInv'
    <2>1. /\ UNCHANGED <<saver, runs, tasks, mirror, ident>> /\ Stays(w) /\ leg'[w].id = leg[w].id
          /\ leg'[w].step # "name"
      BY <1>0, <1>5, InvokeDoes
    <2> QED BY <2>1, StayShows
  <1>6. ASSUME NEW w \in Worker, ExecuteNode(w) \/ Inject(w) PROVE ShowingInv'
    BY <1>6, ExecuteNodeShows, InjectShows
  <1>7. ASSUME NEW w \in Worker, InvokeThread(w) PROVE ShowingInv'
    <2>1. /\ UNCHANGED <<saver, runs, tasks, mirror, ident>> /\ Stays(w) /\ leg'[w].id = leg[w].id
          /\ leg'[w].step # "name"
      BY <1>7, InvokeThreadDoes
    <2> QED BY <2>1, StayShows
  <1>8. ASSUME NEW w \in Worker, RespondRun(w) \/ RespondResume(w) PROVE ShowingInv'
    BY <1>8, RespondRunShows, RespondResumeShows
  <1>9. ASSUME NEW x \in Replica, NEW r \in Request, NEW d \in Decision, Decide(x, r, d) PROVE ShowingInv'
    BY <1>9 DEF Decide
  <1>10. ASSUME NEW x \in Replica, Restart(x) PROVE ShowingInv'
    BY <1>0, <1>10, NoRestart
  <1>11. ASSUME UNCHANGED vars PROVE ShowingInv'
    <2>1. UNCHANGED <<saver, runs, tasks, mirror, leg, ident>>
      BY <1>11 DEF vars
    <2>2. \A r \in Request : Away(r)' => Away(r)
      BY <2>1 DEF Away
    <2> QED BY <2>1, <2>2, ShowingKept
  <1> QED BY <1>1, <1>2, <1>3, <1>4, <1>5, <1>6, <1>7, <1>8, <1>9, <1>10, <1>11, NextCases

-----------------------------------------------------------------------------
LEMMA InitTurn == Init => TurnInv
  <1>1. SUFFICES ASSUME Init PROVE RunningInv /\ ShowingInv
    BY DEF TurnInv
  <1>2. /\ \A w \in Worker : leg[w] = Idle
        /\ \A p \in Place, id \in Id : saver[p][id] = None
        /\ \A r \in Request : ident[r] = None /\ mirror[r] = None
        /\ \A r \in Request, i \in Item : invoked[r][i] = 0
        /\ \A x \in Replica, id \in Id : runs[x][id] = None /\ tasks[x][id] = None
    BY <1>1 DEF Init
  <1>3. OneLeg /\ LegsStand /\ NamedLast
    BY <1>2 DEF OneLeg, LegsStand, NamedLast
  <1>4. ThreadsStand
    BY <1>2, NoneAssumption DEF ThreadsStand
  <1>5. CalledOnce
    BY <1>2 DEF CalledOnce, Counted
  <1>6. ShownRuns
    BY <1>2, NoneAssumption DEF ShownRuns
  <1>7. TasksOfHeld
    <2>1. None # "pending"
      BY NoneAssumption
    <2> QED BY <1>2, <2>1 DEF TasksOfHeld
  <1>8. RunsAnswered
    BY <1>2 DEF RunsAnswered
  <1> QED BY <1>3, <1>4, <1>5, <1>6, <1>7, <1>8 DEF RunningInv, ShowingInv

LEMMA TurnStep == ASSUME BaseInv, TurnInv, [Next]_vars PROVE TurnInv'
  <1>1. Grows
    BY BaseStep, GrowsStep
  <1>2. InTurn' = InTurn /\ deployment'.bypass = deployment.bypass
    BY <1>1 DEF Grows, InTurn
  <1>3. InTurn => RunningInv'
    BY <1>1, RunningStep DEF TurnInv
  <1>4. InTurn /\ ~deployment.bypass => ShowingInv'
    BY <1>1, ShowingStep DEF TurnInv
  <1> QED BY <1>2, <1>3, <1>4 DEF TurnInv

(* What a run that is shown as completed gathered.                         *)
LEMMA ShownIsTidy ==
    ASSUME BaseInv, RunningInv, ShowingInv, NEW r \in Request, NEW x \in Replica, NEW id \in Id, ~SharesName(r),
           NEW run \in Response, runs[x][id] = run, run.request = r, run.status = "completed"
    PROVE  \E s \in RunState :
               /\ run = ToResponse(s) /\ s.request = r /\ s.next = "END" /\ Gathered(s) /\ Reported(s)
               /\ Counted(r, Spent(s))
  <1>1. \/ SharesName(run.request)
        \/ \E s \in RunState : saver[BuildCheckpointer(x)][id] = s /\ IsAnswer(run, s)
    BY DEF ShowingInv, ShownRuns
  <1>2. PICK p \in Place : p = BuildCheckpointer(x)
    BY PlaceFacts
  <1>3. PICK s \in RunState : saver[p][id] = s /\ IsAnswer(run, s)
    BY <1>1, <1>2
  <1>4. run = ToResponse(s) /\ s.request = r /\ s.next = "END"
    BY <1>3, AnswerFields DEF IsAnswer
  <1>5. ThreadStands(p, id, s)
    BY <1>3 DEF RunningInv, ThreadsStand
  <1>6. ~AtNode(p, id)
    <2>1. SUFFICES ASSUME NEW w \in Worker, leg[w] # Idle, leg[w].step = "node",
                          BuildCheckpointer(leg[w].at) = p, leg[w].id = id
                   PROVE  FALSE
      BY DEF AtNode
    <2>2. PICK t \in RunState : saver[p][id] = t /\ t.next # "END"
      BY ZenonT(40), <2>1, AtWork DEF Works
    <2> QED BY <1>3, <1>4, <2>2
  <1> QED BY <1>4, <1>5, <1>6 DEF ThreadStands, Tidy

LEMMA OnceWhenInTurn ==
    ASSUME BaseInv, RunningInv, ~deployment.bypass => ShowingInv
    PROVE  EachItemOnce
  <1>1. \A r \in Request, i \in Item : invoked[r][i] <= 1
    BY DEF RunningInv, CalledOnce
  <1>2. ASSUME NEW r \in Request, NEW x \in Replica, NEW id \in Id, ~SharesName(r), ~deployment.bypass,
               runs[x][id] # None, runs[x][id].request = r, runs[x][id].status = "completed"
        PROVE  LET entries == runs[x][id].output
               IN  /\ \A e \in entries : e.request = r /\ runs[x][id].calls[e.item] = e.status
                   /\ \A e, f \in entries : e.item = f.item => e = f
                   /\ {e.item : e \in entries} = {i \in Item : invoked[r][i] = 1} \/ ~deployment.subgraph
    <2>1. PICK run \in Response : run = runs[x][id]
      BY <1>2 DEF BaseInv, TypeOK
    <2>2. PICK s \in RunState :
              /\ run = ToResponse(s) /\ s.request = r /\ s.next = "END" /\ Gathered(s) /\ Reported(s)
              /\ Counted(r, Spent(s))
      BY <1>2, <2>1, ShownIsTidy
    <2>3. PICK entries : entries = s.results
      OBVIOUS
    <2>4. run.output = entries /\ run.calls = s.calls
      BY <2>2, <2>3, AnswerFields DEF Reported
    <2>5. \A e \in entries : e.request = r /\ run.calls[e.item] = e.status
      BY <2>2, <2>3, <2>4 DEF Gathered, Singly, Reported
    <2>6. \A e, f \in entries : e.item = f.item => e = f
      BY <2>2, <2>3 DEF Gathered, Singly
    <2>7. ASSUME deployment.subgraph PROVE {e.item : e \in entries} = {i \in Item : invoked[r][i] = 1}
      <3>1. {e.item : e \in entries} = Spent(s)
        BY <2>2, <2>3, <2>7 DEF Gathered, ItemsIn, Fanned
      <3>2. Spent(s) \subseteq Item
        BY <2>2, StateFields, PlanFacts DEF Spent, BaseInv
      <3>3. {i \in Item : invoked[r][i] = 1} = Spent(s)
        BY <2>2, <3>2 DEF Counted
      <3> QED BY <3>1, <3>3
    <2>8. deployment.subgraph \in BOOLEAN
      BY Settings DEF BaseInv
    <2> QED BY <2>1, <2>4, <2>5, <2>6, <2>7, <2>8
  <1> QED BY <1>1, <1>2 DEF EachItemOnce

LEMMA FollowsWhenInTurn ==
    ASSUME BaseInv, RunningInv, ShowingInv, "ApprovalRequired" \in InterruptNodes, Busy = {},
           NEW r \in Request, mirror[r] # None, ~SharesName(r)
    PROVE  \E x \in Replica : /\ runs[x][ident[r].id] # None
                              /\ runs[x][ident[r].id].request = r
                              /\ LET run == runs[x][ident[r].id]
                                     parked == IsParkedAtApproval(x, ident[r].id)
                                     finished == run.status \in {"completed", "failed"}
                                 IN /\ (run.status = "waiting_approval") = parked
                                    /\ PendingApprovalTask(x, ident[r].id) = parked
                                    /\ RetrievesNothing(r) => run.status = "running"
                                    /\ (finished \/ RetrievesNothing(r)) =
                                           (Thread(x, ident[r].id).next = "END")
                                    /\ finished => \A t \in DOMAIN run.calls : run.calls[t] # "planned"
  <1>0. TypeOK
    BY DEF BaseInv
  <1>1. Away(r)
    BY DEF Away, Busy
  <1>2. PICK x \in Replica, id \in Id, s \in RunState :
            /\ ident[r] = [place |-> BuildCheckpointer(x), id |-> id]
            /\ saver[BuildCheckpointer(x)][id] = s /\ Shows(x, id, s)
    BY <1>1, AwayIs DEF ShowingInv, Answered
  <1>3. PICK p \in Place : p = BuildCheckpointer(x)
    BY PlaceFacts
  <1>4. ident[r].id = id /\ Thread(x, id) = s /\ s # None
    BY <1>2, NoneAssumption DEF Thread
  <1>5. ThreadStands(p, id, s) /\ ident[s.request] = NameOf(p, id) /\ s.request \in Request
    BY <1>2, <1>3, <1>4, StateFields DEF RunningInv, ThreadsStand, BaseInv, ThreadsInv, Owns
  <1>6. s.request = r
    <2>1. ident[r] = NameOf(p, id)
      BY <1>2, <1>3 DEF NameOf
    <2>2. ident[r] # None
      BY <2>1, <1>3, NameThere
    <2>3. ident[s.request] = ident[r]
      BY <2>1, <1>5
    <2> QED BY <1>5, <2>2, <2>3 DEF SharesName
  <1>7. Walk(s) /\ Reported(s)
    BY <1>5, <1>6 DEF ThreadStands, Tidy
  <1>8. PICK run \in Response : run = runs[x][id] /\ run # None /\ run.request = r
    BY <1>2, <1>6 DEF Shows, BaseInv, TypeOK
  <1>9. IsParkedAtApproval(x, id) <=> s.next = "ApprovalRequired"
    BY <1>4 DEF IsParkedAtApproval
  <1>10. /\ run.status = "waiting_approval" <=> s.next = "ApprovalRequired"
         /\ tasks[x][id] = "pending" <=> s.next = "ApprovalRequired"
         /\ RetrievesNothing(r) => run.status = "running"
         /\ run.status \in Ended \/ RetrievesNothing(r) <=> s.next = "END"
         /\ run.status \in Ended => \A t \in DOMAIN run.calls : run.calls[t] # "planned"
    <2>1. CASE IsAnswer(run, s) /\ tasks[x][id] # "pending"
      <3>1. s.next = "END" /\ run.status = s.status /\ run.calls = s.calls
        BY <2>1, AnswerFields DEF IsAnswer
      <3>2. /\ IF RetrievesNothing(r) THEN s.status = "running" ELSE s.status \in Ended
            /\ \A t \in DOMAIN s.calls : s.calls[t] # "planned"
        BY <1>6, <1>7, <3>1 DEF Walk, Reported
      <3> QED BY <2>1, <3>1, <3>2 DEF Ended
    <2>2. CASE s.next = "ApprovalRequired" /\ run.status = "waiting_approval" /\ tasks[x][id] = "pending"
      <3>1. ~RetrievesNothing(r)
        BY <1>0, <1>6, <1>7, <2>2, PlanFacts DEF Walk, GateNodes
      <3> QED BY <2>2, <3>1 DEF Ended
    <2>3. CASE s.next = "SupplementRequired" /\ run.status \in Open /\ tasks[x][id] # "pending"
      <3>1. ~RetrievesNothing(r)
        BY <1>0, <1>6, <1>7, <2>3, PlanFacts DEF Walk
      <3> QED BY <2>3, <3>1 DEF Ended, Open
    <2> QED BY <1>2, <1>8, <2>1, <2>2, <2>3 DEF Shows
  <1>11. /\ (run.status = "waiting_approval") = IsParkedAtApproval(x, id)
         /\ PendingApprovalTask(x, id) = IsParkedAtApproval(x, id)
         /\ RetrievesNothing(r) => run.status = "running"
         /\ (run.status \in {"completed", "failed"} \/ RetrievesNothing(r)) = (Thread(x, id).next = "END")
         /\ run.status \in {"completed", "failed"} => \A t \in DOMAIN run.calls : run.calls[t] # "planned"
    <2>1. IsParkedAtApproval(x, id) = (s.next = "ApprovalRequired")
      BY <1>4 DEF IsParkedAtApproval
    <2>2. (run.status = "waiting_approval") = (s.next = "ApprovalRequired")
      BY <1>10
    <2>3. PendingApprovalTask(x, id) = (s.next = "ApprovalRequired")
      BY <1>10 DEF PendingApprovalTask
    <2>4. (run.status \in {"completed", "failed"} \/ RetrievesNothing(r)) = (Thread(x, id).next = "END")
      BY <1>4, <1>10 DEF Ended
    <2>5. run.status \in {"completed", "failed"} => \A t \in DOMAIN run.calls : run.calls[t] # "planned"
      BY <1>10 DEF Ended
    <2> QED BY <1>10, <2>1, <2>2, <2>3, <2>4, <2>5
  <1>12. PICK key : key = ident[r].id
    OBVIOUS
  <1>13. key = id /\ runs[x][key] = run
    BY <1>4, <1>8, <1>12
  <1>14. /\ runs[x][key] # None /\ runs[x][key].request = r
         /\ (runs[x][key].status = "waiting_approval") = IsParkedAtApproval(x, key)
         /\ PendingApprovalTask(x, key) = IsParkedAtApproval(x, key)
         /\ RetrievesNothing(r) => runs[x][key].status = "running"
         /\ (runs[x][key].status \in {"completed", "failed"} \/ RetrievesNothing(r)) = (Thread(x, key).next = "END")
         /\ runs[x][key].status \in {"completed", "failed"} =>
                \A t \in DOMAIN runs[x][key].calls : runs[x][key].calls[t] # "planned"
    BY <1>8, <1>11, <1>13
  <1> QED BY <1>12, <1>14, Zenon

(* For any number of requests and processes, any templates and any         *)
(* settings of the graph: when calls take turns, no tool or scope of a run *)
(* is called a second time by a resumption, and a run shown as completed   *)
(* gathered one result of each item it called, matched to its own call     *)
(* (_node_tool_exec, _node_tool_aggregate, resume).                        *)
THEOREM EachItemIsCalledOnce == Spec => []EachItemOnce
  <1>1. BaseInv /\ TurnInv /\ [Next]_vars => (BaseInv /\ TurnInv)'
    BY BaseStep, TurnStep DEF BaseInv
  <1>2. BaseInv /\ TurnInv => EachItemOnce
    <2>1. SUFFICES ASSUME BaseInv, TurnInv, InTurn PROVE EachItemOnce
      BY DEF EachItemOnce
    <2> QED BY <2>1, OnceWhenInTurn DEF TurnInv
  <1> QED BY <1>1, <1>2, InitBase, InitTurn, PTL DEF Spec

(* And at rest a stored run says what its thread says: it waits with a     *)
(* pending task when the thread is parked at ApprovalRequired, and is done *)
(* when the graph is (_run_from_state, _is_parked_at_approval), but for    *)
(* the runs whose scopes are all blank, which the graph leaves "running"   *)
(* (_knowledge_sources, _route_after_run_started).                         *)
THEOREM RunsFollowThreads == Spec => []RunFollowsThread
  <1>1. BaseInv /\ TurnInv /\ [Next]_vars => (BaseInv /\ TurnInv)'
    BY BaseStep, TurnStep DEF BaseInv
  <1>2. BaseInv /\ TurnInv => RunFollowsThread
    <2>1. SUFFICES ASSUME BaseInv, TurnInv, InTurn, ~deployment.bypass, "ApprovalRequired" \in InterruptNodes,
                          Busy = {}, NEW r \in Request, mirror[r] # None, ~SharesName(r)
                   PROVE  \E x \in Replica : /\ runs[x][ident[r].id] # None
                              /\ runs[x][ident[r].id].request = r
                              /\ LET run == runs[x][ident[r].id]
                                     parked == IsParkedAtApproval(x, ident[r].id)
                                     finished == run.status \in {"completed", "failed"}
                                 IN /\ (run.status = "waiting_approval") = parked
                                    /\ PendingApprovalTask(x, ident[r].id) = parked
                                    /\ RetrievesNothing(r) => run.status = "running"
                                    /\ (finished \/ RetrievesNothing(r)) =
                                           (Thread(x, ident[r].id).next = "END")
                                    /\ finished => \A t \in DOMAIN run.calls : run.calls[t] # "planned"
      BY DEF RunFollowsThread
    <2> QED BY <2>1, FollowsWhenInTurn DEF TurnInv
  <1> QED BY <1>1, <1>2, InitBase, InitTurn, PTL DEF Spec
=============================================================================
