---------------------------- MODULE LangGraphRuns ----------------------------
(***************************************************************************)
(* Agent runs driven by the LangGraph runtime (RUNTIME_BACKEND=langgraph). *)
(* A run is a thread of the checkpointer: after every node the engine      *)
(* saves the state it reached and the node to come, it stops in front of   *)
(* an interrupt node, and a later call (resume, resume_from_supplement)    *)
(* goes on from what is saved.  Each call is a leg: a worker thread that   *)
(* carries the state of one run from node to node.  The items of a         *)
(* fan-out (tools, knowledge scopes) are worked off in any order and are   *)
(* joined before the next node.  The engine itself is a library: invoke,   *)
(* the reducer and update_state are modelled from how the runtime uses     *)
(* them.  The texts, the model's answer, names and versions are left out.  *)
(***************************************************************************)
EXTENDS Integers, FiniteSets

CONSTANTS Request,      \* the calls that create a run
          Replica,      \* processes, each with a runtime of its own
          Worker,       \* threads that serve calls
          Scope,        \* entries of a list of knowledge scopes that name one
          Default,      \* the scope of a request without a list
          Shared,       \* the saver outside the processes
          Deployments,
          None

Templates == [ knowledge_qa |-> [tools |-> {"chat.query"}, held |-> FALSE],
               ticket_summary |-> [tools |-> {"ticket.fetch", "chat.query"}, held |-> FALSE],
               rca |-> [tools |-> {"runs.create", "reports.review"}, held |-> TRUE] ]

(* A scope is not a tool: the results of the two are kept apart.           *)
ASSUME ScopeAssumption == /\ Scope \cap (UNION {Templates[t].tools : t \in DOMAIN Templates}) = {}
                          /\ Default \in Scope /\ None \notin Scope

(* scopes: the list of each request, None being an entry that is blank.    *)
ASSUME DeploymentsAssumption ==
    Deployments \subseteq [ requests : SUBSET Request, template : [Request -> DOMAIN Templates],
                            scopes : [Request -> SUBSET (Scope \cup {None})],
                            subgraph : BOOLEAN, supplement : BOOLEAN, parallel : BOOLEAN,
                            interrupts : SUBSET {"ApprovalRequired", "SupplementRequired"},
                            backend : {"memory", "redis", "postgres"}, dsn : BOOLEAN,
                            replicas : SUBSET Replica, threads : 1 .. Cardinality(Worker),
                            restarts : Nat, bypass : BOOLEAN ]

VARIABLES deployment,
          count,     \* Replica -> runs named since the process started (_count)
          saver,     \* place -> run id -> its thread, or None
          runs,      \* Replica -> run id -> the run last answered (_runs)
          tasks,     \* Replica -> run id -> status of its task (_tasks)
          mirror,    \* Request -> what the platform stored for it
          leg,       \* Worker -> the call it serves
          ident,     \* Request -> the place and id of its thread, or None
          invoked,   \* Request -> item -> times it was invoked
          approved,  \* the requests somebody approved
          restarts

vars == <<deployment, count, saver, runs, tasks, mirror, leg, ident, invoked, approved, restarts>>

Decision == {"approved", "rejected"}
Id == 1 .. Cardinality(Request)
Item == (UNION {Templates[t].tools : t \in DOMAIN Templates}) \cup Scope
Place == Replica \cup {Shared}
Node == { "TemplateLoaded", "RunStarted", "SupplementRequired", "KnowledgeRetrieve",
          "KnowledgeAggregate", "ToolPlan", "ToolExec", "ToolAggregate", "ApprovalRequired",
          "ApprovalApproved", "ApprovalRejected", "Completed", "END" }
CallStatus == {"planned", "completed", "failed", "skipped"}
Status == {"running", "waiting_approval", "supplement_pending", "completed", "failed"}

Outcomes == {"completed", "failed"}
Entry == [item : Item, status : Outcomes, request : Request]
Calls == UNION {[S -> CallStatus] : S \in SUBSET Item}
Approval == {"not_required", "pending"} \cup Decision

(* What the channels of a thread hold, the node it came from and the next; *)
(* and what is answered of it.                                             *)
RunState == [ request : Request, status : Status, approval : Approval, calls : Calls,
              results : SUBSET Entry, output : SUBSET Entry, last : Node \cup {"START"}, next : Node ]
Response == [ request : Request, status : Status, approval : Approval, calls : Calls, output : SUBSET Entry ]

ASSUME RequestsAssumption == IsFiniteSet(Request)
ASSUME NoneAssumption == /\ None \notin RunState \cup Response \cup Decision \cup {"pending"} \cup [place : Place, id : Id]
                         /\ Shared \notin Replica

TemplateOf(r) == Templates[deployment.template[r]]
ToolsOf(s) == TemplateOf(s.request).tools

(* A saver that cannot be built leaves the process with one in memory.     *)
ConstructRemoteSaver(x) == IF deployment.dsn THEN Shared ELSE x
BuildCheckpointer(x) ==
    IF deployment.backend \in {"redis", "postgres"} THEN ConstructRemoteSaver(x) ELSE x

InterruptNodes == IF deployment.interrupts = {} THEN {"ApprovalRequired"} ELSE deployment.interrupts

RequiresSupplement(r) == deployment.supplement /\ deployment.template[r] = "knowledge_qa"

-----------------------------------------------------------------------------
(* The scopes retrieved from: without a list the default one, and of a     *)
(* list the entries that are not blank, which may be none.                 *)
KnowledgeSources(r) ==
    IF deployment.scopes[r] = {} THEN {Default} ELSE deployment.scopes[r] \ {None}

(* The routes out of the nodes that have several.  Without a source the    *)
(* retrieval is sent to no worker, and nothing is left to do.              *)
RouteAfterRunStarted(s) ==
    IF RequiresSupplement(s.request) THEN "SupplementRequired"
    ELSE IF ~(deployment.parallel /\ deployment.template[s.request] = "knowledge_qa") THEN "ToolPlan"
    ELSE IF KnowledgeSources(s.request) = {} THEN "END" ELSE "KnowledgeRetrieve"

RouteAfterToolPlan(s) ==
    IF TemplateOf(s.request).held THEN "ApprovalRequired"
    ELSE IF deployment.subgraph THEN "ToolExec" ELSE "Completed"

RouteUndecided(s) == IF TemplateOf(s.request).held THEN "ApprovalRequired" ELSE "Completed"
RouteAfterToolAggregate(s) ==
    IF s.approval = "approved" THEN "END"
    ELSE IF TemplateOf(s.request).held THEN "ApprovalRequired" ELSE "Completed"

RouteUnlessRejected(s) == IF s.approval = "rejected" THEN "ApprovalRejected" ELSE "ApprovalApproved"
RouteAfterApproval(s) == IF s.approval = "approved" THEN "ApprovalApproved" ELSE "ApprovalRejected"

RouteAfterApprovalApproved(s) == IF deployment.subgraph THEN "ToolExec" ELSE "END"

(* The edges of the graph.                                                 *)
Edge(node, s) ==
    CASE node = "TemplateLoaded" -> "RunStarted"
      [] node = "RunStarted" -> RouteAfterRunStarted(s)
      [] node = "SupplementRequired" -> "ToolPlan"
      [] node = "KnowledgeRetrieve" -> "KnowledgeAggregate"
      [] node = "KnowledgeAggregate" -> "Completed"
      [] node = "ToolPlan" -> RouteAfterToolPlan(s)
      [] node = "ToolExec" -> "ToolAggregate"
      [] node = "ToolAggregate" -> RouteAfterToolAggregate(s)
      [] node = "ApprovalRequired" -> RouteAfterApproval(s)
      [] node = "ApprovalApproved" -> RouteAfterApprovalApproved(s)
      [] OTHER -> "END"

-----------------------------------------------------------------------------
(* The nodes: what each makes of the state; done is what the items invoked *)
(* in it returned.                                                         *)
StatusIn(done, i, other) ==
    IF \E e \in done : e.item = i THEN (CHOOSE e \in done : e.item = i).status ELSE other

NodeToolPlan(s, done) ==
    [s EXCEPT !.calls = [t \in ToolsOf(s) |->
        IF deployment.subgraph \/ TemplateOf(s.request).held THEN "planned"
        ELSE StatusIn(done, t, "completed")]]

NodeToolExec(s, done) == [s EXCEPT !.results = @ \cup done]
NodeKnowledgeRetrieve(s, done) == NodeToolExec(s, done)

(* Entries are matched by name, the newest for each: those of the run.     *)
NodeToolAggregate(s) ==
    LET results == {e \in s.results : e.item \notin Scope}
        own == {e \in results : e.request = s.request}
    IN [s EXCEPT !.calls = [t \in DOMAIN s.calls |-> StatusIn(own, t, StatusIn(results, t, s.calls[t]))],
                 !.output = results]

NodeKnowledgeAggregate(s) ==
    LET results == {e \in s.results : e.item \in Scope}
    IN [s EXCEPT !.calls = [i \in {e.item : e \in results} |-> StatusIn(results, i, "completed")],
                 !.output = results]

NodeApprovalRequiredAfresh(s) == [s EXCEPT !.status = "waiting_approval", !.approval = "pending"]
NodeApprovalRequired(s) == [s EXCEPT !.status = "waiting_approval"]
NodeSupplementRequired(s) == [s EXCEPT !.status = "supplement_pending"]

SetPlanned(calls, to) == [t \in DOMAIN calls |-> IF calls[t] = "planned" THEN to ELSE calls[t]]

NodeApprovalApproved(s) ==
    [s EXCEPT !.status = "completed", !.approval = "approved",
              !.calls = IF deployment.subgraph THEN @ ELSE SetPlanned(s.calls, "completed")]

NodeApprovalRejected(s) ==
    [s EXCEPT !.status = "failed", !.approval = "rejected",
              !.calls = SetPlanned(s.calls, "skipped")]

NodeCompleted(s) == [s EXCEPT !.status = "completed", !.approval = "not_required"]

Executed(s, done) ==
    CASE s.next = "ToolPlan" -> NodeToolPlan(s, done)
      [] s.next = "ToolExec" -> NodeToolExec(s, done)
      [] s.next = "KnowledgeRetrieve" -> NodeKnowledgeRetrieve(s, done)
      [] s.next = "ToolAggregate" -> NodeToolAggregate(s)
      [] s.next = "KnowledgeAggregate" -> NodeKnowledgeAggregate(s)
      [] s.next = "ApprovalRequired" -> NodeApprovalRequired(s)
      [] s.next = "SupplementRequired" -> NodeSupplementRequired(s)
      [] s.next = "ApprovalApproved" -> NodeApprovalApproved(s)
      [] s.next = "ApprovalRejected" -> NodeApprovalRejected(s)
      [] s.next = "Completed" -> NodeCompleted(s)
      [] OTHER -> s

(* The items a node invokes: the fanned-out workers, or the tools of a     *)
(* read-only template that ToolPlan calls itself when there is no fan-out. *)
ItemsOf(s) ==
    CASE s.next = "ToolExec" -> ToolsOf(s)
      [] s.next = "KnowledgeRetrieve" -> KnowledgeSources(s.request)
      [] s.next = "ToolPlan" /\ ~deployment.subgraph /\ ~TemplateOf(s.request).held -> ToolsOf(s)
      [] OTHER -> {}

Moved(s, node) == [s EXCEPT !.last = node, !.next = Edge(node, s)]

-----------------------------------------------------------------------------
Idle == [step |-> "idle"]
Busy == {w \in Worker : leg[w] # Idle}
LegOf(call, x, r, step) == [call |-> call, at |-> x, request |-> r, step |-> step, id |-> 0,
                            decision |-> None, state |-> None, todo |-> {}, done |-> {}]

Thread(x, id) == saver[BuildCheckpointer(x)][id]
IsParkedAtApproval(x, id) == Thread(x, id) # None /\ Thread(x, id).next = "ApprovalRequired"
IsParkedAtSupplement(x, id) == Thread(x, id) # None /\ Thread(x, id).next = "SupplementRequired"
Save(x, id, s) == saver' = [saver EXCEPT ![BuildCheckpointer(x)][id] = s]

(* The leg goes on with state s; invoke stops in front of an interrupt.    *)
Onwards(l, s) ==
    IF s.next = "END" \/ s.next \in InterruptNodes
    THEN [l EXCEPT !.state = s, !.step = "respond", !.todo = {}, !.done = {}]
    ELSE [l EXCEPT !.state = s, !.step = "node", !.todo = ItemsOf(s), !.done = {}]

(* run: the counter is incremented and then read to name the run.          *)
Run(w, x, r) ==
    /\ leg[w] = Idle /\ Cardinality(Busy) < deployment.threads /\ x \in deployment.replicas
    /\ r \in deployment.requests /\ ident[r] = None /\ \A v \in Busy : leg[v].request # r
    /\ count' = [count EXCEPT ![x] = @ + 1]
    /\ leg' = [leg EXCEPT ![w] = LegOf("run", x, r, "name")]
    /\ UNCHANGED <<deployment, saver, runs, tasks, mirror, ident, invoked, approved, restarts>>

Initial(r, kept) ==
    [request |-> r, status |-> "running", approval |-> "not_required", calls |-> <<>>,
     results |-> kept, output |-> {}, last |-> "START", next |-> "TemplateLoaded"]

(* invoke with an input starts the thread over; what a reducer had         *)
(* gathered in it stays.                                                   *)
StartRun(w) ==
    /\ leg[w] # Idle /\ leg[w].step = "name"
    /\ LET x == leg[w].at
           id == count[x]
           s == Initial(leg[w].request, IF Thread(x, id) = None THEN {} ELSE Thread(x, id).results)
       IN /\ Save(x, id, s)
          /\ ident' = [ident EXCEPT ![leg[w].request] = [place |-> BuildCheckpointer(x), id |-> id]]
          /\ leg' = [leg EXCEPT ![w] = Onwards([leg[w] EXCEPT !.id = id], s)]
    /\ UNCHANGED <<deployment, count, runs, tasks, mirror, invoked, approved, restarts>>

(* One item of the node is invoked; a failure is kept to its entry.        *)
Invoke(w, items) ==
    /\ leg[w] # Idle /\ leg[w].step = "node"
    /\ \E i \in leg[w].todo \cap items, outcome \in {"completed", "failed"} :
         LET r == leg[w].state.request
         IN /\ invoked' = [invoked EXCEPT ![r][i] = IF @ < 2 THEN @ + 1 ELSE @]
            /\ leg' = [leg EXCEPT ![w] = [leg[w] EXCEPT
                           !.todo = @ \ {i},
                           !.done = @ \cup {[item |-> i, status |-> outcome, request |-> r]}]]
    /\ UNCHANGED <<deployment, count, saver, runs, tasks, mirror, ident, approved, restarts>>

InvokeTool(w) == Invoke(w, Item \ Scope)
InvokeScope(w) == Invoke(w, Scope)

ExecuteNode(w) ==
    /\ leg[w] # Idle /\ leg[w].step = "node" /\ leg[w].todo = {}
    /\ LET s == Moved(Executed(leg[w].state, leg[w].done), leg[w].state.next)
       IN /\ Save(leg[w].at, leg[w].id, s)
          /\ leg' = [leg EXCEPT ![w] = Onwards(leg[w], s)]
    /\ UNCHANGED <<deployment, count, runs, tasks, mirror, ident, invoked, approved, restarts>>

(* The view of a run that waits at a gate, for its first answer.           *)
PausedState(s) == [s EXCEPT !.status = "waiting_approval", !.approval = "pending"]
SupplementPausedState(s) == [s EXCEPT !.status = "supplement_pending"]
ViewOfState(x, id, s) == s
ViewOf(x, id, s) == CASE IsParkedAtApproval(x, id) -> PausedState(s)
                      [] IsParkedAtSupplement(x, id) -> SupplementPausedState(s)
                      [] OTHER -> s

ToResponse(s) == [request |-> s.request, status |-> s.status, approval |-> s.approval,
                  calls |-> s.calls, output |-> s.output]

(* The first answer: the run and, for a template that requires approval, a *)
(* task; the platform stores a copy of the run under an id of its own and  *)
(* opens a task of its own when the run waits for a decision.              *)
CreateRunViaLangGraph(w, view) ==
    mirror' = [mirror EXCEPT ![leg[w].request] =
        [status |-> view.status, task |-> IF view.approval = "pending" THEN "pending" ELSE None]]

RespondRun(w) ==
    /\ leg[w] # Idle /\ leg[w].step = "respond" /\ leg[w].call = "run"
    /\ LET x == leg[w].at
           id == leg[w].id
           view == ViewOf(x, id, leg[w].state)
       IN /\ runs' = [runs EXCEPT ![x][id] = ToResponse(view)]
          /\ tasks' = IF TemplateOf(leg[w].request).held
                      THEN [tasks EXCEPT ![x][id] = "pending"] ELSE tasks
          /\ CreateRunViaLangGraph(w, view)
    /\ leg' = [leg EXCEPT ![w] = Idle]
    /\ UNCHANGED <<deployment, count, saver, ident, invoked, approved, restarts>>

(* A call about the run of r, taken by process x, which finds its thread   *)
(* parked where the call expects it; otherwise it is refused.              *)
BeginResume(w, x, r, call, d) ==
    /\ leg[w] = Idle /\ Cardinality(Busy) < deployment.threads /\ x \in deployment.replicas
    /\ mirror[r] # None
    /\ leg' = [leg EXCEPT ![w] = [LegOf(call, x, r, "inject") EXCEPT
                                     !.id = ident[r].id, !.decision = d]]

Resume(w, x, r, d) ==
    /\ BeginResume(w, x, r, "resume", d)
    /\ IsParkedAtApproval(x, ident[r].id)
    /\ approved' = IF d = "approved" THEN approved \cup {r} ELSE approved
    /\ UNCHANGED <<deployment, count, saver, runs, tasks, mirror, ident, invoked, restarts>>

ResumeFromSupplement(w, x, r) ==
    /\ BeginResume(w, x, r, "supplement", None)
    /\ IsParkedAtSupplement(x, ident[r].id)
    /\ UNCHANGED <<deployment, count, saver, runs, tasks, mirror, ident, invoked, approved, restarts>>

(* update_state: the new values go into the thread as it is now, and the   *)
(* route out of the node it came from is taken again.                      *)
UpdateState(s, d) ==
    LET t == IF d = None THEN s ELSE [s EXCEPT !.approval = d]
    IN IF t.last = "START" THEN t ELSE Moved(t, t.last)

Inject(w) ==
    /\ leg[w] # Idle /\ leg[w].step = "inject"
    /\ LET l == leg[w]
       IN IF Thread(l.at, l.id) = None
          THEN leg' = [leg EXCEPT ![w] = Idle] /\ UNCHANGED saver
          ELSE /\ Save(l.at, l.id, UpdateState(Thread(l.at, l.id), l.decision))
               /\ leg' = [leg EXCEPT ![w].step = "invoke"]
    /\ UNCHANGED <<deployment, count, runs, tasks, mirror, ident, invoked, approved, restarts>>

(* invoke without an input loads the thread and passes its gate.           *)
InvokeThread(w) ==
    /\ leg[w] # Idle /\ leg[w].step = "invoke"
    /\ LET l == leg[w]
           s == Thread(l.at, l.id)
       IN leg' = [leg EXCEPT ![w] = IF s.next = "END" THEN [l EXCEPT !.state = s, !.step = "respond"]
                                    ELSE [l EXCEPT !.state = s, !.step = "node", !.todo = ItemsOf(s)]]
    /\ UNCHANGED <<deployment, count, saver, runs, tasks, mirror, ident, invoked, approved, restarts>>

PendingApprovalTask(x, id) == tasks[x][id] = "pending"

RespondResume(w) ==
    /\ leg[w] # Idle /\ leg[w].step = "respond" /\ leg[w].call # "run"
    /\ LET x == leg[w].at
           id == leg[w].id
       IN /\ runs' = [runs EXCEPT ![x][id] = ToResponse(leg[w].state)]
          /\ tasks' = IF leg[w].call = "resume" /\ PendingApprovalTask(x, id)
                      THEN [tasks EXCEPT ![x][id] = leg[w].decision] ELSE tasks
    /\ leg' = [leg EXCEPT ![w] = Idle]
    /\ UNCHANGED <<deployment, count, saver, mirror, ident, invoked, approved, restarts>>

(* decide rewrites the stored run and its task; the graph does not run.    *)
Decided(run, d) ==
    [run EXCEPT !.status = IF d = "approved" THEN "completed" ELSE "failed", !.approval = d,
                !.calls = [t \in DOMAIN run.calls |->
                               IF d = "approved" THEN "completed" ELSE "skipped"]]

Decide(x, r, d) ==
    /\ deployment.bypass /\ mirror[r] # None /\ x \in deployment.replicas
    /\ LET id == ident[r].id
       IN /\ runs[x][id] # None
          /\ runs' = [runs EXCEPT ![x][id] = Decided(runs[x][id], d)]
          /\ tasks' = IF PendingApprovalTask(x, id) THEN [tasks EXCEPT ![x][id] = d] ELSE tasks
    /\ UNCHANGED <<deployment, count, saver, mirror, leg, ident, invoked, approved, restarts>>

(* A process stops and starts again: its legs end where they are, and only *)
(* the saver outside it remembers.                                         *)
Restart(x) ==
    /\ x \in deployment.replicas /\ restarts < deployment.restarts
    /\ restarts' = restarts + 1
    /\ count' = [count EXCEPT ![x] = 0]
    /\ saver' = [saver EXCEPT ![x] = [id \in Id |-> None]]
    /\ runs' = [runs EXCEPT ![x] = [id \in Id |-> None]]
    /\ tasks' = [tasks EXCEPT ![x] = [id \in Id |-> None]]
    /\ leg' = [w \in Worker |-> IF leg[w] # Idle /\ leg[w].at = x THEN Idle ELSE leg[w]]
    /\ UNCHANGED <<deployment, mirror, ident, invoked, approved>>

Init == /\ deployment \in Deployments
        /\ count = [x \in Replica |-> 0]
        /\ saver = [p \in Place |-> [id \in Id |-> None]]
        /\ runs = [x \in Replica |-> [id \in Id |-> None]]
        /\ tasks = [x \in Replica |-> [id \in Id |-> None]]
        /\ mirror = [r \in Request |-> None]
        /\ leg = [w \in Worker |-> Idle]
        /\ ident = [r \in Request |-> None]
        /\ invoked = [r \in Request |-> [i \in Item |-> 0]]
        /\ approved = {}
        /\ restarts = 0

LegStep(w) == \/ StartRun(w) \/ InvokeTool(w) \/ InvokeScope(w) \/ ExecuteNode(w) \/ RespondRun(w)
              \/ Inject(w) \/ InvokeThread(w) \/ RespondResume(w)

Next == \/ \E w \in Worker, x \in Replica, r \in Request :
              \/ Run(w, x, r)
              \/ \E d \in Decision : Resume(w, x, r, d)
              \/ ResumeFromSupplement(w, x, r)
        \/ \E w \in Worker : LegStep(w)
        \/ \E x \in Replica, r \in Request, d \in Decision : Decide(x, r, d)
        \/ \E x \in Replica : Restart(x)

Spec == Init /\ [][Next]_vars

(* A call that was taken is carried on by its thread.                      *)
FairSpec == Spec /\ \A w \in Worker : WF_vars(LegStep(w))

-----------------------------------------------------------------------------
(* Two requests whose runs were given one name: every process counts from  *)
(* one, so with several processes, a restart or two runs named at a time   *)
(* a name may stand for two runs.                                          *)
SharesName(r) == /\ ident[r] # None
                 /\ \E q \in Request \ {r} : ident[q] # None /\ ident[q].id = ident[r].id
InTurn == deployment.threads = 1 /\ deployment.restarts = 0

(* No tool of a template that requires approval is called before somebody  *)
(* approved the very run it belongs to, whatever calls overlap, processes  *)
(* restart or decisions bypass the graph, as long as the run has its       *)
(* name to itself: _route_after_tool_plan holds the tools, and only      *)
(* _route_after_approval lets them go.                                     *)
HeldToolsWait ==
    \A r \in Request :
        (TemplateOf(r).held /\ ~SharesName(r) /\ \E i \in Item : invoked[r][i] > 0) => r \in approved

(* When calls take turns, no item of a run is ever called twice, and a run *)
(* shown as finished gathered exactly one result of each of its own items. *)
EachItemOnce ==
    InTurn => \A r \in Request :
        /\ \A i \in Item : invoked[r][i] <= 1
        /\ \A x \in Replica, id \in Id :
             (/\ ~SharesName(r) /\ ~deployment.bypass
              /\ runs[x][id] # None /\ runs[x][id].request = r /\ runs[x][id].status = "completed") =>
             LET entries == runs[x][id].output
             IN /\ \A e \in entries : e.request = r /\ runs[x][id].calls[e.item] = e.status
                /\ \A e, f \in entries : e.item = f.item => e = f
                /\ {e.item : e \in entries} = {i \in Item : invoked[r][i] = 1} \/ ~deployment.subgraph

(* Is this a request whose retrieval is sent to nobody?                    *)
RetrievesNothing(r) == /\ deployment.parallel /\ deployment.template[r] = "knowledge_qa"
                       /\ ~RequiresSupplement(r) /\ KnowledgeSources(r) = {}

(* When calls take turns and ApprovalRequired is an interrupt node, then   *)
(* at rest a stored run waits exactly when its thread is parked at that    *)
(* gate and its task is pending, and is finished, with no tool left        *)
(* planned, exactly when its thread has ended: but for a run whose scopes  *)
(* are all blank, which stays "running" although its thread has ended.     *)
RunFollowsThread ==
    (InTurn /\ ~deployment.bypass /\ "ApprovalRequired" \in InterruptNodes /\ Busy = {}) =>
    \A r \in Request : (mirror[r] # None /\ ~SharesName(r)) =>
        \E x \in Replica : /\ runs[x][ident[r].id] # None
                           /\ runs[x][ident[r].id].request = r
                           /\ LET run == runs[x][ident[r].id]
                                  parked == IsParkedAtApproval(x, ident[r].id)
                                  finished == run.status \in {"completed", "failed"}
                              IN /\ (run.status = "waiting_approval") = parked
                                 /\ PendingApprovalTask(x, ident[r].id) = parked
                                 /\ RetrievesNothing(r) => run.status = "running"
                                 /\ (finished \/ RetrievesNothing(r)) =
                                        (Thread(x, ident[r].id).next = "END")
                                 /\ finished => \A t \in DOMAIN run.calls : run.calls[t] # "planned"

(* When calls take turns, a run that was approved ends completed, with its *)
(* tools called (or, without the fan-out, marked as called): the decision  *)
(* is not lost between update_state, the gate and the route behind it.     *)
ApprovedRunsFinish ==
    \A r \in Request :
        (InTurn /\ ~deployment.bypass /\ r \in approved) ~>
            \/ SharesName(r)
            \/ ident[r] # None /\ \E x \in Replica :
                  LET run == runs[x][ident[r].id]
                  IN /\ run # None /\ run.status = "completed" /\ run.approval = "approved"
                     /\ deployment.subgraph => \A i \in TemplateOf(r).tools : invoked[r][i] > 0
=============================================================================
