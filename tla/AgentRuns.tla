------------------------------ MODULE AgentRuns ------------------------------
(***************************************************************************)
(* Agent runs and their approval tasks in the agent-platform when it owns  *)
(* both (APPROVAL_SERVICE_URL unset).  The state is AgentPlatformStore's   *)
(* two dictionaries, which no lock protects, the audit log and the         *)
(* agent_runs table.  FastAPI runs the handlers below on a pool of worker  *)
(* threads; each handler reads objects out of the dictionaries, builds     *)
(* modified copies and stores them back, so a handler is a sequence of     *)
(* steps and any other handler may run between two of them.                *)
(*                                                                         *)
(* Only templates that require approval are modelled: the run of any other *)
(* is created completed, has no task and is never changed again.  A run    *)
(* and the one task created with it share an index.  Of a task only the    *)
(* status is kept (who holds it is the subject of ApprovalTask, whose      *)
(* transitions runtime.py mirrors); of a run its status, approval_status   *)
(* and the common status of its tool calls.                                *)
(***************************************************************************)
EXTENDS Integers, FiniteSets

CONSTANTS Run,          \* the runs that may be created, each with its task
          Worker,       \* threads that serve requests
          Deployments,  \* how many handlers may be in progress at a time
          None          \* absent from a dictionary or a table

ASSUME DeploymentsAssumption == Deployments \subseteq [threads : Nat \ {0}]

Terminal == {"approved", "rejected", "expired"}
Decidable == {"pending", "transferred", "escalated"}
Decision == {"approved", "rejected"}
TaskStatus == Terminal \cup Decidable \cup {"supplement_pending", "pending_supplement"}

RunRecord == [ status   : {"waiting_approval", "completed", "failed", "running"},
               approval : {"pending"} \cup Terminal,
               tools    : {"planned", "completed", "skipped"} ]

ASSUME NoneAssumption == None \notin Run \cup TaskStatus \cup RunRecord

VARIABLES deployment, \* the deployment this is
          task,    \* Run -> status of its task, or None  (store.approval_tasks)
          run,     \* Run -> the run, or None             (store.runs)
          db,      \* Run -> its persisted row, or None   (agent_runs table)
          audit,   \* Run -> decisions in the audit log   (approval.decided)
          job      \* Worker -> what its handler does next

vars == <<deployment, task, run, db, audit, job>>

(* A handler between two steps: the run it works on, its next step, the    *)
(* task status it computed and the run object it holds.                    *)
Step == { "insert_task", "reread_task", "rewrite_task", "persist_run",
          "write_task", "write_decision", "read_run_decided", "write_run_decided",
          "read_persist", "write_expiry", "read_run_expired", "write_run_expired",
          "resume", "write_resumed", "persist_resumed", "mark_resumed" }

Idle == [run |-> None, step |-> "idle", status |-> None, held |-> None]

Job == [ run : Run, step : Step, status : TaskStatus \cup {None},
         held : RunRecord \cup {None} ] \cup {Idle}

TypeOK == /\ deployment \in Deployments
          /\ task \in [Run -> TaskStatus \cup {None}]
          /\ run \in [Run -> RunRecord \cup {None}]
          /\ db \in [Run -> RunRecord \cup {None}]
          /\ audit \in [Run -> SUBSET Decision]
          /\ job \in [Worker -> Job]

Init == /\ deployment \in Deployments
        /\ task = [r \in Run |-> None]
        /\ run = [r \in Run |-> None]
        /\ db = [r \in Run |-> None]
        /\ audit = [r \in Run |-> {}]
        /\ job = [w \in Worker |-> Idle]

-----------------------------------------------------------------------------
(* w is idle and takes a request for r; s is what it does next.            *)
Begin(w, r, s, status, held) ==
    /\ job[w] = Idle
    /\ Cardinality({v \in Worker : job[v] # Idle}) < deployment.threads
    /\ job' = [job EXCEPT ![w] =
                   [run |-> r, step |-> s, status |-> status, held |-> held]]

At(w, s) == job[w].step = s
GoTo(w, s) == job' = [job EXCEPT ![w].step = s]
GoToHolding(w, s, held) == job' = [job EXCEPT ![w].step = s, ![w].held = held]
Answer(w) == job' = [job EXCEPT ![w] = Idle]

(* create_agent_run: the new run enters the dictionary before its task     *)
(* does; the in-memory client then stores the task it just looked up once  *)
(* more, and the run object as created is persisted.                       *)
NewRun == [status |-> "waiting_approval", approval |-> "pending", tools |-> "planned"]

CreateRun(w, r) ==
    /\ run[r] = None
    /\ Begin(w, r, "insert_task", "pending", NewRun)
    /\ run' = [run EXCEPT ![r] = NewRun]
    /\ UNCHANGED <<deployment, task, db, audit>>

InsertTask(w) ==
    /\ At(w, "insert_task")
    /\ task' = [task EXCEPT ![job[w].run] = "pending"]
    /\ GoTo(w, "reread_task")
    /\ UNCHANGED <<deployment, run, db, audit>>

RereadTask(w) ==
    /\ At(w, "reread_task")
    /\ job' = [job EXCEPT ![w].step = "rewrite_task", ![w].status = task[job[w].run]]
    /\ UNCHANGED <<deployment, task, run, db, audit>>

RewriteTask(w) ==
    /\ At(w, "rewrite_task")
    /\ task' = [task EXCEPT ![job[w].run] = job[w].status]
    /\ GoTo(w, "persist_run")
    /\ UNCHANGED <<deployment, run, db, audit>>

(* upsert_run of the run object the handler holds, then the answer. *)
PersistRun(w) ==
    /\ At(w, "persist_run")
    /\ db' = [db EXCEPT ![job[w].run] = job[w].held]
    /\ Answer(w)
    /\ UNCHANGED <<deployment, task, run, audit>>

-----------------------------------------------------------------------------
(* The handlers that only move the task.  Each reads it, answers 404 or    *)
(* 409 unless the condition holds, and stores a copy with the new status.  *)
ReadTask(w, r, status) ==
    /\ Begin(w, r, "write_task", status, None)
    /\ UNCHANGED <<deployment, task, run, db, audit>>

IsOpenUnlessDecided(r) == task[r] \notin Decision \cup {None}   \* mutant: expired left out
IsOpen(r) == task[r] # None /\ task[r] \notin Terminal   \* _require_open
IsDecidable(r) == task[r] \in Decidable

LegacyRequestSupplement(w, r) == IsOpen(r) /\ ReadTask(w, r, "pending_supplement")
LegacyAnswerSupplement(w, r) == task[r] = "pending_supplement" /\ ReadTask(w, r, "pending")
(* route_approval and delegate_approval keep the status they read. *)
RouteOrDelegate(w, r) == IsOpen(r) /\ ReadTask(w, r, task[r])
RequestSupplement(w, r) == task[r] = "pending" /\ ReadTask(w, r, "supplement_pending")
ResolveSupplement(w, r) == task[r] = "supplement_pending" /\ ReadTask(w, r, "pending")
TransferApproval(w, r) == IsOpen(r) /\ ReadTask(w, r, "transferred")
EscalateApproval(w, r) == IsOpen(r) /\ ReadTask(w, r, "escalated")

WriteTask(w) ==
    /\ At(w, "write_task")
    /\ task' = [task EXCEPT ![job[w].run] = job[w].status]
    /\ Answer(w)
    /\ UNCHANGED <<deployment, run, db, audit>>

-----------------------------------------------------------------------------
(* decide_approval: task, audit log, run, and the persisted run in turn.   *)
ReadToDecide(w, r) ==
    /\ IsDecidable(r)
    /\ \E decision \in Decision : Begin(w, r, "write_decision", decision, None)
    /\ UNCHANGED <<deployment, task, run, db, audit>>

WriteDecision(w) ==
    /\ At(w, "write_decision")
    /\ task' = [task EXCEPT ![job[w].run] = job[w].status]
    /\ audit' = [audit EXCEPT ![job[w].run] = @ \cup {job[w].status}]
    /\ GoTo(w, "read_run_decided")
    /\ UNCHANGED <<deployment, run, db>>

ReadRunDecided(w) ==
    /\ At(w, "read_run_decided")
    /\ GoToHolding(w, "write_run_decided", run[job[w].run])
    /\ UNCHANGED <<deployment, task, run, db, audit>>

DecidedRunningTools(held, decision) ==   \* mutant: the tools run whatever was decided
    [held EXCEPT !.status = IF decision = "approved" THEN "completed" ELSE "failed",
                 !.approval = decision, !.tools = "completed"]

Decided(held, decision) ==
    [held EXCEPT !.status = IF decision = "approved" THEN "completed" ELSE "failed",
                 !.approval = decision,
                 !.tools = IF decision = "approved" THEN "completed" ELSE "skipped"]

WriteRunDecided(w) ==
    /\ At(w, "write_run_decided")
    /\ run' = [run EXCEPT ![job[w].run] = Decided(job[w].held, job[w].status)]
    /\ GoTo(w, "read_persist")
    /\ UNCHANGED <<deployment, task, db, audit>>

ReadPersistStale(w) ==   \* mutant: persists the run object read before the update
    /\ At(w, "read_persist")
    /\ GoTo(w, "persist_run")
    /\ UNCHANGED <<deployment, task, run, db, audit>>

ReadPersist(w) ==
    /\ At(w, "read_persist")
    /\ GoToHolding(w, "persist_run", run[job[w].run])
    /\ UNCHANGED <<deployment, task, run, db, audit>>

-----------------------------------------------------------------------------
(* timeout_task: the task expires and its run fails; nothing is persisted. *)
ReadToExpire(w, r) ==
    /\ IsOpen(r)
    /\ Begin(w, r, "write_expiry", "expired", None)
    /\ UNCHANGED <<deployment, task, run, db, audit>>

WriteExpiry(w) ==
    /\ At(w, "write_expiry")
    /\ task' = [task EXCEPT ![job[w].run] = "expired"]
    /\ GoTo(w, "read_run_expired")
    /\ UNCHANGED <<deployment, run, db, audit>>

ReadRunExpired(w) ==
    /\ At(w, "read_run_expired")
    /\ GoToHolding(w, "write_run_expired", run[job[w].run])
    /\ UNCHANGED <<deployment, task, run, db, audit>>

Expired(held) == [held EXCEPT !.status = "failed", !.approval = "expired"]

WriteRunExpired(w) ==
    /\ At(w, "write_run_expired")
    /\ run' = [run EXCEPT ![job[w].run] = Expired(job[w].held)]
    /\ Answer(w)
    /\ UNCHANGED <<deployment, task, db, audit>>

-----------------------------------------------------------------------------

(* resume_agent_run: 409 only for a completed run; the run is looked up    *)
(* again by resume_run_from_node.  The persisted copy ends as "running".   *)
CheckResume(w, r) ==
    /\ run[r] # None
    /\ run[r].status # "completed"
    /\ Begin(w, r, "resume", None, None)
    /\ UNCHANGED <<deployment, task, run, db, audit>>

ReadResumed(w) ==
    /\ At(w, "resume")
    /\ GoToHolding(w, "write_resumed", run[job[w].run])
    /\ UNCHANGED <<deployment, task, run, db, audit>>

Resumed(held) == [held EXCEPT !.status = "waiting_approval", !.tools = "planned"]

WriteResumed(w) ==
    /\ At(w, "write_resumed")
    /\ run' = [run EXCEPT ![job[w].run] = Resumed(job[w].held)]
    /\ GoToHolding(w, "persist_resumed", Resumed(job[w].held))
    /\ UNCHANGED <<deployment, task, db, audit>>

PersistResumed(w) ==
    /\ At(w, "persist_resumed")
    /\ db' = [db EXCEPT ![job[w].run] = job[w].held]
    /\ GoTo(w, "mark_resumed")
    /\ UNCHANGED <<deployment, task, run, audit>>

MarkResumed(w) ==
    /\ At(w, "mark_resumed")
    /\ db' = [db EXCEPT ![job[w].run].status = "running"]
    /\ Answer(w)
    /\ UNCHANGED <<deployment, task, run, audit>>

-----------------------------------------------------------------------------
Request(w, r) ==
    \/ CreateRun(w, r)
    \/ LegacyRequestSupplement(w, r)
    \/ LegacyAnswerSupplement(w, r)
    \/ RouteOrDelegate(w, r)
    \/ RequestSupplement(w, r)
    \/ ResolveSupplement(w, r)
    \/ TransferApproval(w, r)
    \/ EscalateApproval(w, r)
    \/ ReadToDecide(w, r)
    \/ ReadToExpire(w, r)
    \/ CheckResume(w, r)

Continue(w) ==
    \/ InsertTask(w)      \/ RereadTask(w)      \/ RewriteTask(w)
    \/ PersistRun(w)      \/ WriteTask(w)       \/ WriteDecision(w)
    \/ ReadRunDecided(w)  \/ WriteRunDecided(w) \/ ReadPersist(w)
    \/ WriteExpiry(w)     \/ ReadRunExpired(w)  \/ WriteRunExpired(w)
    \/ ReadResumed(w)     \/ WriteResumed(w)    \/ PersistResumed(w)
    \/ MarkResumed(w)

Next == \E w \in Worker : Continue(w) \/ \E r \in Run : Request(w, r)

Spec == Init /\ [][Next]_vars

-----------------------------------------------------------------------------
Known(r) == run[r] # None
Quiet(r) == Known(r) /\ \A w \in Worker : job[w].run # r

(* Human in the loop: the tool calls of a run, planned while it waits, are *)
(* completed only if somebody's approval of that very run is in the audit  *)
(* log, and a run or a persisted row carries no verdict nobody recorded.   *)
(* True of any interleaving of the handlers.                               *)
VerdictRecorded(r, record) ==
    /\ record.tools = "completed" => "approved" \in audit[r]
    /\ record.status = "completed" => "approved" \in audit[r]
    /\ record.approval \in Decision => record.approval \in audit[r]

NoOutcomeWithoutDecision ==
    \A r \in Run : /\ run[r] # None => VerdictRecorded(r, run[r])
                   /\ db[r] # None => VerdictRecorded(r, db[r])

OneAtATime == deployment.threads = 1

(* With handlers that do not overlap, task, run and table agree once the   *)
(* handler that touched them is done: the run's approval_status says of a  *)
(* closed task how it was closed and of an open one "pending" (Docs/       *)
(* approval-state-machine.md), a decision has reached the table, so that   *)
(* no restart finds the run undecided, and "approved decisions complete    *)
(* the run" (agent-platform-api/README.md).                                *)
RunAgreesInTurn ==
    OneAtATime => \A r \in Run : Quiet(r) =>
        /\ run[r].approval = IF task[r] \in Terminal THEN task[r] ELSE "pending"
        /\ task[r] \in Decision => db[r].approval = task[r]
        /\ task[r] = "approved" => run[r].status = "completed"

(* A task in a terminal state "cannot be revived" (runtime.py): it never   *)
(* leaves that state, unless handlers overlap and one stores the copy of   *)
(* it that it read before.                                                 *)
OnlyOverlapRevives ==
    [][OneAtATime => \A r \in Run : task[r] \in Terminal => task'[r] = task[r]]_vars
=============================================================================
