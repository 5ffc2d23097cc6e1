-------------------------- MODULE ApprovalDelegation --------------------------
(***************************************************************************)
(* The platform with APPROVAL_SERVICE_URL set: the approval-service owns   *)
(* the tasks, the platform owns the runs.  The platform keeps a shadow of  *)
(* every task, which the service's answers and the legacy endpoints write; *)
(* it lives in memory and with it the counters run and task ids are made   *)
(* from, so a restarted platform hands out ids the service has seen.       *)
(*                                                                         *)
(* A handler is the list of steps it has yet to take (todo).  A call to    *)
(* the service is one step: how the service's own threads interleave is    *)
(* ApprovalService, how the platform's interleave inside one of these      *)
(* steps is AgentRuns.  The timeout of a call is not caught: the request   *)
(* is answered 500 and what was left of the handler is not done, whether   *)
(* or not the service has applied the call.                                *)
(***************************************************************************)
EXTENDS Integers, Sequences, FiniteSets

CONSTANTS MaxRuns,       \* bound: runs a platform creates between restarts
          MaxThreads,    \* bound: threads of the platform's handler pool
          None,
          Deployments    \* the ways the platform may be set up and used

(* threads: handlers and sweeps in progress at a time; timeouts: may a call to the    *)
(* service go unanswered; local: are the legacy endpoints and the sweep    *)
(* used?  Bounds: restarts of the platform, runs it creates between them.  *)
ASSUME BoundsAssumption == MaxRuns \in Nat /\ MaxThreads \in Nat
ASSUME DeploymentsAssumption ==
    Deployments \subseteq [threads : 1 .. MaxThreads, timeouts : BOOLEAN,
                           local : BOOLEAN, restarts : Nat, runs : 0 .. MaxRuns]

RunId == 1 .. MaxRuns
TaskId == 1 .. MaxRuns
Worker == 1 .. MaxThreads

Decided == {"approved", "rejected"}
Terminal == Decided \cup {"expired"}
Decidable == {"pending", "transferred", "escalated"}
Status == Terminal \cup Decidable \cup {"supplement_pending", "pending_supplement"}

Row == [run : RunId, status : Status]
RunRecord == [status   : {"waiting_approval", "completed", "failed"},
              approval : {"pending", "not_required", "expired"} \cup Decided]

ASSUME NoneAssumption == None \notin Row \cup RunRecord \cup TaskId

VARIABLES deployment, \* the deployment this is
          service,    \* TaskId -> the approval-service's row, or None
          shadow,     \* TaskId -> the platform's copy of the task, or None
          run,        \* RunId -> the run, or None
          db,         \* RunId -> its row of agent_runs, or None
          count,      \* [runs, tasks]: run_count and approval_task_count
          job,        \* Worker -> the handler it is in
          sweep,      \* the escalation sweep: tasks to look at, copy to write
          life        \* restarts so far

vars == <<deployment, service, shadow, run, db, count, job, sweep, life>>

Idle == [todo |-> << >>, task |-> None, row |-> None]
Asleep == [left |-> {}, task |-> None, row |-> None]

Init == /\ deployment \in Deployments
        /\ service = [t \in TaskId |-> None]
        /\ shadow = [t \in TaskId |-> None]
        /\ run = [r \in RunId |-> None]
        /\ db = [r \in RunId |-> None]
        /\ count = [runs |-> 0, tasks |-> 0]
        /\ job = [w \in Worker |-> Idle]
        /\ sweep = Asleep
        /\ life = 0

-----------------------------------------------------------------------------
InProgress == Cardinality({w \in Worker : job[w] # Idle}) + (IF sweep = Asleep THEN 0 ELSE 1)
CanStart(w) == w <= deployment.threads /\ job[w] = Idle /\ InProgress < deployment.threads
Begin(w, todo, t, row) == job' = [job EXCEPT ![w] = [todo |-> todo, task |-> t, row |-> row]]
Continue(w) ==
    job' = [job EXCEPT ![w] = IF Len(@.todo) = 1 THEN Idle ELSE [@ EXCEPT !.todo = Tail(job[w].todo)]]
At(w, step) == job[w] # Idle /\ Head(job[w].todo) = step

(* create_run: the run, and for templates that require approval its task.  *)
NewRun(approval) == IF approval THEN [status |-> "waiting_approval", approval |-> "pending"]
                    ELSE [status |-> "completed", approval |-> "not_required"]

CreateRun(w, approval) ==
    LET r == count.runs + 1
        t == count.tasks + 1
        row == [run |-> r, status |-> "pending"]
    IN  /\ CanStart(w) /\ count.runs < deployment.runs
        /\ run' = [run EXCEPT ![r] = NewRun(approval)]
        /\ IF approval
           THEN /\ count' = [runs |-> r, tasks |-> t]
                /\ shadow' = [shadow EXCEPT ![t] = row]
                /\ Begin(w, <<"post", "persist_new">>, t, row)
           ELSE /\ count' = [count EXCEPT !.runs = r]
                /\ Begin(w, <<"persist_new">>, None, row)
                /\ UNCHANGED shadow
        /\ UNCHANGED <<deployment, service, db, sweep, life>>

(* create_task: the service's 409 for an id it knows is ignored.           *)
PostTask(w) ==
    /\ At(w, "post")
    /\ service' = [service EXCEPT ![job[w].task] = IF @ = None THEN job[w].row ELSE @]
    /\ Continue(w)
    /\ UNCHANGED <<deployment, shadow, run, db, count, sweep, life>>

(* What is persisted is the run as it was created.                         *)
PersistNew(w) ==
    /\ At(w, "persist_new")
    /\ db' = [db EXCEPT ![job[w].row.run] = NewRun(job[w].task # None)]
    /\ Continue(w)
    /\ UNCHANGED <<deployment, service, shadow, run, count, sweep, life>>

-----------------------------------------------------------------------------
(* A call the service accepts: it stores the row and answers with it.      *)
Call(w, t, status, todo) ==
    LET row == [service[t] EXCEPT !.status = status]
    IN  /\ service' = [service EXCEPT ![t] = row]
        /\ Begin(w, todo, t, row)
        /\ UNCHANGED <<deployment, shadow, run, db, count, sweep, life>>

DecideTodo == <<"apply", "mirror", "persist">>
DecideRefusedToo(w, t, decision) ==   \* mutant: the answer's status is not looked at
    /\ CanStart(w) /\ service[t] # None
    /\ IF service[t].status \in Decidable THEN Call(w, t, decision, DecideTodo)
       ELSE /\ Begin(w, DecideTodo, t, [service[t] EXCEPT !.status = decision])
            /\ UNCHANGED <<deployment, service, shadow, run, db, count, sweep, life>>
DecideNoEffect(w, t, decision) ==   \* mutant: the run's side effect is left to the service
    /\ CanStart(w) /\ service[t] # None /\ service[t].status \in Decidable
    /\ Call(w, t, decision, <<"mirror", "persist">>)

(* POST /approval-tasks/{id}/decision; unknown and undecidable tasks are   *)
(* refused by the service and nothing is done.                             *)
Decide(w, t, decision) ==
    /\ CanStart(w) /\ service[t] # None
    /\ service[t].status \in Decidable
    /\ Call(w, t, decision, DecideTodo)

(* The governance endpoints: supplement, resolve, transfer, escalate.      *)
SupplementGovernance(w, t) ==
    /\ CanStart(w) /\ service[t] # None /\ service[t].status = "pending"
    /\ Call(w, t, "supplement_pending", <<"mirror">>)
SupplementResolve(w, t) ==
    /\ CanStart(w) /\ service[t] # None /\ service[t].status = "supplement_pending"
    /\ Call(w, t, "pending", <<"mirror">>)
TransferGovernance(w, t) ==
    /\ CanStart(w) /\ service[t] # None /\ service[t].status \notin Terminal
    /\ Call(w, t, "transferred", <<"mirror">>)
EscalateGovernance(w, t) ==
    /\ CanStart(w) /\ service[t] # None /\ service[t].status \notin Terminal
    /\ Call(w, t, "escalated", <<"mirror">>)

(* apply_decision_run_effect: a run this process does not know is skipped. *)
Outcome(decision) == [status   |-> IF decision = "approved" THEN "completed" ELSE "failed",
                      approval |-> decision]

ApplyDecision(w) ==
    LET r == job[w].row.run
    IN  /\ At(w, "apply")
        /\ run' = [run EXCEPT ![r] = IF @ = None THEN None ELSE Outcome(job[w].row.status)]
        /\ Continue(w)
        /\ UNCHANGED <<deployment, service, shadow, db, count, sweep, life>>

SyncOpenOnly(w) ==   \* mutant: a closed answer is not mirrored
    /\ (At(w, "mirror") \/ At(w, "write"))
    /\ shadow' = [shadow EXCEPT ![job[w].task] =
                      IF job[w].row.status \in Terminal THEN @ ELSE job[w].row]
    /\ Continue(w)
    /\ UNCHANGED <<deployment, service, run, db, count, sweep, life>>

(* _sync_task_locally, and the last line of every legacy handler.          *)
SyncTask(w) ==
    /\ (At(w, "mirror") \/ At(w, "write"))
    /\ shadow' = [shadow EXCEPT ![job[w].task] = job[w].row]
    /\ Continue(w)
    /\ UNCHANGED <<deployment, service, run, db, count, sweep, life>>

(* The run is read again and its row written.                              *)
PersistRun(w) ==
    LET r == job[w].row.run
    IN  /\ At(w, "persist")
        /\ db' = [db EXCEPT ![r] = IF run[r] = None THEN @ ELSE run[r]]
        /\ Continue(w)
        /\ UNCHANGED <<deployment, service, shadow, run, count, sweep, life>>

(* A call times out, before or after the service applied it.               *)
CallTimesOut(w) ==
    /\ deployment.timeouts
    /\ \/ At(w, "post")                                           \* never sent
       \/ /\ job[w].todo \in {<<"persist_new">>, DecideTodo, <<"mirror">>}
          /\ job[w].task # None                                   \* not answered
    /\ job' = [job EXCEPT ![w] = Idle]
    /\ UNCHANGED <<deployment, service, shadow, run, db, count, sweep, life>>

-----------------------------------------------------------------------------
(* The legacy endpoints know the shadow only.                              *)
Local(w, t, status, todo) ==
    /\ deployment.local
    /\ Begin(w, todo, t, [shadow[t] EXCEPT !.status = status])
    /\ UNCHANGED <<deployment, service, shadow, run, db, count, sweep, life>>

Open(t) == shadow[t] # None /\ shadow[t].status \notin Terminal

SupplementRequest(w, t) == /\ CanStart(w) /\ Open(t)
                           /\ Local(w, t, "pending_supplement", <<"write">>)
SupplementAnswer(w, t) == /\ CanStart(w) /\ Open(t)
                          /\ shadow[t].status = "pending_supplement"
                          /\ Local(w, t, "pending", <<"write">>)
RouteOrDelegate(w, t) == /\ CanStart(w) /\ Open(t)
                         /\ Local(w, t, shadow[t].status, <<"write">>)
TimeoutAny(w, t) ==   \* mutant: no _require_open
    /\ CanStart(w) /\ shadow[t] # None /\ Local(w, t, "expired", <<"write", "expire">>)
TimeoutTask(w, t) == /\ CanStart(w) /\ Open(t)
                     /\ Local(w, t, "expired", <<"write", "expire">>)

ExpireRun(w) ==
    /\ At(w, "expire")
    /\ run' = [run EXCEPT ![job[w].row.run] =
                   IF @ = None THEN None ELSE [status |-> "failed", approval |-> "expired"]]
    /\ Continue(w)
    /\ UNCHANGED <<deployment, service, shadow, db, count, sweep, life>>

(* Resume: a run that is not completed waits again; its row is written.    *)
ResumeRun(w, r) ==
    /\ deployment.local /\ CanStart(w)
    /\ run[r] # None /\ run[r].status # "completed"
    /\ run' = [run EXCEPT ![r].status = "waiting_approval"]
    /\ db' = [db EXCEPT ![r] = run'[r]]
    /\ UNCHANGED <<deployment, service, shadow, count, job, sweep, life>>

-----------------------------------------------------------------------------
(* escalate_overdue_approvals: the pending tasks of a snapshot, any of     *)
(* which may be overdue, are read again one by one and written back.       *)
StartSweep ==
    /\ deployment.local /\ sweep = Asleep /\ InProgress < deployment.threads
    /\ \E overdue \in SUBSET {t \in TaskId : shadow[t] # None /\ shadow[t].status = "pending"} :
           /\ overdue # {}
           /\ sweep' = [Asleep EXCEPT !.left = overdue]
    /\ UNCHANGED <<deployment, service, shadow, run, db, count, job, life>>

Escalated(t) == [shadow[t] EXCEPT !.status = "escalated"]

SweepRead(t) ==
    /\ t \in sweep.left /\ sweep.task = None
    /\ sweep' = IF Open(t) THEN [left |-> sweep.left \ {t}, task |-> t, row |-> Escalated(t)]
                ELSE [sweep EXCEPT !.left = @ \ {t}]
    /\ UNCHANGED <<deployment, service, shadow, run, db, count, job, life>>

SweepWrite ==
    /\ sweep.task # None
    /\ shadow' = [shadow EXCEPT ![sweep.task] = sweep.row]
    /\ sweep' = [sweep EXCEPT !.task = None, !.row = None]
    /\ UNCHANGED <<deployment, service, run, db, count, job, life>>

(* The process ends and another one starts: only tables survive.           *)
Restart ==
    /\ life < deployment.restarts
    /\ life' = life + 1
    /\ run' = [r \in RunId |-> None] /\ shadow' = [t \in TaskId |-> None]
    /\ count' = [runs |-> 0, tasks |-> 0]
    /\ job' = [w \in Worker |-> Idle] /\ sweep' = Asleep
    /\ UNCHANGED <<deployment, service, db>>

-----------------------------------------------------------------------------
Request(w) ==
    \/ \E approval \in BOOLEAN : CreateRun(w, approval)
    \/ \E t \in TaskId : \/ \E decision \in Decided : Decide(w, t, decision)
                         \/ SupplementGovernance(w, t) \/ SupplementResolve(w, t)
                         \/ TransferGovernance(w, t) \/ EscalateGovernance(w, t)
                         \/ SupplementRequest(w, t) \/ SupplementAnswer(w, t)
                         \/ RouteOrDelegate(w, t) \/ TimeoutTask(w, t)
    \/ \E r \in RunId : ResumeRun(w, r)

Serve(w) == \/ PostTask(w) \/ PersistNew(w) \/ ApplyDecision(w) \/ SyncTask(w)
            \/ PersistRun(w) \/ ExpireRun(w) \/ CallTimesOut(w)

Sweep == StartSweep \/ (\E t \in TaskId : SweepRead(t)) \/ SweepWrite

Next == \/ \E w \in Worker : Request(w) \/ Serve(w)
        \/ Sweep \/ Restart

Spec == Init /\ [][Next]_vars

(* A handler once started is run to its end.                               *)
FairSpec == Spec /\ \A w \in Worker : WF_vars(Serve(w))

-----------------------------------------------------------------------------
IsDecided(row) == row # None /\ row.status \in Decided
Quiet == InProgress = 0
Reliable == ~deployment.timeouts /\ deployment.restarts = 0 /\ ~deployment.local

(* "The service owns the state machine": no run and no persisted row shows *)
(* a decision that the service has not recorded on a task of that run id,  *)
(* whatever times out, restarts, overlaps or was expired locally.          *)
OutcomeNeedsServiceDecision ==
    \A r \in RunId : \A rec \in {run[r], db[r]} :
        rec # None /\ rec.approval \in Decided =>
            \E t \in TaskId : /\ service[t] # None /\ service[t].run = r
                              /\ service[t].status = rec.approval

(* Used through the governance endpoints by one request after the other    *)
(* the copies agree: shadow with service, run with decision, table with    *)
(* run.                                                                    *)
CopiesAgree ==
    Reliable /\ deployment.threads = 1 /\ Quiet =>
        /\ shadow = service /\ db = run
        /\ \A t \in TaskId : IsDecided(service[t]) =>
               run[service[t].run] = Outcome(service[t].status)

(* "A decision is terminal": with one handler or sweep at a time the       *)
(* shadow of a decided task never changes again while the process lives -  *)
(* not by a sweep, a legacy endpoint or a late answer.                     *)
DecidedShadowStays ==
    [][\A t \in TaskId :
           /\ deployment.threads = 1 /\ deployment.restarts = 0 /\ IsDecided(shadow[t])
           => shadow'[t] = shadow[t]]_vars

RunShowsDecision(t) ==
    /\ IsDecided(service[t])
    /\ run[service[t].run] # None
    /\ run[service[t].run].approval = service[t].status

(* While calls are answered, the process lives and nothing is done behind  *)
(* the service's back, a decision the service took reaches the run,        *)
(* whatever overlaps.                                                      *)
DecisionsReachTheirRuns ==
    \A t \in TaskId :
        Reliable /\ IsDecided(service[t])
            ~> RunShowsDecision(t)
=============================================================================
