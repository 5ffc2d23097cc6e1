--------------------------- MODULE AgentRunsProofs ---------------------------
(***************************************************************************)
(* Proofs about AgentRuns, for any number of runs and worker threads and   *)
(* every interleaving of their handlers.                                   *)
(***************************************************************************)
EXTENDS AgentRuns, FiniteSetTheorems, TLAPS

(* What a handler between two steps knows.  TypeOK alone is not inductive: *)
(* a handler builds its record from the object it holds, which must be     *)
(* there and must not say more than the audit log does.                    *)
HoldingStep == { "persist_run", "write_run_decided", "write_run_expired",
                 "write_resumed", "persist_resumed" }
DecidedStep == { "read_run_decided", "write_run_decided" }

JobOK(j) ==
    /\ run[j.run] # None
    /\ j.step \in HoldingStep => j.held # None
    /\ j.held # None => VerdictRecorded(j.run, j.held)
    /\ j.step = "write_decision" => j.status \in Decision
    /\ j.step \in DecidedStep => j.status \in Decision /\ j.status \in audit[j.run]
    /\ j.step \in {"insert_task", "reread_task", "rewrite_task"} => j.held # None
    /\ j.step \in {"write_task", "insert_task"} => j.status # None
    /\ j.step = "mark_resumed" => db[j.run] # None

RunsInv == /\ TypeOK
           /\ NoOutcomeWithoutDecision
           /\ \A r \in Run : task[r] # None => run[r] # None
           /\ \A w \in Worker : job[w] # Idle => JobOK(job[w])

(* The part of RunsInv about one handler survives a step that forgets no   *)
(* run, no row and no audit entry.                                         *)
Grows == /\ \A r \in Run : run[r] # None => run'[r] # None
         /\ \A r \in Run : db[r] # None => db'[r] # None
         /\ \A r \in Run : audit[r] \subseteq audit'[r]

LEMMA JobType ==
    ASSUME TypeOK, NEW w \in Worker, job[w] # Idle
    PROVE  /\ job[w].run \in Run
           /\ job[w].step \in Step
           /\ job[w].status \in TaskStatus \cup {None}
           /\ job[w].held \in RunRecord \cup {None}
  BY DEF TypeOK, Job

LEMMA IdleStep == Idle.step \notin Step
  BY DEF Idle, Step

LEMMA AtBusy ==
    ASSUME NEW w \in Worker, NEW s \in Step, At(w, s)
    PROVE  job[w] # Idle
  BY IdleStep DEF At

LEMMA VerdictGrows ==
    ASSUME TypeOK, Grows, NEW r \in Run, NEW rec, VerdictRecorded(r, rec)
    PROVE  VerdictRecorded(r, rec)'
  BY DEF VerdictRecorded, Grows, TypeOK

(* The handlers that did not move keep what they know. *)
LEMMA OthersKeep ==
    ASSUME RunsInv, Grows, NEW v \in Worker, job'[v] = job[v], job[v] # Idle
    PROVE  JobOK(job[v])'
  <1>1. /\ job[v].run \in Run /\ JobOK(job[v])
    BY JobType DEF RunsInv
  <1>2. job[v].held # None => VerdictRecorded(job[v].run, job[v].held)'
    BY <1>1, VerdictGrows DEF RunsInv, JobOK
  <1> QED
    BY <1>1, <1>2 DEF JobOK, Grows, VerdictRecorded, TypeOK, RunsInv

(* What is left to show of a step of worker w: the new values have their   *)
(* types, w knows what its next step needs, verdicts stay recorded.        *)
LEMMA StepKeepsInv ==
    ASSUME RunsInv, NEW w \in Worker, TypeOK', Grows,
           \A v \in Worker \ {w} : job'[v] = job[v],
           job'[w] # Idle => JobOK(job[w])',
           \A r \in Run : task'[r] # None => task[r] # None \/ run'[r] # None,
           \A r \in Run : run'[r] # None =>
               run'[r] = run[r] \/ VerdictRecorded(r, run[r])',
           \A r \in Run : db'[r] # None =>
               db'[r] = db[r] \/ VerdictRecorded(r, db[r])'
    PROVE  RunsInv'
  <1>1. \A v \in Worker : job'[v] # Idle => JobOK(job[v])'
    <2> SUFFICES ASSUME NEW v \in Worker \ {w}, job'[v] # Idle PROVE JobOK(job[v])'
      OBVIOUS
    <2> QED BY OthersKeep
  <1>2. \A r \in Run : task'[r] # None => run'[r] # None
    BY DEF RunsInv, Grows
  <1>3. NoOutcomeWithoutDecision'
    <2> SUFFICES ASSUME NEW r \in Run
                 PROVE  /\ run'[r] # None => VerdictRecorded(r, run[r])'
                        /\ db'[r] # None => VerdictRecorded(r, db[r])'
      BY DEF NoOutcomeWithoutDecision
    <2>1. /\ run[r] # None => VerdictRecorded(r, run[r])
          /\ db[r] # None => VerdictRecorded(r, db[r])
      BY DEF RunsInv, NoOutcomeWithoutDecision
    <2>2. audit[r] \subseteq audit'[r]
      BY DEF Grows
    <2> QED BY <2>1, <2>2 DEF VerdictRecorded
  <1> QED BY <1>1, <1>2, <1>3, IdleStep DEF RunsInv

-----------------------------------------------------------------------------
(* A request that only starts a handler (all but CreateRun). *)
LEMMA StartKeepsInv ==
    ASSUME RunsInv, NEW w \in Worker, NEW r \in Run, NEW s \in Step,
           NEW status \in TaskStatus \cup {None},
           run[r] # None, Begin(w, r, s, status, None),
           UNCHANGED <<deployment, task, run, db, audit>>,
           s \in {"write_task", "write_decision", "write_expiry", "resume"},
           s = "write_task" => status # None,
           s = "write_decision" => status \in Decision
    PROVE  RunsInv'
  <1>1. job' = [job EXCEPT ![w] = [run |-> r, step |-> s, status |-> status, held |-> None]]
    BY DEF Begin
  <1>2. TypeOK'
    BY <1>1 DEF RunsInv, TypeOK, Job
  <1>3. job'[w] = [run |-> r, step |-> s, status |-> status, held |-> None]
    BY <1>1 DEF RunsInv, TypeOK
  <1>4. JobOK(job[w])'
    BY <1>3 DEF JobOK, HoldingStep, DecidedStep
  <1>5. \A v \in Worker \ {w} : job'[v] = job[v]
    BY <1>1 DEF RunsInv, TypeOK
  <1> QED BY <1>2, <1>4, <1>5, StepKeepsInv DEF Grows, RunsInv

LEMMA CreateKeepsInv ==
    ASSUME RunsInv, NEW w \in Worker, NEW r \in Run, CreateRun(w, r)
    PROVE  RunsInv'
  <1>1. NewRun \in RunRecord /\ NewRun # None
    BY NoneAssumption DEF NewRun, RunRecord
  <1>2. /\ job' = [job EXCEPT ![w] =
                     [run |-> r, step |-> "insert_task", status |-> "pending", held |-> NewRun]]
        /\ run' = [run EXCEPT ![r] = NewRun]
        /\ UNCHANGED <<deployment, task, db, audit>>
    BY DEF CreateRun, Begin
  <1>3. TypeOK'
    BY <1>1, <1>2 DEF RunsInv, TypeOK, Job, Step, TaskStatus, Decidable
  <1>4. job'[w] = [run |-> r, step |-> "insert_task", status |-> "pending", held |-> NewRun]
    BY <1>2 DEF RunsInv, TypeOK
  <1>5. VerdictRecorded(r, NewRun)'
    BY DEF VerdictRecorded, NewRun, Decision
  <1>6. "pending" # None
    BY NoneAssumption DEF TaskStatus, Decidable
  <1>7. run'[r] = NewRun
    BY <1>2 DEF RunsInv, TypeOK
  <1>8. JobOK(job[w])'
    BY <1>1, <1>4, <1>5, <1>6, <1>7 DEF JobOK, HoldingStep, DecidedStep, VerdictRecorded
  <1>9. Grows
    BY <1>1, <1>2 DEF Grows, RunsInv, TypeOK
  <1>10. \A q \in Run : run'[q] = run[q] \/ VerdictRecorded(q, run[q])'
    BY <1>2, <1>5, <1>7 DEF RunsInv, TypeOK, VerdictRecorded
  <1>11. \A v \in Worker \ {w} : job'[v] = job[v]
    BY <1>2 DEF RunsInv, TypeOK
  <1> QED BY <1>2, <1>3, <1>8, <1>9, <1>10, <1>11, StepKeepsInv

LEMMA RequestKeepsInv ==
    ASSUME RunsInv, NEW w \in Worker, NEW r \in Run, Request(w, r)
    PROVE  RunsInv'
  <1>1. CASE CreateRun(w, r)
    BY <1>1, CreateKeepsInv
  <1>2. task[r] # None => run[r] # None
    BY DEF RunsInv
  <1>3. task[r] \in TaskStatus \cup {None}
    BY DEF RunsInv, TypeOK
  <1>4. \A st \in TaskStatus : st # None
    BY NoneAssumption
  <1>5. CASE \E st \in TaskStatus : task[r] # None /\ ReadTask(w, r, st)
    <2>1. PICK st \in TaskStatus : task[r] # None /\ ReadTask(w, r, st)
      BY <1>5
    <2> QED
      BY <2>1, <1>2, <1>4, StartKeepsInv DEF ReadTask, Step
  <1>6. CASE ReadToDecide(w, r)
    <2>1. PICK d \in Decision : Begin(w, r, "write_decision", d, None)
      BY <1>6 DEF ReadToDecide
    <2>2. task[r] # None
      BY <1>6, <1>4 DEF ReadToDecide, IsDecidable, TaskStatus
    <2> QED
      BY <2>1, <2>2, <1>2, <1>6, StartKeepsInv
         DEF ReadToDecide, Step, Decision, TaskStatus, Terminal
  <1>7. CASE ReadToExpire(w, r)
    BY <1>7, <1>2, StartKeepsInv DEF ReadToExpire, IsOpen, Step, TaskStatus, Terminal
  <1>8. CASE CheckResume(w, r)
    BY <1>8, StartKeepsInv DEF CheckResume, Step
  <1>9. CASE LegacyRequestSupplement(w, r) \/ LegacyAnswerSupplement(w, r)
               \/ RequestSupplement(w, r) \/ ResolveSupplement(w, r)
               \/ TransferApproval(w, r) \/ EscalateApproval(w, r)
    <2>1. "pending" \in TaskStatus /\ "supplement_pending" \in TaskStatus
            /\ "pending_supplement" \in TaskStatus /\ "transferred" \in TaskStatus
            /\ "escalated" \in TaskStatus
      BY DEF TaskStatus, Decidable
    <2> QED
      BY <1>9, <1>4, <1>5, <2>1
         DEF LegacyRequestSupplement, LegacyAnswerSupplement, RequestSupplement,
             ResolveSupplement, TransferApproval, EscalateApproval, IsOpen
  <1>10. CASE RouteOrDelegate(w, r)
    BY <1>10, <1>3, <1>5 DEF RouteOrDelegate, IsOpen
  <1> QED
    BY <1>1, <1>6, <1>7, <1>8, <1>9, <1>10 DEF Request

-----------------------------------------------------------------------------
(* Steps that change neither run, table nor log, and leave w at a step s   *)
(* about the same run (or done).                                           *)
LEMMA MoveKeepsInv ==
    ASSUME RunsInv, NEW w \in Worker, job[w] # Idle, NEW j \in Job,
           job' = [job EXCEPT ![w] = j], j # Idle => JobOK(j),
           UNCHANGED <<deployment, run, db, audit>>,
           task' \in [Run -> TaskStatus \cup {None}],
           \A r \in Run : task'[r] # None => run[r] # None
    PROVE  RunsInv'
  <1>1. job'[w] = j /\ \A v \in Worker \ {w} : job'[v] = job[v]
    BY DEF RunsInv, TypeOK
  <1>2. TypeOK'
    BY DEF RunsInv, TypeOK
  <1>3. job'[w] # Idle => JobOK(job[w])'
    BY <1>1 DEF JobOK, VerdictRecorded
  <1> QED BY <1>1, <1>2, <1>3, StepKeepsInv DEF Grows, RunsInv

(* Steps that store a record into the table. *)
LEMMA PersistKeepsInv ==
    ASSUME RunsInv, NEW w \in Worker, NEW r \in Run, NEW j \in Job,
           job' = [job EXCEPT ![w] = j], j # Idle => JobOK(j)',
           NEW rec \in RunRecord, VerdictRecorded(r, rec),
           db' = [db EXCEPT ![r] = rec], UNCHANGED <<deployment, task, run, audit>>
    PROVE  RunsInv'
  <1>1. rec # None
    BY NoneAssumption
  <1>2. job'[w] = j /\ \A v \in Worker \ {w} : job'[v] = job[v]
    BY DEF RunsInv, TypeOK
  <1>3. db'[r] = rec /\ \A q \in Run \ {r} : db'[q] = db[q]
    BY <1>1 DEF RunsInv, TypeOK
  <1>4. TypeOK'
    BY <1>1 DEF RunsInv, TypeOK
  <1>5. Grows
    BY <1>1, <1>3 DEF Grows
  <1>6. job'[w] # Idle => JobOK(job[w])'
    BY <1>2 DEF JobOK, VerdictRecorded
  <1>7. VerdictRecorded(r, db[r])'
    BY <1>3 DEF VerdictRecorded
  <1> QED
    BY <1>2, <1>3, <1>4, <1>5, <1>6, <1>7, StepKeepsInv DEF RunsInv

(* Steps that store a record into the dictionary of runs. *)
LEMMA StoreRunKeepsInv ==
    ASSUME RunsInv, NEW w \in Worker, NEW r \in Run, NEW j \in Job,
           job' = [job EXCEPT ![w] = j], j # Idle => JobOK(j)',
           NEW rec \in RunRecord, VerdictRecorded(r, rec),
           run' = [run EXCEPT ![r] = rec], UNCHANGED <<deployment, task, db, audit>>
    PROVE  RunsInv'
  <1>1. rec # None
    BY NoneAssumption
  <1>2. job'[w] = j /\ \A v \in Worker \ {w} : job'[v] = job[v]
    BY DEF RunsInv, TypeOK
  <1>3. run'[r] = rec /\ \A q \in Run \ {r} : run'[q] = run[q]
    BY <1>1 DEF RunsInv, TypeOK
  <1>4. TypeOK'
    BY <1>1 DEF RunsInv, TypeOK
  <1>5. Grows
    BY <1>1, <1>3 DEF Grows
  <1>6. job'[w] # Idle => JobOK(job[w])'
    BY <1>2 DEF JobOK, VerdictRecorded
  <1>7. VerdictRecorded(r, run[r])'
    BY <1>3 DEF VerdictRecorded
  <1> QED
    BY <1>2, <1>3, <1>4, <1>5, <1>6, <1>7, StepKeepsInv DEF RunsInv
-----------------------------------------------------------------------------
(* A handler at step s, and what GoTo, GoToHolding and a new status make   *)
(* of it: the same handler, about the same run, at step t.                 *)
BusyJob == [run : Run, step : Step, status : TaskStatus \cup {None},
            held : RunRecord \cup {None}]

LEMMA AtJob ==
    ASSUME RunsInv, NEW w \in Worker, NEW s \in Step, At(w, s)
    PROVE  /\ job[w] \in BusyJob /\ job[w] # Idle /\ job[w].step = s
           /\ job[w].run \in Run /\ JobOK(job[w]) /\ run[job[w].run] # None
  <1>1. job[w] # Idle /\ JobOK(job[w])
    BY AtBusy DEF RunsInv
  <1>2. job[w] \in BusyJob
    BY <1>1 DEF RunsInv, TypeOK, Job, BusyJob
  <1> QED BY <1>1, <1>2 DEF At, BusyJob, JobOK

LEMMA UpdatedJob ==
    ASSUME NEW j \in BusyJob, NEW t \in Step, NEW st \in TaskStatus \cup {None},
           NEW h \in RunRecord \cup {None}
    PROVE  /\ [j EXCEPT !.step = t] \in Job \ {Idle}
           /\ [j EXCEPT !.step = t, !.held = h] \in Job \ {Idle}
           /\ [j EXCEPT !.step = t, !.status = st] \in Job \ {Idle}
  BY IdleStep DEF Job, BusyJob

LEMMA GoToJob ==
    ASSUME RunsInv, NEW w \in Worker, job[w] \in BusyJob, NEW t \in Step, GoTo(w, t)
    PROVE  \E j \in Job : /\ job' = [job EXCEPT ![w] = j] /\ j # Idle
                          /\ j.run = job[w].run /\ j.step = t
                          /\ j.status = job[w].status /\ j.held = job[w].held
  <1> DEFINE k == [job[w] EXCEPT !.step = t]
  <1>1. k \in Job /\ k # Idle
    BY UpdatedJob DEF BusyJob
  <1>2. k.run = job[w].run /\ k.step = t /\ k.status = job[w].status /\ k.held = job[w].held
    BY DEF BusyJob
  <1>3. job' = [job EXCEPT ![w] = k]
    BY DEF GoTo, RunsInv, TypeOK
  <1> QED BY <1>1, <1>2, <1>3

LEMMA HoldingJob ==
    ASSUME RunsInv, NEW w \in Worker, job[w] \in BusyJob, NEW t \in Step,
           NEW h \in RunRecord \cup {None}, GoToHolding(w, t, h)
    PROVE  \E j \in Job : /\ job' = [job EXCEPT ![w] = j] /\ j # Idle
                          /\ j.run = job[w].run /\ j.step = t
                          /\ j.status = job[w].status /\ j.held = h
  <1> DEFINE k == [job[w] EXCEPT !.step = t, !.held = h]
  <1>1. k \in Job /\ k # Idle
    BY UpdatedJob DEF BusyJob
  <1>2. k.run = job[w].run /\ k.step = t /\ k.status = job[w].status /\ k.held = h
    BY DEF BusyJob
  <1>3. job' = [job EXCEPT ![w] = k]
    BY DEF GoToHolding, RunsInv, TypeOK
  <1> QED BY <1>1, <1>2, <1>3

Restating(w, t, st) == job' = [job EXCEPT ![w].step = t, ![w].status = st]

LEMMA RestatedJob ==
    ASSUME RunsInv, NEW w \in Worker, job[w] \in BusyJob, NEW t \in Step,
           NEW st \in TaskStatus \cup {None}, Restating(w, t, st)
    PROVE  \E j \in Job : /\ job' = [job EXCEPT ![w] = j] /\ j # Idle
                          /\ j.run = job[w].run /\ j.step = t
                          /\ j.status = st /\ j.held = job[w].held
  <1> DEFINE k == [job[w] EXCEPT !.step = t, !.status = st]
  <1>1. k \in Job /\ k # Idle
    BY UpdatedJob DEF BusyJob
  <1>2. k.run = job[w].run /\ k.step = t /\ k.status = st /\ k.held = job[w].held
    BY DEF BusyJob
  <1>3. job' = [job EXCEPT ![w] = k]
    BY DEF Restating, RunsInv, TypeOK
  <1> QED BY <1>1, <1>2, <1>3

-----------------------------------------------------------------------------
(* The steps of create_agent_run and of the handlers that move the task. *)
LEMMA TaskStepsKeepInv ==
    ASSUME RunsInv, NEW w \in Worker,
           InsertTask(w) \/ RereadTask(w) \/ RewriteTask(w) \/ WriteTask(w)
    PROVE  RunsInv'
  <1>1. /\ \A r \in Run : task[r] # None => run[r] # None
        /\ task \in [Run -> TaskStatus \cup {None}]
    BY DEF RunsInv, TypeOK
  <1>2. CASE InsertTask(w)
    <2>0. "reread_task" \in Step
      BY DEF Step
    <2>1. At(w, "insert_task") /\ GoTo(w, "reread_task") /\ UNCHANGED <<deployment, run, db, audit>>
          /\ task' = [task EXCEPT ![job[w].run] = "pending"]
      BY <1>2 DEF InsertTask
    <2>2. JobOK(job[w]) /\ run[job[w].run] # None /\ job[w] # Idle
          /\ job[w].run \in Run /\ job[w] \in BusyJob /\ job[w].step = "insert_task"
      BY <2>1, AtJob DEF Step
    <2>3. PICK j \in Job : /\ job' = [job EXCEPT ![w] = j] /\ j # Idle
                          /\ j.run = job[w].run /\ j.step = "reread_task"
                          /\ j.status = job[w].status /\ j.held = job[w].held
      BY <2>1, <2>2, <2>0, GoToJob
    <2>4. JobOK(j)
      BY <2>2, <2>3 DEF JobOK, HoldingStep, DecidedStep
    <2>5. "pending" \in TaskStatus
      BY DEF TaskStatus, Decidable
    <2> QED BY <1>1, <2>1, <2>2, <2>3, <2>4, <2>5, MoveKeepsInv
  <1>3. CASE RereadTask(w)
    <2>0. "rewrite_task" \in Step
      BY DEF Step
    <2>1. At(w, "reread_task") /\ UNCHANGED <<deployment, task, run, db, audit>>
          /\ job' = [job EXCEPT ![w].step = "rewrite_task", ![w].status = task[job[w].run]]
      BY <1>3 DEF RereadTask
    <2>2. JobOK(job[w]) /\ run[job[w].run] # None /\ job[w] # Idle
          /\ job[w].run \in Run /\ job[w] \in BusyJob /\ job[w].step = "reread_task"
      BY <2>1, AtJob DEF Step
    <2>a. PICK st \in TaskStatus \cup {None} : st = task[job[w].run]
      BY <1>1, <2>2
    <2>b. Restating(w, "rewrite_task", st)
      BY <2>1, <2>a DEF Restating
    <2>3. PICK j \in Job : /\ job' = [job EXCEPT ![w] = j] /\ j # Idle
                          /\ j.run = job[w].run /\ j.step = "rewrite_task"
                          /\ j.status = st /\ j.held = job[w].held
      BY <2>0, <2>2, <2>b, RestatedJob
    <2>4. JobOK(j)
      BY <2>2, <2>3 DEF JobOK, HoldingStep, DecidedStep
    <2> QED BY <1>1, <2>1, <2>2, <2>3, <2>4, MoveKeepsInv
  <1>4. CASE RewriteTask(w)
    <2>0. "persist_run" \in Step
      BY DEF Step
    <2>1. At(w, "rewrite_task") /\ GoTo(w, "persist_run") /\ UNCHANGED <<deployment, run, db, audit>>
          /\ task' = [task EXCEPT ![job[w].run] = job[w].status]
      BY <1>4 DEF RewriteTask
    <2>2. JobOK(job[w]) /\ run[job[w].run] # None /\ job[w] # Idle
          /\ job[w].run \in Run /\ job[w] \in BusyJob /\ job[w].step = "rewrite_task"
      BY <2>1, AtJob DEF Step
    <2>3. PICK j \in Job : /\ job' = [job EXCEPT ![w] = j] /\ j # Idle
                          /\ j.run = job[w].run /\ j.step = "persist_run"
                          /\ j.status = job[w].status /\ j.held = job[w].held
      BY <2>1, <2>2, <2>0, GoToJob
    <2>4. JobOK(j)
      BY <2>2, <2>3 DEF JobOK, HoldingStep, DecidedStep
    <2> QED BY <1>1, <2>1, <2>2, <2>3, <2>4, MoveKeepsInv DEF BusyJob
  <1>5. CASE WriteTask(w)
    <2>1. At(w, "write_task") /\ UNCHANGED <<deployment, run, db, audit>>
          /\ task' = [task EXCEPT ![job[w].run] = job[w].status]
          /\ job' = [job EXCEPT ![w] = Idle]
      BY <1>5 DEF WriteTask, Answer
    <2>2. run[job[w].run] # None /\ job[w] # Idle /\ job[w] \in BusyJob
      BY <2>1, AtJob DEF Step
    <2> QED BY <1>1, <2>1, <2>2, MoveKeepsInv DEF Job, BusyJob
  <1> QED BY <1>2, <1>3, <1>4, <1>5
(* The steps that look a run up: the handler then holds what the           *)
(* dictionary holds, which says no more than the log does.                 *)
LEMMA ReadStepsKeepInv ==
    ASSUME RunsInv, NEW w \in Worker, NEW s \in Step, NEW t \in Step,
           At(w, s), GoToHolding(w, t, run[job[w].run]),
           UNCHANGED <<deployment, task, run, db, audit>>,
           t \in HoldingStep, t \in DecidedStep => s \in DecidedStep
    PROVE  RunsInv'
  <1>1. /\ job[w] \in BusyJob /\ JobOK(job[w]) /\ job[w] # Idle /\ job[w].step = s
        /\ job[w].run \in Run /\ run[job[w].run] # None
    BY AtJob
  <1>2. /\ run[job[w].run] \in RunRecord \cup {None}
        /\ VerdictRecorded(job[w].run, run[job[w].run])
    BY <1>1 DEF RunsInv, TypeOK, NoOutcomeWithoutDecision
  <1>3. PICK h \in RunRecord \cup {None} : h = run[job[w].run]
    BY <1>2
  <1>4. PICK j \in Job : /\ job' = [job EXCEPT ![w] = j] /\ j # Idle
                        /\ j.run = job[w].run /\ j.step = t
                        /\ j.status = job[w].status /\ j.held = h
    BY <1>1, <1>3, HoldingJob
  <1>5. JobOK(j)
    BY <1>1, <1>2, <1>3, <1>4 DEF JobOK, HoldingStep, DecidedStep
  <1>6. /\ \A r \in Run : task[r] # None => run[r] # None
        /\ task \in [Run -> TaskStatus \cup {None}]
    BY DEF RunsInv, TypeOK
  <1> QED BY <1>1, <1>4, <1>5, <1>6, MoveKeepsInv

LEMMA WriteDecisionKeepsInv ==
    ASSUME RunsInv, NEW w \in Worker, WriteDecision(w)
    PROVE  RunsInv'
  <1>1. /\ At(w, "write_decision") /\ GoTo(w, "read_run_decided")
        /\ task' = [task EXCEPT ![job[w].run] = job[w].status]
        /\ audit' = [audit EXCEPT ![job[w].run] = @ \cup {job[w].status}]
        /\ UNCHANGED <<deployment, run, db>>
    BY DEF WriteDecision
  <1>2. /\ job[w] \in BusyJob /\ JobOK(job[w]) /\ job[w] # Idle
        /\ job[w].step = "write_decision"
        /\ job[w].run \in Run /\ run[job[w].run] # None
    BY <1>1, AtJob DEF Step
  <1>3. "read_run_decided" \in Step
    BY DEF Step
  <1>4. PICK j \in Job : /\ job' = [job EXCEPT ![w] = j] /\ j # Idle
                        /\ j.run = job[w].run /\ j.step = "read_run_decided"
                        /\ j.status = job[w].status /\ j.held = job[w].held
    BY <1>1, <1>2, <1>3, GoToJob
  <1>5. job[w].status \in Decision
    BY <1>2 DEF JobOK
  <1>6. PICK r \in Run : r = job[w].run
    BY <1>2
  <1>7. audit'[r] = audit[r] \cup {job[w].status} /\ \A q \in Run \ {r} : audit'[q] = audit[q]
    BY <1>1, <1>6 DEF RunsInv, TypeOK
  <1>8. Grows
    BY <1>1, <1>7 DEF Grows
  <1>9. TypeOK'
    <2>1. task' \in [Run -> TaskStatus \cup {None}]
      BY <1>1, <1>2, <1>5 DEF RunsInv, TypeOK, TaskStatus, Decision, Terminal
    <2>2. audit' \in [Run -> SUBSET Decision]
      BY <1>1, <1>2, <1>5 DEF RunsInv, TypeOK
    <2> QED BY <1>1, <1>4, <2>1, <2>2 DEF RunsInv, TypeOK
  <1>10. job'[w] = j /\ \A v \in Worker \ {w} : job'[v] = job[v]
    BY <1>4 DEF RunsInv, TypeOK
  <1>11. JobOK(j)'
    <2>1. j.held # None => VerdictRecorded(r, j.held)'
      BY <1>2, <1>4, <1>6, <1>8 DEF JobOK, VerdictRecorded, Grows
    <2>2. j.status \in Decision /\ j.status \in audit'[r]
      BY <1>4, <1>5, <1>7
    <2>3. run'[r] # None
      BY <1>1, <1>2, <1>6
    <2> QED BY <1>4, <1>6, <2>1, <2>2, <2>3 DEF JobOK, HoldingStep, DecidedStep, VerdictRecorded
  <1>12. JobOK(job[w])'
    BY <1>10, <1>11 DEF JobOK, VerdictRecorded
  <1>13. \A q \in Run : task'[q] # None => task[q] # None \/ run'[q] # None
    BY <1>1, <1>2, <1>6 DEF RunsInv, TypeOK
  <1> QED BY <1>1, <1>8, <1>9, <1>10, <1>12, <1>13, StepKeepsInv DEF RunsInv

LEMMA WriteExpiryKeepsInv ==
    ASSUME RunsInv, NEW w \in Worker, WriteExpiry(w)
    PROVE  RunsInv'
  <1>1. /\ At(w, "write_expiry") /\ GoTo(w, "read_run_expired")
        /\ task' = [task EXCEPT ![job[w].run] = "expired"]
        /\ UNCHANGED <<deployment, run, db, audit>>
    BY DEF WriteExpiry
  <1>2. /\ job[w] \in BusyJob /\ JobOK(job[w]) /\ job[w] # Idle
        /\ job[w].step = "write_expiry"
        /\ job[w].run \in Run /\ run[job[w].run] # None
    BY <1>1, AtJob DEF Step
  <1>3. "read_run_expired" \in Step /\ "expired" \in TaskStatus
    BY DEF Step, TaskStatus, Terminal
  <1>4. PICK j \in Job : /\ job' = [job EXCEPT ![w] = j] /\ j # Idle
                        /\ j.run = job[w].run /\ j.step = "read_run_expired"
                        /\ j.status = job[w].status /\ j.held = job[w].held
    BY <1>1, <1>2, <1>3, GoToJob
  <1>5. JobOK(j)
    BY <1>2, <1>4 DEF JobOK, HoldingStep, DecidedStep
  <1>6. task' \in [Run -> TaskStatus \cup {None}]
    BY <1>1, <1>3 DEF RunsInv, TypeOK
  <1>7. \A r \in Run : task'[r] # None => run[r] # None
    BY <1>1, <1>2 DEF RunsInv, TypeOK
  <1> QED BY <1>1, <1>2, <1>4, <1>5, <1>6, <1>7, MoveKeepsInv
(* The records the handlers build say no more than the log does. *)
LEMMA BuiltRecords ==
    ASSUME NEW r \in Run, NEW held \in RunRecord, VerdictRecorded(r, held)
    PROVE  /\ Expired(held) \in RunRecord /\ VerdictRecorded(r, Expired(held))
           /\ Resumed(held) \in RunRecord /\ VerdictRecorded(r, Resumed(held))
           /\ [held EXCEPT !.status = "running"] \in RunRecord
           /\ VerdictRecorded(r, [held EXCEPT !.status = "running"])
           /\ \A d \in Decision : d \in audit[r] =>
                  Decided(held, d) \in RunRecord /\ VerdictRecorded(r, Decided(held, d))
  <1>1. Expired(held) \in RunRecord /\ VerdictRecorded(r, Expired(held))
    <2>1. /\ Expired(held) \in RunRecord
          /\ Expired(held).tools = held.tools /\ Expired(held).status = "failed"
          /\ Expired(held).approval = "expired"
      BY DEF Expired, RunRecord, Terminal
    <2> QED BY <2>1 DEF VerdictRecorded, Decision
  <1>2. Resumed(held) \in RunRecord /\ VerdictRecorded(r, Resumed(held))
    <2>1. /\ Resumed(held) \in RunRecord
          /\ Resumed(held).tools = "planned" /\ Resumed(held).status = "waiting_approval"
          /\ Resumed(held).approval = held.approval
      BY DEF Resumed, RunRecord
    <2> QED BY <2>1 DEF VerdictRecorded
  <1>3. LET rec == [held EXCEPT !.status = "running"]
        IN  rec \in RunRecord /\ VerdictRecorded(r, rec)
    <2> DEFINE rec == [held EXCEPT !.status = "running"]
    <2>1. /\ rec \in RunRecord
          /\ rec.tools = held.tools /\ rec.status = "running"
          /\ rec.approval = held.approval
      BY DEF RunRecord
    <2> HIDE DEF rec
    <2>2. VerdictRecorded(r, rec)
      BY <2>1 DEF VerdictRecorded
    <2> QED BY <2>1, <2>2 DEF rec
  <1>4. ASSUME NEW d \in Decision, d \in audit[r]
        PROVE  Decided(held, d) \in RunRecord /\ VerdictRecorded(r, Decided(held, d))
    <2>1. /\ Decided(held, d) \in RunRecord
          /\ Decided(held, d).tools = IF d = "approved" THEN "completed" ELSE "skipped"
          /\ Decided(held, d).status = IF d = "approved" THEN "completed" ELSE "failed"
          /\ Decided(held, d).approval = d
      BY DEF Decided, RunRecord, Decision, Terminal
    <2> QED BY <1>4, <2>1 DEF VerdictRecorded
  <1> QED BY <1>1, <1>2, <1>3, <1>4

(* The steps that store a run: what they build from the held object and    *)
(* the decision is in the log. *)
LEMMA WriteRunKeepsInv ==
    ASSUME RunsInv, NEW w \in Worker,
           WriteRunDecided(w) \/ WriteRunExpired(w) \/ WriteResumed(w)
    PROVE  RunsInv'
  <1>1. CASE WriteRunDecided(w)
    <2>1. /\ At(w, "write_run_decided") /\ GoTo(w, "read_persist")
          /\ run' = [run EXCEPT ![job[w].run] = Decided(job[w].held, job[w].status)]
          /\ UNCHANGED <<deployment, task, db, audit>>
      BY <1>1 DEF WriteRunDecided
    <2>2. /\ job[w] \in BusyJob /\ JobOK(job[w]) /\ job[w] # Idle
          /\ job[w].step = "write_run_decided" /\ job[w].run \in Run
      BY <2>1, AtJob DEF Step
    <2>3. /\ job[w].held \in RunRecord /\ VerdictRecorded(job[w].run, job[w].held)
          /\ job[w].status \in Decision /\ job[w].status \in audit[job[w].run]
      BY <2>2 DEF JobOK, HoldingStep, DecidedStep, BusyJob
    <2>4. PICK rec \in RunRecord : /\ rec = Decided(job[w].held, job[w].status)
                                  /\ VerdictRecorded(job[w].run, rec)
      BY <2>2, <2>3, BuiltRecords
    <2>5. PICK r \in Run : r = job[w].run
      BY <2>2
    <2>6. "read_persist" \in Step
      BY DEF Step
    <2>7. PICK j \in Job : /\ job' = [job EXCEPT ![w] = j] /\ j # Idle
                          /\ j.run = job[w].run /\ j.step = "read_persist"
                          /\ j.status = job[w].status /\ j.held = job[w].held
      BY <2>1, <2>2, <2>6, GoToJob
    <2>8. run' = [run EXCEPT ![r] = rec] /\ run'[r] = rec /\ rec # None
      BY <2>1, <2>4, <2>5, NoneAssumption DEF RunsInv, TypeOK
    <2>9. JobOK(j)'
      BY <2>1, <2>3, <2>5, <2>7, <2>8
         DEF JobOK, HoldingStep, DecidedStep, VerdictRecorded
    <2> QED BY <2>1, <2>4, <2>5, <2>7, <2>8, <2>9, StoreRunKeepsInv
  <1>2. CASE WriteRunExpired(w)
    <2>1. /\ At(w, "write_run_expired") /\ job' = [job EXCEPT ![w] = Idle]
          /\ run' = [run EXCEPT ![job[w].run] = Expired(job[w].held)]
          /\ UNCHANGED <<deployment, task, db, audit>>
      BY <1>2 DEF WriteRunExpired, Answer
    <2>2. /\ job[w] \in BusyJob /\ JobOK(job[w]) /\ job[w] # Idle
          /\ job[w].step = "write_run_expired" /\ job[w].run \in Run
      BY <2>1, AtJob DEF Step
    <2>3. job[w].held \in RunRecord /\ VerdictRecorded(job[w].run, job[w].held)
      BY <2>2 DEF JobOK, HoldingStep, BusyJob
    <2>4. PICK rec \in RunRecord : /\ rec = Expired(job[w].held)
                                  /\ VerdictRecorded(job[w].run, rec)
      BY <2>2, <2>3, BuiltRecords
    <2>5. PICK r \in Run : r = job[w].run
      BY <2>2
    <2>6. Idle \in Job
      BY DEF Job
    <2> QED BY <2>1, <2>4, <2>5, <2>6, StoreRunKeepsInv
  <1>3. CASE WriteResumed(w)
    <2>1. /\ At(w, "write_resumed")
          /\ GoToHolding(w, "persist_resumed", Resumed(job[w].held))
          /\ run' = [run EXCEPT ![job[w].run] = Resumed(job[w].held)]
          /\ UNCHANGED <<deployment, task, db, audit>>
      BY <1>3 DEF WriteResumed
    <2>2. /\ job[w] \in BusyJob /\ JobOK(job[w]) /\ job[w] # Idle
          /\ job[w].step = "write_resumed" /\ job[w].run \in Run
      BY <2>1, AtJob DEF Step
    <2>3. job[w].held \in RunRecord /\ VerdictRecorded(job[w].run, job[w].held)
      BY <2>2 DEF JobOK, HoldingStep, BusyJob
    <2>4. PICK rec \in RunRecord : /\ rec = Resumed(job[w].held)
                                  /\ VerdictRecorded(job[w].run, rec)
      BY <2>2, <2>3, BuiltRecords
    <2>5. PICK r \in Run : r = job[w].run
      BY <2>2
    <2>6. "persist_resumed" \in Step
      BY DEF Step
    <2>7. PICK j \in Job : /\ job' = [job EXCEPT ![w] = j] /\ j # Idle
                          /\ j.run = job[w].run /\ j.step = "persist_resumed"
                          /\ j.status = job[w].status /\ j.held = rec
      BY <2>1, <2>2, <2>4, <2>6, HoldingJob
    <2>8. run' = [run EXCEPT ![r] = rec] /\ run'[r] = rec /\ rec # None
      BY <2>1, <2>4, <2>5, NoneAssumption DEF RunsInv, TypeOK
    <2>9. JobOK(j)'
      BY <2>1, <2>4, <2>5, <2>7, <2>8
         DEF JobOK, HoldingStep, DecidedStep, VerdictRecorded
    <2> QED BY <2>1, <2>4, <2>5, <2>7, <2>8, <2>9, StoreRunKeepsInv
  <1> QED BY <1>1, <1>2, <1>3

(* The steps that store a row. *)
LEMMA PersistStepsKeepInv ==
    ASSUME RunsInv, NEW w \in Worker,
           PersistRun(w) \/ PersistResumed(w) \/ MarkResumed(w)
    PROVE  RunsInv'
  <1>1. CASE PersistRun(w)
    <2>1. /\ At(w, "persist_run") /\ job' = [job EXCEPT ![w] = Idle]
          /\ db' = [db EXCEPT ![job[w].run] = job[w].held]
          /\ UNCHANGED <<deployment, task, run, audit>>
      BY <1>1 DEF PersistRun, Answer
    <2>2. /\ job[w] \in BusyJob /\ JobOK(job[w])
          /\ job[w].step = "persist_run" /\ job[w].run \in Run
      BY <2>1, AtJob DEF Step
    <2>3. job[w].held \in RunRecord /\ VerdictRecorded(job[w].run, job[w].held)
      BY <2>2 DEF JobOK, HoldingStep, BusyJob
    <2>4. PICK r \in Run, rec \in RunRecord : r = job[w].run /\ rec = job[w].held
      BY <2>2, <2>3
    <2>5. Idle \in Job
      BY DEF Job
    <2> QED BY <2>1, <2>3, <2>4, <2>5, PersistKeepsInv
  <1>2. CASE PersistResumed(w)
    <2>1. /\ At(w, "persist_resumed") /\ GoTo(w, "mark_resumed")
          /\ db' = [db EXCEPT ![job[w].run] = job[w].held]
          /\ UNCHANGED <<deployment, task, run, audit>>
      BY <1>2 DEF PersistResumed
    <2>2. /\ job[w] \in BusyJob /\ JobOK(job[w]) /\ run[job[w].run] # None
          /\ job[w].step = "persist_resumed" /\ job[w].run \in Run
      BY <2>1, AtJob DEF Step
    <2>3. job[w].held \in RunRecord /\ VerdictRecorded(job[w].run, job[w].held)
      BY <2>2 DEF JobOK, HoldingStep, BusyJob
    <2>4. PICK r \in Run, rec \in RunRecord : r = job[w].run /\ rec = job[w].held
      BY <2>2, <2>3
    <2>5. "mark_resumed" \in Step
      BY DEF Step
    <2>6. PICK j \in Job : /\ job' = [job EXCEPT ![w] = j] /\ j # Idle
                          /\ j.run = job[w].run /\ j.step = "mark_resumed"
                          /\ j.status = job[w].status /\ j.held = job[w].held
      BY <2>1, <2>2, <2>5, GoToJob
    <2>7. db' = [db EXCEPT ![r] = rec] /\ db'[r] = rec /\ rec # None
      BY <2>1, <2>4, NoneAssumption DEF RunsInv, TypeOK
    <2>8. JobOK(j)'
      BY <2>1, <2>2, <2>3, <2>4, <2>6, <2>7
         DEF JobOK, HoldingStep, DecidedStep, VerdictRecorded
    <2> QED BY <2>1, <2>3, <2>4, <2>6, <2>7, <2>8, PersistKeepsInv
  <1>3. CASE MarkResumed(w)
    <2>1. /\ At(w, "mark_resumed") /\ job' = [job EXCEPT ![w] = Idle]
          /\ db' = [db EXCEPT ![job[w].run].status = "running"]
          /\ UNCHANGED <<deployment, task, run, audit>>
      BY <1>3 DEF MarkResumed, Answer
    <2>2. /\ JobOK(job[w]) /\ job[w].step = "mark_resumed" /\ job[w].run \in Run
      BY <2>1, AtJob DEF Step
    <2>3. db[job[w].run] \in RunRecord /\ VerdictRecorded(job[w].run, db[job[w].run])
      BY <2>2 DEF JobOK, RunsInv, TypeOK, NoOutcomeWithoutDecision
    <2>4. PICK rec \in RunRecord : /\ rec = [db[job[w].run] EXCEPT !.status = "running"]
                                  /\ VerdictRecorded(job[w].run, rec)
      BY <2>2, <2>3, BuiltRecords
    <2>5. PICK r \in Run : r = job[w].run
      BY <2>2
    <2>6. db' = [db EXCEPT ![r] = rec]
      BY <2>1, <2>4, <2>5
    <2>7. Idle \in Job
      BY DEF Job
    <2> QED BY <2>1, <2>4, <2>5, <2>6, <2>7, PersistKeepsInv
  <1> QED BY <1>1, <1>2, <1>3

-----------------------------------------------------------------------------
LEMMA InitInv == Init => RunsInv
  BY NoneAssumption, IdleStep
     DEF Init, RunsInv, TypeOK, Job, NoOutcomeWithoutDecision, TaskStatus, RunRecord

LEMMA NextKeepsInv == RunsInv /\ [Next]_vars => RunsInv'
  <1> SUFFICES ASSUME RunsInv, [Next]_vars PROVE RunsInv'
    OBVIOUS
  <1>1. CASE UNCHANGED vars
    BY <1>1 DEF vars, RunsInv, TypeOK, NoOutcomeWithoutDecision, VerdictRecorded, JobOK
  <1>2. ASSUME NEW w \in Worker, NEW r \in Run, Request(w, r) PROVE RunsInv'
    BY <1>2, RequestKeepsInv
  <1>3. ASSUME NEW w \in Worker, Continue(w) PROVE RunsInv'
    <2>1. CASE ReadRunDecided(w) \/ ReadPersist(w) \/ ReadRunExpired(w) \/ ReadResumed(w)
      <3>1. /\ ReadRunDecided(w) => /\ At(w, "read_run_decided")
                                    /\ GoToHolding(w, "write_run_decided", run[job[w].run])
            /\ ReadPersist(w) => /\ At(w, "read_persist")
                                 /\ GoToHolding(w, "persist_run", run[job[w].run])
            /\ ReadRunExpired(w) => /\ At(w, "read_run_expired")
                                    /\ GoToHolding(w, "write_run_expired", run[job[w].run])
            /\ ReadResumed(w) => /\ At(w, "resume")
                                 /\ GoToHolding(w, "write_resumed", run[job[w].run])
            /\ UNCHANGED <<deployment, task, run, db, audit>>
        BY <2>1 DEF ReadRunDecided, ReadPersist, ReadRunExpired, ReadResumed
      <3>2. /\ {"read_run_decided", "write_run_decided", "read_persist", "persist_run",
                "read_run_expired", "write_run_expired", "resume", "write_resumed"}
                    \subseteq Step
            /\ {"write_run_decided", "persist_run", "write_run_expired", "write_resumed"}
                    \subseteq HoldingStep
            /\ "read_run_decided" \in DecidedStep
            /\ DecidedStep \cap {"persist_run", "write_run_expired", "write_resumed"} = {}
        BY DEF Step, HoldingStep, DecidedStep
      <3> QED BY <2>1, <3>1, <3>2, ReadStepsKeepInv
    <2>2. CASE InsertTask(w) \/ RereadTask(w) \/ RewriteTask(w) \/ WriteTask(w)
      BY <2>2, TaskStepsKeepInv
    <2>3. CASE WriteRunDecided(w) \/ WriteRunExpired(w) \/ WriteResumed(w)
      BY <2>3, WriteRunKeepsInv
    <2>4. CASE PersistRun(w) \/ PersistResumed(w) \/ MarkResumed(w)
      BY <2>4, PersistStepsKeepInv
    <2> QED
      BY <1>3, <2>1, <2>2, <2>3, <2>4, WriteDecisionKeepsInv, WriteExpiryKeepsInv
         DEF Continue
  <1> QED BY <1>1, <1>2, <1>3 DEF Next

THEOREM RunsInvariant == Spec => []RunsInv
  <1> QED BY InitInv, NextKeepsInv, PTL DEF Spec

(* The dictionaries, the table, the log and the handlers have their types, *)
(* in every interleaving of the handlers of runtime.py and app.py.         *)
THEOREM TypeCorrect == Spec => []TypeOK
  <1>1. RunsInv => TypeOK
    BY DEF RunsInv
  <1> QED BY <1>1, RunsInvariant, PTL

(* No run and no persisted row shows a verdict, or completed tool calls,   *)
(* that no decision in the audit log accounts for: whatever the number of  *)
(* threads and however decide, timeout and resume interleave.              *)
THEOREM OutcomesNeedDecisions == Spec => []NoOutcomeWithoutDecision
  <1>1. RunsInv => NoOutcomeWithoutDecision
    BY DEF RunsInv
  <1> QED BY <1>1, RunsInvariant, PTL

-----------------------------------------------------------------------------
(* Handlers that do not overlap.  RunAgreesInTurn speaks of a run nobody   *)
(* works on and is not inductive: a handler gets there step by step.  Here *)
(* t is the status of a task, x its run, y the run's row and j a handler   *)
(* that is at work on it, the only one at work at all.                     *)
RunShows(t, x) == /\ x.approval = IF t \in Terminal THEN t ELSE "pending"
                  /\ t = "approved" => x.status = "completed"
RowShows(t, y) == t \in Decision => y.approval = t

UndecidedStep == { "insert_task", "reread_task", "rewrite_task",
                   "write_task", "write_decision", "write_expiry" }
OpeningStep == { "insert_task", "rewrite_task", "write_task" }
ExpiredStep == { "read_run_expired", "write_run_expired" }
FreshStep == { "insert_task", "reread_task", "rewrite_task", "persist_run",
               "write_resumed", "persist_resumed" }

BetweenSteps(j, t, x, y) ==
    /\ j.step \in UndecidedStep => t \notin Terminal
    /\ j.step \in OpeningStep => j.status \notin Terminal
    /\ j.step \in DecidedStep => t = j.status
    /\ j.step \in ExpiredStep => t = "expired"
    /\ j.step \in FreshStep => j.held = x
    /\ j.step \in {"resume", "write_resumed"} => x.status # "completed"
    /\ j.step \notin DecidedStep \cup ExpiredStep => RunShows(t, x)
    /\ j.step \notin DecidedStep \cup ExpiredStep \cup {"read_persist", "persist_run"}
           => RowShows(t, y)

OnlyOneBusy == \A w, v \in Worker : job[w] # Idle /\ job[v] # Idle => w = v

InTurn == /\ OnlyOneBusy
          /\ \A r \in Run : Quiet(r) => RunShows(task[r], run[r]) /\ RowShows(task[r], db[r])
          /\ \A w \in Worker : job[w] # Idle =>
                 BetweenSteps(job[w], task[job[w].run], run[job[w].run], db[job[w].run])

TurnInv == RunsInv /\ (OneAtATime => InTurn)

(* What is left to show of a step of w, at work on r before it or after. *)
LEMMA TurnKept ==
    ASSUME TurnInv, OneAtATime, NEW w \in Worker, NEW r \in Run, NEW k,
           job'[w] = k, \A v \in Worker \ {w} : job[v] = Idle /\ job'[v] = Idle,
           \A q \in Run \ {r} : task'[q] = task[q] /\ run'[q] = run[q] /\ db'[q] = db[q],
           job[w] = Idle \/ job[w].run = r,
           k # Idle => k.run = r /\ BetweenSteps(k, task'[r], run'[r], db'[r]),
           k = Idle => RunShows(task'[r], run'[r]) /\ RowShows(task'[r], db'[r])
    PROVE  InTurn'
  <1>1. \A q \in Run : q # Idle.run
    BY NoneAssumption DEF Idle
  <1>2. OnlyOneBusy'
    BY IdleStep DEF OnlyOneBusy, Idle
  <1>3. ASSUME NEW q \in Run, Quiet(q)'
        PROVE  RunShows(task'[q], run'[q]) /\ RowShows(task'[q], db'[q])
    <2>1. CASE q = r
      BY <1>3, <2>1 DEF Quiet
    <2>2. CASE q # r
      <3>1. Quiet(q)
        BY <1>1, <1>3, <2>2 DEF Quiet, Known
      <3> QED BY <2>2, <3>1 DEF TurnInv, InTurn
    <2> QED BY <2>1, <2>2
  <1>4. ASSUME NEW v \in Worker, job'[v] # Idle
        PROVE  BetweenSteps(job'[v], task'[job'[v].run], run'[job'[v].run], db'[job'[v].run])
    BY <1>4
  <1> QED BY <1>2, <1>3, <1>4, IdleStep DEF InTurn, Idle

(* A handler takes a request when nobody is at work. *)
LEMMA NobodyElse ==
    ASSUME TurnInv, OneAtATime, NEW w \in Worker, job[w] = Idle,
           Cardinality({v \in Worker : job[v] # Idle}) < deployment.threads
    PROVE  \A v \in Worker : job[v] = Idle
  <1> SUFFICES ASSUME NEW u \in Worker, job[u] # Idle PROVE FALSE
    OBVIOUS
  <1>1. {v \in Worker : job[v] # Idle} = {u}
    BY DEF TurnInv, InTurn, OnlyOneBusy
  <1>2. Cardinality({v \in Worker : job[v] # Idle}) = 1
    BY <1>1, FS_Singleton
  <1> QED BY <1>2 DEF OneAtATime

LEMMA BegunInTurn ==
    ASSUME TurnInv, OneAtATime, NEW w \in Worker, NEW r \in Run, NEW s \in Step,
           NEW status, NEW held, Begin(w, r, s, status, held)
    PROVE  /\ \A v \in Worker : job[v] = Idle
           /\ \A v \in Worker \ {w} : job'[v] = Idle
           /\ job'[w] = [run |-> r, step |-> s, status |-> status, held |-> held]
           /\ run[r] # None => RunShows(task[r], run[r]) /\ RowShows(task[r], db[r])
  <1>1. \A v \in Worker : job[v] = Idle
    BY NobodyElse DEF Begin
  <1>2. Known(r) => Quiet(r)
    BY <1>1, NoneAssumption DEF Quiet, Idle
  <1> QED BY <1>1, <1>2 DEF Begin, Known, TurnInv, RunsInv, TypeOK, InTurn

LEMMA StartInTurn ==
    ASSUME TurnInv, OneAtATime, NEW w \in Worker, NEW r \in Run, NEW s \in Step, NEW status,
           Begin(w, r, s, status, None), UNCHANGED <<task, run, db>>, run[r] # None,
           s \in {"write_task", "write_decision", "write_expiry", "resume"},
           s # "resume" => task[r] \notin Terminal,
           s = "write_task" => status \notin Terminal,
           s = "resume" => run[r].status # "completed"
    PROVE  InTurn'
  <1> DEFINE k == [run |-> r, step |-> s, status |-> status, held |-> None]
  <1>1. /\ \A v \in Worker : job[v] = Idle
        /\ \A v \in Worker \ {w} : job'[v] = Idle
        /\ job'[w] = k
        /\ RunShows(task[r], run[r]) /\ RowShows(task[r], db[r])
    BY BegunInTurn
  <1>2. k.step = s /\ k.status = status /\ k.run = r
    OBVIOUS
  <1>3. k # Idle
    BY <1>2, IdleStep
  <1> HIDE DEF k
  <1>4. BetweenSteps(k, task[r], run[r], db[r])
    BY <1>1, <1>2 DEF BetweenSteps, UndecidedStep, OpeningStep, DecidedStep, ExpiredStep, FreshStep
  <1> QED BY <1>1, <1>2, <1>3, <1>4, TurnKept

LEMMA CreateInTurn ==
    ASSUME TurnInv, OneAtATime, NEW w \in Worker, NEW r \in Run, CreateRun(w, r)
    PROVE  InTurn'
  <1> DEFINE k == [run |-> r, step |-> "insert_task", status |-> "pending", held |-> NewRun]
  <1>1. /\ run[r] = None /\ Begin(w, r, "insert_task", "pending", NewRun)
        /\ run' = [run EXCEPT ![r] = NewRun] /\ UNCHANGED <<task, db>> /\ "insert_task" \in Step
    BY DEF CreateRun, Step
  <1>2. /\ \A v \in Worker : job[v] = Idle
        /\ \A v \in Worker \ {w} : job'[v] = Idle
        /\ job'[w] = k
    BY <1>1, BegunInTurn
  <1>3. k.step = "insert_task" /\ k.status = "pending" /\ k.run = r /\ k.held = NewRun
    OBVIOUS
  <1>4. k # Idle
    BY <1>3, IdleStep DEF Step
  <1> HIDE DEF k
  <1>5. run'[r] = NewRun /\ \A q \in Run \ {r} : run'[q] = run[q]
    BY <1>1 DEF TurnInv, RunsInv, TypeOK
  <1>6. task[r] = None /\ None \notin Terminal
    BY <1>1, NoneAssumption DEF TurnInv, RunsInv, TaskStatus
  <1>7. RunShows(task[r], NewRun) /\ RowShows(task[r], db[r])
    BY <1>6 DEF RunShows, RowShows, NewRun, Terminal, Decision
  <1>8. BetweenSteps(k, task[r], NewRun, db[r])
    BY <1>3, <1>6, <1>7
       DEF BetweenSteps, UndecidedStep, OpeningStep, DecidedStep, ExpiredStep, FreshStep, Terminal
  <1> QED BY <1>1, <1>2, <1>3, <1>4, <1>5, <1>8, TurnKept

LEMMA RequestInTurn ==
    ASSUME TurnInv, OneAtATime, NEW w \in Worker, NEW r \in Run, Request(w, r)
    PROVE  InTurn'
  <1>1. CASE CreateRun(w, r)
    BY <1>1, CreateInTurn
  <1>2. task[r] # None => run[r] # None
    BY DEF TurnInv, RunsInv
  <1>3. None \notin TaskStatus
    BY NoneAssumption
  <1>4. ASSUME NEW st, st \notin Terminal, IsOpen(r), ReadTask(w, r, st) PROVE InTurn'
    BY <1>2, <1>4, StartInTurn DEF ReadTask, IsOpen, Step
  <1>5. Decidable \cup {"pending_supplement", "supplement_pending"} \subseteq TaskStatus \ Terminal
    BY DEF Decidable, TaskStatus, Terminal
  <1>6. CASE \/ LegacyRequestSupplement(w, r) \/ LegacyAnswerSupplement(w, r)
             \/ RequestSupplement(w, r) \/ ResolveSupplement(w, r)
             \/ TransferApproval(w, r) \/ EscalateApproval(w, r)
    BY <1>3, <1>4, <1>5, <1>6
       DEF LegacyRequestSupplement, LegacyAnswerSupplement, RequestSupplement,
           ResolveSupplement, TransferApproval, EscalateApproval, IsOpen, Decidable
  <1>7. CASE RouteOrDelegate(w, r)
    BY <1>4, <1>7 DEF RouteOrDelegate, IsOpen
  <1>8. CASE ReadToDecide(w, r)
    <2>1. PICK d \in Decision : Begin(w, r, "write_decision", d, None)
      BY <1>8 DEF ReadToDecide
    <2>2. task[r] # None /\ task[r] \notin Terminal /\ UNCHANGED <<task, run, db>>
      BY <1>3, <1>5, <1>8 DEF ReadToDecide, IsDecidable
    <2> QED BY <1>2, <2>1, <2>2, StartInTurn DEF Step
  <1>9. CASE ReadToExpire(w, r)
    BY <1>2, <1>9, StartInTurn DEF ReadToExpire, IsOpen, Step
  <1>10. CASE CheckResume(w, r)
    BY <1>10, StartInTurn DEF CheckResume, Step
  <1> QED BY <1>1, <1>6, <1>7, <1>8, <1>9, <1>10 DEF Request

-----------------------------------------------------------------------------
(* A step of the handler of w, about run r: nobody else is at work, and k  *)
(* is what the handler does next.                                          *)

LEMMA AtInTurn ==
    ASSUME TurnInv, OneAtATime, NEW w \in Worker, NEW s \in Step, At(w, s)
    PROVE  \E r \in Run : /\ r = job[w].run /\ job[w].step = s
                          /\ BetweenSteps(job[w], task[r], run[r], db[r])
                          /\ JobOK(job[w])
                          /\ job[w] # Idle /\ \A v \in Worker \ {w} : job[v] = Idle
  <1>1. job[w] # Idle /\ job[w].run \in Run /\ job[w].step = s /\ JobOK(job[w])
    BY AtJob DEF TurnInv
  <1> QED BY <1>1 DEF TurnInv, InTurn, OnlyOneBusy

(* The steps of w that only move its handler, or write one entry about r. *)
LEMMA GoToDoes ==
    ASSUME RunsInv, NEW w \in Worker, NEW s \in Step, At(w, s), NEW t \in Step, GoTo(w, t)
    PROVE  /\ job'[w] # Idle /\ job'[w].run = job[w].run /\ job'[w].step = t
           /\ job'[w].status = job[w].status /\ job'[w].held = job[w].held
           /\ \A v \in Worker \ {w} : job'[v] = job[v]
  <1>1. PICK k \in Job : /\ job' = [job EXCEPT ![w] = k] /\ k # Idle
                         /\ k.run = job[w].run /\ k.step = t
                         /\ k.status = job[w].status /\ k.held = job[w].held
    BY AtJob, GoToJob
  <1> QED BY <1>1 DEF RunsInv, TypeOK

LEMMA GoToHoldingDoes ==
    ASSUME RunsInv, NEW w \in Worker, NEW s \in Step, At(w, s), NEW t \in Step,
           NEW h \in RunRecord \cup {None}, GoToHolding(w, t, h)
    PROVE  /\ job'[w] # Idle /\ job'[w].run = job[w].run /\ job'[w].step = t
           /\ job'[w].status = job[w].status /\ job'[w].held = h
           /\ \A v \in Worker \ {w} : job'[v] = job[v]
  <1>1. PICK k \in Job : /\ job' = [job EXCEPT ![w] = k] /\ k # Idle
                         /\ k.run = job[w].run /\ k.step = t
                         /\ k.status = job[w].status /\ k.held = h
    BY AtJob, HoldingJob
  <1> QED BY <1>1 DEF RunsInv, TypeOK

LEMMA AnswerDoes ==
    ASSUME RunsInv, NEW w \in Worker, Answer(w)
    PROVE  job'[w] = Idle /\ \A v \in Worker \ {w} : job'[v] = job[v]
  BY DEF Answer, RunsInv, TypeOK

LEMMA TaskInTurn ==
    ASSUME TurnInv, OneAtATime, NEW w \in Worker,
           InsertTask(w) \/ RereadTask(w) \/ RewriteTask(w) \/ WriteTask(w)
    PROVE  InTurn' /\ \A r \in Run : task[r] \in Terminal => task'[r] = task[r]
  <1> USE DEF UndecidedStep, OpeningStep, DecidedStep, ExpiredStep, FreshStep, HoldingStep
  <1>0. RunsInv /\ task \in [Run -> TaskStatus \cup {None}]
    BY DEF TurnInv, RunsInv, TypeOK
  <1>1. CASE InsertTask(w)
    <2>1. /\ At(w, "insert_task") /\ GoTo(w, "reread_task") /\ UNCHANGED <<run, db>>
          /\ task' = [task EXCEPT ![job[w].run] = "pending"]
          /\ {"insert_task", "reread_task"} \subseteq Step
      BY <1>1 DEF InsertTask, Step
    <2>2. PICK r \in Run : /\ r = job[w].run /\ job[w].step = "insert_task"
                           /\ BetweenSteps(job[w], task[r], run[r], db[r])
                           /\ job[w] # Idle /\ \A v \in Worker \ {w} : job[v] = Idle
      BY <2>1, AtInTurn
    <2>3. /\ job'[w] # Idle /\ job'[w].run = r /\ job'[w].step = "reread_task"
          /\ job'[w].held = job[w].held /\ \A v \in Worker \ {w} : job'[v] = job[v]
      BY <1>0, <2>1, <2>2, GoToDoes
    <2>4. task'[r] = "pending" /\ \A q \in Run \ {r} : task'[q] = task[q]
      BY <1>0, <2>1, <2>2
    <2>5. RunShows("pending", run[r]) /\ RowShows("pending", db[r])
      BY <2>2 DEF BetweenSteps, RunShows, RowShows, Terminal, Decision
    <2>6. BetweenSteps(job'[w], task'[r], run[r], db[r])
      BY <2>2, <2>3, <2>4, <2>5 DEF BetweenSteps, Terminal
    <2>7. InTurn'
      BY <2>1, <2>2, <2>3, <2>4, <2>6, TurnKept
    <2>8. task[r] \notin Terminal
      BY <2>2 DEF BetweenSteps
    <2> QED BY <2>4, <2>7, <2>8
  <1>2. CASE RereadTask(w)
    <2>1. At(w, "reread_task") /\ UNCHANGED <<task, run, db>>
          /\ job' = [job EXCEPT ![w].step = "rewrite_task", ![w].status = task[job[w].run]]
          /\ {"reread_task", "rewrite_task"} \subseteq Step
      BY <1>2 DEF RereadTask, Step
    <2>2. PICK r \in Run : /\ r = job[w].run /\ job[w].step = "reread_task"
                           /\ BetweenSteps(job[w], task[r], run[r], db[r])
                           /\ job[w] # Idle /\ \A v \in Worker \ {w} : job[v] = Idle
      BY <2>1, AtInTurn
    <2>3. PICK st \in TaskStatus \cup {None} : st = task[r]
      BY <1>0
    <2>4. PICK k \in Job : /\ job' = [job EXCEPT ![w] = k] /\ k # Idle
                           /\ k.run = job[w].run /\ k.step = "rewrite_task"
                           /\ k.status = st /\ k.held = job[w].held
      <3>1. job[w] \in BusyJob /\ "rewrite_task" \in Step
        BY <1>0, <2>1, AtJob
      <3>2. Restating(w, "rewrite_task", st)
        BY <2>1, <2>2, <2>3 DEF Restating
      <3> QED BY <1>0, <2>2, <3>1, <3>2, RestatedJob
    <2>5. job'[w] = k /\ \A v \in Worker \ {w} : job'[v] = job[v]
      BY <1>0, <2>4 DEF RunsInv, TypeOK
    <2>6. BetweenSteps(k, task[r], run[r], db[r])
      BY <2>2, <2>3, <2>4 DEF BetweenSteps
    <2>7. /\ task' = task /\ run' = run /\ db' = db
          /\ job[w] = Idle \/ job[w].run = r
          /\ \A v \in Worker \ {w} : job[v] = Idle /\ job'[v] = Idle
          /\ k.run = r /\ k # Idle
      BY <2>1, <2>2, <2>4, <2>5
    <2>8. BetweenSteps(k, task'[r], run'[r], db'[r])
      BY <2>6, <2>7
    <2>9. InTurn'
      BY <2>5, <2>7, <2>8, TurnKept
    <2> QED BY <2>7, <2>9
  <1>3. CASE RewriteTask(w)
    <2>1. /\ At(w, "rewrite_task") /\ GoTo(w, "persist_run") /\ UNCHANGED <<run, db>>
          /\ task' = [task EXCEPT ![job[w].run] = job[w].status]
          /\ {"rewrite_task", "persist_run"} \subseteq Step
      BY <1>3 DEF RewriteTask, Step
    <2>2. PICK r \in Run : /\ r = job[w].run /\ job[w].step = "rewrite_task"
                           /\ BetweenSteps(job[w], task[r], run[r], db[r])
                           /\ job[w] # Idle /\ \A v \in Worker \ {w} : job[v] = Idle
      BY <2>1, AtInTurn
    <2>3. /\ job'[w] # Idle /\ job'[w].run = r /\ job'[w].step = "persist_run"
          /\ job'[w].held = job[w].held /\ \A v \in Worker \ {w} : job'[v] = job[v]
      BY <1>0, <2>1, <2>2, GoToDoes
    <2>4. task'[r] = job[w].status /\ \A q \in Run \ {r} : task'[q] = task[q]
      BY <1>0, <2>1, <2>2
    <2>5. task[r] \notin Terminal /\ job[w].status \notin Terminal
      BY <2>2 DEF BetweenSteps
    <2>6. RunShows(task'[r], run[r])
      BY <2>2, <2>4, <2>5 DEF BetweenSteps, RunShows, Terminal
    <2>7. BetweenSteps(job'[w], task'[r], run[r], db[r])
      BY <2>2, <2>3, <2>4, <2>6 DEF BetweenSteps
    <2>8. InTurn'
      BY <2>1, <2>2, <2>3, <2>4, <2>7, TurnKept
    <2> QED BY <2>4, <2>5, <2>8
  <1>4. CASE WriteTask(w)
    <2>1. /\ At(w, "write_task") /\ Answer(w) /\ UNCHANGED <<run, db>>
          /\ task' = [task EXCEPT ![job[w].run] = job[w].status] /\ "write_task" \in Step
      BY <1>4 DEF WriteTask, Step
    <2>2. PICK r \in Run : /\ r = job[w].run /\ job[w].step = "write_task"
                           /\ BetweenSteps(job[w], task[r], run[r], db[r])
                           /\ job[w] # Idle /\ \A v \in Worker \ {w} : job[v] = Idle
      BY <2>1, AtInTurn
    <2>3. job'[w] = Idle /\ \A v \in Worker \ {w} : job'[v] = job[v]
      BY <1>0, <2>1, AnswerDoes
    <2>4. task'[r] = job[w].status /\ \A q \in Run \ {r} : task'[q] = task[q]
      BY <1>0, <2>1, <2>2
    <2>5. task[r] \notin Terminal /\ job[w].status \notin Terminal
      BY <2>2 DEF BetweenSteps
    <2>6. RunShows(task'[r], run[r]) /\ RowShows(task'[r], db[r])
      BY <2>2, <2>4, <2>5 DEF BetweenSteps, RunShows, RowShows, Terminal, Decision
    <2>7. InTurn'
      BY <2>1, <2>2, <2>3, <2>4, <2>6, TurnKept
    <2> QED BY <2>4, <2>5, <2>7
  <1> QED BY <1>1, <1>2, <1>3, <1>4

(* The decision, then the expiry, of a task that was open until then. *)
LEMMA ClosingInTurn ==
    ASSUME TurnInv, OneAtATime, NEW w \in Worker, WriteDecision(w) \/ WriteExpiry(w)
    PROVE  InTurn' /\ \A r \in Run : task[r] \in Terminal => task'[r] = task[r]
  <1> USE DEF UndecidedStep, OpeningStep, DecidedStep, ExpiredStep, FreshStep, HoldingStep
  <1>0. RunsInv /\ task \in [Run -> TaskStatus \cup {None}]
    BY DEF TurnInv, RunsInv, TypeOK
  <1>1. CASE WriteDecision(w)
    <2>1. /\ At(w, "write_decision") /\ GoTo(w, "read_run_decided") /\ UNCHANGED <<run, db>>
          /\ task' = [task EXCEPT ![job[w].run] = job[w].status]
          /\ {"write_decision", "read_run_decided"} \subseteq Step
      BY <1>1 DEF WriteDecision, Step
    <2>2. PICK r \in Run : /\ r = job[w].run /\ job[w].step = "write_decision"
                           /\ BetweenSteps(job[w], task[r], run[r], db[r])
                           /\ job[w] # Idle /\ \A v \in Worker \ {w} : job[v] = Idle
      BY <2>1, AtInTurn
    <2>3. /\ job'[w] # Idle /\ job'[w].run = r /\ job'[w].step = "read_run_decided"
          /\ job'[w].status = job[w].status /\ \A v \in Worker \ {w} : job'[v] = job[v]
      BY <1>0, <2>1, <2>2, GoToDoes
    <2>4. task'[r] = job[w].status /\ \A q \in Run \ {r} : task'[q] = task[q]
      BY <1>0, <2>1, <2>2
    <2>5. task[r] \notin Terminal
      BY <2>2 DEF BetweenSteps
    <2>6. BetweenSteps(job'[w], task'[r], run[r], db[r])
      BY <2>3, <2>4 DEF BetweenSteps
    <2>7. InTurn'
      BY <2>1, <2>2, <2>3, <2>4, <2>6, TurnKept
    <2> QED BY <2>4, <2>5, <2>7
  <1>2. CASE WriteExpiry(w)
    <2>1. /\ At(w, "write_expiry") /\ GoTo(w, "read_run_expired") /\ UNCHANGED <<run, db>>
          /\ task' = [task EXCEPT ![job[w].run] = "expired"]
          /\ {"write_expiry", "read_run_expired"} \subseteq Step
      BY <1>2 DEF WriteExpiry, Step
    <2>2. PICK r \in Run : /\ r = job[w].run /\ job[w].step = "write_expiry"
                           /\ BetweenSteps(job[w], task[r], run[r], db[r])
                           /\ job[w] # Idle /\ \A v \in Worker \ {w} : job[v] = Idle
      BY <2>1, AtInTurn
    <2>3. /\ job'[w] # Idle /\ job'[w].run = r /\ job'[w].step = "read_run_expired"
          /\ \A v \in Worker \ {w} : job'[v] = job[v]
      BY <1>0, <2>1, <2>2, GoToDoes
    <2>4. task'[r] = "expired" /\ \A q \in Run \ {r} : task'[q] = task[q]
      BY <1>0, <2>1, <2>2
    <2>5. task[r] \notin Terminal
      BY <2>2 DEF BetweenSteps
    <2>6. BetweenSteps(job'[w], task'[r], run[r], db[r])
      BY <2>3, <2>4 DEF BetweenSteps
    <2>7. InTurn'
      BY <2>1, <2>2, <2>3, <2>4, <2>6, TurnKept
    <2> QED BY <2>4, <2>5, <2>7
  <1> QED BY <1>1, <1>2

(* A handler that looks its run up then holds the run. *)
LEMMA LookUpInTurn ==
    ASSUME TurnInv, OneAtATime, NEW w \in Worker, NEW s \in Step, NEW t \in Step,
           At(w, s), GoToHolding(w, t, run[job[w].run]), UNCHANGED <<task, run, db>>,
           <<s, t>> \in { <<"read_run_decided", "write_run_decided">>,
                          <<"read_persist", "persist_run">>,
                          <<"read_run_expired", "write_run_expired">>,
                          <<"resume", "write_resumed">> }
    PROVE  InTurn'
  <1>1. PICK r \in Run : /\ r = job[w].run /\ job[w].step = s
                         /\ BetweenSteps(job[w], task[r], run[r], db[r])
                         /\ job[w] # Idle /\ \A v \in Worker \ {w} : job[v] = Idle
    BY AtInTurn
  <1>2. PICK h \in RunRecord \cup {None} : h = run[r]
    BY DEF TurnInv, RunsInv, TypeOK
  <1>3. /\ job'[w] # Idle /\ job'[w].run = r /\ job'[w].step = t
        /\ job'[w].status = job[w].status /\ job'[w].held = h
        /\ \A v \in Worker \ {w} : job'[v] = job[v]
    BY <1>1, <1>2, GoToHoldingDoes DEF TurnInv
  <1>4. BetweenSteps(job'[w], task[r], run[r], db[r])
    BY <1>1, <1>2, <1>3
       DEF BetweenSteps, UndecidedStep, OpeningStep, DecidedStep, ExpiredStep, FreshStep
  <1> QED BY <1>1, <1>3, <1>4, TurnKept

(* What the handlers build of the run they hold. *)
LEMMA BuiltShows ==
    ASSUME NEW x \in RunRecord
    PROVE  /\ \A d \in Decision : RunShows(d, Decided(x, d))
           /\ RunShows("expired", Expired(x))
           /\ Resumed(x).approval = x.approval
  <1>1. ASSUME NEW d \in Decision PROVE RunShows(d, Decided(x, d))
    BY DEF RunShows, Decided, RunRecord, Decision, Terminal
  <1>2. RunShows("expired", Expired(x))
    BY DEF RunShows, Expired, RunRecord, Terminal
  <1>3. Resumed(x).approval = x.approval
    BY DEF Resumed, RunRecord
  <1> QED BY <1>1, <1>2, <1>3

LEMMA StoreRunInTurn ==
    ASSUME TurnInv, OneAtATime, NEW w \in Worker,
           WriteRunDecided(w) \/ WriteRunExpired(w) \/ WriteResumed(w)
    PROVE  InTurn'
  <1> USE DEF UndecidedStep, OpeningStep, DecidedStep, ExpiredStep, FreshStep, HoldingStep
  <1>0. RunsInv /\ run \in [Run -> RunRecord \cup {None}]
    BY DEF TurnInv, RunsInv, TypeOK
  <1>1. CASE WriteRunDecided(w)
    <2>1. /\ At(w, "write_run_decided") /\ GoTo(w, "read_persist") /\ UNCHANGED <<task, db>>
          /\ run' = [run EXCEPT ![job[w].run] = Decided(job[w].held, job[w].status)]
          /\ {"write_run_decided", "read_persist"} \subseteq Step
      BY <1>1 DEF WriteRunDecided, Step
    <2>2. PICK r \in Run : /\ r = job[w].run /\ job[w].step = "write_run_decided"
                           /\ BetweenSteps(job[w], task[r], run[r], db[r]) /\ JobOK(job[w])
                           /\ job[w] # Idle /\ \A v \in Worker \ {w} : job[v] = Idle
      BY <2>1, AtInTurn
    <2>3. /\ job'[w] # Idle /\ job'[w].run = r /\ job'[w].step = "read_persist"
          /\ \A v \in Worker \ {w} : job'[v] = job[v]
      BY <1>0, <2>1, <2>2, GoToDoes
    <2>4. PICK x \in RunRecord, d \in Decision : x = job[w].held /\ d = job[w].status
      BY <1>0, <2>1, <2>2, AtJob DEF JobOK, BusyJob
    <2>5. run'[r] = Decided(x, d) /\ \A q \in Run \ {r} : run'[q] = run[q]
      BY <1>0, <2>1, <2>2, <2>4
    <2>6. task[r] = d
      BY <2>2, <2>4 DEF BetweenSteps
    <2>7. RunShows(task[r], run'[r])
      BY <2>5, <2>6, BuiltShows
    <2>8. BetweenSteps(job'[w], task[r], run'[r], db[r])
      BY <2>3, <2>7 DEF BetweenSteps
    <2> QED BY <2>1, <2>2, <2>3, <2>5, <2>8, TurnKept
  <1>2. CASE WriteRunExpired(w)
    <2>1. /\ At(w, "write_run_expired") /\ Answer(w) /\ UNCHANGED <<task, db>>
          /\ run' = [run EXCEPT ![job[w].run] = Expired(job[w].held)]
          /\ "write_run_expired" \in Step
      BY <1>2 DEF WriteRunExpired, Step
    <2>2. PICK r \in Run : /\ r = job[w].run /\ job[w].step = "write_run_expired"
                           /\ BetweenSteps(job[w], task[r], run[r], db[r]) /\ JobOK(job[w])
                           /\ job[w] # Idle /\ \A v \in Worker \ {w} : job[v] = Idle
      BY <2>1, AtInTurn
    <2>3. job'[w] = Idle /\ \A v \in Worker \ {w} : job'[v] = job[v]
      BY <1>0, <2>1, AnswerDoes
    <2>4. PICK x \in RunRecord : x = job[w].held
      BY <1>0, <2>1, <2>2, AtJob DEF JobOK, BusyJob
    <2>5. run'[r] = Expired(x) /\ \A q \in Run \ {r} : run'[q] = run[q]
      BY <1>0, <2>1, <2>2, <2>4
    <2>6. task[r] = "expired"
      BY <2>2 DEF BetweenSteps
    <2>7. RunShows(task[r], run'[r]) /\ RowShows(task[r], db[r])
      BY <2>5, <2>6, BuiltShows DEF RowShows, Decision
    <2> QED BY <2>1, <2>2, <2>3, <2>5, <2>7, TurnKept
  <1>3. CASE WriteResumed(w)
    <2>1. /\ At(w, "write_resumed") /\ UNCHANGED <<task, db>>
          /\ GoToHolding(w, "persist_resumed", Resumed(job[w].held))
          /\ run' = [run EXCEPT ![job[w].run] = Resumed(job[w].held)]
          /\ {"write_resumed", "persist_resumed"} \subseteq Step
      BY <1>3 DEF WriteResumed, Step
    <2>2. PICK r \in Run : /\ r = job[w].run /\ job[w].step = "write_resumed"
                           /\ BetweenSteps(job[w], task[r], run[r], db[r]) /\ JobOK(job[w])
                           /\ job[w] # Idle /\ \A v \in Worker \ {w} : job[v] = Idle
      BY <2>1, AtInTurn
    <2>3. PICK x \in RunRecord : x = job[w].held
      BY <1>0, <2>1, <2>2, AtJob DEF JobOK, BusyJob
    <2>4. PICK y \in RunRecord : y = Resumed(x)
      BY <2>2, <2>3, BuiltRecords DEF JobOK
    <2>5. /\ job'[w] # Idle /\ job'[w].run = r /\ job'[w].step = "persist_resumed"
          /\ job'[w].held = y /\ \A v \in Worker \ {w} : job'[v] = job[v]
      BY <1>0, <2>1, <2>2, <2>3, <2>4, GoToHoldingDoes
    <2>6. run'[r] = y /\ \A q \in Run \ {r} : run'[q] = run[q]
      BY <1>0, <2>1, <2>2, <2>3, <2>4
    <2>7. x = run[r] /\ run[r].status # "completed"
          /\ RunShows(task[r], run[r]) /\ RowShows(task[r], db[r])
      BY <2>2, <2>3 DEF BetweenSteps
    <2>8. RunShows(task[r], y)
      BY <2>4, <2>7, BuiltShows DEF RunShows
    <2>9. BetweenSteps(job'[w], task[r], y, db[r])
      BY <2>5, <2>7, <2>8 DEF BetweenSteps
    <2> QED BY <2>1, <2>2, <2>5, <2>6, <2>9, TurnKept
  <1> QED BY <1>1, <1>2, <1>3

LEMMA PersistInTurn ==
    ASSUME TurnInv, OneAtATime, NEW w \in Worker,
           PersistRun(w) \/ PersistResumed(w) \/ MarkResumed(w)
    PROVE  InTurn'
  <1> USE DEF UndecidedStep, OpeningStep, DecidedStep, ExpiredStep, FreshStep, HoldingStep
  <1>0. RunsInv /\ db \in [Run -> RunRecord \cup {None}]
    BY DEF TurnInv, RunsInv, TypeOK
  <1>1. CASE PersistRun(w)
    <2>1. /\ At(w, "persist_run") /\ Answer(w) /\ UNCHANGED <<task, run>>
          /\ db' = [db EXCEPT ![job[w].run] = job[w].held]
          /\ "persist_run" \in Step
      BY <1>1 DEF PersistRun, Step
    <2>2. PICK r \in Run : /\ r = job[w].run /\ job[w].step = "persist_run"
                           /\ BetweenSteps(job[w], task[r], run[r], db[r])
                           /\ job[w] # Idle /\ \A v \in Worker \ {w} : job[v] = Idle
      BY <2>1, AtInTurn
    <2>3. job'[w] = Idle /\ \A v \in Worker \ {w} : job'[v] = job[v]
      BY <1>0, <2>1, AnswerDoes
    <2>4. db'[r] = run[r] /\ \A q \in Run \ {r} : db'[q] = db[q]
      BY <1>0, <2>1, <2>2 DEF BetweenSteps
    <2>5. RunShows(task[r], run[r])
      BY <2>2 DEF BetweenSteps
    <2>6. RowShows(task[r], run[r])
      BY <2>5 DEF RunShows, RowShows, Decision, Terminal
    <2> QED BY <2>1, <2>2, <2>3, <2>4, <2>5, <2>6, TurnKept
  <1>2. CASE PersistResumed(w)
    <2>1. /\ At(w, "persist_resumed") /\ GoTo(w, "mark_resumed") /\ UNCHANGED <<task, run>>
          /\ db' = [db EXCEPT ![job[w].run] = job[w].held]
          /\ {"persist_resumed", "mark_resumed"} \subseteq Step
      BY <1>2 DEF PersistResumed, Step
    <2>2. PICK r \in Run : /\ r = job[w].run /\ job[w].step = "persist_resumed"
                           /\ BetweenSteps(job[w], task[r], run[r], db[r])
                           /\ job[w] # Idle /\ \A v \in Worker \ {w} : job[v] = Idle
      BY <2>1, AtInTurn
    <2>3. /\ job'[w] # Idle /\ job'[w].run = r /\ job'[w].step = "mark_resumed"
          /\ \A v \in Worker \ {w} : job'[v] = job[v]
      BY <1>0, <2>1, <2>2, GoToDoes
    <2>4. db'[r] = run[r] /\ \A q \in Run \ {r} : db'[q] = db[q]
      BY <1>0, <2>1, <2>2 DEF BetweenSteps
    <2>5. RunShows(task[r], run[r])
      BY <2>2 DEF BetweenSteps
    <2>6. RowShows(task[r], run[r])
      BY <2>5 DEF RunShows, RowShows, Decision, Terminal
    <2>7. BetweenSteps(job'[w], task[r], run[r], db'[r])
      BY <2>3, <2>4, <2>5, <2>6 DEF BetweenSteps
    <2> QED BY <2>1, <2>2, <2>3, <2>4, <2>7, TurnKept
  <1>3. CASE MarkResumed(w)
    <2>1. /\ At(w, "mark_resumed") /\ Answer(w) /\ UNCHANGED <<task, run>>
          /\ db' = [db EXCEPT ![job[w].run].status = "running"]
          /\ "mark_resumed" \in Step
      BY <1>3 DEF MarkResumed, Step
    <2>2. PICK r \in Run : /\ r = job[w].run /\ job[w].step = "mark_resumed"
                           /\ BetweenSteps(job[w], task[r], run[r], db[r]) /\ JobOK(job[w])
                           /\ job[w] # Idle /\ \A v \in Worker \ {w} : job[v] = Idle
      BY <2>1, AtInTurn
    <2>3. job'[w] = Idle /\ \A v \in Worker \ {w} : job'[v] = job[v]
      BY <1>0, <2>1, AnswerDoes
    <2>4. PICK y \in RunRecord : y = db[r]
      BY <1>0, <2>2 DEF JobOK
    <2>5. db'[r] = [y EXCEPT !.status = "running"] /\ \A q \in Run \ {r} : db'[q] = db[q]
      BY <1>0, <2>1, <2>2, <2>4
    <2>6. db'[r].approval = y.approval
      BY <2>5 DEF RunRecord
    <2>7. RunShows(task[r], run[r]) /\ RowShows(task[r], db'[r])
      BY <2>2, <2>4, <2>6 DEF BetweenSteps, RowShows
    <2> QED BY <2>1, <2>2, <2>3, <2>5, <2>7, TurnKept
  <1> QED BY <1>1, <1>2, <1>3

LEMMA SameDeployment == ASSUME [Next]_vars PROVE OneAtATime' <=> OneAtATime
  BY DEF Next, vars, OneAtATime, Request, Continue, CreateRun, LegacyRequestSupplement,
         LegacyAnswerSupplement, RouteOrDelegate, RequestSupplement, ResolveSupplement,
         TransferApproval, EscalateApproval, ReadTask, ReadToDecide, ReadToExpire, CheckResume,
         InsertTask, RereadTask, RewriteTask, PersistRun, WriteTask, WriteDecision,
         ReadRunDecided, WriteRunDecided, ReadPersist, WriteExpiry, ReadRunExpired,
         WriteRunExpired, ReadResumed, WriteResumed, PersistResumed, MarkResumed

LEMMA RequestKeepsTasks ==
    ASSUME NEW w \in Worker, NEW r \in Run, Request(w, r) PROVE task' = task
  BY DEF Request, CreateRun, LegacyRequestSupplement, LegacyAnswerSupplement, RouteOrDelegate,
         RequestSupplement, ResolveSupplement, TransferApproval, EscalateApproval, ReadTask,
         ReadToDecide, ReadToExpire, CheckResume

(* One step of a deployment with one thread: what in-turn handlers keep,   *)
(* and that no closed task leaves its state.                               *)
LEMMA InTurnStep ==
    ASSUME TurnInv, OneAtATime, [Next]_vars
    PROVE  InTurn' /\ \A r \in Run : task[r] \in Terminal => task'[r] = task[r]
  <1>1. CASE UNCHANGED vars
    BY <1>1 DEF vars, TurnInv, InTurn, OnlyOneBusy, Quiet, Known
  <1>2. ASSUME NEW w \in Worker, NEW r \in Run, Request(w, r)
        PROVE  InTurn' /\ task' = task
    BY <1>2, RequestInTurn, RequestKeepsTasks
  <1>3. ASSUME NEW w \in Worker, Continue(w)
        PROVE  InTurn' /\ \A r \in Run : task[r] \in Terminal => task'[r] = task[r]
    <2>1. CASE InsertTask(w) \/ RereadTask(w) \/ RewriteTask(w) \/ WriteTask(w)
      BY <2>1, TaskInTurn
    <2>2. CASE WriteDecision(w) \/ WriteExpiry(w)
      BY <2>2, ClosingInTurn
    <2>3. CASE ReadRunDecided(w) \/ ReadPersist(w) \/ ReadRunExpired(w) \/ ReadResumed(w)
      BY <2>3, LookUpInTurn DEF ReadRunDecided, ReadPersist, ReadRunExpired, ReadResumed, Step
    <2>4. CASE WriteRunDecided(w) \/ WriteRunExpired(w) \/ WriteResumed(w)
      BY <2>4, StoreRunInTurn DEF WriteRunDecided, WriteRunExpired, WriteResumed
    <2>5. CASE PersistRun(w) \/ PersistResumed(w) \/ MarkResumed(w)
      BY <2>5, PersistInTurn DEF PersistRun, PersistResumed, MarkResumed
    <2> QED BY <1>3, <2>1, <2>2, <2>3, <2>4, <2>5 DEF Continue
  <1> QED BY <1>1, <1>2, <1>3 DEF Next

LEMMA InitTurn == Init => TurnInv
  <1>1. Init => RunsInv
    BY InitInv
  <1>2. Init => InTurn
    BY DEF Init, InTurn, OnlyOneBusy, Quiet, Known
  <1> QED BY <1>1, <1>2 DEF TurnInv

LEMMA TurnStep == TurnInv /\ [Next]_vars => TurnInv'
  <1> SUFFICES ASSUME TurnInv, [Next]_vars PROVE TurnInv'
    OBVIOUS
  <1>1. RunsInv'
    BY NextKeepsInv DEF TurnInv
  <1>2. OneAtATime' => InTurn'
    BY InTurnStep, SameDeployment
  <1> QED BY <1>1, <1>2 DEF TurnInv

THEOREM TurnInvariant == Spec => []TurnInv
  <1> QED BY InitTurn, TurnStep, PTL DEF Spec

(* With one thread, whatever requests come in whatever order, the run, its *)
(* task and its row agree as soon as the handler that touched them is done *)
(* (decide_approval, timeout_task and resume_agent_run among them).        *)
THEOREM AgreeInTurn == Spec => []RunAgreesInTurn
  <1>1. TurnInv => RunAgreesInTurn
    BY DEF TurnInv, InTurn, RunAgreesInTurn, RunShows, RowShows
  <1> QED BY <1>1, TurnInvariant, PTL

(* With one thread no request, however late, revives a closed task.        *)
THEOREM ClosedStaysClosed == Spec => OnlyOverlapRevives
  <1>1. TurnInv /\ [Next]_vars
          => [OneAtATime => \A r \in Run : task[r] \in Terminal => task'[r] = task[r]]_vars
    BY InTurnStep
  <1> QED BY <1>1, TurnInvariant, PTL DEF Spec, OnlyOverlapRevives
=============================================================================
