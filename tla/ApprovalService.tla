--------------------------- MODULE ApprovalService ---------------------------
(***************************************************************************)
(* The approval-service: HTTP handlers run by a pool of worker threads     *)
(* over one ApprovalTaskStore.  Every mutating handler is                  *)
(*     task = store.get(id);  updated = transition(task);  store.upsert    *)
(* where get and upsert each take the store's lock but nothing spans the   *)
(* two, so another worker's upsert may fall in between.  The request of a  *)
(* worker is therefore two steps: it reads (and either answers 404, 409 or *)
(* 403, which changes nothing and is not a step, or computes the new row), *)
(* and it persists.  The list and fetch endpoints only read.               *)
(***************************************************************************)
EXTENDS ApprovalTask, FiniteSets

CONSTANTS TaskId,        \* task identifiers (chosen by the caller)
          Worker,        \* threads of the handler pool
          Deployments    \* the ways the service may be used, see below

(* threads is how many handlers may be in progress at a time; transfers is *)
(* a bound: a task with that many transfers takes no more.                 *)
ASSUME DeploymentsAssumption == Deployments \subseteq [threads : Nat \ {0}, transfers : Nat]

VARIABLES deployment, \* the deployment this is
          store,      \* TaskId -> its row, or None: the approval_tasks table
          pending     \* Worker -> the row it computed and is about to upsert

vars == <<deployment, store, pending>>

(* fresh (of the model only): has nobody stored the task since w read it?  *)
Idle == [task |-> None, row |-> None, fresh |-> FALSE]

Write == [task : TaskId, row : Task, fresh : BOOLEAN]

TypeOK == /\ deployment \in Deployments
          /\ store \in [TaskId -> Task \cup {None}]
          /\ pending \in [Worker -> Write \cup {Idle}]

Init == /\ deployment \in Deployments
        /\ store = [t \in TaskId |-> None]
        /\ pending = [w \in Worker |-> Idle]

-----------------------------------------------------------------------------
(* The reading half of a handler.  w has looked up t, passed the handler's *)
(* checks on what it read and computed the row it will store.              *)
Compute(w, t, row) ==
    /\ pending[w] = Idle
    /\ Cardinality({v \in Worker : pending[v] # Idle}) < deployment.threads
    /\ pending' = [pending EXCEPT ![w] = [task |-> t, row |-> row, fresh |-> TRUE]]
    /\ UNCHANGED <<deployment, store>>

(* POST /approval-tasks: 409 when the id is taken. *)
Create(w, t) ==
    /\ store[t] = None
    /\ \E requester \in User, approver \in MaybeUser :
           Compute(w, t, CreateTask(requester, approver))

(* POST /approval-tasks/{id}/decision *)
DecideApproval(w, t) ==
    /\ store[t] # None
    /\ CanDecide(store[t])
    /\ \E decision \in {"approved", "rejected"}, user \in User :
           Compute(w, t, Decide(store[t], decision, user))

(* POST /approvals/{id}/supplement *)
SupplementGovernance(w, t) ==
    /\ store[t] # None
    /\ CanRequestSupplement(store[t])
    /\ Compute(w, t, RequestSupplement(store[t]))

(* POST /approvals/{id}/supplement/resolve *)
SupplementResolve(w, t) ==
    /\ store[t] # None
    /\ CanResolveSupplement(store[t])
    /\ Compute(w, t, ResolveSupplement(store[t]))

(* POST /approvals/{id}/transfer *)
TransferGovernance(w, t) ==
    /\ store[t] # None
    /\ Len(store[t].transfers) < deployment.transfers
    /\ \E to, user \in User, admin \in BOOLEAN :
           /\ CanTransfer(store[t], user, admin)
           /\ Compute(w, t, TransferTo(store[t], to, user, admin))

(* POST /approvals/{id}/escalate *)
EscalateGovernance(w, t) ==
    /\ store[t] # None
    /\ CanEscalate(store[t])
    /\ \E target \in MaybeUser : Compute(w, t, EscalateTo(store[t], target))

(* w answers; what others computed from the task it stored is stale.       *)
Answer(w) ==
    pending' = [v \in Worker |->
                    IF v = w THEN Idle
                    ELSE IF pending[v] # Idle /\ pending[v].task = pending[w].task
                         THEN [pending[v] EXCEPT !.fresh = FALSE]
                         ELSE pending[v]]

PersistWithoutDecider(w) ==   \* mutant: the ON CONFLICT clause misses decided_by
    /\ pending[w] # Idle
    /\ LET t == pending[w].task
           decider == IF store[t] = None THEN None ELSE store[t].decided_by
       IN  store' = [store EXCEPT ![t] = [pending[w].row EXCEPT !.decided_by = decider]]
    /\ Answer(w)
    /\ UNCHANGED deployment

(* _persist: one locked upsert of every column, then the 2xx answer. *)
Persist(w) ==
    /\ pending[w] # Idle
    /\ store' = [store EXCEPT ![pending[w].task] = pending[w].row]
    /\ Answer(w)
    /\ UNCHANGED deployment

(* The process is killed and restarted: the table survives, the requests   *)
(* that had only computed their row do not.                                *)
Restart ==
    /\ \E w \in Worker : pending[w] # Idle
    /\ pending' = [w \in Worker |-> Idle]
    /\ UNCHANGED <<deployment, store>>

Request(w, t) == \/ Create(w, t)
                 \/ DecideApproval(w, t)
                 \/ SupplementGovernance(w, t)
                 \/ SupplementResolve(w, t)
                 \/ TransferGovernance(w, t)
                 \/ EscalateGovernance(w, t)

Next == \/ \E w \in Worker, t \in TaskId : Request(w, t)
        \/ \E w \in Worker : Persist(w)
        \/ Restart

Spec == Init /\ [][Next]_vars

-----------------------------------------------------------------------------
Recorded(t) == store[t] # None
IsDecided(task) == task.status \in {"approved", "rejected"}
LastTransfer(task) == task.transfers[Len(task.transfers)]

(* What a row says about itself: no column contradicts another.  A decider *)
(* is named exactly when there is a decision, the holder of a reassigned   *)
(* task is the one its last hand-over or escalation names, and a           *)
(* supplement was asked for before it was waited for or answered.          *)
RowConsistent(task) ==
    /\ IsDecided(task) <=> task.decided_by # None
    /\ task.status = "transferred" =>
           /\ task.transfers # << >>
           /\ task.current_approver = LastTransfer(task).to
           /\ task.routed_to = task.current_approver
    /\ task.status = "escalated" =>
           /\ task.current_approver = task.escalated_to
           /\ task.routed_to = task.current_approver
    /\ task.status = "supplement_pending" => task.supplement_requested
    /\ task.supplement_resolved => task.supplement_requested

(* Who could have moved a task: every hand-over was ordered by whoever     *)
(* held the task, by its requester or by an admin; and while nothing was   *)
(* escalated each hand-over starts where the one before it ended and the   *)
(* last one names the holder.                                              *)
HistoryConsistent(task) ==
    LET h == task.transfers
    IN  /\ \A i \in 1 .. Len(h) :
               h[i].admin \/ h[i].by = h[i].from \/ h[i].by = task.requested_by
        /\ task.escalated_to = None =>
               /\ \A i \in 1 .. Len(h) - 1 : h[i + 1].from = h[i].to
               /\ h # << >> => LastTransfer(task).to = task.current_approver

(* The columns of a stored task never contradict one another, whatever the *)
(* threads of the pool do: state_machine.py derives a whole row from a     *)
(* whole row and store.upsert writes every column.                         *)
StoredRowsConsistent == \A t \in TaskId : Recorded(t) => RowConsistent(store[t])

(* The transfers column is an authorised, unbroken chain of custody, even  *)
(* when a concurrent upsert replaced a longer one (transfer_approval).     *)
StoredHistoryConsistent == \A t \in TaskId : Recorded(t) => HistoryConsistent(store[t])

(* A task that was approved or rejected is never changed again: "Decided   *)
(* tasks cannot be changed" (agent-platform-api/README.md), the 409 of the *)
(* decision endpoint and the terminal checks of transfer and escalate.     *)
Final(t) == Recorded(t) /\ IsDecided(store[t]) => store'[t] = store[t]

(* Every transfer a caller was told about stays in the history: a step     *)
(* only ever appends to the transfers of a task.                           *)
Appends(t) ==
    Recorded(t) =>
        /\ store'[t] # None
        /\ \E n \in 0 .. Len(store'[t].transfers) :
               SubSeq(store'[t].transfers, 1, n) = store[t].transfers

(* The step is the upsert of a row computed from one that was replaced     *)
(* meanwhile: the only way either promise is ever broken.                  *)
StaleWrite(t) ==
    \E w \in Worker : /\ pending[w].task = t /\ pending'[w] = Idle
                      /\ ~pending[w].fresh

OnlyStaleWritesUndo ==
    [][\A t \in TaskId : StaleWrite(t) \/ (Final(t) /\ Appends(t))]_vars

-----------------------------------------------------------------------------
(* The promise of the service seen through the table: the sub-states of an *)
(* open task are one phase, its hand-overs are the transfers column.       *)
Phase == [t \in TaskId |-> IF store[t] = None THEN "absent"
                           ELSE IF IsDecided(store[t]) THEN store[t].status
                           ELSE "open"]
HandOvers == [t \in TaskId |-> IF store[t] = None THEN << >> ELSE store[t].transfers]

Lifecycle == INSTANCE ApprovalLifecycle
                 WITH phase <- Phase, handOvers <- HandOvers, HandOver <- Transfer

(* Whatever overlaps, a step that is no stale write is a step of the       *)
(* abstract life cycle: a task is opened once, handed over while open,     *)
(* closed at most once, and nothing of it is lost.                         *)
ImplementsLifecycle ==
    Lifecycle!Init /\ [][(\E t \in TaskId : StaleWrite(t)) \/ [Lifecycle!Next]_(Lifecycle!vars)]_vars
=============================================================================
