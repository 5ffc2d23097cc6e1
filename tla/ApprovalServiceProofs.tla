------------------------ MODULE ApprovalServiceProofs ------------------------
(***************************************************************************)
(* What holds of the approval-service for every set of tasks, people and   *)
(* worker threads.  Rows and histories stay consistent however the threads *)
(* interleave, because a handler always derives a whole row from a whole   *)
(* row; and only a row computed from one that was replaced meanwhile can   *)
(* undo a decision or a transfer (the run of ApprovalServiceDoubleDecision *)
(* shows it happen).  With one thread no row is stale, and the service     *)
(* implements ApprovalLifecycle.                                           *)
(***************************************************************************)
EXTENDS ApprovalService, TLAPS

-----------------------------------------------------------------------------
(* The transitions of ApprovalTask produce tasks.                          *)

LEMMA CreateTaskType ==
    ASSUME NEW requester \in User, NEW approver \in MaybeUser
    PROVE  CreateTask(requester, approver) \in Task
  BY DEF CreateTask, Task, Status, Terminal, Decidable, MaybeUser

LEMMA DecideType ==
    ASSUME NEW task \in Task, NEW decision \in {"approved", "rejected"}, NEW user \in User
    PROVE  Decide(task, decision, user) \in Task
  BY DEF Decide, Task, Status, Terminal, MaybeUser

LEMMA SupplementType ==
    ASSUME NEW task \in Task
    PROVE  RequestSupplement(task) \in Task /\ ResolveSupplement(task) \in Task
  BY DEF RequestSupplement, ResolveSupplement, Task, Status, Decidable

LEMMA TransferType ==
    ASSUME NEW task \in Task, NEW to \in User, NEW user \in User, NEW admin \in BOOLEAN
    PROVE  TransferTo(task, to, user, admin) \in Task
  <1> DEFINE h == [from |-> task.current_approver, to |-> to, by |-> user, admin |-> admin]
  <1>1. h \in Transfer
    BY DEF Task, Transfer
  <1>2. Append(task.transfers, h) \in Seq(Transfer)
    BY <1>1 DEF Task
  <1>3. QED
    BY <1>2 DEF TransferTo, Task, Status, Decidable, MaybeUser

LEMMA EscalateType ==
    ASSUME NEW task \in Task, NEW target \in MaybeUser
    PROVE  EscalateTo(task, target) \in Task
  BY DEF EscalateTo, Task, Status, Decidable, MaybeUser

(* Answering frees w and leaves what the others do, and their rows, alone. *)
LEMMA AnswerOthers ==
    ASSUME TypeOK, NEW w \in Worker, pending[w] # Idle, Answer(w)
    PROVE  /\ pending' \in [Worker -> Write \cup {Idle}]
           /\ pending'[w] = Idle
           /\ \A v \in Worker \ {w} :
                  /\ (pending'[v] = Idle) <=> (pending[v] = Idle)
                  /\ pending'[v].row = pending[v].row
                  /\ pending'[v].task = pending[v].task
                  /\ pending'[v].fresh =>
                         /\ pending[v].fresh
                         /\ pending[v].task # pending[w].task
  <1>1. ASSUME NEW v \in Worker \ {w}
        PROVE  /\ pending'[v] \in Write \cup {Idle}
               /\ (pending'[v] = Idle) <=> (pending[v] = Idle)
               /\ pending'[v].row = pending[v].row
               /\ pending'[v].task = pending[v].task
               /\ pending'[v].fresh =>
                      /\ pending[v].fresh
                      /\ pending[v].task # pending[w].task
    <2>1. pending'[v] = IF pending[v] # Idle /\ pending[v].task = pending[w].task
                        THEN [pending[v] EXCEPT !.fresh = FALSE]
                        ELSE pending[v]
      BY <1>1 DEF Answer
    <2>2. CASE pending[v] = Idle
      BY <2>1, <2>2 DEF Idle
    <2>3. CASE pending[v] \in Write /\ pending[v] # Idle
      <3>1. /\ pending'[v] \in Write
            /\ pending'[v].row = pending[v].row
            /\ pending'[v].task = pending[v].task
            /\ pending'[v].fresh =>
                   /\ pending[v].fresh
                   /\ pending[v].task # pending[w].task
        BY <2>1, <2>3 DEF Write
      <3>2. pending'[v] # Idle
        <4>1. pending'[v].row \in Task
          BY <3>1 DEF Write
        <4>2. QED
          BY <4>1, NoTaskAssumption DEF Idle
      <3>3. QED
        BY <2>3, <3>1, <3>2
    <2>4. QED
      BY <1>1, <2>2, <2>3 DEF TypeOK
  <1>2. pending'[w] = Idle
    BY DEF Answer
  <1>3. pending' \in [Worker -> Write \cup {Idle}]
    <2>1. pending' = [v \in Worker |-> pending'[v]]
      BY DEF Answer
    <2>2. \A v \in Worker : pending'[v] \in Write \cup {Idle}
      BY <1>1, <1>2
    <2>3. QED
      BY <2>1, <2>2
  <1>4. QED
    BY <1>1, <1>2, <1>3

-----------------------------------------------------------------------------
(* Every handler writes rows of the table's type, whatever the other       *)
(* threads do.                                                             *)
THEOREM TypeCorrect == Spec => []TypeOK
  <1>1. Init => TypeOK
    BY DEF Init, TypeOK
  <1>2. TypeOK /\ [Next]_vars => TypeOK'
    <2> SUFFICES ASSUME TypeOK, [Next]_vars PROVE TypeOK'
      OBVIOUS
    <2>1. ASSUME NEW w \in Worker, NEW t \in TaskId, NEW row \in Task, Compute(w, t, row)
          PROVE  TypeOK'
      BY <2>1 DEF Compute, TypeOK, Write
    <2>2. ASSUME NEW w \in Worker, NEW t \in TaskId, Request(w, t)
          PROVE  TypeOK'
      <3>1. CASE Create(w, t)
        BY <3>1, <2>1, CreateTaskType DEF Create
      <3>2. CASE DecideApproval(w, t)
        BY <3>2, <2>1, DecideType DEF DecideApproval, TypeOK
      <3>3. CASE SupplementGovernance(w, t)
        BY <3>3, <2>1, SupplementType DEF SupplementGovernance, TypeOK
      <3>4. CASE SupplementResolve(w, t)
        BY <3>4, <2>1, SupplementType DEF SupplementResolve, TypeOK
      <3>5. CASE TransferGovernance(w, t)
        BY <3>5, <2>1, TransferType DEF TransferGovernance, TypeOK
      <3>6. CASE EscalateGovernance(w, t)
        BY <3>6, <2>1, EscalateType DEF EscalateGovernance, TypeOK
      <3>7. QED
        BY <2>2, <3>1, <3>2, <3>3, <3>4, <3>5, <3>6 DEF Request
    <2>3. ASSUME NEW w \in Worker, Persist(w)
          PROVE  TypeOK'
      BY <2>3, AnswerOthers DEF Persist, TypeOK, Write, Idle
    <2>4. CASE Restart
      BY <2>4 DEF Restart, TypeOK
    <2>5. CASE UNCHANGED vars
      BY <2>5 DEF vars, TypeOK
    <2>6. QED
      BY <2>2, <2>3, <2>4, <2>5 DEF Next
  <1>3. QED
    BY <1>1, <1>2, PTL DEF Spec

-----------------------------------------------------------------------------
(* The transitions keep a consistent row consistent.                       *)

Consistent(task) == RowConsistent(task) /\ HistoryConsistent(task)

LEMMA CreateTaskConsistent ==
    ASSUME NEW requester \in User, NEW approver \in MaybeUser
    PROVE  Consistent(CreateTask(requester, approver))
  BY NoneAssumption
  DEF Consistent, RowConsistent, HistoryConsistent, CreateTask, IsDecided, LastTransfer

LEMMA DecideConsistent ==
    ASSUME NEW task \in Task, NEW decision \in {"approved", "rejected"}, NEW user \in User,
           Consistent(task)
    PROVE  Consistent(Decide(task, decision, user))
  BY NoneAssumption
  DEF Consistent, RowConsistent, HistoryConsistent, Decide, IsDecided, LastTransfer, Task

LEMMA RequestSupplementConsistent ==
    ASSUME NEW task \in Task, Consistent(task), CanRequestSupplement(task)
    PROVE  Consistent(RequestSupplement(task))
  BY DEF Consistent, RowConsistent, HistoryConsistent, CanRequestSupplement,
         RequestSupplement, IsDecided, LastTransfer, Task

LEMMA ResolveSupplementConsistent ==
    ASSUME NEW task \in Task, Consistent(task), CanResolveSupplement(task)
    PROVE  Consistent(ResolveSupplement(task))
  BY DEF Consistent, RowConsistent, HistoryConsistent, CanResolveSupplement,
         ResolveSupplement, IsDecided, LastTransfer, Task

LEMMA TransferConsistent ==
    ASSUME NEW task \in Task, NEW to \in User, NEW user \in User, NEW admin \in BOOLEAN,
           Consistent(task), CanTransfer(task, user, admin)
    PROVE  Consistent(TransferTo(task, to, user, admin))
  <1> DEFINE h == [from |-> task.current_approver, to |-> to, by |-> user, admin |-> admin]
             new == TransferTo(task, to, user, admin)
             old == task.transfers
  <1>1. /\ old \in Seq(Transfer)
        /\ h \in Transfer
    BY DEF Task, Transfer
  <1>2. new \in Task
    BY TransferType
  <1>3. /\ new.transfers = Append(old, h)
        /\ new.status = "transferred"
        /\ new.current_approver = to
        /\ new.routed_to = to
        /\ new.decided_by = task.decided_by
        /\ new.requested_by = task.requested_by
        /\ new.escalated_to = task.escalated_to
        /\ new.supplement_requested = task.supplement_requested
        /\ new.supplement_resolved = task.supplement_resolved
    BY DEF TransferTo, Task
  <1> HIDE DEF new
  <1>4. LastTransfer(new) = h /\ new.transfers # << >>
    BY <1>1, <1>3 DEF LastTransfer
  <1>5. RowConsistent(new)
    BY <1>3, <1>4 DEF RowConsistent, Consistent, CanTransfer, Terminal, IsDecided
  <1>6. ASSUME NEW i \in 1 .. Len(new.transfers)
        PROVE  \/ new.transfers[i].admin
               \/ new.transfers[i].by = new.transfers[i].from
               \/ new.transfers[i].by = new.requested_by
    <2>1. CASE i = Len(old) + 1
      <3>1. new.transfers[i] = h
        BY <2>1, <1>1, <1>3
      <3>2. QED
        BY <3>1, <1>3 DEF CanTransfer
    <2>2. CASE i \in 1 .. Len(old)
      BY <2>2, <1>1, <1>3 DEF Consistent, HistoryConsistent
    <2>3. QED
      BY <2>1, <2>2, <1>1, <1>3
  <1>7. ASSUME new.escalated_to = None, NEW i \in 1 .. Len(new.transfers) - 1
        PROVE  new.transfers[i + 1].from = new.transfers[i].to
    <2>1. CASE i = Len(old)
      <3>1. new.transfers[i + 1] = h /\ new.transfers[i] = LastTransfer(task)
        BY <2>1, <1>1, <1>3 DEF LastTransfer
      <3>2. old # << >>
        BY <2>1, <1>1, <1>3
      <3>3. QED
        BY <3>1, <3>2, <1>3, <1>7 DEF Consistent, HistoryConsistent
    <2>2. CASE i \in 1 .. Len(old) - 1
      <3>1. new.transfers[i + 1] = old[i + 1] /\ new.transfers[i] = old[i]
        BY <2>2, <1>1, <1>3
      <3>2. QED
        BY <2>2, <3>1, <1>3, <1>7 DEF Consistent, HistoryConsistent
    <2>3. QED
      BY <2>1, <2>2, <1>1, <1>3
  <1>8. HistoryConsistent(new)
    BY <1>3, <1>4, <1>6, <1>7 DEF HistoryConsistent
  <1>9. QED
    BY <1>5, <1>8 DEF Consistent, new

LEMMA EscalateConsistent ==
    ASSUME NEW task \in Task, NEW target \in MaybeUser, Consistent(task), CanEscalate(task)
    PROVE  Consistent(EscalateTo(task, target))
  <1> DEFINE holder == IF target = None THEN task.current_approver ELSE target
             new == EscalateTo(task, target)
  <1>1. holder \in User
    BY DEF Task, MaybeUser
  <1>2. /\ new.status = "escalated"
        /\ new.escalated_to = holder
        /\ new.current_approver = holder
        /\ new.routed_to = holder
        /\ new.transfers = task.transfers
        /\ new.decided_by = task.decided_by
        /\ new.requested_by = task.requested_by
        /\ new.supplement_requested = task.supplement_requested
        /\ new.supplement_resolved = task.supplement_resolved
    BY DEF EscalateTo, Task
  <1> HIDE DEF new, holder
  <1>3. RowConsistent(new)
    BY <1>2 DEF RowConsistent, Consistent, CanEscalate, Terminal, IsDecided
  <1>4. HistoryConsistent(new)
    BY <1>1, <1>2, NoneAssumption DEF HistoryConsistent, Consistent
  <1>5. QED
    BY <1>3, <1>4 DEF Consistent, new

(* The row a thread is about to write was derived from a consistent row,   *)
(* so it is consistent even if the table has moved on: this is what makes  *)
(* the invariant inductive.                                                *)
RowsInv == /\ TypeOK
           /\ \A t \in TaskId : Recorded(t) => Consistent(store[t])
           /\ \A w \in Worker : pending[w] # Idle => Consistent(pending[w].row)

LEMMA RowsInvInductive == Spec => []RowsInv
  <1>1. Init => RowsInv
    BY DEF Init, RowsInv, TypeOK, Recorded
  <1>2. TypeOK' /\ RowsInv /\ [Next]_vars => RowsInv'
    <2> SUFFICES ASSUME TypeOK', RowsInv, [Next]_vars PROVE RowsInv'
      OBVIOUS
    <2> USE DEF RowsInv
    <2>1. ASSUME NEW w \in Worker, NEW t \in TaskId, NEW row, Compute(w, t, row),
                 Consistent(row)
          PROVE  RowsInv'
      BY <2>1 DEF Compute, TypeOK, Recorded
    <2>2. ASSUME NEW w \in Worker, NEW t \in TaskId, Request(w, t)
          PROVE  RowsInv'
      <3>1. CASE Create(w, t)
        BY <3>1, <2>1, CreateTaskConsistent DEF Create
      <3> store[t] # None => store[t] \in Task /\ Consistent(store[t])
        BY DEF TypeOK, Recorded
      <3>2. CASE DecideApproval(w, t)
        BY <3>2, <2>1, DecideConsistent DEF DecideApproval
      <3>3. CASE SupplementGovernance(w, t)
        BY <3>3, <2>1, RequestSupplementConsistent DEF SupplementGovernance
      <3>4. CASE SupplementResolve(w, t)
        BY <3>4, <2>1, ResolveSupplementConsistent DEF SupplementResolve
      <3>5. CASE TransferGovernance(w, t)
        BY <3>5, <2>1, TransferConsistent DEF TransferGovernance
      <3>6. CASE EscalateGovernance(w, t)
        BY <3>6, <2>1, EscalateConsistent DEF EscalateGovernance
      <3>7. QED
        BY <2>2, <3>1, <3>2, <3>3, <3>4, <3>5, <3>6 DEF Request
    <2>3. ASSUME NEW w \in Worker, Persist(w)
          PROVE  RowsInv'
      <3>1. ASSUME NEW v \in Worker, pending'[v] # Idle
            PROVE  Consistent(pending[v].row)'
        BY <2>3, <3>1, AnswerOthers DEF Persist, Consistent
      <3>2. ASSUME NEW t \in TaskId, Recorded(t)'
            PROVE  Consistent(store[t])'
        BY <2>3, <3>2 DEF Persist, TypeOK, Recorded
      <3>3. QED
        BY <3>1, <3>2
    <2>4. CASE Restart
      BY <2>4 DEF Restart, TypeOK, Recorded
    <2>5. CASE UNCHANGED vars
      BY <2>5 DEF vars, TypeOK, Recorded
    <2>6. QED
      BY <2>2, <2>3, <2>4, <2>5 DEF Next
  <1>3. QED
    BY <1>1, <1>2, TypeCorrect, PTL DEF Spec

(* No stored task has columns that contradict one another, for any number  *)
(* of overlapping handlers.                                                *)
THEOREM RowsConsistent == Spec => []StoredRowsConsistent
  <1>1. RowsInv => StoredRowsConsistent
    BY DEF RowsInv, StoredRowsConsistent, Consistent
  <1>2. QED
    BY <1>1, RowsInvInductive, PTL

(* The transfers of a stored task are an authorised, unbroken chain, for   *)
(* any number of overlapping handlers.                                     *)
THEOREM HistoriesConsistent == Spec => []StoredHistoryConsistent
  <1>1. RowsInv => StoredHistoryConsistent
    BY DEF RowsInv, StoredHistoryConsistent, Consistent
  <1>2. QED
    BY <1>1, RowsInvInductive, PTL

-----------------------------------------------------------------------------
(* How a handler may change a row.                                         *)
Legal(old, new) ==
    \/ /\ old = None
       /\ ~IsDecided(new)
       /\ new.transfers = << >>
    \/ /\ old # None
       /\ ~IsDecided(old)
       /\ \/ new.transfers = old.transfers
          \/ /\ ~IsDecided(new)
             /\ \E h \in Transfer : new.transfers = Append(old.transfers, h)

(* While the row that was read is still in the table, the step a fresh     *)
(* write makes in the table is the one the handler computed.               *)
FreshInv == \A w \in Worker :
                pending[w] # Idle /\ pending[w].fresh =>
                    Legal(store[pending[w].task], pending[w].row)

LEMMA RequestLegal ==
    ASSUME TypeOK, NEW w \in Worker, NEW t \in TaskId, Request(w, t)
    PROVE  \E row \in Task : Compute(w, t, row) /\ Legal(store[t], row)
  <1> store[t] # None => store[t] \in Task
    BY DEF TypeOK
  <1>1. CASE Create(w, t)
    BY <1>1, CreateTaskType DEF Create, Legal, CreateTask, IsDecided
  <1>2. CASE DecideApproval(w, t)
    <2>1. PICK decision \in {"approved", "rejected"}, user \in User :
              Compute(w, t, Decide(store[t], decision, user))
      BY <1>2 DEF DecideApproval
    <2>2. Legal(store[t], Decide(store[t], decision, user))
      BY <1>2 DEF DecideApproval, Legal, Decide, CanDecide, IsDecidable, Decidable,
                  IsDecided, Task
    <2>3. QED
      BY <1>2, <2>1, <2>2, DecideType DEF DecideApproval
  <1>3. CASE SupplementGovernance(w, t)
    <2>1. store[t] \in Task /\ store[t] # None /\ ~IsDecided(store[t])
      BY <1>3 DEF SupplementGovernance, CanRequestSupplement, IsDecided
    <2>2. Legal(store[t], RequestSupplement(store[t]))
      BY <2>1 DEF Legal, RequestSupplement, IsDecided, Task
    <2>3. QED
      BY <1>3, <2>1, <2>2, SupplementType DEF SupplementGovernance
  <1>4. CASE SupplementResolve(w, t)
    <2>1. store[t] \in Task /\ store[t] # None /\ ~IsDecided(store[t])
      BY <1>4 DEF SupplementResolve, CanResolveSupplement, IsDecided
    <2>2. Legal(store[t], ResolveSupplement(store[t]))
      BY <2>1 DEF Legal, ResolveSupplement, IsDecided, Task
    <2>3. QED
      BY <1>4, <2>1, <2>2, SupplementType DEF SupplementResolve
  <1>5. CASE TransferGovernance(w, t)
    <2>1. PICK to \in User, user \in User, admin \in BOOLEAN :
              /\ CanTransfer(store[t], user, admin)
              /\ Compute(w, t, TransferTo(store[t], to, user, admin))
      BY <1>5 DEF TransferGovernance
    <2> DEFINE h == [from |-> store[t].current_approver, to |-> to, by |-> user,
                     admin |-> admin]
               row == TransferTo(store[t], to, user, admin)
    <2>2. store[t] \in Task /\ store[t] # None
      BY <1>5 DEF TransferGovernance
    <2>3. h \in Transfer
      BY <2>2 DEF Task, Transfer
    <2>4. row.transfers = Append(store[t].transfers, h) /\ row.status = "transferred"
      BY <2>2 DEF TransferTo, Task
    <2>5. ~IsDecided(store[t])
      BY <2>1 DEF CanTransfer, Terminal, IsDecided
    <2>6. Legal(store[t], row)
      BY <2>2, <2>3, <2>4, <2>5 DEF Legal, IsDecided
    <2>7. QED
      BY <2>1, <2>2, <2>6, TransferType
  <1>6. CASE EscalateGovernance(w, t)
    <2>1. PICK target \in MaybeUser : Compute(w, t, EscalateTo(store[t], target))
      BY <1>6 DEF EscalateGovernance
    <2> DEFINE row == EscalateTo(store[t], target)
    <2>2. store[t] \in Task /\ store[t] # None /\ ~IsDecided(store[t])
      BY <1>6 DEF EscalateGovernance, CanEscalate, Terminal, IsDecided
    <2>3. row.transfers = store[t].transfers /\ row.status = "escalated"
      BY <2>2 DEF EscalateTo, Task
    <2>4. Legal(store[t], row)
      BY <2>2, <2>3 DEF Legal, IsDecided
    <2>5. QED
      BY <2>1, <2>2, <2>4, EscalateType
  <1>7. QED
    BY <1>1, <1>2, <1>3, <1>4, <1>5, <1>6 DEF Request

LEMMA FreshInvInductive == Spec => []FreshInv
  <1>1. Init => FreshInv
    BY DEF Init, FreshInv
  <1>2. TypeOK /\ FreshInv /\ [Next]_vars => FreshInv'
    <2> SUFFICES ASSUME TypeOK, FreshInv, [Next]_vars PROVE FreshInv'
      OBVIOUS
    <2>1. ASSUME NEW w \in Worker, NEW t \in TaskId, Request(w, t)
          PROVE  FreshInv'
      <3>1. PICK row \in Task : Compute(w, t, row) /\ Legal(store[t], row)
        BY <2>1, RequestLegal
      <3>2. QED
        BY <3>1 DEF Compute, FreshInv, TypeOK
    <2>2. ASSUME NEW w \in Worker, Persist(w)
          PROVE  FreshInv'
      <3> SUFFICES ASSUME NEW v \in Worker, (pending[v] # Idle /\ pending[v].fresh)'
                   PROVE  Legal(store[pending[v].task], pending[v].row)'
        BY DEF FreshInv
      <3>1. pending[w] # Idle /\ Answer(w)
        BY <2>2 DEF Persist
      <3>2. /\ v # w /\ pending[v] # Idle /\ pending[v].fresh
            /\ pending[v].task # pending[w].task
            /\ pending'[v].task = pending[v].task /\ pending'[v].row = pending[v].row
        BY <3>1, AnswerOthers
      <3>3. pending[v] \in Write /\ pending[w] \in Write
        BY <3>1, <3>2 DEF TypeOK
      <3>4. store'[pending[v].task] = store[pending[v].task]
        BY <2>2, <3>2, <3>3 DEF Persist, TypeOK, Write
      <3>5. QED
        BY <3>2, <3>4 DEF FreshInv, Legal, IsDecided
    <2>3. CASE Restart
      BY <2>3 DEF Restart, FreshInv
    <2>4. CASE UNCHANGED vars
      BY <2>4 DEF vars, FreshInv
    <2>5. QED
      BY <2>1, <2>2, <2>3, <2>4 DEF Next
  <1>3. QED
    BY <1>1, <1>2, TypeCorrect, PTL DEF Spec

Stale == \E t \in TaskId : StaleWrite(t)

(* But for stale writes the table changes by legal steps of single tasks;  *)
(* a stale write changes one task.                                         *)
LEMMA StoreStep ==
    ASSUME TypeOK, FreshInv, [Next]_vars
    PROVE  \/ UNCHANGED store
           \/ \E t \in TaskId, row \in Task :
                  /\ store' = [store EXCEPT ![t] = row]
                  /\ StaleWrite(t) \/ Legal(store[t], row)
  <1>1. ASSUME NEW w \in Worker, NEW t \in TaskId, Request(w, t)
        PROVE  UNCHANGED store
    BY <1>1, RequestLegal DEF Compute
  <1>2. ASSUME NEW w \in Worker, Persist(w)
        PROVE  \E t \in TaskId, row \in Task :
                  /\ store' = [store EXCEPT ![t] = row]
                  /\ StaleWrite(t) \/ Legal(store[t], row)
    <2>1. pending[w] \in Write /\ pending'[w] = Idle
      BY <1>2, AnswerOthers DEF Persist, TypeOK
    <2>2. pending[w].fresh => Legal(store[pending[w].task], pending[w].row)
      BY <1>2 DEF Persist, FreshInv
    <2>3. ~pending[w].fresh => StaleWrite(pending[w].task)
      BY <2>1 DEF StaleWrite
    <2>4. QED
      BY <1>2, <2>1, <2>2, <2>3 DEF Persist, Write
  <1>3. QED
    BY <1>1, <1>2 DEF Next, Restart, vars

(* For any number of overlapping handlers: a decision is only ever changed *)
(* and a transfer only ever dropped by a stale write.                      *)
THEOREM UndoneByStaleWritesOnly == Spec => OnlyStaleWritesUndo
  <1>1. ASSUME TypeOK, FreshInv, [Next]_vars, NEW t \in TaskId, ~StaleWrite(t)
        PROVE  Final(t) /\ Appends(t)
    <2>1. store[t] \in Task \cup {None}
      BY <1>1 DEF TypeOK
    <2>2. \/ store'[t] = store[t]
          \/ store'[t] \in Task /\ Legal(store[t], store'[t])
      BY <1>1, StoreStep DEF TypeOK
    <2>3. Final(t)
      BY <2>1, <2>2 DEF Final, Legal, Recorded
    <2>4. ASSUME Recorded(t)
          PROVE  /\ store'[t] # None
                 /\ \E n \in 0 .. Len(store'[t].transfers) :
                        SubSeq(store'[t].transfers, 1, n) = store[t].transfers
      <3>1. store[t] \in Task /\ store[t] # None
        BY <2>1, <2>4 DEF Recorded
      <3>2. store[t].transfers \in Seq(Transfer)
        BY <3>1 DEF Task
      <3>3. CASE store'[t] = store[t] \/ store'[t].transfers = store[t].transfers
        BY <2>2, <3>1, <3>2, <3>3, NoTaskAssumption
      <3>4. CASE /\ store'[t] \in Task
                 /\ \E h \in Transfer : store'[t].transfers = Append(store[t].transfers, h)
        <4>1. PICK h \in Transfer : store'[t].transfers = Append(store[t].transfers, h)
          BY <3>4
        <4>2. SubSeq(store'[t].transfers, 1, Len(store[t].transfers)) = store[t].transfers
          BY <3>2, <4>1
        <4>3. Len(store[t].transfers) \in 0 .. Len(store'[t].transfers)
          BY <3>2, <4>1
        <4>4. QED
          BY <3>4, <4>2, <4>3, NoTaskAssumption
      <3>5. QED
        BY <2>2, <3>1, <3>3, <3>4 DEF Legal
    <2>5. QED
      BY <2>3, <2>4 DEF Appends
  <1>2. TypeOK /\ FreshInv /\ [Next]_vars =>
            [\A t \in TaskId : StaleWrite(t) \/ (Final(t) /\ Appends(t))]_vars
    BY <1>1
  <1>3. QED
    BY <1>2, TypeCorrect, FreshInvInductive, PTL DEF Spec, OnlyStaleWritesUndo

(* A step that is no stale write maps to a step of the abstract approval   *)
(* life cycle or leaves it alone.                                          *)
LEMMA LifecycleStep ==
    /\ Init => Lifecycle!Init
    /\ TypeOK /\ FreshInv /\ [Next]_vars => Stale \/ [Lifecycle!Next]_(Lifecycle!vars)
  <1>1. Init => Lifecycle!Init
    BY DEF Init, Lifecycle!Init, Phase, HandOvers
  <1>2. TypeOK /\ FreshInv /\ [Next]_vars => Stale \/ [Lifecycle!Next]_(Lifecycle!vars)
    <2> SUFFICES ASSUME TypeOK, FreshInv, [Next]_vars, ~Stale
                 PROVE  [Lifecycle!Next]_(Lifecycle!vars)
      OBVIOUS
    <2>1. CASE UNCHANGED store
      BY <2>1 DEF Lifecycle!vars, Phase, HandOvers, IsDecided
    <2>2. ASSUME NEW t \in TaskId, NEW row \in Task,
                 Legal(store[t], row), store' = [store EXCEPT ![t] = row]
          PROVE  [Lifecycle!Next]_(Lifecycle!vars)
      <3> DEFINE phase == IF IsDecided(row) THEN row.status ELSE "open"
      <3>1. /\ Phase' = [Phase EXCEPT ![t] = phase]
            /\ HandOvers' = [HandOvers EXCEPT ![t] = row.transfers]
        BY <2>2, NoTaskAssumption DEF Phase, HandOvers, IsDecided, TypeOK
      <3>2. CASE store[t] = None
        <4>1. Lifecycle!Open(t)
          BY <2>2, <3>1, <3>2 DEF Legal, Lifecycle!Open, Phase, HandOvers
        <4>2. QED
          BY <4>1 DEF Lifecycle!Next
      <3>3. CASE store[t] # None /\ ~IsDecided(row) /\ row.transfers = store[t].transfers
        <4>1. Phase' = Phase /\ HandOvers' = HandOvers
          BY <2>2, <3>1, <3>3 DEF Legal, Phase, HandOvers
        <4>2. QED
          BY <4>1 DEF Lifecycle!vars
      <3>4. CASE store[t] # None /\ IsDecided(row) /\ row.transfers = store[t].transfers
        <4>1. Lifecycle!Close(t, row.status)
          BY <2>2, <3>1, <3>4 DEF Legal, Lifecycle!Close, Phase, HandOvers, IsDecided
        <4>2. QED
          BY <3>4, <4>1 DEF Lifecycle!Next, Lifecycle!Decision, IsDecided
      <3>5. CASE /\ store[t] # None
                 /\ ~IsDecided(row)
                 /\ \E h \in Transfer : row.transfers = Append(store[t].transfers, h)
        <4>1. PICK h \in Transfer : row.transfers = Append(store[t].transfers, h)
          BY <3>5
        <4>2. Lifecycle!HandOverTo(t, h)
          BY <2>2, <3>1, <3>5, <4>1 DEF Legal, Lifecycle!HandOverTo, Phase, HandOvers
        <4>3. QED
          BY <4>2 DEF Lifecycle!Next
      <3>6. QED
        BY <2>2, <3>2, <3>3, <3>4, <3>5 DEF Legal
    <2>3. QED
      BY <2>1, <2>2, StoreStep DEF Stale
  <1>3. QED
    BY <1>1, <1>2

(* For any number of overlapping handlers: the service implements the      *)
(* abstract life cycle in every step but stale writes.                     *)
THEOREM FreshWritesImplementLifecycle == Spec => ImplementsLifecycle
  <1>1. Init => Lifecycle!Init
    BY LifecycleStep
  <1>2. TypeOK /\ FreshInv /\ [Next]_vars =>
            [(\E t \in TaskId : StaleWrite(t)) \/ [Lifecycle!Next]_(Lifecycle!vars)]_vars
    BY LifecycleStep DEF Stale
  <1>3. QED
    BY <1>1, <1>2, TypeCorrect, FreshInvInductive, PTL DEF Spec, ImplementsLifecycle

-----------------------------------------------------------------------------
(* Handlers that never overlap: a pool of one thread.                      *)
Serial == \A v, w \in Worker : v = w

(* With one thread nobody stores a task between the read and the write of  *)
(* a handler.                                                              *)
AllFresh == \A w \in Worker : pending[w] # Idle => pending[w].fresh

(* One thread: the service implements the abstract approval life cycle.    *)
THEOREM SerialImplementsLifecycle ==
    ASSUME Serial
    PROVE  Spec => Lifecycle!Spec
  <1>1. Init => AllFresh
    BY DEF Init, AllFresh
  <1>2. TypeOK /\ AllFresh /\ [Next]_vars => AllFresh'
    <2> SUFFICES ASSUME TypeOK, AllFresh, [Next]_vars PROVE AllFresh'
      OBVIOUS
    <2>1. ASSUME NEW w \in Worker, NEW t \in TaskId, Request(w, t)
          PROVE  AllFresh'
      <3>1. PICK row \in Task : Compute(w, t, row)
        BY <2>1, RequestLegal
      <3>2. QED
        BY <3>1 DEF Compute, AllFresh, TypeOK
    <2>2. ASSUME NEW w \in Worker, Persist(w)
          PROVE  AllFresh'
      BY <2>2 DEF Persist, Answer, AllFresh, TypeOK, Serial
    <2>3. CASE Restart
      BY <2>3 DEF Restart, AllFresh
    <2>4. CASE UNCHANGED vars
      BY <2>4 DEF vars, AllFresh
    <2>5. QED
      BY <2>1, <2>2, <2>3, <2>4 DEF Next
  <1>3. TypeOK /\ FreshInv /\ AllFresh /\ [Next]_vars => [Lifecycle!Next]_(Lifecycle!vars)
    <2> SUFFICES ASSUME TypeOK, FreshInv, AllFresh, [Next]_vars
                 PROVE  [Lifecycle!Next]_(Lifecycle!vars)
      OBVIOUS
    <2>1. CASE UNCHANGED store
      BY <2>1 DEF Lifecycle!vars, Phase, HandOvers, IsDecided
    <2>2. CASE ~UNCHANGED store
      <3>1. PICK w \in Worker : Persist(w)
        BY <2>2, RequestLegal DEF Next, Restart, vars, Compute
      <3>2. ~Stale
        BY <3>1 DEF Persist, AllFresh, Stale, StaleWrite, Serial
      <3>3. QED
        BY <3>2, LifecycleStep
    <2>3. QED
      BY <2>1, <2>2
  <1>4. Init => Lifecycle!Init
    BY LifecycleStep
  <1>5. QED
    BY <1>1, <1>2, <1>3, <1>4, TypeCorrect, FreshInvInductive, PTL DEF Spec, Lifecycle!Spec
=============================================================================
