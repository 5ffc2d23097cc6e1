---------------------------- MODULE ApprovalTask ----------------------------
(***************************************************************************)
(* One approval task and the transitions of                                *)
(* approval-service/state_machine.py.  Every transition is a pure function *)
(* of the task it is given, as in the code: the caller decides when the    *)
(* result is stored.  Notes, comments, attachments, timestamps and the     *)
(* fields this service never writes after creation (assignee, delegates)   *)
(* are left out; who decided, who holds the task and the hand-over history *)
(* are kept, and whether a supplement was ever requested or resolved       *)
(* (supplement_requested_by, supplement_resolved_by: by whom is not used). *)
(***************************************************************************)
EXTENDS Sequences, Integers

CONSTANTS User,   \* people and bots that request, decide, transfer, escalate
          None    \* Python's None

ASSUME NoneAssumption == None \notin User

MaybeUser == User \cup {None}

(* _TERMINAL_STATUSES and _DECIDABLE_STATUSES.  "expired" is written by the *)
(* platform's legacy timeout endpoint only, never by this service.          *)
Terminal == {"approved", "rejected", "expired"}
Decidable == {"pending", "transferred", "escalated"}
Status == Terminal \cup Decidable \cup {"supplement_pending"}

Transfer == [from : User, to : User, by : User, admin : BOOLEAN]

Task == [ status               : Status,
          requested_by         : User,
          current_approver     : User,
          routed_to            : MaybeUser,
          decided_by           : MaybeUser,
          transfers            : Seq(Transfer),
          escalated_to         : MaybeUser,
          supplement_requested : BOOLEAN,
          supplement_resolved  : BOOLEAN ]

ASSUME NoTaskAssumption == None \notin Task

CreateTask(requester, approver) ==
    [ status               |-> "pending",
      requested_by         |-> requester,
      current_approver     |-> IF approver = None THEN requester ELSE approver,
      routed_to            |-> None,
      decided_by           |-> None,
      transfers            |-> << >>,
      escalated_to         |-> None,
      supplement_requested |-> FALSE,
      supplement_resolved  |-> FALSE ]

IsDecidable(task) == task.status \in Decidable

(* decide: raises ApprovalTaskNotModifiable unless CanDecide. *)
CanDecide(task) == IsDecidable(task)
Decide(task, decision, user) ==
    [task EXCEPT !.status = decision, !.decided_by = user]

(* request_supplement_governance: raises unless the task is pending. *)
CanRequestSupplement(task) == task.status = "pending"
RequestSupplement(task) ==
    [task EXCEPT !.status = "supplement_pending", !.supplement_requested = TRUE]

(* resolve_supplement_governance: raises unless a supplement is pending. *)
CanResolveSupplement(task) == task.status = "supplement_pending"
ResolveSupplement(task) ==
    [task EXCEPT !.status = "pending", !.supplement_resolved = TRUE]

(* transfer_approval: 403 unless authorised, then 409 when terminal. *)
CanTransferAnyone(task, user, admin) == task.status \notin Terminal   \* mutant: no 403

CanTransfer(task, user, admin) ==
    /\ admin \/ user \in {task.current_approver, task.requested_by}
    /\ task.status \notin Terminal

TransferToKeepingLast(task, to, user, admin) ==   \* mutant: history overwritten
    [task EXCEPT !.status = "transferred", !.current_approver = to, !.routed_to = to,
                 !.transfers = <<[from |-> task.current_approver, to |-> to,
                                  by |-> user, admin |-> admin]>>]

TransferTo(task, to, user, admin) ==
    [task EXCEPT !.status = "transferred",
                 !.current_approver = to,
                 !.routed_to = to,
                 !.transfers = Append(@, [from  |-> task.current_approver,
                                          to    |-> to,
                                          by    |-> user,
                                          admin |-> admin])]

(* escalate_approval: 409 when terminal; the target defaults to the holder. *)
CanEscalateAlways(task) == TRUE   \* mutant: no 409
CanEscalate(task) == task.status \notin Terminal
EscalateTo(task, target) ==
    LET holder == IF target = None THEN task.current_approver ELSE target
    IN  [task EXCEPT !.status = "escalated",
                     !.escalated_to = holder,
                     !.current_approver = holder,
                     !.routed_to = holder]
=============================================================================
