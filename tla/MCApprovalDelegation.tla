------------------------ MODULE MCApprovalDelegation ------------------------
(* Values of the constants of ApprovalDelegation for TLC. *)
EXTENDS ApprovalDelegation

Deploy(threads, timeouts, local, restarts, runs) ==
    [threads |-> threads, timeouts |-> timeouts, local |-> local,
     restarts |-> restarts, runs |-> runs]

(* In turn and overlapping with nothing going wrong; both with the legacy  *)
(* endpoints; timeouts and a restart, in turn and overlapping.             *)
CalmLocalAndFaulty ==
    {Deploy(1, FALSE, FALSE, 0, 2), Deploy(2, FALSE, FALSE, 0, 2),
     Deploy(1, FALSE, TRUE, 0, 2), Deploy(2, FALSE, TRUE, 0, 1),
     Deploy(1, TRUE, FALSE, 1, 2), Deploy(2, TRUE, TRUE, 1, 1)}
=============================================================================
