-------------------------- MODULE MCApprovalService --------------------------
(* Values of the constants of ApprovalService for TLC. *)
EXTENDS ApprovalService, TLC

CONSTANTS alice, bob, w1, w2, t1

TwoUsers == {alice, bob}
OneTask == {t1}
TwoWorkers == {w1, w2}

(* Requests that overlap on a task with one transfer, requests in turn on  *)
(* one with a chain of two.                                                *)
OverlappingAndInTurn == {[threads |-> 2, transfers |-> 1], [threads |-> 1, transfers |-> 2]}

Symmetry == Permutations(Worker) \cup Permutations(User)
=============================================================================
