------------------------ MODULE MCKnowledgeDocuments ------------------------
(* Values of the constants of KnowledgeDocuments for TLC. *)
EXTENDS KnowledgeDocuments, TLC

CONSTANTS d1, d2, h1, h2, h3

TwoDocs == {d1, d2}
ThreeHandlers == {h1, h2, h3}

Deploy(store, threads, outcomes, hostile) ==
    [ store |-> store, threads |-> threads, outcomes |-> outcomes,
      callbacks |-> hostile, faults |-> hostile ]
WorkerAnswers == {"accepted", "worker_error"}
AnyOutcome == WorkerAnswers \cup {"unreachable"}

(* SQLite with overlapping requests and everything that may go wrong, the  *)
(* same with a calm environment, and Postgres with requests in turn.       *)
Sound == { Deploy("sqlite", 3, AnyOutcome, TRUE),
           Deploy("sqlite", 3, WorkerAnswers, FALSE),
           Deploy("postgres", 1, AnyOutcome, TRUE) }
=============================================================================
