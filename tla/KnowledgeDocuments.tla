------------------------- MODULE KnowledgeDocuments -------------------------
(***************************************************************************)
(* The documents of the knowledge-api: upload, parse by the ingestion      *)
(* worker, publish, archive, restore and reparse.  A handler is a series   *)
(* of calls to the store with the call to the worker among them; a call    *)
(* the store refuses ends the handler with an error.                       *)
(*                                                                         *)
(* Two stores serve the same handlers and differ in more than SQL.         *)
(* SQLiteStore runs each call as one locked transaction on a connection of *)
(* its own.  PgKnowledgeStore issues the statements of a call one by one   *)
(* on a connection shared by all threads: what a refused call already      *)
(* wrote stays in the open transaction, whoever commits next commits it,   *)
(* and a statement that fails poisons the transaction for everybody.       *)
(*                                                                         *)
(* Of a document its parse_status is kept, whether it has rows in chunks   *)
(* and whether chunk_count says so.  The worker's output for a file is     *)
(* always the same, with the same chunk ids.                               *)
(***************************************************************************)
EXTENDS Sequences, Integers, FiniteSets

CONSTANTS Doc, Handler,
          Deployments   \* the ways the service may be set up and used

(* store is build_knowledge_store's choice (DATABASE_URL set or not),      *)
(* threads how many requests may be in progress at a time, outcomes what   *)
(* worker_client.parse may return, callbacks whether anybody uses the      *)
(* /internal endpoints, faults whether the process may restart or an       *)
(* uploaded file not be stored.                                            *)
ASSUME DeploymentsAssumption ==
    \A dep \in Deployments :
        /\ dep.store \in {"sqlite", "postgres"}
        /\ dep.threads \in Nat \ {0}
        /\ dep.outcomes \subseteq {"accepted", "worker_error", "unreachable"}
        /\ dep.callbacks \in BOOLEAN /\ dep.faults \in BOOLEAN

VARIABLES deployment, \* the deployment this is
          table,    \* Doc -> Row as the store's connections see it
          saved,    \* Doc -> Row as committed
          failed,   \* has a statement failed in the shared transaction?
          job       \* Handler -> the document it works on and the calls left

vars == <<deployment, table, saved, failed, job>>

Backend == deployment.store

Status == {"uploaded", "parsing", "parse_failed", "ready", "published", "archived"}
Row == [status : Status \cup {"absent"}, chunks : BOOLEAN, counted : BOOLEAN]

(* ALLOWED_TRANSITIONS of store.py and transition_parse_status of pg_store.py *)
AllowedSqlite == [ absent       |-> {},
                   uploaded     |-> {"parsing"},
                   parsing      |-> {"ready", "parse_failed"},
                   parse_failed |-> {"uploaded"},
                   ready        |-> {"published"},
                   published    |-> {"archived"},
                   archived     |-> {"published"} ]

AllowedPg == [ absent       |-> {},
               uploaded     |-> {"uploaded", "parsing", "parse_failed", "ready", "archived"},
               parsing      |-> {"parsing", "parse_failed", "ready"},
               parse_failed |-> {"parse_failed", "parsing", "archived"},
               ready        |-> {"ready", "published", "archived"},
               published    |-> {"published", "archived"},
               archived     |-> {"archived"} ]

Allowed == IF Backend = "sqlite" THEN AllowedSqlite ELSE AllowedPg

(* A call: transition_status to a status, or one of the others.  "locate"   *)
(* is set_source_uri after the uploaded file was renamed; "dispatch" and    *)
(* "redispatch" are worker_client.parse during upload and reparse.          *)
Call == Status \cup {"insert", "locate", "write_chunks", "mark_failed", "dispatch", "redispatch"}
StoreCall == Call \ {"dispatch", "redispatch"}

Target(call) == CASE call = "write_chunks" -> "ready"
                  [] call = "mark_failed"  -> "parse_failed"
                  [] call = "insert"       -> "uploaded"
                  [] OTHER                 -> call

(* What each call checks of the status it read before it writes.            *)
AcceptsAny(current, call) == current # "absent" \/ call = "insert"   \* mutant
Accepts(current, call) ==
    CASE call = "insert" -> current = "absent"
      [] call \in {"write_chunks", "mark_failed"} ->
             current = Target(call) \/ Target(call) \in Allowed[current]
      [] call = "locate" -> TRUE
      [] OTHER -> call \in Allowed[current]

Phase == {"select", "insert", "update", "commit"}
Idle == [doc |-> "none", todo |-> << >>, phase |-> "select", seen |-> "absent", upload |-> FALSE]

Absent == [status |-> "absent", chunks |-> FALSE, counted |-> FALSE]
Init == /\ deployment \in Deployments
        /\ table = [d \in Doc |-> Absent]
        /\ saved = table
        /\ failed = FALSE
        /\ job = [h \in Handler |-> Idle]

-----------------------------------------------------------------------------
(* Requests.  Publish and reparse look at the status before their first    *)
(* transition; every other handler leaves the check to the store.          *)
(* create_document is a coroutine that never awaits after reading the file *)
(* and blocks the event loop: no request starts until it has returned.     *)
Begin(h, d, calls, upload) ==
    /\ job[h] = Idle
    /\ Cardinality({g \in Handler : job[g] # Idle}) < deployment.threads
    /\ \A g \in Handler : ~job[g].upload
    /\ ~failed
    /\ job' = [job EXCEPT ![h] = [Idle EXCEPT !.doc = d, !.todo = calls, !.upload = upload]]
    /\ UNCHANGED <<deployment, table, saved, failed>>
Request(h, d, calls) == Begin(h, d, calls, FALSE)

Upload(h, d) ==
    table[d].status = "absent" /\ Begin(h, d, <<"insert", "locate", "dispatch">>, TRUE)
Publish(h, d) == table[d].status = "ready" /\ Request(h, d, <<"published">>)
CanReparse(d) == table[d].status = "parse_failed"
ReparseAtOnce(h, d) ==   \* mutant: parses before the transition that claims the document
    CanReparse(d) /\ Request(h, d, <<"redispatch">>)
Reparse(h, d) == CanReparse(d) /\ Request(h, d, <<"uploaded", "redispatch">>)
Archive(h, d) == table[d].status # "absent" /\ Request(h, d, <<"archived">>)
Restore(h, d) == table[d].status # "absent" /\ Request(h, d, <<"published">>)
InternalChunks(h, d) ==
    deployment.callbacks /\ table[d].status # "absent" /\ Request(h, d, <<"write_chunks">>)
InternalParseFailed(h, d) ==
    deployment.callbacks /\ table[d].status # "absent" /\ Request(h, d, <<"mark_failed">>)

-----------------------------------------------------------------------------
NextCall(h) == Head(job[h].todo)
Calling(h, phase) == /\ job[h].todo # << >>
                     /\ NextCall(h) \in StoreCall
                     /\ job[h].phase = phase
DocOf(h) == job[h].doc

Continue(h, calls) ==
    job' = [job EXCEPT ![h] = IF calls = << >> THEN Idle
                              ELSE [Idle EXCEPT !.doc = DocOf(h), !.todo = calls,
                                                !.upload = job[h].upload]]
Return(h) == Continue(h, Tail(job[h].todo))
Raise(h) == Continue(h, << >>)

(* The worker's answer decides the calls that follow.  An upload it did    *)
(* not take stays "uploaded"; a reparse it did not take fails.             *)
AfterForgetting(call, outcome) ==   \* mutant: a worker error is not recorded
    CASE outcome = "accepted" -> <<"parsing", "write_chunks">>
      [] OTHER                -> <<"parsing">>

After(call, outcome) ==
    CASE outcome = "accepted" -> <<"parsing", "write_chunks">>
      [] outcome = "unreachable" /\ call = "dispatch" -> << >>
      [] OTHER -> <<"parsing", "mark_failed">>

Dispatch(h) ==
    /\ job[h].todo # << >>
    /\ NextCall(h) \in {"dispatch", "redispatch"}
    /\ \E outcome \in deployment.outcomes : Continue(h, After(NextCall(h), outcome))
    /\ UNCHANGED <<deployment, table, saved, failed>>

(* SQLiteStore: one transaction, rolled back if anything in it raises.     *)
Updated(row, call) ==
    IF call = "locate" THEN row
    ELSE [row EXCEPT !.status = Target(call), !.counted = @ \/ call = "write_chunks"]
Written(row, call) == [Updated(row, call) EXCEPT !.chunks = @ \/ call = "write_chunks"]
ChunkIdsTaken(d, call) == call = "write_chunks" /\ table[d].chunks

SqliteCall(h) ==
    /\ Backend = "sqlite"
    /\ Calling(h, "select")
    /\ IF /\ Accepts(table[DocOf(h)].status, NextCall(h))
          /\ ~ChunkIdsTaken(DocOf(h), NextCall(h))
       THEN /\ table' = [table EXCEPT ![DocOf(h)] = Written(@, NextCall(h))]
            /\ saved' = table'
            /\ Return(h)
       ELSE Raise(h) /\ UNCHANGED <<table, saved>>
    /\ UNCHANGED <<deployment, failed>>

(* PgKnowledgeStore: SELECT, INSERT of the chunks, UPDATE and COMMIT.      *)
(* create_document and set_source_uri do not depend on what is read.       *)
PgSelect(h) ==
    /\ Backend = "postgres"
    /\ Calling(h, "select")
    /\ IF failed THEN Raise(h)
       ELSE job' = [job EXCEPT ![h].seen = table[DocOf(h)].status,
                               ![h].phase = IF NextCall(h) = "write_chunks" THEN "insert"
                                            ELSE "update"]
    /\ UNCHANGED <<deployment, table, saved, failed>>

PgInsert(h) ==
    /\ Calling(h, "insert")
    /\ IF failed \/ ChunkIdsTaken(DocOf(h), NextCall(h))
       THEN /\ Raise(h)
            /\ failed' = TRUE
            /\ UNCHANGED table
       ELSE /\ table' = [table EXCEPT ![DocOf(h)].chunks = TRUE]
            /\ job' = [job EXCEPT ![h].phase = "update"]
            /\ UNCHANGED failed
    /\ UNCHANGED <<deployment, saved>>

PgUpdate(h) ==
    /\ Calling(h, "update")
    /\ IF ~failed /\ Accepts(job[h].seen, NextCall(h))
       THEN /\ table' = [table EXCEPT ![DocOf(h)] = Updated(@, NextCall(h))]
            /\ job' = [job EXCEPT ![h].phase = "commit"]
       ELSE Raise(h) /\ UNCHANGED table
    /\ UNCHANGED <<deployment, saved, failed>>

(* COMMIT of a failed transaction rolls it back and reports no error.      *)
PgCommit(h) ==
    /\ Calling(h, "commit")
    /\ IF failed THEN table' = saved /\ UNCHANGED saved
                 ELSE saved' = table /\ UNCHANGED table
    /\ failed' = FALSE
    /\ Return(h)
    /\ UNCHANGED deployment

(* os.replace raises after the document was inserted.                      *)
RenameFails(h) ==
    /\ deployment.faults
    /\ Calling(h, "select") /\ NextCall(h) = "locate"
    /\ Raise(h)
    /\ UNCHANGED <<deployment, table, saved, failed>>

Restart ==
    /\ deployment.faults
    /\ failed \/ \E h \in Handler : job[h] # Idle
    /\ table' = saved
    /\ failed' = FALSE
    /\ job' = [h \in Handler |-> Idle]
    /\ UNCHANGED <<deployment, saved>>

Serve(h) == \/ Dispatch(h) \/ RenameFails(h) \/ SqliteCall(h)
            \/ PgSelect(h) \/ PgInsert(h) \/ PgUpdate(h) \/ PgCommit(h)

Arrive(h, d) == \/ Upload(h, d)  \/ Publish(h, d) \/ Reparse(h, d)
                \/ Archive(h, d) \/ Restore(h, d)
                \/ InternalChunks(h, d) \/ InternalParseFailed(h, d)

Next == \/ \E h \in Handler : Serve(h) \/ \E d \in Doc : Arrive(h, d)
        \/ Restart

Spec == Init /\ [][Next]_vars

(* A handler once started is run to its end by its thread; requests need   *)
(* not come.                                                               *)
FairSpec == Spec /\ \A h \in Handler : WF_vars(Serve(h))

-----------------------------------------------------------------------------
OnSqlite == Backend = "sqlite"
OneAtATime == deployment.threads = 1
Reliable == ~deployment.faults /\ ~deployment.callbacks /\ "unreachable" \notin deployment.outcomes

(* What a document says it is and what retrieval can find of it agree: an  *)
(* unparsed one has no committed chunks ("/internal/chunks" writes chunks  *)
(* and status in one transaction, knowledge-m1 design, 6.2).               *)
UnparsedHasNoChunks ==
    \A d \in Doc : saved[d].status \in {"uploaded", "parsing", "parse_failed"} =>
        ~saved[d].chunks /\ ~saved[d].counted

(* And one that may be published or is has its chunks, counted (publish    *)
(* looks at the status only).                                              *)
ReadyHasChunks ==
    \A d \in Doc : saved[d].status \in {"ready", "published"} =>
        saved[d].chunks /\ saved[d].counted

(* On SQLite both hold whatever overlaps, fails or restarts, on Postgres   *)
(* the second one as long as requests do not overlap.                      *)
StatusAndChunksAgree ==
    IF OnSqlite THEN UnparsedHasNoChunks /\ ReadyHasChunks ELSE OneAtATime => ReadyHasChunks

(* The status is the lock: with no callbacks, at most one handler is       *)
(* between the call to the worker and the result it stores (reparse moves  *)
(* the document to uploaded before it calls the worker).                   *)
Parsing(h, d) ==
    /\ job[h].doc = d
    /\ job[h].todo # << >>
    /\ NextCall(h) \notin {"insert", "locate", "uploaded"}
    /\ job[h].todo[Len(job[h].todo)] \in {"dispatch", "redispatch", "write_chunks", "mark_failed"}
OneParserPerDocument ==
    OnSqlite /\ ~deployment.callbacks =>
        \A d \in Doc : Cardinality({h \in Handler : Parsing(h, d)}) <= 1

(* A document does not stay uploaded or parsing: the handler that took it  *)
(* there stores a result or a failure, which some request can move on from *)
(* (on SQLite, while the worker answers and the process stays up; without  *)
(* a worker an upload stays where no request takes it).                    *)
ParsingEnds ==
    \A d \in Doc :
        saved[d].status \in {"uploaded", "parsing"} /\ OnSqlite /\ Reliable
            ~> saved[d].status \notin {"uploaded", "parsing"}
=============================================================================
