--------------------------- MODULE KnowledgeProofs ---------------------------
(***************************************************************************)
(* Proofs about the knowledge base (KnowledgeDocuments), for any           *)
(* documents, any handlers and any set of deployments, and about the runs  *)
(* that evaluate it (Evaluations), for any requests, routes and limits.    *)
(***************************************************************************)
EXTENDS KnowledgeDocuments, Evaluations, FiniteSetTheorems, TLAPS

(* What a handler may have left to call.                                   *)
Todos == { <<"insert", "locate", "dispatch">>, <<"locate", "dispatch">>, <<"dispatch">>,
           <<"uploaded", "redispatch">>, <<"redispatch">>,
           <<"parsing", "write_chunks">>, <<"parsing", "mark_failed">>,
           <<"write_chunks">>, <<"mark_failed">>, <<"published">>, <<"archived">> }
StoreCalls == {"insert", "locate", "uploaded", "parsing", "write_chunks", "mark_failed", "published", "archived"}
AnyStatus == Status \cup {"absent"}

AnyJob == [doc : Doc, todo : Todos, phase : Phase, seen : AnyStatus, upload : BOOLEAN]
Busy(h) == job[h] # Idle

TypeOK == /\ deployment \in Deployments
          /\ table \in [Doc -> Row]
          /\ saved \in [Doc -> Row]
          /\ failed \in BOOLEAN
          /\ job \in [Handler -> AnyJob \cup {Idle}]

(* SQLite commits every call as a whole: there is no open transaction, and *)
(* no handler between two of its statements.                               *)
WholeCalls == OnSqlite => table = saved /\ ~failed /\ \A h \in Handler : job[h].phase = "select"
Alone == OneAtATime => \A g, h \in Handler : Busy(g) /\ Busy(h) => g = h
BaseInv == TypeOK /\ WholeCalls /\ Alone

-----------------------------------------------------------------------------
Unparsed == {"absent", "uploaded", "parsing", "parse_failed"}
SqliteRow(row) == IF row.status \in Unparsed THEN ~row.chunks /\ ~row.counted ELSE row.chunks /\ row.counted
PgRow(row) == row.status \in {"ready", "published"} => row.chunks /\ row.counted

(* In turn, what a handler on Postgres read is still so when it writes.    *)
ReadHolds(h) ==
    Busy(h) /\ job[h].phase \in {"insert", "update"} /\ ~failed =>
        /\ job[h].seen = table[job[h].doc].status
        /\ job[h].phase = "update" /\ NextCall(h) = "write_chunks" => table[job[h].doc].chunks
RowsInv ==
    /\ OnSqlite => \A d \in Doc : SqliteRow(saved[d])
    /\ ~OnSqlite /\ OneAtATime =>
           /\ \A d \in Doc : PgRow(table[d]) /\ PgRow(saved[d])
           /\ \A h \in Handler : ReadHolds(h)

(* The handlers that hold a document, from the transition that claims it   *)
(* to the one that gives it up, and the status that is their lock.         *)
Claimed == { <<"locate", "dispatch">>, <<"dispatch">>, <<"redispatch">>,
             <<"parsing", "write_chunks">>, <<"parsing", "mark_failed">> }
InParsing == { <<"write_chunks">>, <<"mark_failed">> }
Holds(h, d) == Busy(h) /\ job[h].doc = d /\ job[h].todo \in Claimed \cup InParsing
LockInv ==
    OnSqlite /\ ~deployment.callbacks =>
        \A d \in Doc, h \in Handler : Holds(h, d) =>
            /\ saved[d].status = IF job[h].todo \in Claimed THEN "uploaded" ELSE "parsing"
            /\ \A g \in Handler : Holds(g, d) => g = h

-----------------------------------------------------------------------------
(* Heads and tails of what is left to call.                                *)
LEMMA TodoTypes ==
    ASSUME NEW t \in Todos
    PROVE  /\ t # << >> /\ Head(t) \in StoreCalls \cup {"dispatch", "redispatch"}
           /\ Tail(t) \in Todos \cup {<< >>}
  <1>1. CASE t = <<"insert", "locate", "dispatch">>
    BY <1>1 DEF Todos, StoreCalls
  <1>2. CASE t = <<"locate", "dispatch">>
    BY <1>2 DEF Todos, StoreCalls
  <1>3. CASE t = <<"uploaded", "redispatch">>
    BY <1>3 DEF Todos, StoreCalls
  <1>4. CASE t = <<"parsing", "write_chunks">>
    BY <1>4 DEF Todos, StoreCalls
  <1>5. CASE t = <<"parsing", "mark_failed">>
    BY <1>5 DEF Todos, StoreCalls
  <1>6. CASE t = <<"dispatch">>
    BY <1>6 DEF Todos, StoreCalls
  <1>7. CASE t = <<"redispatch">>
    BY <1>7 DEF Todos, StoreCalls
  <1>8. CASE t = <<"write_chunks">>
    BY <1>8 DEF Todos, StoreCalls
  <1>9. CASE t = <<"mark_failed">>
    BY <1>9 DEF Todos, StoreCalls
  <1>10. CASE t = <<"published">>
    BY <1>10 DEF Todos, StoreCalls
  <1>11. CASE t = <<"archived">>
    BY <1>11 DEF Todos, StoreCalls
  <1> QED BY <1>1, <1>2, <1>3, <1>4, <1>5, <1>6, <1>7, <1>8, <1>9, <1>10, <1>11 DEF Todos

LEMMA IdleFacts ==
    /\ Idle.todo = << >> /\ Idle.phase = "select" /\ ~Idle.upload
    /\ \A x \in AnyJob : x # Idle /\ x.todo # << >>
  <1>1. \A x \in AnyJob : x.todo # << >>
    BY TodoTypes DEF AnyJob
  <1> QED BY <1>1 DEF Idle

LEMMA JobFacts ==
    ASSUME TypeOK, NEW h \in Handler, job[h].todo # << >>
    PROVE  /\ Busy(h) /\ job[h] \in AnyJob /\ job[h].doc \in Doc /\ job[h].todo \in Todos
           /\ job[h].seen \in AnyStatus
           /\ NextCall(h) \in StoreCalls \cup {"dispatch", "redispatch"}
           /\ Tail(job[h].todo) \in Todos \cup {<< >>}
  <1>1. Busy(h) /\ job[h] \in AnyJob
    BY IdleFacts DEF TypeOK, Busy
  <1>2. job[h].doc \in Doc /\ job[h].todo \in Todos /\ job[h].seen \in AnyStatus
    BY <1>1 DEF AnyJob
  <1> QED BY <1>1, <1>2, TodoTypes DEF NextCall

(* ALLOWED_TRANSITIONS, move by move.                                      *)
LEMMA SqliteMoves ==
    ASSUME NEW s \in AnyStatus, NEW c \in AllowedSqlite[s]
    PROVE  \/ c = "parsing" /\ s = "uploaded"
           \/ c = "ready" /\ s = "parsing"
           \/ c = "parse_failed" /\ s = "parsing"
           \/ c = "uploaded" /\ s = "parse_failed"
           \/ c = "published" /\ s \in {"ready", "archived"}
           \/ c = "archived" /\ s = "published"
  BY DEF AnyStatus, Status, AllowedSqlite

LEMMA PgMoves ==
    ASSUME NEW s \in AnyStatus, "published" \in AllowedPg[s]
    PROVE  s \in {"ready", "published"}
  BY DEF AnyStatus, Status, AllowedPg

LEMMA SqliteKind ==
    ASSUME TypeOK
    PROVE  /\ Backend \in {"sqlite", "postgres"} /\ OnSqlite \in BOOLEAN
           /\ ~OnSqlite => Backend = "postgres"
           /\ OneAtATime => deployment.threads = 1
  BY DeploymentsAssumption DEF TypeOK, Backend, OnSqlite, OneAtATime

-----------------------------------------------------------------------------
(* Where a handler goes next.                                              *)
GoesOn(h, calls) ==
    /\ job' \in [Handler -> AnyJob \cup {Idle}]
    /\ job'[h].todo = calls /\ job'[h].phase = "select"
    /\ calls = << >> => job'[h] = Idle
    /\ calls # << >> => job'[h] # Idle /\ job'[h].doc = job[h].doc
    /\ \A g \in Handler \ {h} : job'[g] = job[g]

LEMMA ContinueDoes ==
    ASSUME TypeOK, NEW h \in Handler, job[h].todo # << >>, NEW calls \in Todos \cup {<< >>}, Continue(h, calls)
    PROVE  GoesOn(h, calls)
  <1> DEFINE x == [Idle EXCEPT !.doc = DocOf(h), !.todo = calls, !.upload = job[h].upload]
  <1>1. job[h].doc \in Doc /\ job[h].upload \in BOOLEAN
    BY JobFacts DEF AnyJob
  <1>2. CASE calls = << >>
    <2>1. job' = [job EXCEPT ![h] = Idle]
      BY <1>2 DEF Continue
    <2> QED BY <1>2, <2>1, IdleFacts DEF GoesOn, TypeOK
  <1>3. CASE calls # << >>
    <2>1. x.doc = job[h].doc /\ x.todo = calls /\ x.phase = "select" /\ x.seen = "absent" /\ x.upload = job[h].upload
      BY DEF Idle, DocOf
    <2>2. x \in AnyJob
      BY <1>1, <1>3 DEF Idle, DocOf, AnyJob, Phase, AnyStatus
    <2>3. job' = [job EXCEPT ![h] = x]
      BY <1>3 DEF Continue
    <2> HIDE DEF x
    <2> QED BY <1>3, <2>1, <2>2, <2>3, IdleFacts DEF GoesOn, TypeOK
  <1> QED BY <1>2, <1>3

(* A handler between two statements of its call.                           *)
Advances(h, phase, seen) ==
    /\ job' \in [Handler -> AnyJob \cup {Idle}]
    /\ job'[h] # Idle /\ job'[h].doc = job[h].doc /\ job'[h].todo = job[h].todo
    /\ job'[h].phase = phase /\ job'[h].seen = seen
    /\ \A g \in Handler \ {h} : job'[g] = job[g]

LEMMA AdvanceDoes ==
    ASSUME TypeOK, NEW h \in Handler, job[h].todo # << >>, NEW phase \in Phase, NEW seen \in AnyStatus,
           job' = [job EXCEPT ![h] = [@ EXCEPT !.seen = seen, !.phase = phase]]
    PROVE  Advances(h, phase, seen)
  <1> DEFINE x == [job[h] EXCEPT !.seen = seen, !.phase = phase]
  <1>1. job[h] \in AnyJob
    BY JobFacts
  <1>2. /\ x \in AnyJob /\ x.doc = job[h].doc /\ x.todo = job[h].todo
        /\ x.seen = seen /\ x.phase = phase
    BY <1>1 DEF AnyJob
  <1>3. job' = [job EXCEPT ![h] = x]
    OBVIOUS
  <1> HIDE DEF x
  <1> QED BY <1>2, <1>3, IdleFacts DEF Advances, TypeOK

-----------------------------------------------------------------------------
(* What the calls make of a row.                                           *)
LEMMA UpdatedType ==
    ASSUME NEW row \in Row, NEW call \in StoreCalls
    PROVE  /\ Updated(row, call) \in Row /\ Written(row, call) \in Row
           /\ Updated(row, call).chunks = row.chunks
           /\ call \in {"locate", "write_chunks"} \/ Updated(row, call).counted = row.counted
           /\ call \in {"locate", "write_chunks"} \/ Written(row, call) = Updated(row, call)
           /\ call = "locate" => Updated(row, call) = row /\ Written(row, call) = row
           /\ call = "write_chunks" =>
                  /\ Updated(row, call).status = "ready" /\ Updated(row, call).counted
                  /\ Written(row, call).status = "ready" /\ Written(row, call).counted /\ Written(row, call).chunks
           /\ call = "mark_failed" => Updated(row, call).status = "parse_failed"
           /\ call = "insert" => Updated(row, call).status = "uploaded"
           /\ call \in {"uploaded", "parsing", "published", "archived"} => Updated(row, call).status = call
  <1> USE DEF Row, Status, StoreCalls
  <1>1. CASE call = "locate"
    BY <1>1 DEF Updated, Written
  <1>2. CASE call = "write_chunks"
    BY <1>2 DEF Updated, Written, Target
  <1>3. CASE call \notin {"locate", "write_chunks"}
    BY <1>3 DEF Updated, Written, Target
  <1> QED BY <1>1, <1>2, <1>3

LEMMA ChunksType ==
    ASSUME NEW row \in Row
    PROVE  LET with == [row EXCEPT !.chunks = TRUE]
           IN  with \in Row /\ with.chunks /\ with.status = row.status /\ with.counted = row.counted
  BY DEF Row

-----------------------------------------------------------------------------
(* The actions in these terms.                                             *)
Starts == { <<"insert", "locate", "dispatch">>, <<"uploaded", "redispatch">>,
            <<"published">>, <<"archived">>, <<"write_chunks">>, <<"mark_failed">> }

LEMMA ArriveDoes ==
    ASSUME TypeOK, NEW h \in Handler, NEW d \in Doc, Arrive(h, d)
    PROVE  /\ UNCHANGED <<deployment, table, saved, failed>> /\ ~failed
           /\ ~Busy(h) /\ Cardinality({g \in Handler : Busy(g)}) < deployment.threads
           /\ job' \in [Handler -> AnyJob \cup {Idle}]
           /\ job'[h] # Idle /\ job'[h].doc = d /\ job'[h].phase = "select"
           /\ job'[h].todo \in Starts
           /\ ~deployment.callbacks => job'[h].todo \notin InParsing
           /\ \A g \in Handler \ {h} : job'[g] = job[g]
  <1>1. PICK calls \in Starts, upload \in BOOLEAN :
            Begin(h, d, calls, upload) /\ (~deployment.callbacks => calls \notin InParsing)
    BY DEF Arrive, Upload, Publish, CanReparse, Reparse, Archive, Restore, InternalChunks, InternalParseFailed,
           Request, Starts, InParsing
  <1> DEFINE x == [Idle EXCEPT !.doc = d, !.todo = calls, !.upload = upload]
  <1>2. x.doc = d /\ x.todo = calls /\ x.phase = "select" /\ x.seen = "absent" /\ x.upload = upload
    BY DEF Idle
  <1>3. x \in AnyJob
    BY DEF Idle, AnyJob, Starts, Todos, Phase, AnyStatus
  <1>4. job' = [job EXCEPT ![h] = x]
    BY <1>1 DEF Begin
  <1>5. /\ UNCHANGED <<deployment, table, saved, failed>> /\ ~failed
        /\ ~Busy(h) /\ Cardinality({g \in Handler : Busy(g)}) < deployment.threads
    BY <1>1 DEF Begin, Busy
  <1> HIDE DEF x
  <1> QED BY <1>1, <1>2, <1>3, <1>4, <1>5, IdleFacts DEF TypeOK

(* What follows a call to the worker.                                      *)
AfterDispatch == {<< >>, <<"parsing", "write_chunks">>, <<"parsing", "mark_failed">>}

LEMMA DispatchDoes ==
    ASSUME TypeOK, NEW h \in Handler, Dispatch(h)
    PROVE  /\ UNCHANGED <<deployment, table, saved, failed>>
           /\ job[h].todo # << >> /\ job[h].todo \in Claimed
           /\ \E calls \in AfterDispatch : GoesOn(h, calls)
  <1>1. job[h].todo # << >> /\ UNCHANGED <<deployment, table, saved, failed>>
    BY DEF Dispatch
  <1>2. job[h].todo \in Claimed
    BY <1>1, JobFacts DEF Dispatch, NextCall, Todos, Claimed
  <1>3. PICK outcome : Continue(h, After(NextCall(h), outcome))
    BY DEF Dispatch
  <1>4. After(NextCall(h), outcome) \in AfterDispatch
    BY DEF After, AfterDispatch
  <1>5. AfterDispatch \subseteq Todos \cup {<< >>}
    BY DEF AfterDispatch, Todos
  <1> QED BY <1>1, <1>2, <1>3, <1>4, <1>5, ContinueDoes

LEMMA RenameFailsDoes ==
    ASSUME TypeOK, NEW h \in Handler, RenameFails(h)
    PROVE  UNCHANGED <<deployment, table, saved, failed>> /\ job[h].todo # << >> /\ GoesOn(h, << >>)
  BY ContinueDoes DEF RenameFails, Calling, Raise

LEMMA SqliteCallDoes ==
    ASSUME TypeOK, NEW h \in Handler, SqliteCall(h)
    PROVE  /\ OnSqlite /\ job[h].todo # << >> /\ NextCall(h) \in StoreCalls
           /\ UNCHANGED <<deployment, failed>>
           /\ \/ /\ Accepts(table[job[h].doc].status, NextCall(h))
                 /\ ~ChunkIdsTaken(job[h].doc, NextCall(h))
                 /\ table' = [table EXCEPT ![job[h].doc] = Written(@, NextCall(h))]
                 /\ saved' = table'
                 /\ GoesOn(h, Tail(job[h].todo))
              \/ UNCHANGED <<table, saved>> /\ GoesOn(h, << >>)
  <1>1. job[h].todo # << >> /\ NextCall(h) \in StoreCall
    BY DEF SqliteCall, Calling
  <1>2. NextCall(h) \in StoreCalls /\ Tail(job[h].todo) \in Todos \cup {<< >>}
    BY <1>1, JobFacts DEF StoreCall
  <1>3. Return(h) => GoesOn(h, Tail(job[h].todo))
    BY <1>1, <1>2, ContinueDoes DEF Return
  <1>4. Raise(h) => GoesOn(h, << >>)
    BY <1>1, ContinueDoes DEF Raise
  <1> QED BY <1>1, <1>2, <1>3, <1>4 DEF SqliteCall, OnSqlite, DocOf

LEMMA PgSelectDoes ==
    ASSUME TypeOK, NEW h \in Handler, PgSelect(h)
    PROVE  /\ ~OnSqlite /\ job[h].todo # << >> /\ NextCall(h) \in StoreCalls
           /\ UNCHANGED <<deployment, table, saved, failed>>
           /\ \/ failed /\ GoesOn(h, << >>)
              \/ /\ ~failed
                 /\ Advances(h, IF NextCall(h) = "write_chunks" THEN "insert" ELSE "update",
                             table[job[h].doc].status)
  <1>1. job[h].todo # << >> /\ NextCall(h) \in StoreCall
    BY DEF PgSelect, Calling
  <1>2. NextCall(h) \in StoreCalls /\ job[h].doc \in Doc
    BY <1>1, JobFacts DEF StoreCall
  <1>3. CASE failed
    BY <1>1, <1>2, <1>3, ContinueDoes DEF PgSelect, Raise, OnSqlite
  <1>4. CASE ~failed
    <2> DEFINE phase == IF NextCall(h) = "write_chunks" THEN "insert" ELSE "update"
               seen == table[job[h].doc].status
    <2>1. phase \in Phase /\ seen \in AnyStatus
      BY <1>2 DEF Phase, AnyStatus, TypeOK, Row
    <2>2. job' = [job EXCEPT ![h] = [@ EXCEPT !.seen = seen, !.phase = phase]]
      BY <1>4 DEF PgSelect, DocOf, TypeOK
    <2> HIDE DEF phase, seen
    <2>3. Advances(h, phase, seen)
      BY <1>1, <2>1, <2>2, AdvanceDoes
    <2> QED BY <1>1, <1>2, <1>4, <2>3 DEF PgSelect, OnSqlite, phase, seen
  <1> QED BY <1>3, <1>4

LEMMA PhaseAdvance ==
    ASSUME TypeOK, NEW h \in Handler, job[h].todo # << >>, NEW phase \in Phase,
           job' = [job EXCEPT ![h].phase = phase]
    PROVE  Advances(h, phase, job[h].seen)
  <1> DEFINE x == [job[h] EXCEPT !.phase = phase]
  <1>1. job[h] \in AnyJob
    BY JobFacts
  <1>2. /\ x \in AnyJob /\ x.doc = job[h].doc /\ x.todo = job[h].todo
        /\ x.seen = job[h].seen /\ x.phase = phase
    BY <1>1 DEF AnyJob
  <1>3. job' = [job EXCEPT ![h] = x]
    OBVIOUS
  <1> HIDE DEF x
  <1> QED BY <1>2, <1>3, IdleFacts DEF Advances, TypeOK

LEMMA PgInsertDoes ==
    ASSUME TypeOK, NEW h \in Handler, PgInsert(h)
    PROVE  /\ job[h].todo # << >> /\ NextCall(h) \in StoreCalls /\ job[h].phase = "insert"
           /\ UNCHANGED <<deployment, saved>>
           /\ \/ UNCHANGED table /\ failed' = TRUE /\ GoesOn(h, << >>)
              \/ /\ ~failed /\ UNCHANGED failed
                 /\ table' = [table EXCEPT ![job[h].doc].chunks = TRUE]
                 /\ Advances(h, "update", job[h].seen)
  <1>1. job[h].todo # << >> /\ NextCall(h) \in StoreCall /\ job[h].phase = "insert"
    BY DEF PgInsert, Calling
  <1>2. NextCall(h) \in StoreCalls /\ job[h].doc \in Doc
    BY <1>1, JobFacts DEF StoreCall
  <1>3. Raise(h) => GoesOn(h, << >>)
    BY <1>1, ContinueDoes DEF Raise
  <1>4. job' = [job EXCEPT ![h].phase = "update"] => Advances(h, "update", job[h].seen)
    BY <1>1, PhaseAdvance DEF Phase
  <1> QED BY <1>1, <1>2, <1>3, <1>4 DEF PgInsert, DocOf

LEMMA PgUpdateDoes ==
    ASSUME TypeOK, NEW h \in Handler, PgUpdate(h)
    PROVE  /\ job[h].todo # << >> /\ NextCall(h) \in StoreCalls /\ job[h].phase = "update"
           /\ UNCHANGED <<deployment, saved, failed>>
           /\ \/ UNCHANGED table /\ GoesOn(h, << >>)
              \/ /\ ~failed /\ Accepts(job[h].seen, NextCall(h))
                 /\ table' = [table EXCEPT ![job[h].doc] = Updated(@, NextCall(h))]
                 /\ Advances(h, "commit", job[h].seen)
  <1>1. job[h].todo # << >> /\ NextCall(h) \in StoreCall /\ job[h].phase = "update"
    BY DEF PgUpdate, Calling
  <1>2. NextCall(h) \in StoreCalls /\ job[h].doc \in Doc
    BY <1>1, JobFacts DEF StoreCall
  <1>3. Raise(h) => GoesOn(h, << >>)
    BY <1>1, ContinueDoes DEF Raise
  <1>4. job' = [job EXCEPT ![h].phase = "commit"] => Advances(h, "commit", job[h].seen)
    BY <1>1, PhaseAdvance DEF Phase
  <1> QED BY <1>1, <1>2, <1>3, <1>4 DEF PgUpdate, DocOf

LEMMA PgCommitDoes ==
    ASSUME TypeOK, NEW h \in Handler, PgCommit(h)
    PROVE  /\ job[h].todo # << >> /\ job[h].phase = "commit"
           /\ UNCHANGED deployment /\ failed' = FALSE
           /\ (table' = saved /\ UNCHANGED saved) \/ (saved' = table /\ UNCHANGED table)
           /\ GoesOn(h, Tail(job[h].todo))
  <1>1. job[h].todo # << >> /\ job[h].phase = "commit"
    BY DEF PgCommit, Calling
  <1>2. GoesOn(h, Tail(job[h].todo))
    BY <1>1, JobFacts, ContinueDoes DEF PgCommit, Return
  <1> QED BY <1>1, <1>2 DEF PgCommit

-----------------------------------------------------------------------------
LEMMA InitBase == Init => BaseInv
  <1> SUFFICES ASSUME Init PROVE BaseInv
    OBVIOUS
  <1>1. Absent \in Row
    BY DEF Absent, Row
  <1>2. TypeOK
    BY <1>1 DEF Init, TypeOK
  <1>3. \A h \in Handler : job[h] = Idle
    BY DEF Init
  <1>4. WholeCalls
    BY <1>3, IdleFacts DEF Init, WholeCalls
  <1>5. Alone
    BY <1>3 DEF Alone, Busy
  <1> QED BY <1>2, <1>4, <1>5 DEF BaseInv

LEMMA SameDeployment == ASSUME [Next]_vars PROVE deployment' = deployment
  BY DEF Next, vars, Serve, Arrive, Upload, Publish, CanReparse, Reparse, Archive, Restore, InternalChunks,
         InternalParseFailed, Request, Begin, Dispatch, RenameFails, SqliteCall, PgSelect, PgInsert, PgUpdate,
         PgCommit, Restart

LEMMA TypeStep == ASSUME BaseInv, [Next]_vars PROVE TypeOK'
  <1>0. deployment' = deployment
    BY SameDeployment
  <1> USE DEF BaseInv
  <1>1. ASSUME NEW h \in Handler, NEW d \in Doc, Arrive(h, d) PROVE TypeOK'
    BY <1>1, ArriveDoes DEF TypeOK
  <1>2. ASSUME NEW h \in Handler, Dispatch(h) PROVE TypeOK'
    BY <1>2, DispatchDoes DEF TypeOK, GoesOn
  <1>3. ASSUME NEW h \in Handler, RenameFails(h) PROVE TypeOK'
    BY <1>3, RenameFailsDoes DEF TypeOK, GoesOn
  <1>4. ASSUME NEW h \in Handler, SqliteCall(h) PROVE TypeOK'
    <2>1. \A row \in Row : Written(row, NextCall(h)) \in Row
      BY <1>4, SqliteCallDoes, UpdatedType
    <2>2. table' \in [Doc -> Row] /\ saved' \in [Doc -> Row]
      BY <1>4, <2>1, SqliteCallDoes, JobFacts DEF TypeOK
    <2> QED BY <1>4, <2>2, SqliteCallDoes DEF TypeOK, GoesOn
  <1>5. ASSUME NEW h \in Handler, PgSelect(h) PROVE TypeOK'
    BY <1>5, PgSelectDoes DEF TypeOK, GoesOn, Advances
  <1>6. ASSUME NEW h \in Handler, PgInsert(h) PROVE TypeOK'
    <2>1. table' \in [Doc -> Row]
      <3>1. CASE UNCHANGED table
        BY <3>1 DEF TypeOK
      <3>2. CASE table' = [table EXCEPT ![job[h].doc].chunks = TRUE]
        BY <1>6, <3>2, PgInsertDoes, JobFacts, ChunksType DEF TypeOK
      <3> QED BY <1>6, <3>1, <3>2, PgInsertDoes
    <2>2. failed' \in BOOLEAN
      BY <1>6, PgInsertDoes DEF TypeOK
    <2> QED BY <1>6, <2>1, <2>2, PgInsertDoes DEF TypeOK, GoesOn, Advances
  <1>7. ASSUME NEW h \in Handler, PgUpdate(h) PROVE TypeOK'
    <2>1. \A row \in Row : Updated(row, NextCall(h)) \in Row
      BY <1>7, PgUpdateDoes, UpdatedType
    <2>2. table' \in [Doc -> Row]
      BY <1>7, <2>1, PgUpdateDoes, JobFacts DEF TypeOK
    <2> QED BY <1>7, <2>2, PgUpdateDoes DEF TypeOK, GoesOn, Advances
  <1>8. ASSUME NEW h \in Handler, PgCommit(h) PROVE TypeOK'
    BY <1>8, PgCommitDoes DEF TypeOK, GoesOn
  <1>9. ASSUME Restart PROVE TypeOK'
    BY <1>9 DEF TypeOK, Restart
  <1>10. ASSUME UNCHANGED vars PROVE TypeOK'
    BY <1>10 DEF TypeOK, vars
  <1> QED BY <1>1, <1>2, <1>3, <1>4, <1>5, <1>6, <1>7, <1>8, <1>9, <1>10 DEF Next, Serve

LEMMA WholeStep == ASSUME BaseInv, [Next]_vars PROVE WholeCalls'
  <1>0. deployment' = deployment
    BY SameDeployment
  <1> USE DEF BaseInv
  <1> SUFFICES ASSUME OnSqlite PROVE table' = saved' /\ ~failed' /\ \A h \in Handler : job'[h].phase = "select"
    BY <1>0 DEF WholeCalls, OnSqlite, Backend
  <1>1. table = saved /\ ~failed /\ \A h \in Handler : job[h].phase = "select"
    BY DEF WholeCalls
  <1>2. ASSUME NEW h \in Handler, NEW d \in Doc, Arrive(h, d)
        PROVE  table' = saved' /\ ~failed' /\ \A g \in Handler : job'[g].phase = "select"
    BY <1>1, <1>2, ArriveDoes
  <1>3. ASSUME NEW h \in Handler, Serve(h)
        PROVE  table' = saved' /\ ~failed' /\ \A g \in Handler : job'[g].phase = "select"
    <2>1. Dispatch(h) \/ RenameFails(h) \/ SqliteCall(h)
      BY <1>1, <1>3 DEF Serve, PgSelect, PgInsert, PgUpdate, PgCommit, Calling, OnSqlite
    <2> QED BY <1>1, <2>1, DispatchDoes, RenameFailsDoes, SqliteCallDoes DEF GoesOn
  <1>4. ASSUME Restart PROVE table' = saved' /\ ~failed' /\ \A g \in Handler : job'[g].phase = "select"
    BY <1>4, IdleFacts DEF Restart
  <1> QED BY <1>1, <1>2, <1>3, <1>4 DEF Next, vars

LEMMA NobodyElse ==
    ASSUME BaseInv, OneAtATime, Cardinality({g \in Handler : Busy(g)}) < deployment.threads
    PROVE  \A g \in Handler : ~Busy(g)
  <1> SUFFICES ASSUME NEW h \in Handler, Busy(h) PROVE FALSE
    OBVIOUS
  <1>1. {g \in Handler : Busy(g)} = {h}
    BY DEF BaseInv, Alone
  <1>2. Cardinality({g \in Handler : Busy(g)}) = 1
    BY <1>1, FS_Singleton
  <1> QED BY <1>2 DEF OneAtATime

(* Nobody becomes busy but by a request.                                   *)
LEMMA ServesOne ==
    ASSUME TypeOK, NEW h \in Handler, Serve(h)
    PROVE  job[h].todo # << >> /\ Busy(h) /\ \A g \in Handler \ {h} : job'[g] = job[g]
  <1>1. job[h].todo # << >>
    BY DEF Serve, Dispatch, RenameFails, SqliteCall, PgSelect, PgInsert, PgUpdate, PgCommit, Calling
  <1>2. \A g \in Handler \ {h} : job'[g] = job[g]
    BY DispatchDoes, RenameFailsDoes, SqliteCallDoes, PgSelectDoes, PgInsertDoes, PgUpdateDoes, PgCommitDoes
       DEF Serve, GoesOn, Advances
  <1> QED BY <1>1, <1>2, JobFacts

LEMMA AloneStep == ASSUME BaseInv, [Next]_vars PROVE Alone'
  <1> USE DEF BaseInv
  <1> SUFFICES ASSUME OneAtATime, NEW g \in Handler, NEW h \in Handler, Busy(g)', Busy(h)' PROVE g = h
    BY SameDeployment DEF Alone, OneAtATime
  <1>1. ASSUME NEW x \in Handler, NEW d \in Doc, Arrive(x, d) PROVE g = h
    BY <1>1, ArriveDoes, NobodyElse DEF Busy
  <1>2. ASSUME NEW x \in Handler, Serve(x) PROVE g = h
    BY <1>2, ServesOne DEF Alone, Busy
  <1>3. ASSUME Restart PROVE g = h
    BY <1>3 DEF Restart, Busy
  <1>4. ASSUME UNCHANGED vars PROVE g = h
    BY <1>4 DEF Alone, Busy, vars
  <1> QED BY <1>1, <1>2, <1>3, <1>4 DEF Next

LEMMA BaseStep == BaseInv /\ [Next]_vars => BaseInv'
  BY TypeStep, WholeStep, AloneStep DEF BaseInv

(* The types of the documents and of what each handler has left to call.   *)
THEOREM TypeCorrect == Spec => []TypeOK
  <1>1. BaseInv => TypeOK
    BY DEF BaseInv
  <1> QED BY <1>1, InitBase, BaseStep, PTL DEF Spec

-----------------------------------------------------------------------------
(* No call SQLite accepts makes a row that says one thing and holds        *)
(* another; what each call finds the document at.                          *)
LEMMA SqliteAccepts ==
    ASSUME Backend = "sqlite", NEW s \in AnyStatus, NEW call \in StoreCalls, Accepts(s, call), call # "locate"
    PROVE  /\ call = "insert" => s = "absent"
           /\ call = "uploaded" => s = "parse_failed"
           /\ call = "parsing" => s = "uploaded"
           /\ call = "write_chunks" => s \in {"parsing", "ready"}
           /\ call = "mark_failed" => s \in {"parsing", "parse_failed"}
           /\ call = "published" => s \in {"ready", "archived"}
           /\ call = "archived" => s = "published"
  <1>0. Allowed = AllowedSqlite
    BY DEF Allowed
  <1>1. CASE call = "insert"
    BY <1>1 DEF Accepts
  <1>2. CASE call \in {"write_chunks", "mark_failed"}
    BY <1>0, <1>2, SqliteMoves DEF Accepts, Target
  <1>3. CASE call \in {"uploaded", "parsing", "published", "archived"}
    BY <1>0, <1>3, SqliteMoves DEF Accepts
  <1> QED BY <1>1, <1>2, <1>3 DEF StoreCalls

LEMMA SqliteRowKept ==
    ASSUME Backend = "sqlite", NEW row \in Row, SqliteRow(row), NEW call \in StoreCalls,
           Accepts(row.status, call), call = "write_chunks" => ~row.chunks
    PROVE  SqliteRow(Written(row, call))
  <1>1. row.status \in AnyStatus
    BY DEF Row, AnyStatus
  <1>2. CASE call = "locate"
    BY <1>2, UpdatedType
  <1>3. CASE call = "write_chunks"
    BY <1>3, UpdatedType DEF SqliteRow, Unparsed
  <1>4. CASE call \notin {"locate", "write_chunks"}
    <2> DEFINE new == Written(row, call)
    <2>1. new.chunks = row.chunks /\ new.counted = row.counted
      BY <1>4, UpdatedType
    <2>2. row.status \in Unparsed <=> new.status \in Unparsed
      <3>1. /\ call = "mark_failed" => new.status = "parse_failed"
            /\ call = "insert" => new.status = "uploaded"
            /\ call \in {"uploaded", "parsing", "published", "archived"} => new.status = call
        BY <1>4, UpdatedType
      <3> HIDE DEF new
      <3> QED BY <1>1, <1>4, <3>1, SqliteAccepts DEF Unparsed, StoreCalls
    <2>3. SqliteRow(new)
      <3> HIDE DEF new
      <3> QED BY <2>1, <2>2 DEF SqliteRow
    <2> QED BY <2>3
  <1> QED BY <1>2, <1>3, <1>4

(* On Postgres a row becomes ready with its chunks in, and published from  *)
(* there.                                                                  *)
LEMMA PgRowKept ==
    ASSUME Backend # "sqlite", NEW row \in Row, PgRow(row), NEW call \in StoreCalls,
           Accepts(row.status, call), call = "write_chunks" => row.chunks
    PROVE  PgRow(Updated(row, call))
  <1>1. row.status \in AnyStatus /\ Allowed = AllowedPg
    BY DEF Row, AnyStatus, Allowed
  <1>2. CASE call = "locate"
    BY <1>2, UpdatedType
  <1>3. CASE call = "write_chunks"
    BY <1>3, UpdatedType DEF PgRow
  <1>4. CASE call \notin {"locate", "write_chunks", "published"}
    <2>1. Updated(row, call).status \notin {"ready", "published"}
      BY <1>4, UpdatedType DEF StoreCalls
    <2> QED BY <2>1 DEF PgRow
  <1>5. CASE call = "published"
    <2>1. row.status \in {"ready", "published"}
      BY <1>1, <1>5, PgMoves DEF Accepts
    <2>2. Updated(row, call).chunks = row.chunks /\ Updated(row, call).counted = row.counted
      BY <1>5, UpdatedType
    <2> QED BY <2>1, <2>2 DEF PgRow
  <1> QED BY <1>2, <1>3, <1>4, <1>5

LEMMA InitRows == Init => RowsInv
  <1> SUFFICES ASSUME Init PROVE RowsInv
    OBVIOUS
  <1>1. \A d \in Doc : table[d] = Absent /\ saved[d] = Absent
    BY DEF Init
  <1>2. SqliteRow(Absent) /\ PgRow(Absent)
    BY DEF Absent, SqliteRow, PgRow, Unparsed
  <1>3. \A h \in Handler : ~Busy(h)
    BY DEF Init, Busy
  <1> QED BY <1>1, <1>2, <1>3 DEF RowsInv, ReadHolds

LEMMA RowsStep == ASSUME BaseInv, RowsInv, [Next]_vars PROVE RowsInv'
  <1>0. deployment' = deployment
    BY SameDeployment
  <1> USE DEF BaseInv
  <1>1. ASSUME OnSqlite, NEW d \in Doc PROVE SqliteRow(saved'[d])
    <2>1. SqliteRow(saved[d]) /\ table = saved
      BY <1>1 DEF RowsInv, WholeCalls
    <2>2. CASE saved' = saved
      BY <2>1, <2>2
    <2>3. ASSUME NEW h \in Handler, SqliteCall(h) PROVE SqliteRow(saved'[d])
      <3> DEFINE x == job[h].doc
                 call == NextCall(h)
      <3>1. x \in Doc /\ call \in StoreCalls
        BY <2>3, SqliteCallDoes, JobFacts
      <3>2. CASE /\ Accepts(table[x].status, call) /\ ~ChunkIdsTaken(x, call)
                 /\ table' = [table EXCEPT ![x] = Written(@, call)] /\ saved' = table'
        <4>1. CASE d = x
          <5>1. saved'[d] = Written(saved[d], call) /\ saved[d] \in Row
            BY <2>1, <3>1, <3>2, <4>1 DEF TypeOK
          <5>2. Accepts(saved[d].status, call) /\ (call = "write_chunks" => ~saved[d].chunks)
            BY <2>1, <3>2, <4>1 DEF ChunkIdsTaken
          <5> HIDE DEF call
          <5> QED BY <1>1, <2>1, <3>1, <5>1, <5>2, SqliteRowKept DEF OnSqlite
        <4>2. CASE d # x
          BY <2>1, <3>2, <4>2 DEF TypeOK
        <4> QED BY <4>1, <4>2
      <3> QED BY <2>2, <2>3, <3>2, SqliteCallDoes
    <2>4. (\E h \in Handler : SqliteCall(h)) \/ saved' = saved
      <3>1. \A h \in Handler : ~PgCommit(h)
        BY <1>1 DEF PgCommit, Calling, WholeCalls
      <3> QED BY <3>1 DEF Next, vars, Serve, Arrive, Upload, Publish, CanReparse, Reparse, Archive, Restore,
             InternalChunks, InternalParseFailed, Request, Begin, Dispatch, RenameFails, PgSelect, PgInsert, PgUpdate,
             Restart
    <2> QED BY <2>2, <2>3, <2>4
  <1>2. ASSUME ~OnSqlite, OneAtATime
        PROVE  /\ \A d \in Doc : PgRow(table'[d]) /\ PgRow(saved'[d])
               /\ \A h \in Handler : ReadHolds(h)'
    <2> DEFINE Rows == \A d \in Doc : PgRow(table'[d]) /\ PgRow(saved'[d])
               Reads == \A h \in Handler : ReadHolds(h)'
    <2>0. \A d \in Doc : PgRow(table[d]) /\ PgRow(saved[d])
      BY <1>2 DEF RowsInv
    <2>1. ASSUME NEW h \in Handler, NEW d \in Doc, Arrive(h, d) PROVE Rows /\ Reads
      <3>1. \A g \in Handler : ~Busy(g)
        BY <1>2, <2>1, ArriveDoes, NobodyElse
      <3>2. \A g \in Handler : ReadHolds(g)'
        BY <2>1, <3>1, ArriveDoes DEF ReadHolds, Busy
      <3> QED BY <2>0, <2>1, <3>2, ArriveDoes
    (* The one handler that is busy goes on; nobody else has read anything. *)
    <2>2. ASSUME NEW h \in Handler, Serve(h), ReadHolds(h)' PROVE Reads
      <3>1. ASSUME NEW g \in Handler, g # h PROVE ReadHolds(g)'
        BY <1>2, <2>2, <3>1, ServesOne DEF Alone, ReadHolds, Busy
      <3> QED BY <2>2, <3>1
    <2>3. ASSUME NEW h \in Handler, NEW calls, GoesOn(h, calls) PROVE ReadHolds(h)'
      BY <2>3 DEF GoesOn, ReadHolds
    <2>4. ASSUME NEW h \in Handler, Dispatch(h) \/ RenameFails(h) PROVE Rows /\ Reads
      BY <2>0, <2>2, <2>3, <2>4, DispatchDoes, RenameFailsDoes DEF Serve
    <2>5. ASSUME NEW h \in Handler, PgSelect(h) PROVE Rows /\ Reads
      <3>1. Rows
        BY <2>0, <2>5, PgSelectDoes
      <3>2. ReadHolds(h)'
        <4>1. ASSUME Advances(h, IF NextCall(h) = "write_chunks" THEN "insert" ELSE "update", table[job[h].doc].status)
              PROVE  ReadHolds(h)'
          <5>1. NextCall(h)' = NextCall(h) /\ job'[h].doc = job[h].doc /\ job'[h].seen = table[job[h].doc].status
            BY <4>1 DEF Advances, NextCall
          <5>2. job'[h].phase = "update" => NextCall(h) # "write_chunks"
            BY <4>1 DEF Advances
          <5>3. table' = table
            BY <2>5, PgSelectDoes
          <5> QED BY <5>1, <5>2, <5>3 DEF ReadHolds
        <4> QED BY <2>3, <2>5, <4>1, PgSelectDoes
      <3> QED BY <2>2, <2>5, <3>1, <3>2 DEF Serve
    <2>6. ASSUME NEW h \in Handler, PgInsert(h) PROVE Rows /\ Reads
      <3>0. job[h].doc \in Doc /\ Busy(h)
        BY <2>6, PgInsertDoes, JobFacts
      <3>1. CASE UNCHANGED table /\ failed' = TRUE /\ GoesOn(h, << >>)
        BY <2>0, <2>2, <2>3, <2>6, <3>1, PgInsertDoes DEF Serve
      <3>2. CASE /\ ~failed /\ table' = [table EXCEPT ![job[h].doc].chunks = TRUE]
                 /\ Advances(h, "update", job[h].seen)
        <4>1. \A d \in Doc : /\ table'[d].status = table[d].status /\ table'[d].counted = table[d].counted
                             /\ table[d].chunks => table'[d].chunks
          BY <3>2, ChunksType DEF TypeOK
        <4>2. table'[job[h].doc].chunks
          BY <3>0, <3>2, ChunksType DEF TypeOK
        <4>3. Rows
          BY <2>0, <2>6, <4>1, PgInsertDoes DEF PgRow
        <4>4. job[h].seen = table[job[h].doc].status
          BY <1>2, <2>6, <3>0, <3>2, PgInsertDoes DEF RowsInv, ReadHolds
        <4>5. ReadHolds(h)'
          BY <3>0, <3>2, <4>1, <4>2, <4>4 DEF ReadHolds, Advances
        <4> QED BY <2>2, <2>6, <4>3, <4>5 DEF Serve
      <3> QED BY <2>6, <3>1, <3>2, PgInsertDoes
    <2>7. ASSUME NEW h \in Handler, PgUpdate(h) PROVE Rows /\ Reads
      <3> DEFINE x == job[h].doc
                 call == NextCall(h)
      <3>0. x \in Doc /\ Busy(h) /\ call \in StoreCalls
        BY <2>7, PgUpdateDoes, JobFacts
      <3>1. CASE UNCHANGED table /\ GoesOn(h, << >>)
        BY <2>0, <2>2, <2>3, <2>7, <3>1, PgUpdateDoes DEF Serve
      <3>2. CASE /\ ~failed /\ Accepts(job[h].seen, call) /\ table' = [table EXCEPT ![x] = Updated(@, call)]
                 /\ Advances(h, "commit", job[h].seen)
        <4>1. job[h].seen = table[x].status /\ (call = "write_chunks" => table[x].chunks)
          BY <1>2, <2>7, <3>0, <3>2, PgUpdateDoes DEF RowsInv, ReadHolds
        <4>2. ASSUME NEW d \in Doc PROVE PgRow(table'[d])
          <5>1. CASE d = x
            <6>1. table'[d] = Updated(table[d], call) /\ table[d] \in Row
              BY <3>0, <3>2, <5>1 DEF TypeOK
            <6>2. Accepts(table[d].status, call) /\ (call = "write_chunks" => table[d].chunks)
              BY <3>2, <4>1, <5>1
            <6> HIDE DEF call
            <6> QED BY <1>2, <2>0, <3>0, <6>1, <6>2, PgRowKept DEF OnSqlite
          <5>2. CASE d # x
            BY <2>0, <3>2, <5>2 DEF TypeOK
          <5> QED BY <5>1, <5>2
        <4>3. ReadHolds(h)'
          BY <3>2 DEF ReadHolds, Advances
        <4>4. Rows
          BY <2>0, <2>7, <4>2, PgUpdateDoes
        <4> QED BY <2>2, <2>7, <4>3, <4>4 DEF Serve
      <3> QED BY <2>7, <3>1, <3>2, PgUpdateDoes
    <2>8. ASSUME NEW h \in Handler, PgCommit(h) PROVE Rows /\ Reads
      BY <2>0, <2>2, <2>3, <2>8, PgCommitDoes DEF Serve
    <2>9. ASSUME Restart PROVE Rows /\ Reads
      BY <2>0, <2>9 DEF Restart, ReadHolds, Busy
    <2>10. ASSUME UNCHANGED vars PROVE Rows /\ Reads
      BY <1>2, <2>0, <2>10 DEF RowsInv, ReadHolds, Busy, NextCall, vars
    <2>11. \A h \in Handler : ~SqliteCall(h)
      BY <1>2 DEF SqliteCall, OnSqlite
    <2> QED BY <2>1, <2>4, <2>5, <2>6, <2>7, <2>8, <2>9, <2>10, <2>11 DEF Next, Serve
  <1> QED BY <1>0, <1>1, <1>2 DEF RowsInv, OnSqlite, OneAtATime, Backend

(* What a document says it is and what retrieval finds of it agree: on     *)
(* SQLite whatever overlaps, fails or restarts, on Postgres as long as     *)
(* requests do not overlap.                                                *)
THEOREM StatusAgrees == Spec => []StatusAndChunksAgree
  <1>1. BaseInv /\ RowsInv /\ [Next]_vars => (BaseInv /\ RowsInv)'
    BY BaseStep, RowsStep
  <1>2. BaseInv /\ RowsInv => StatusAndChunksAgree
    <2> SUFFICES ASSUME BaseInv, RowsInv PROVE StatusAndChunksAgree
      OBVIOUS
    <2>1. CASE OnSqlite
      BY <2>1 DEF RowsInv, SqliteRow, Unparsed, StatusAndChunksAgree, UnparsedHasNoChunks, ReadyHasChunks
    <2>2. CASE ~OnSqlite
      BY <2>2 DEF RowsInv, PgRow, StatusAndChunksAgree, ReadyHasChunks
    <2> QED BY <2>1, <2>2
  <1> QED BY <1>1, <1>2, InitBase, InitRows, PTL DEF Spec

-----------------------------------------------------------------------------
(* The call a handler that holds a document is at, and what it holds then. *)
LEMMA TodoSteps ==
    ASSUME NEW t \in Todos
    PROVE  /\ Tail(t) \in Claimed =>
                  \/ Head(t) = "insert" /\ t \notin Claimed
                  \/ Head(t) = "uploaded" /\ t \notin Claimed
                  \/ Head(t) = "locate" /\ t \in Claimed
           /\ Tail(t) \in InParsing => Head(t) = "parsing" /\ t \in Claimed
           /\ Head(t) \in {"write_chunks", "mark_failed"} => t \in InParsing
           /\ Head(t) = "parsing" => t \in Claimed
           /\ t \in Claimed => t \notin InParsing /\ Head(t) \in {"locate", "dispatch", "redispatch", "parsing"}
           /\ t \in InParsing => Head(t) \in {"write_chunks", "mark_failed"}
           /\ t \in Starts => t \notin Claimed
  <1> USE DEF Claimed, InParsing, Starts
  <1>1. CASE t = <<"insert", "locate", "dispatch">>
    BY <1>1
  <1>2. CASE t = <<"locate", "dispatch">>
    BY <1>2
  <1>3. CASE t = <<"uploaded", "redispatch">>
    BY <1>3
  <1>4. CASE t = <<"parsing", "write_chunks">>
    BY <1>4
  <1>5. CASE t = <<"parsing", "mark_failed">>
    BY <1>5
  <1>6. CASE t = <<"dispatch">>
    BY <1>6
  <1>7. CASE t = <<"redispatch">>
    BY <1>7
  <1>8. CASE t = <<"write_chunks">>
    BY <1>8
  <1>9. CASE t = <<"mark_failed">>
    BY <1>9
  <1>10. CASE t = <<"published">>
    BY <1>10
  <1>11. CASE t = <<"archived">>
    BY <1>11
  <1> QED BY <1>1, <1>2, <1>3, <1>4, <1>5, <1>6, <1>7, <1>8, <1>9, <1>10, <1>11 DEF Todos

HeldStatus(h) == IF job[h].todo \in Claimed THEN "uploaded" ELSE "parsing"

LEMMA InitLock == Init => LockInv
  BY DEF Init, LockInv, Holds, Busy

(* A call that SQLite accepts of a handler that does not hold the document *)
(* takes it nowhere while somebody else does.                              *)
LEMMA LockStep == ASSUME BaseInv, LockInv, [Next]_vars PROVE LockInv'
  <1>0. deployment' = deployment
    BY SameDeployment
  <1> USE DEF BaseInv
  <1> SUFFICES ASSUME OnSqlite, ~deployment.callbacks
               PROVE  \A d \in Doc, h \in Handler : Holds(h, d)' =>
                          saved'[d].status = HeldStatus(h)' /\ \A g \in Handler : Holds(g, d)' => g = h
    BY <1>0 DEF LockInv, HeldStatus, OnSqlite, Backend
  <1> DEFINE Locked(d) == \A h \in Handler : Holds(h, d)' =>
                              saved'[d].status = HeldStatus(h)' /\ \A g \in Handler : Holds(g, d)' => g = h
  <1>1. \A d \in Doc, h \in Handler : Holds(h, d) =>
            saved[d].status = HeldStatus(h) /\ \A g \in Handler : Holds(g, d) => g = h
    BY DEF LockInv, HeldStatus
  <1>2. table = saved /\ table \in [Doc -> Row]
    BY DEF WholeCalls, TypeOK
  (* One handler goes on and holds nothing, or what it held before.        *)
  <1>3. ASSUME NEW h \in Handler, saved' = saved, \A g \in Handler \ {h} : job'[g] = job[g],
               NEW d \in Doc, Holds(h, d)' => Holds(h, d) /\ HeldStatus(h)' = HeldStatus(h)
        PROVE  Locked(d)
    <2>1. \A g \in Handler : Holds(g, d)' => Holds(g, d) /\ HeldStatus(g)' = HeldStatus(g)
      BY <1>3 DEF Holds, HeldStatus, Busy
    <2> QED BY <1>1, <1>3, <2>1
  <1>4. ASSUME NEW h \in Handler, NEW x \in Doc, Arrive(h, x), NEW d \in Doc PROVE Locked(d)
    <2>1. ~Holds(h, d)'
      <3>1. job'[h].todo \in Starts /\ job'[h].todo \notin InParsing
        BY <1>4, ArriveDoes
      <3>2. job'[h].todo \in Todos
        BY <3>1 DEF Starts, Todos
      <3> QED BY <3>1, <3>2, TodoSteps DEF Holds
    <2> QED BY <1>3, <1>4, <2>1, ArriveDoes
  <1>5. ASSUME NEW h \in Handler, GoesOn(h, << >>), NEW d \in Doc, saved' = saved PROVE Locked(d)
    BY <1>3, <1>5 DEF GoesOn, Holds, Busy
  <1>6. ASSUME NEW h \in Handler, Dispatch(h), NEW d \in Doc PROVE Locked(d)
    <2>1. PICK calls \in AfterDispatch : GoesOn(h, calls)
      BY <1>6, DispatchDoes
    <2>2. CASE calls = << >>
      BY <1>5, <1>6, <2>1, <2>2, DispatchDoes
    <2>3. CASE calls # << >>
      <3>1. calls \in Claimed /\ job[h].todo \in Claimed /\ Busy(h)
        BY <1>6, <2>3, DispatchDoes, JobFacts DEF AfterDispatch, Claimed
      <3>2. Holds(h, d)' => Holds(h, d) /\ HeldStatus(h)' = HeldStatus(h)
        BY <2>1, <2>3, <3>1 DEF GoesOn, Holds, HeldStatus
      <3> QED BY <1>3, <1>6, <2>1, <3>2, DispatchDoes DEF GoesOn
    <2> QED BY <2>2, <2>3
  <1>7. ASSUME NEW h \in Handler, RenameFails(h), NEW d \in Doc PROVE Locked(d)
    BY <1>5, <1>7, RenameFailsDoes
  <1>8. ASSUME NEW h \in Handler, SqliteCall(h), NEW d \in Doc PROVE Locked(d)
    <2> DEFINE x == job[h].doc
               call == NextCall(h)
    <2>0. /\ x \in Doc /\ call \in StoreCalls /\ Busy(h) /\ job[h].todo \in Todos
      BY <1>8, SqliteCallDoes, JobFacts
    <2>1. CASE UNCHANGED saved /\ GoesOn(h, << >>)
      BY <1>5, <2>1
    <2>2. CASE /\ Accepts(saved[x].status, call) /\ saved' = [saved EXCEPT ![x] = Written(@, call)]
               /\ GoesOn(h, Tail(job[h].todo))
      <3>1. \A g \in Handler \ {h} : job'[g] = job[g]
        BY <2>2 DEF GoesOn
      <3>2. saved[x] \in Row /\ saved[x].status \in AnyStatus /\ saved'[x] = Written(saved[x], call)
        BY <1>2, <2>0, <2>2 DEF Row, AnyStatus
      <3>3. job'[h] = Idle \/ (job'[h].doc = x /\ job'[h].todo = Tail(job[h].todo))
        BY <2>2 DEF GoesOn
      <3>4. CASE d # x
        <4>1. ~Holds(h, d)' /\ saved'[d] = saved[d]
          BY <1>2, <2>2, <3>3, <3>4 DEF Holds, Busy
        <4>2. \A g \in Handler : Holds(g, d)' => Holds(g, d) /\ HeldStatus(g)' = HeldStatus(g)
          BY <3>1, <4>1 DEF Holds, HeldStatus, Busy
        <4> QED BY <1>1, <4>1, <4>2
      <3>5. CASE d = x /\ call = "locate"
        <4>1. saved'[d] = saved[d]
          BY <2>0, <3>2, <3>5, UpdatedType
        <4>2. job[h].todo \in Claimed \/ ~Holds(h, d)'
          <5>1. Tail(job[h].todo) \notin InParsing
            BY <2>0, <3>5, TodoSteps DEF NextCall
          <5>2. Tail(job[h].todo) \in Claimed => job[h].todo \in Claimed
            BY <2>0, <3>5, TodoSteps DEF NextCall
          <5> QED BY <3>3, <5>1, <5>2 DEF Holds, Busy
        <4>3. Holds(h, d)' => job'[h].todo \in Claimed
          <5>1. Tail(job[h].todo) \notin InParsing
            BY <2>0, <3>5, TodoSteps DEF NextCall
          <5> QED BY <3>3, <5>1 DEF Holds, Busy
        <4>4. \A g \in Handler : Holds(g, d)' => Holds(g, d) /\ HeldStatus(g)' = HeldStatus(g)
          BY <2>0, <3>1, <3>5, <4>2, <4>3 DEF Holds, HeldStatus, Busy
        <4> QED BY <1>1, <4>1, <4>4
      (* The transition to parsing, by the handler that holds the document. *)
      <3>6. CASE d = x /\ call = "parsing"
        <4>1. job[h].todo \in Claimed /\ Holds(h, d)
          BY <2>0, <3>6, TodoSteps DEF NextCall, Holds
        <4>2. saved'[d].status = "parsing"
          BY <2>0, <3>2, <3>6, UpdatedType
        <4>3. \A g \in Handler : Holds(g, d)' => g = h
          BY <1>1, <3>1, <4>1 DEF Holds, Busy
        <4>4. Holds(h, d)' => HeldStatus(h)' = "parsing"
          <5>1. Tail(job[h].todo) \notin Claimed
            BY <2>0, <3>6, TodoSteps DEF NextCall
          <5> QED BY <3>3, <5>1 DEF Holds, HeldStatus, Busy
        <4> QED BY <4>2, <4>3, <4>4
      (* The result is stored: the handler that held the document is done. *)
      <3>7. CASE d = x /\ call \in {"write_chunks", "mark_failed"}
        <4>1. Holds(h, d)
          BY <2>0, <3>7, TodoSteps DEF NextCall, Holds
        <4>2. ~Holds(h, d)'
          <5>1. Tail(job[h].todo) \notin Claimed \cup InParsing
            BY <2>0, <3>7, TodoSteps DEF NextCall
          <5> QED BY <3>3, <5>1 DEF Holds, Busy
        <4>3. \A g \in Handler : ~Holds(g, d)'
          BY <1>1, <3>1, <4>1, <4>2 DEF Holds, Busy
        <4> QED BY <4>3
      (* The rest is accepted only while nobody holds the document.        *)
      <3>8. CASE d = x /\ call \in {"insert", "uploaded", "published", "archived"}
        <4>1. saved[d].status \notin {"uploaded", "parsing"}
          BY <2>0, <2>2, <3>2, <3>8, SqliteAccepts DEF OnSqlite
        <4>2. \A g \in Handler : ~Holds(g, d)
          BY <1>1, <4>1 DEF HeldStatus
        <4>3. \A g \in Handler \ {h} : ~Holds(g, d)'
          BY <3>1, <4>2 DEF Holds, Busy
        <4>4. Holds(h, d)' => call \in {"insert", "uploaded"} /\ HeldStatus(h)' = "uploaded"
          BY <2>0, <3>3, <3>8, TodoSteps DEF NextCall, Holds, HeldStatus, Busy
        <4>5. call \in {"insert", "uploaded"} => saved'[d].status = "uploaded"
          BY <2>0, <3>2, <3>8, UpdatedType
        <4> QED BY <4>3, <4>4, <4>5
      <3> QED BY <2>0, <3>4, <3>5, <3>6, <3>7, <3>8 DEF StoreCalls
    <2> QED BY <1>2, <1>8, <2>1, <2>2, SqliteCallDoes
  <1>9. ASSUME Restart, NEW d \in Doc PROVE Locked(d)
    BY <1>9 DEF Restart, Holds, Busy
  <1>10. ASSUME UNCHANGED vars, NEW d \in Doc PROVE Locked(d)
    BY <1>1, <1>10 DEF Holds, HeldStatus, Busy, vars
  <1>11. \A h \in Handler : ~PgSelect(h) /\ ~PgInsert(h) /\ ~PgUpdate(h) /\ ~PgCommit(h)
    BY DEF PgSelect, PgInsert, PgUpdate, PgCommit, Calling, WholeCalls, OnSqlite
  <1> QED BY <1>4, <1>6, <1>7, <1>8, <1>9, <1>10, <1>11 DEF Next, Serve

(* At most one handler is between its call to the worker and the result it *)
(* stores, for each document on SQLite: the status is the lock.            *)
THEOREM OneParser == Spec => []OneParserPerDocument
  <1>1. BaseInv /\ LockInv /\ [Next]_vars => (BaseInv /\ LockInv)'
    BY BaseStep, LockStep
  <1>2. BaseInv /\ LockInv => OneParserPerDocument
    <2> SUFFICES ASSUME BaseInv, LockInv, OnSqlite, ~deployment.callbacks, NEW d \in Doc
                 PROVE  Cardinality({h \in Handler : Parsing(h, d)}) <= 1
      BY DEF OneParserPerDocument
    <2> DEFINE P == {h \in Handler : Parsing(h, d)}
    <2>1. \A h \in Handler : Parsing(h, d) => Holds(h, d)
      <3> SUFFICES ASSUME NEW h \in Handler, Parsing(h, d) PROVE Holds(h, d)
        OBVIOUS
      <3>1. Busy(h) /\ job[h].todo \in Todos /\ job[h].doc = d
        BY JobFacts DEF BaseInv, Parsing
      <3> DEFINE t == job[h].todo
      <3>2. Head(t) \notin {"insert", "locate", "uploaded"}
        BY DEF Parsing, NextCall
      <3>3. t[Len(t)] \in {"dispatch", "redispatch", "write_chunks", "mark_failed"}
        BY DEF Parsing
      <3> HIDE DEF t
      <3>4. t \in Todos => t \in Claimed \cup InParsing
        <4>1. t \notin {<<"published">>, <<"archived">>}
          BY <3>3
        <4>2. t \notin {<<"insert", "locate", "dispatch">>, <<"uploaded", "redispatch">>}
          BY <3>2
        <4> QED BY <4>1, <4>2 DEF Todos, Claimed, InParsing
      <3> QED BY <3>1, <3>4 DEF Holds, t
    <2>2. \A g, h \in P : g = h
      BY <2>1 DEF LockInv
    <2>3. CASE P = {}
      BY <2>3, FS_EmptySet
    <2>4. ASSUME NEW h \in P PROVE Cardinality(P) <= 1
      <3>1. P = {h}
        BY <2>2
      <3> HIDE DEF P
      <3> QED BY <3>1, FS_Singleton
    <2> QED BY <2>3, <2>4
  <1> QED BY <1>1, <1>2, InitBase, InitLock, PTL DEF Spec

-----------------------------------------------------------------------------
(* EVALUATIONS, which question the knowledge base: for any requests,       *)
(* routes, limits, credentials, timeouts and restarts.                     *)
(*                                                                         *)
(* Legs, threads and rows have the fields that the steps write.            *)
LegsShaped == DOMAIN leg = Legs /\ \A l \in Legs : {"at", "answer"} \subseteq DOMAIN leg[l]
ThreadsShaped == /\ DOMAIN thread = Requests
                 /\ \A r \in Requests : {"pc", "run"} \subseteq DOMAIN thread[r]
RowsShaped == \A n \in DOMAIN rows : {"status", "report", "of"} \subseteq DOMAIN rows[n]
Shaped == LegsShaped /\ ThreadsShaped /\ RowsShaped

(* A request's thread begins once: when it has, its leg is past the gates. *)
Early == {"idle", "gateway", "admitted"}
BeginsOnce == \A r \in Requests : leg[RequestLeg(r)].at \in Early => thread[r].pc = "none"

(* A thread that works on a run has a row to itself, which is not told of  *)
(* before it is completed.                                                 *)
Scoring == {"load", "list", "listing", "ask", "asking", "score"}
WorksOn(r) == thread[r].pc \in Scoring \cup {"reply"}
HasRow(r) == /\ thread[r].run \in DOMAIN rows
             /\ thread[r].pc \in Scoring => rows[thread[r].run].status = "running"
             /\ thread[r].pc = "reply" => /\ rows[thread[r].run].status = "completed"
                                          /\ rows[thread[r].run].of.request = r
RowsOfThreads == /\ \A r \in Requests : WorksOn(r) => HasRow(r)
                 /\ \A q, r \in Requests : WorksOn(q) /\ WorksOn(r) /\ thread[q].run = thread[r].run => q = r

(* A completed row has one author, and an author one row.                  *)
Completed(n) == n \in DOMAIN rows /\ rows[n].status = "completed"
Author(n) == rows[n].of.request
OneAuthor == /\ \A n \in DOMAIN rows : Completed(n) =>
                    Author(n) \in Requests /\ thread[Author(n)].pc \in {"reply", "done"}
             /\ \A m, n \in DOMAIN rows : Completed(m) /\ Completed(n) /\ Author(m) = Author(n) => m = n

(* What is kept for a key, and what was answered, is of a completed row    *)
(* whose author asked with that key, or is the one that was answered.      *)
IsStored(body) == Completed(body.run) /\ rows[body.run].report = body.report
KeysReplay == \A key \in DOMAIN idem : idem[key] # None =>
                  IsStored(idem[key]) /\ Asked(Author(idem[key].run)).idem = key
MayHear(r, n) == \/ Author(n) = r
                 \/ Asked(r).idem # None /\ Asked(Author(n)).idem = Asked(r).idem
Heard(r) == leg[RequestLeg(r)].answer
HeardIsStored == \A r \in Requests : Heard(r).status = 201 =>
                     IsStored(Heard(r).body) /\ MayHear(r, Heard(r).body.run)

EvalInv == Shaped /\ BeginsOnce /\ RowsOfThreads /\ OneAuthor /\ KeysReplay /\ HeardIsStored

LEMMA LegFacts ==
    /\ \A r \in Requests : RequestLeg(r) \in Legs /\ CallLeg(r) \in Legs
    /\ \A q, r \in Requests : /\ RequestLeg(q) = RequestLeg(r) => q = r
                              /\ RequestLeg(q) # CallLeg(r)
    /\ \A l \in Legs : l[1] \in Requests /\ (l[2] = "request" => l = RequestLeg(l[1]))
  BY DEF Legs, RequestLeg, CallLeg

-----------------------------------------------------------------------------
(* What a step does to the legs of requests and to the threads.            *)
LegsGo == /\ LegsShaped'
          /\ \A r \in Requests : leg'[RequestLeg(r)].at \in Early => leg[RequestLeg(r)].at \in Early
OthersHear(r) == \A q \in Requests \ {r} : Heard(q)' = Heard(q)
NobodyIsTold == \A q \in Requests : Heard(q)' = Heard(q) \/ Heard(q)'.status # 201
NoKeyIsFilled == \A key \in DOMAIN idem' : idem'[key] # None => key \in DOMAIN idem /\ idem[key] = idem'[key]
Opening == {"arrive", "begin", "create", "compare"}
Walks(r) == /\ thread'[r].run = thread[r].run
            /\ \/ thread'[r].pc = thread[r].pc
               \/ thread'[r].pc = "done" /\ thread[r].pc # "none"
               \/ thread'[r].pc = "arrive" /\ thread[r].pc = "none" /\ leg'[RequestLeg(r)].at \notin Early
               \/ thread'[r].pc \in Opening /\ thread[r].pc \in Opening
               \/ thread'[r].pc \in Scoring /\ thread[r].pc \in Scoring
ThreadsWalk == ThreadsShaped' /\ \A r \in Requests : Walks(r)

(* Steps that tell nobody of a run, and those that do.                     *)
Wanders == LegsGo /\ ThreadsWalk /\ NobodyIsTold /\ NoKeyIsFilled /\ UNCHANGED <<setup, rows>>
Tells(r, body) ==
    /\ LegsGo /\ ThreadsWalk /\ OthersHear(r) /\ UNCHANGED <<setup, rows>>
    /\ Heard(r)' = Heard(r) \/ Heard(r)' = Answer(201, body)
    /\ IsStored(body) /\ MayHear(r, body.run)
    /\ \A key \in DOMAIN idem' : idem'[key] # None =>
           \/ key \in DOMAIN idem /\ idem[key] = idem'[key]
           \/ idem'[key] = body /\ Asked(Author(body.run)).idem = key

LEMMA ResolvedDoes ==
    ASSUME Shaped, NEW l \in Legs, NEW a, Resolved(l, a)
    PROVE  /\ LegsGo
           /\ \A q \in Requests : Heard(q)' = Heard(q) \/ (RequestLeg(q) = l /\ Heard(q)' = a)
  BY LegFacts DEF Resolved, Shaped, LegsShaped, LegsGo, Early, Heard

(* One thread goes somewhere, the others stay.                             *)
LEMMA GoesDoes ==
    ASSUME Shaped, NEW r \in Requests, NEW pc, Goes(r, pc)
    PROVE  /\ ThreadsShaped' /\ thread'[r].pc = pc /\ thread'[r].run = thread[r].run
           /\ \A q \in Requests \ {r} : thread'[q] = thread[q]
  BY DEF Goes, Shaped, ThreadsShaped

LEMMA StepsWalk ==
    ASSUME Shaped, NEW r \in Requests, ThreadsShaped', thread'[r].run = thread[r].run,
           \A q \in Requests \ {r} : thread'[q] = thread[q],
           \/ thread'[r].pc = "done" /\ thread[r].pc # "none"
           \/ thread'[r].pc \in Opening /\ thread[r].pc \in Opening
           \/ thread'[r].pc \in Scoring /\ thread[r].pc \in Scoring
    PROVE  ThreadsWalk
  BY DEF ThreadsWalk, Walks

(* A handler answers, and is done.                                         *)
LEMMA EndsDoes ==
    ASSUME Shaped, NEW r \in Requests, NEW a, Ends(r, a), thread[r].pc # "none"
    PROVE  /\ LegsGo /\ ThreadsWalk /\ OthersHear(r) /\ (Heard(r)' = Heard(r) \/ Heard(r)' = a)
           /\ thread'[r].pc = "done" /\ \A q \in Requests \ {r} : thread'[q] = thread[q]
  <1>1. Goes(r, "done") /\ Resolved(RequestLeg(r), a) /\ RequestLeg(r) \in Legs
    BY LegFacts DEF Ends
  <1>2. LegsGo /\ OthersHear(r) /\ (Heard(r)' = Heard(r) \/ Heard(r)' = a)
    BY <1>1, ResolvedDoes, LegFacts DEF OthersHear
  <1>3. ThreadsWalk /\ thread'[r].pc = "done" /\ \A q \in Requests \ {r} : thread'[q] = thread[q]
    BY <1>1, GoesDoes, StepsWalk
  <1> QED BY <1>2, <1>3

LEMMA LegsStay == ASSUME Shaped, UNCHANGED leg PROVE LegsGo /\ \A q \in Requests : Heard(q)' = Heard(q)
  BY DEF Shaped, LegsShaped, LegsGo, Heard, RequestLeg, Legs

LEMMA ThreadsStay == ASSUME Shaped, UNCHANGED thread PROVE ThreadsWalk
  BY DEF Shaped, ThreadsShaped, ThreadsWalk, Walks

-----------------------------------------------------------------------------
(* The legs: callers, the gateway and the runner's calls.                  *)
LEMMA SendWanders == ASSUME Shaped, BeginsOnce, NEW r \in Requests, Send(r) PROVE Wanders
  <1>1. /\ leg[RequestLeg(r)].at = "idle" /\ leg' = Sent(RequestLeg(r))
        /\ thread' = IF Asked(r).route = "gateway" THEN thread ELSE Reached(r)
        /\ UNCHANGED <<setup, idem, rows>>
    BY DEF Send
  <1>2. LegsGo /\ \A q \in Requests : Heard(q)' = Heard(q)
    BY <1>1, LegFacts DEF Sent, Shaped, LegsShaped, LegsGo, Early, Heard
  <1>3. ThreadsWalk
    <2>1. CASE Asked(r).route = "gateway"
      BY <1>1, <2>1, ThreadsStay
    <2>2. CASE Asked(r).route # "gateway"
      <3>1. Route(RequestLeg(r)) # "gateway"
        BY <2>2 DEF Route, RequestLeg
      <3>2. leg'[RequestLeg(r)].at = "backend"
        BY <1>1, <3>1, LegFacts DEF Sent, Shaped, LegsShaped
      <3>3. thread[r].pc = "none"
        BY <1>1 DEF BeginsOnce, Early
      <3> QED BY <1>1, <2>2, <3>2, <3>3 DEF Reached, Shaped, ThreadsShaped, ThreadsWalk, Walks, Early
    <2> QED BY <2>1, <2>2
  <1> QED BY <1>1, <1>2, <1>3 DEF Wanders, NobodyIsTold, NoKeyIsFilled

LEMMA AdmitWanders == ASSUME Shaped, NEW l \in Legs, Admit(l) PROVE Wanders
  <1>1. /\ leg[l].at = "gateway" /\ UNCHANGED <<setup, idem, rows, thread>>
        /\ leg' = IF Decision("gateway", l).allowed THEN [leg EXCEPT ![l].at = "admitted"]
                  ELSE [leg EXCEPT ![l] = [at |-> "answered", answer |-> Answer(429, None)]]
    BY DEF Admit
  <1>2. Answer(429, None).status # 201
    BY DEF Answer
  <1>3. LegsGo /\ NobodyIsTold
    BY <1>1, <1>2, LegFacts DEF Shaped, LegsShaped, LegsGo, Early, Heard, NobodyIsTold
  <1> QED BY <1>1, <1>3, ThreadsStay DEF Wanders, NoKeyIsFilled

LEMMA RefusedWanders ==
    ASSUME Shaped, NEW l \in Legs, NEW status, status # 201, Refused(l, status), UNCHANGED <<setup, idem, rows>>
    PROVE  Wanders
  <1>1. /\ leg' = [leg EXCEPT ![l] = [at |-> "answered", answer |-> Answer(status, None)]]
        /\ UNCHANGED thread
    BY DEF Refused
  <1>2. Answer(status, None).status # 201
    BY DEF Answer
  <1>3. LegsGo /\ NobodyIsTold
    BY <1>1, <1>2, LegFacts DEF Shaped, LegsShaped, LegsGo, Early, Heard, NobodyIsTold
  <1> QED BY <1>1, <1>3, ThreadsStay DEF Wanders, NoKeyIsFilled

LEMMA ForwardWanders == ASSUME Shaped, BeginsOnce, NEW l \in Legs, Forward(l) PROVE Wanders
  <1>1. leg[l].at = "admitted" /\ UNCHANGED <<setup, idem, rows>>
    BY DEF Forward
  <1>2. \/ Refused(l, 404) \/ Refused(l, 401)
        \/ /\ leg' = [leg EXCEPT ![l].at = "backend"]
           /\ thread' = IF l[2] = "request" THEN Reached(l[1]) ELSE thread
    BY DEF Forward
  <1>3. CASE Refused(l, 404) \/ Refused(l, 401)
    <2>1. 404 # 201 /\ 401 # 201
      OBVIOUS
    <2> QED BY <1>1, <1>3, <2>1, RefusedWanders
  <1>4. CASE /\ leg' = [leg EXCEPT ![l].at = "backend"]
             /\ thread' = IF l[2] = "request" THEN Reached(l[1]) ELSE thread
    <2>1. LegsGo /\ \A q \in Requests : Heard(q)' = Heard(q)
      BY <1>1, <1>4, LegFacts DEF Shaped, LegsShaped, LegsGo, Early, Heard
    <2>2. CASE l[2] # "request"
      BY <1>1, <1>4, <2>1, <2>2, ThreadsStay DEF Wanders, NobodyIsTold, NoKeyIsFilled
    <2>3. CASE l[2] = "request"
      <3>1. PICK r \in Requests : r = l[1] /\ l = RequestLeg(r)
        BY <2>3, LegFacts
      <3>2. thread[r].pc = "none" /\ leg'[RequestLeg(r)].at = "backend"
        BY <1>1, <1>4, <3>1 DEF BeginsOnce, Early, Shaped, LegsShaped
      <3>3. ThreadsWalk
        BY <1>4, <2>3, <3>1, <3>2 DEF Reached, Shaped, ThreadsShaped, ThreadsWalk, Walks, Early
      <3> QED BY <1>1, <2>1, <3>3 DEF Wanders, NobodyIsTold, NoKeyIsFilled
    <2> QED BY <2>2, <2>3
  <1> QED BY <1>2, <1>3, <1>4

LEMMA TimeoutsWander ==
    ASSUME Shaped, ForwardTimesOut \/ \E r \in Requests : CallTimesOut(r) PROVE Wanders
  <1>1. PICK l, a : /\ a.status # 201
                    /\ leg' = leg \/ leg' = [leg EXCEPT ![l] = [at |-> "answered", answer |-> a]]
    <2>1. CASE ForwardTimesOut
      <3>1. Answer(502, None).status # 201
        BY DEF Answer
      <3>2. PICK a : a = Answer(502, None)
        OBVIOUS
      <3>3. leg' = leg \/ leg' = [leg EXCEPT ![busy] = [at |-> "answered", answer |-> a]]
        BY <2>1, <3>2 DEF ForwardTimesOut
      <3> QED BY <3>1, <3>2, <3>3
    <2>2. CASE \E r \in Requests : CallTimesOut(r)
      <3>1. NoAnswer.status # 201
        BY DEF NoAnswer
      <3> QED BY <2>2, <3>1 DEF CallTimesOut
    <2> QED BY <2>1, <2>2
  <1>2. LegsGo /\ NobodyIsTold
    BY <1>1, LegFacts DEF Shaped, LegsShaped, LegsGo, Early, Heard, NobodyIsTold
  <1>3. UNCHANGED <<setup, idem, rows, thread>>
    BY DEF ForwardTimesOut, CallTimesOut
  <1> QED BY <1>2, <1>3, ThreadsStay DEF Wanders, NoKeyIsFilled

-----------------------------------------------------------------------------
(* The handlers.                                                           *)
LEMMA EndsWander ==
    ASSUME Shaped, NEW r \in Requests, NEW a, a.status # 201, Ends(r, a), thread[r].pc # "none",
           UNCHANGED <<setup, idem, rows>>
    PROVE  Wanders
  BY EndsDoes DEF Wanders, NobodyIsTold, NoKeyIsFilled, OthersHear

LEMMA Statuses ==
    /\ \A status : Answer(status, None).status = status
    /\ \A req, permissions, settings, provider :
           RequireOidcOrInternal(req, permissions, settings, provider).status # 201
  <1>1. \A status : Answer(status, None).status = status
    BY DEF Answer
  <1>2. \A kind : Grants(kind).status # 201
    BY DEF Grants
  <1>3. Raises(401).status # 201 /\ Raises(403).status # 201 /\ Raises(500).status # 201
    BY DEF Raises
  <1>4. ASSUME NEW req, NEW permissions, NEW settings, NEW provider
        PROVE  RequireOidcOrInternal(req, permissions, settings, provider).status # 201
    <2>1. \A kind, roles, scopes : Enforced(kind, roles, scopes, permissions).status # 201
      BY <1>2, <1>3 DEF Enforced
    <2>2. OidcBranch(req, permissions, provider).status # 201
      BY <1>3, <2>1 DEF OidcBranch
    <2>3. JwtBranch(req, permissions).status # 201
      BY <1>3, <2>1 DEF JwtBranch
    <2> QED BY <1>2, <1>3, <2>2, <2>3 DEF RequireOidcOrInternal
  <1> QED BY <1>1, <1>4

LEMMA ArrivesWanders == ASSUME Shaped, NEW r \in Requests, Arrives(r) PROVE Wanders
  <1>1. thread[r].pc = "arrive" /\ UNCHANGED <<setup, idem, rows>>
    BY DEF Arrives
  <1>2. \/ \E a : a.status # 201 /\ Ends(r, a)
        \/ \E pc \in Opening : Goes(r, pc) /\ UNCHANGED leg
    <2>1. DEFINE d == Decision("platform", RequestLeg(r))
                 who == IF Asked(r).kind = "compare" THEN Grants(None)
                        ELSE RequireOidcOrInternal(Received(r), Permissions, setup.settings, idp)
    <2>2. \/ Ends(r, Answer(429, None)) \/ Ends(r, Answer(400, None))
          \/ who.status # 200 /\ Ends(r, Answer(who.status, None))
          \/ Goes(r, IF Asked(r).kind = "compare" THEN "compare" ELSE "begin") /\ UNCHANGED leg
      BY DEF Arrives
    <2>3. who.status # 201
      BY Statuses DEF Grants
    <2> HIDE DEF who
    <2>4. CASE \/ Ends(r, Answer(429, None)) \/ Ends(r, Answer(400, None))
               \/ Ends(r, Answer(who.status, None))
      <3>1. 429 # 201 /\ 400 # 201
        OBVIOUS
      <3> QED BY <2>3, <2>4, <3>1, Statuses
    <2> QED BY <2>2, <2>4 DEF Opening
  <1>3. CASE \E a : a.status # 201 /\ Ends(r, a)
    BY <1>1, <1>3, EndsWander
  <1>4. CASE \E pc \in Opening : Goes(r, pc) /\ UNCHANGED leg
    <2>1. ThreadsWalk
      BY <1>1, <1>4, GoesDoes, StepsWalk DEF Opening
    <2> QED BY <1>1, <1>4, <2>1, LegsStay DEF Wanders, NobodyIsTold, NoKeyIsFilled
  <1> QED BY <1>2, <1>3, <1>4

LEMMA BeginRunDoes ==
    ASSUME Shaped, KeysReplay, NEW r \in Requests, BeginRun(r)
    PROVE  Wanders \/ \E body : Tells(r, body)
  <1> DEFINE key == Asked(r).idem
  <1>1. thread[r].pc = "begin" /\ UNCHANGED <<setup, rows>>
    BY DEF BeginRun
  <1>2. CASE key # None /\ key \in DOMAIN idem /\ idem[key] # None
    <2>1. Ends(r, Answer(201, idem[key])) /\ UNCHANGED idem
      BY <1>2 DEF BeginRun
    <2>2. LegsGo /\ ThreadsWalk /\ OthersHear(r) /\ (Heard(r)' = Heard(r) \/ Heard(r)' = Answer(201, idem[key]))
      BY <1>1, <2>1, EndsDoes
    <2>3. IsStored(idem[key]) /\ MayHear(r, idem[key].run)
      BY <1>2 DEF KeysReplay, MayHear
    <2> QED BY <1>1, <2>1, <2>2, <2>3 DEF Tells
  <1>3. CASE ~(key # None /\ key \in DOMAIN idem /\ idem[key] # None)
    <2>1. /\ Goes(r, "create") /\ UNCHANGED leg
          /\ idem' = IF key = None THEN idem ELSE With(idem, key, None)
      BY <1>3 DEF BeginRun
    <2>2. ThreadsWalk
      BY <1>1, <2>1, GoesDoes, StepsWalk DEF Opening
    <2>3. NoKeyIsFilled
      BY <2>1 DEF NoKeyIsFilled, With
    <2> QED BY <1>1, <2>1, <2>2, <2>3, LegsStay DEF Wanders, NobodyIsTold
  <1> QED BY <1>2, <1>3

(* The steps that write a row.                                             *)
Creates(r, n) ==
    /\ n \notin DOMAIN rows /\ rows' = With(rows, n, RunningRow(r))
    /\ thread[r].pc = "create" /\ thread'[r].pc = "load" /\ thread'[r].run = n
    /\ \A q \in Requests \ {r} : thread'[q] = thread[q]
    /\ ThreadsShaped' /\ UNCHANGED <<setup, leg, idem>>
Fails(r) ==
    /\ rows' = [rows EXCEPT ![thread[r].run].status = "failed"]
    /\ thread[r].pc = "load" /\ thread'[r].pc = "done"
    /\ ThreadsWalk /\ \A q \in Requests \ {r} : thread'[q] = thread[q]
    /\ LegsGo /\ NobodyIsTold /\ UNCHANGED <<setup, idem>>
Scores(r) ==
    /\ \E report, named, said :
           rows' = [rows EXCEPT ![thread[r].run] =
                        [@ EXCEPT !.status = "completed", !.report = report,
                                  !.of = [request |-> r, named |-> named, said |-> said]]]
    /\ thread[r].pc = "score" /\ thread'[r].pc = "reply" /\ thread'[r].run = thread[r].run
    /\ \A q \in Requests \ {r} : thread'[q] = thread[q]
    /\ ThreadsShaped' /\ UNCHANGED <<setup, leg, idem>>

LEMMA CreateDoes ==
    ASSUME Shaped, NEW r \in Requests, Create(r) PROVE Wanders \/ \E n : Creates(r, n)
  <1> DEFINE n == NextEvalRun(rows)
  <1>1. thread[r].pc = "create" /\ UNCHANGED <<setup, idem>>
    BY DEF Create
  <1>2. CASE n \in DOMAIN rows
    <2>1. Ends(r, Answer(500, None)) /\ UNCHANGED rows /\ 500 # 201
      BY <1>2 DEF Create
    <2> QED BY <1>1, <2>1, Statuses, EndsWander
  <1>3. CASE n \notin DOMAIN rows
    <2>1. /\ rows' = With(rows, n, RunningRow(r)) /\ UNCHANGED leg
          /\ thread' = [thread EXCEPT ![r].pc = "load", ![r].run = n]
      BY <1>3 DEF Create
    <2> HIDE DEF n
    <2>2. /\ ThreadsShaped' /\ thread'[r].pc = "load" /\ thread'[r].run = n
          /\ \A q \in Requests \ {r} : thread'[q] = thread[q]
      BY <2>1 DEF Shaped, ThreadsShaped
    <2> QED BY <1>1, <1>3, <2>1, <2>2 DEF Creates
  <1> QED BY <1>2, <1>3

LEMMA LoadDoes == ASSUME Shaped, NEW r \in Requests, Load(r) PROVE Wanders \/ Fails(r)
  <1>1. thread[r].pc = "load" /\ UNCHANGED <<setup, idem>>
    BY DEF Load
  <1>2. CASE Asked(r).golden = None
    <2>1. /\ rows' = [rows EXCEPT ![thread[r].run].status = "failed"]
          /\ \E status \in {400, 500} : Ends(r, Answer(status, thread[r].run))
      BY <1>2 DEF Load
    <2>2. PICK a : a.status # 201 /\ Ends(r, a)
      <3>1. \A status \in {400, 500} : Answer(status, thread[r].run).status # 201
        BY DEF Answer
      <3> QED BY <2>1, <3>1
    <2>3. LegsGo /\ ThreadsWalk /\ NobodyIsTold /\ thread'[r].pc = "done"
          /\ \A q \in Requests \ {r} : thread'[q] = thread[q]
      BY <1>1, <2>2, EndsDoes DEF NobodyIsTold, OthersHear
    <2> QED BY <1>1, <2>1, <2>3 DEF Fails
  <1>3. CASE Asked(r).golden # None
    <2>1. PICK pc \in Scoring : Goes(r, pc) /\ UNCHANGED <<rows, leg>>
      BY <1>3 DEF Load, Scoring
    <2>2. ThreadsWalk
      BY <1>1, <2>1, GoesDoes, StepsWalk DEF Scoring
    <2> QED BY <1>1, <2>1, <2>2, LegsStay DEF Wanders, NobodyIsTold, NoKeyIsFilled
  <1> QED BY <1>2, <1>3

(* A step that goes on with the runner's own leg.                          *)
LEMMA CallLegGoes ==
    ASSUME Shaped, NEW r \in Requests,
           \/ leg' = Sent(CallLeg(r)) \/ leg' = Hangs(r) \/ \E a : Resolved(CallLeg(r), a)
    PROVE  LegsGo /\ \A q \in Requests : Heard(q)' = Heard(q)
  <1>1. CASE leg' = Sent(CallLeg(r)) \/ leg' = Hangs(r)
    BY <1>1, LegFacts DEF Sent, Hangs, Shaped, LegsShaped, LegsGo, Early, Heard
  <1>2. CASE \E a : Resolved(CallLeg(r), a)
    BY <1>2, ResolvedDoes, LegFacts
  <1> QED BY <1>1, <1>2

LEMMA CallsWander == ASSUME Shaped, NEW r \in Requests, List(r) \/ Ask(r) PROVE Wanders
  <1>1. PICK from \in Scoring, to \in Scoring : Calls(r, from, to)
    BY DEF List, Ask, Scoring
  <1>2. /\ thread[r].pc = from /\ Goes(r, to) /\ leg' = Sent(CallLeg(r))
        /\ UNCHANGED <<setup, idem, rows>>
    BY <1>1 DEF Calls
  <1>3. ThreadsWalk
    BY <1>2, GoesDoes, StepsWalk DEF Scoring
  <1> QED BY <1>2, <1>3, CallLegGoes DEF Wanders, NobodyIsTold, NoKeyIsFilled

LEMMA ServesWanders ==
    ASSUME Shaped, NEW r \in Requests, NEW pc, NEW a, NEW heard, Serves(r, pc, a, heard)
    PROVE  Wanders
  <1>1. /\ \E b : Resolved(CallLeg(r), b)
        /\ thread' = thread \/ thread' = [thread EXCEPT ![r].said = Append(@, a)]
        /\ UNCHANGED <<setup, idem, rows>>
    BY DEF Serves
  <1>2. ThreadsWalk
    BY <1>1 DEF Shaped, ThreadsShaped, ThreadsWalk, Walks
  <1> QED BY <1>1, <1>2, CallLegGoes DEF Wanders, NobodyIsTold, NoKeyIsFilled

LEMMA KnowledgeWanders == ASSUME Shaped, NEW r \in Requests, Knowledge(r) PROVE Wanders
  BY ServesWanders DEF Knowledge, KnowledgeLists, KnowledgeAnswers

LEMMA GotListingWanders == ASSUME Shaped, NEW r \in Requests, GotListing(r) PROVE Wanders
  <1>1. thread[r].pc = "listing" /\ leg' = Hangs(r) /\ UNCHANGED <<setup, idem, rows>>
    BY DEF GotListing
  <1>2. PICK a : a = leg[CallLeg(r)].answer
    OBVIOUS
  <1>3. PICK named : named = IF a.status = 200 THEN a.body ELSE << >>
    OBVIOUS
  <1>4. PICK said : said = [i \in DOMAIN Asked(r).golden |-> NoAnswer]
    OBVIOUS
  <1>5. PICK results : results = [i \in DOMAIN Asked(r).golden |-> ResultOf(Asked(r).golden[i], << >>, a)]
    OBVIOUS
  <1>6. \/ thread' = [thread EXCEPT ![r] = [@ EXCEPT !.pc = "ask", !.named = named]]
        \/ thread' = [thread EXCEPT ![r] = [@ EXCEPT !.pc = "score", !.said = said, !.results = results]]
    BY <1>2, <1>3, <1>4, <1>5 DEF GotListing
  <1>7. ThreadsWalk
    <2>1. PICK t : /\ thread' = [thread EXCEPT ![r] = t] /\ {"pc", "run"} \subseteq DOMAIN t
                   /\ t.run = thread[r].run /\ t.pc \in {"ask", "score"}
      <3>1. /\ DOMAIN thread = Requests /\ {"pc", "run"} \subseteq DOMAIN thread[r]
        BY DEF Shaped, ThreadsShaped
      <3>2. CASE thread' = [thread EXCEPT ![r] = [@ EXCEPT !.pc = "ask", !.named = named]]
        <4>1. PICK t : t = [thread[r] EXCEPT !.pc = "ask", !.named = named]
          OBVIOUS
        <4>2. thread' = [thread EXCEPT ![r] = t] /\ DOMAIN t = DOMAIN thread[r]
          BY <3>1, <3>2, <4>1
        <4>3. t.run = thread[r].run /\ t.pc = "ask"
          BY <3>1, <4>1
        <4> QED BY <3>1, <4>2, <4>3
      <3>3. CASE thread' = [thread EXCEPT ![r] = [@ EXCEPT !.pc = "score", !.said = said, !.results = results]]
        <4>1. PICK t : t = [thread[r] EXCEPT !.pc = "score", !.said = said, !.results = results]
          OBVIOUS
        <4>2. thread' = [thread EXCEPT ![r] = t] /\ DOMAIN t = DOMAIN thread[r]
          BY <3>1, <3>3, <4>1
        <4>3. t.run = thread[r].run /\ t.pc = "score"
          BY <3>1, <4>1
        <4> QED BY <3>1, <4>2, <4>3
      <3> QED BY <1>6, <3>2, <3>3
    <2>2. /\ ThreadsShaped' /\ thread'[r].run = thread[r].run
          /\ thread'[r].pc \in Scoring /\ thread[r].pc \in Scoring
          /\ \A q \in Requests \ {r} : thread'[q] = thread[q]
      BY <1>1, <2>1 DEF Shaped, ThreadsShaped, Scoring
    <2> QED BY <2>2, StepsWalk
  <1> QED BY <1>1, <1>7, CallLegGoes DEF Wanders, NobodyIsTold, NoKeyIsFilled

LEMMA GotAnswerWanders == ASSUME Shaped, NEW r \in Requests, GotAnswer(r) PROVE Wanders
  <1>1. /\ thread[r].pc = "asking" /\ leg' = Hangs(r) /\ UNCHANGED <<setup, idem, rows>>
        /\ \E pc \in {"score", "ask"} : \E said, results :
               thread' = [thread EXCEPT ![r].results = results, ![r].said = said, ![r].pc = pc]
    BY DEF GotAnswer
  <1>2. ThreadsWalk
    BY <1>1 DEF Shaped, ThreadsShaped, ThreadsWalk, Walks, Scoring
  <1> QED BY <1>1, <1>2, CallLegGoes DEF Wanders, NobodyIsTold, NoKeyIsFilled

LEMMA ScoreDoes == ASSUME Shaped, NEW r \in Requests, Score(r) PROVE Scores(r)
  <1>1. /\ thread[r].pc = "score" /\ Goes(r, "reply") /\ UNCHANGED <<setup, leg, idem>>
        /\ \E report, named, said :
               rows' = [rows EXCEPT ![thread[r].run] =
                            [@ EXCEPT !.status = "completed", !.report = report,
                                      !.of = [request |-> r, named |-> named, said |-> said]]]
    BY DEF Score
  <1> QED BY <1>1, GoesDoes DEF Scores

LEMMA ReplyDoes ==
    ASSUME Shaped, RowsOfThreads, NEW r \in Requests, Reply(r) PROVE \E body : Tells(r, body)
  <1>1. PICK body : body = [run |-> thread[r].run, report |-> rows[thread[r].run].report]
    OBVIOUS
  <1>2. /\ thread[r].pc = "reply" /\ Ends(r, Answer(201, body)) /\ UNCHANGED <<setup, rows>>
        /\ idem' = IF Asked(r).idem \in DOMAIN idem THEN [idem EXCEPT ![Asked(r).idem] = body] ELSE idem
    BY <1>1 DEF Reply
  <1>3. IsStored(body) /\ Author(body.run) = r
    BY <1>1, <1>2 DEF RowsOfThreads, WorksOn, HasRow, IsStored, Completed, Author
  <1>4. LegsGo /\ ThreadsWalk /\ OthersHear(r) /\ (Heard(r)' = Heard(r) \/ Heard(r)' = Answer(201, body))
    BY <1>2, EndsDoes
  <1> QED BY <1>2, <1>3, <1>4 DEF Tells, MayHear

LEMMA CompareWanders == ASSUME Shaped, NEW r \in Requests, Compare(r) PROVE Wanders
  <1>1. /\ thread[r].pc = "compare" /\ UNCHANGED <<setup, idem, rows>>
        /\ \E status \in {422, 404, 200} : \E body : Ends(r, Answer(status, body))
    BY DEF Compare
  <1>2. PICK a : a.status # 201 /\ Ends(r, a)
    <2>1. \A status \in {422, 404, 200} : \A body : Answer(status, body).status # 201
      BY DEF Answer
    <2> QED BY <1>1, <2>1
  <1> QED BY <1>1, <1>2, EndsWander

-----------------------------------------------------------------------------
(* A restart ends threads and answers for them; the rest is quiet.         *)
LEMMA RestartPlatformWanders == ASSUME Shaped, RestartPlatform PROVE Wanders
  <1>1. /\ idem' = << >> /\ UNCHANGED <<setup, rows>>
        /\ \E cut \in SUBSET {r \in Requests : thread[r].pc \notin {"none", "done"}} :
               thread' = [r \in Requests |-> IF r \in cut THEN [thread[r] EXCEPT !.pc = "done"] ELSE thread[r]]
    BY DEF RestartPlatform
  <1>2. ThreadsWalk
    BY <1>1 DEF Shaped, ThreadsShaped, ThreadsWalk, Walks
  <1>3. /\ DOMAIN leg' = Legs
        /\ \A l \in Legs : \/ leg'[l] = leg[l]
                           \/ l[2] = "call" /\ leg'[l] = [at |-> "idle", answer |-> NoAnswer]
                           \/ leg'[l] = [at |-> "answered", answer |-> Answer(502, None)]
    BY DEF RestartPlatform
  <1>4. \A q \in Requests : RequestLeg(q) \in Legs /\ RequestLeg(q)[2] # "call"
    BY DEF RequestLeg, Legs
  <1>5. Answer(502, None).status # 201
    BY DEF Answer
  <1>6. LegsGo /\ NobodyIsTold
    BY <1>3, <1>4, <1>5 DEF Shaped, LegsShaped, LegsGo, Early, Heard, NobodyIsTold
  <1>7. NoKeyIsFilled
    BY <1>1 DEF NoKeyIsFilled
  <1> QED BY <1>1, <1>2, <1>6, <1>7 DEF Wanders

LEMMA QuietWanders ==
    ASSUME Shaped, PublishDraft \/ IdpChanges \/ Tick \/ UNCHANGED evalVars PROVE Wanders
  <1>1. UNCHANGED <<setup, leg, idem, rows, thread>>
    BY DEF PublishDraft, IdpChanges, Tick, evalVars
  <1> QED BY <1>1, LegsStay, ThreadsStay DEF Wanders, NobodyIsTold, NoKeyIsFilled

LEMMA EvalSteps ==
    ASSUME EvalInv, [EvalNext]_evalVars
    PROVE  \/ Wanders
           \/ \E r \in Requests : \/ \E body : Tells(r, body)
                                  \/ \E n : Creates(r, n)
                                  \/ Fails(r) \/ Scores(r)
  <1>1. Shaped /\ BeginsOnce /\ RowsOfThreads /\ KeysReplay
    BY DEF EvalInv
  <1>2. CASE Gateway
    BY <1>1, <1>2, TimeoutsWander, AdmitWanders, ForwardWanders DEF Gateway
  <1>3. CASE \E r \in Requests : Send(r) \/ Knowledge(r) \/ CallTimesOut(r)
    BY <1>1, <1>3, SendWanders, KnowledgeWanders, TimeoutsWander
  <1>4. ASSUME NEW r \in Requests, Serving(r)
        PROVE  Wanders \/ (\E body : Tells(r, body)) \/ (\E n : Creates(r, n)) \/ Fails(r) \/ Scores(r)
    BY <1>1, <1>4, ArrivesWanders, BeginRunDoes, CreateDoes, LoadDoes, CallsWander, GotListingWanders,
       GotAnswerWanders, ScoreDoes, ReplyDoes, CompareWanders DEF Serving
  <1>5. CASE RestartPlatform \/ PublishDraft \/ IdpChanges \/ Tick \/ UNCHANGED evalVars
    BY <1>1, <1>5, RestartPlatformWanders, QuietWanders
  <1> QED BY <1>2, <1>3, <1>4, <1>5 DEF EvalNext

-----------------------------------------------------------------------------
(* The invariant holds at the start and is kept by each kind of step.      *)
LEMMA EvalInitInv == ASSUME EvalInit PROVE EvalInv
  <1>1. /\ DOMAIN leg = Legs /\ \A l \in Legs : leg[l] = [at |-> "idle", answer |-> NoAnswer]
        /\ DOMAIN thread = Requests /\ \A r \in Requests : thread[r] = NoThread
        /\ idem = << >>
        /\ \A n \in DOMAIN rows : rows[n] = [status |-> "failed", type |-> "rag", report |-> None, of |-> None]
    BY DEF EvalInit
  <1>2. Shaped
    BY <1>1 DEF Shaped, LegsShaped, ThreadsShaped, RowsShaped, NoThread
  <1>3. \A r \in Requests : thread[r].pc = "none" /\ Heard(r).status = 0
    BY <1>1, LegFacts DEF NoThread, NoAnswer, Heard
  <1>4. BeginsOnce /\ RowsOfThreads /\ HeardIsStored
    BY <1>3 DEF BeginsOnce, RowsOfThreads, WorksOn, Scoring, HeardIsStored
  <1>5. OneAuthor /\ KeysReplay
    BY <1>1 DEF OneAuthor, KeysReplay, Completed
  <1> QED BY <1>2, <1>4, <1>5 DEF EvalInv

(* A thread only begins when its leg is past the gates, and never goes     *)
(* back.                                                                   *)
LEMMA BeginsOnceKept ==
    ASSUME BeginsOnce, LegsGo, \A r \in Requests : Walks(r) \/ thread[r].pc # "none"
    PROVE  BeginsOnce'
  BY DEF BeginsOnce, LegsGo, Walks, Opening, Scoring

(* Threads that walk keep their rows, as long as those keep what they say. *)
LEMMA WalkersWork ==
    ASSUME ThreadsWalk, NEW r \in Requests, WorksOn(r)'
    PROVE  /\ WorksOn(r) /\ thread'[r].run = thread[r].run
           /\ thread'[r].pc \in Scoring => thread[r].pc \in Scoring
           /\ thread'[r].pc = "reply" => thread[r].pc = "reply"
  BY DEF ThreadsWalk, Walks, WorksOn, Scoring, Opening

LEMMA WalkersKeepRows ==
    ASSUME RowsOfThreads, ThreadsWalk, UNCHANGED rows
    PROVE  RowsOfThreads'
  <1>1. ASSUME NEW r \in Requests, WorksOn(r)' PROVE HasRow(r)'
    BY <1>1, WalkersWork DEF RowsOfThreads, HasRow
  <1>2. ASSUME NEW q \in Requests, NEW r \in Requests, WorksOn(q)', WorksOn(r)', thread'[q].run = thread'[r].run
        PROVE  q = r
    BY <1>2, WalkersWork DEF RowsOfThreads
  <1> QED BY <1>1, <1>2 DEF RowsOfThreads

LEMMA WalkersKeepAuthors ==
    ASSUME OneAuthor, ThreadsWalk, UNCHANGED rows
    PROVE  OneAuthor'
  <1>1. \A n : (Completed(n)' <=> Completed(n)) /\ Author(n)' = Author(n)
    BY DEF Completed, Author
  <1>2. \A r \in Requests : thread[r].pc \in {"reply", "done"} => thread'[r].pc \in {"reply", "done"}
    BY DEF ThreadsWalk, Walks, Opening, Scoring
  <1> QED BY <1>1, <1>2 DEF OneAuthor

(* What is stored, and who may hear of it, is the same after a step that   *)
(* leaves the rows alone.                                                  *)
LEMMA StoredStays ==
    ASSUME UNCHANGED <<setup, rows>>
    PROVE  /\ \A body : IsStored(body)' <=> IsStored(body)
           /\ \A n : Author(n)' = Author(n) /\ Asked(n)' = Asked(n)
           /\ \A r, n : MayHear(r, n)' <=> MayHear(r, n)
  BY DEF IsStored, Completed, Author, Asked, MayHear

LEMMA KeysKept ==
    ASSUME KeysReplay, UNCHANGED <<setup, rows>>,
           \A key \in DOMAIN idem' : idem'[key] # None =>
               \/ key \in DOMAIN idem /\ idem[key] = idem'[key]
               \/ IsStored(idem'[key]) /\ Asked(Author(idem'[key].run)).idem = key
    PROVE  KeysReplay'
  <1>1. ASSUME NEW key \in DOMAIN idem', idem'[key] # None
        PROVE  IsStored(idem'[key]) /\ Asked(Author(idem'[key].run)).idem = key
    BY <1>1 DEF KeysReplay
  <1> QED BY <1>1 DEF KeysReplay, IsStored, Completed, Author, Asked

LEMMA HeardKept ==
    ASSUME HeardIsStored, UNCHANGED <<setup, rows>>,
           \A r \in Requests : \/ Heard(r)' = Heard(r) \/ Heard(r)'.status # 201
                               \/ IsStored(Heard(r)'.body) /\ MayHear(r, Heard(r)'.body.run)
    PROVE  HeardIsStored'
  <1>1. ASSUME NEW r \in Requests, Heard(r)'.status = 201
        PROVE  IsStored(Heard(r)'.body) /\ MayHear(r, Heard(r)'.body.run)
    BY <1>1 DEF HeardIsStored
  <1> QED BY <1>1 DEF HeardIsStored, Heard, IsStored, Completed, Author, Asked, MayHear

LEMMA WalkersKeepInv ==
    ASSUME EvalInv, LegsGo, ThreadsWalk, UNCHANGED <<setup, rows>>, KeysReplay', HeardIsStored'
    PROVE  EvalInv'
  <1>1. Shaped'
    BY DEF EvalInv, Shaped, LegsGo, ThreadsWalk, RowsShaped
  <1>2. BeginsOnce' /\ RowsOfThreads' /\ OneAuthor'
    BY BeginsOnceKept, WalkersKeepRows, WalkersKeepAuthors DEF EvalInv, ThreadsWalk
  <1> QED BY <1>1, <1>2 DEF EvalInv

LEMMA WanderersKeepInv == ASSUME EvalInv, Wanders PROVE EvalInv'
  <1>1. LegsGo /\ ThreadsWalk /\ NobodyIsTold /\ NoKeyIsFilled /\ UNCHANGED <<setup, rows>>
    BY DEF Wanders
  <1>2. KeysReplay'
    BY <1>1, KeysKept DEF EvalInv, NoKeyIsFilled
  <1>3. HeardIsStored'
    BY <1>1, HeardKept DEF EvalInv, NobodyIsTold
  <1> QED BY <1>1, <1>2, <1>3, WalkersKeepInv

LEMMA TellersKeepInv == ASSUME EvalInv, NEW r \in Requests, NEW body, Tells(r, body) PROVE EvalInv'
  <1>1. LegsGo /\ ThreadsWalk /\ UNCHANGED <<setup, rows>>
    BY DEF Tells
  <1>2. KeysReplay'
    BY <1>1, KeysKept DEF EvalInv, Tells
  <1>3. HeardIsStored'
    <2>1. Answer(201, body).body = body
      BY DEF Answer
    <2> QED BY <1>1, <2>1, HeardKept DEF EvalInv, Tells, OthersHear
  <1> QED BY <1>1, <1>2, <1>3, WalkersKeepInv

-----------------------------------------------------------------------------
(* Rows written.  A row that was completed stays as it is.                 *)
RowsLast == \A n \in DOMAIN rows : n \in DOMAIN rows' /\ (Completed(n) => rows'[n] = rows[n])

LEMMA StoredLasts ==
    ASSUME RowsLast, UNCHANGED setup
    PROVE  /\ \A n : Completed(n) => Completed(n)' /\ Author(n)' = Author(n) /\ Asked(Author(n))' = Asked(Author(n))
           /\ \A body : IsStored(body) => IsStored(body)'
           /\ \A r, n : Completed(n) /\ MayHear(r, n) => MayHear(r, n)'
  BY DEF RowsLast, IsStored, Completed, Author, Asked, MayHear

LEMMA LastingKeeps ==
    ASSUME RowsLast, UNCHANGED setup, KeysReplay, HeardIsStored, UNCHANGED idem, NobodyIsTold
    PROVE  KeysReplay' /\ HeardIsStored'
  <1>1. ASSUME NEW key \in DOMAIN idem, idem[key] # None
        PROVE  IsStored(idem[key])' /\ (Asked(Author(idem[key].run)).idem = key)'
    <2>1. IsStored(idem[key]) /\ Completed(idem[key].run) /\ Asked(Author(idem[key].run)).idem = key
      BY <1>1 DEF KeysReplay, IsStored
    <2>2. PICK body : body = idem[key] /\ body = idem'[key]
      OBVIOUS
    <2>3. IsStored(body)' /\ Asked(Author(body.run))' = Asked(Author(body.run))
      BY <2>1, <2>2, StoredLasts
    <2> QED BY <2>1, <2>2, <2>3 DEF IsStored, Completed, Author, Asked
  <1>2. ASSUME NEW r \in Requests, Heard(r)'.status = 201
        PROVE  (IsStored(Heard(r).body) /\ MayHear(r, Heard(r).body.run))'
    <2>1. PICK body : body = Heard(r).body /\ body = Heard(r)'.body
      BY <1>2 DEF NobodyIsTold
    <2>2. IsStored(body) /\ Completed(body.run) /\ MayHear(r, body.run)
      BY <1>2, <2>1 DEF NobodyIsTold, HeardIsStored, IsStored
    <2>3. IsStored(body)' /\ MayHear(r, body.run)'
      BY <2>2, StoredLasts
    <2> QED BY <2>1, <2>3 DEF IsStored, Completed, MayHear, Author, Asked, Heard
  <1> QED BY <1>1, <1>2 DEF KeysReplay, HeardIsStored

LEMMA CreatorsKeepInv == ASSUME EvalInv, NEW r \in Requests, NEW n, Creates(r, n) PROVE EvalInv'
  <1>1. /\ n \notin DOMAIN rows /\ DOMAIN rows' = DOMAIN rows \cup {n} /\ rows'[n] = RunningRow(r)
        /\ \A m \in DOMAIN rows : rows'[m] = rows[m]
    BY DEF Creates, With
  <1>2. /\ thread[r].pc = "create" /\ thread'[r].pc = "load" /\ thread'[r].run = n
        /\ \A q \in Requests \ {r} : thread'[q] = thread[q]
        /\ ThreadsShaped' /\ UNCHANGED <<setup, leg, idem>>
    BY DEF Creates
  <1>3. rows'[n].status = "running" /\ {"status", "report", "of"} \subseteq DOMAIN rows'[n]
    BY <1>1 DEF RunningRow
  <1>4. Shaped'
    BY <1>1, <1>2, <1>3 DEF EvalInv, Shaped, LegsShaped, RowsShaped
  <1>5. BeginsOnce'
    BY <1>2 DEF EvalInv, BeginsOnce
  <1>6. RowsOfThreads'
    <2>1. ASSUME NEW q \in Requests \ {r}, WorksOn(q)'
          PROVE  WorksOn(q) /\ HasRow(q)' /\ thread'[q].run = thread[q].run /\ thread'[q].run # n
      BY <1>1, <1>2, <2>1 DEF EvalInv, RowsOfThreads, WorksOn, HasRow
    <2>2. HasRow(r)'
      BY <1>1, <1>2, <1>3 DEF HasRow
    <2>3. ASSUME NEW p \in Requests, NEW q \in Requests, WorksOn(p)', WorksOn(q)', thread'[p].run = thread'[q].run
          PROVE  p = q
      BY <1>2, <2>1, <2>3 DEF EvalInv, RowsOfThreads
    <2> QED BY <2>1, <2>2, <2>3 DEF RowsOfThreads
  <1>7. OneAuthor'
    <2>1. \A m \in DOMAIN rows' : Completed(m)' => m \in DOMAIN rows /\ Completed(m) /\ Author(m)' = Author(m)
      BY <1>1, <1>3 DEF Completed, Author
    <2>2. \A q \in Requests : thread[q].pc \in {"reply", "done"} => thread'[q].pc = thread[q].pc
      BY <1>2
    <2> QED BY <2>1, <2>2 DEF EvalInv, OneAuthor
  <1>8. RowsLast /\ NobodyIsTold
    BY <1>1, <1>2 DEF RowsLast, NobodyIsTold, Heard
  <1> QED BY <1>2, <1>4, <1>5, <1>6, <1>7, <1>8, LastingKeeps DEF EvalInv

LEMMA FailuresKeepInv == ASSUME EvalInv, NEW r \in Requests, Fails(r) PROVE EvalInv'
  <1>1. /\ thread[r].pc = "load" /\ thread'[r].pc = "done" /\ ThreadsWalk
        /\ \A q \in Requests \ {r} : thread'[q] = thread[q]
        /\ LegsGo /\ NobodyIsTold /\ UNCHANGED <<setup, idem>>
    BY DEF Fails
  <1>2. PICK n : n = thread[r].run
    OBVIOUS
  <1>3. WorksOn(r) /\ n \in DOMAIN rows /\ rows[n].status = "running"
    BY <1>1, <1>2 DEF EvalInv, RowsOfThreads, WorksOn, HasRow, Scoring
  <1>4. /\ DOMAIN rows' = DOMAIN rows /\ rows'[n] = [rows[n] EXCEPT !.status = "failed"]
        /\ \A m \in DOMAIN rows \ {n} : rows'[m] = rows[m]
    BY <1>2, <1>3 DEF Fails
  <1>5. rows'[n].status = "failed" /\ {"status", "report", "of"} \subseteq DOMAIN rows'[n]
    BY <1>3, <1>4 DEF EvalInv, Shaped, RowsShaped
  <1>6. Shaped'
    BY <1>1, <1>4, <1>5 DEF EvalInv, Shaped, LegsGo, ThreadsWalk, RowsShaped
  <1>7. BeginsOnce'
    BY <1>1, BeginsOnceKept DEF EvalInv, ThreadsWalk
  <1>8. RowsOfThreads'
    <2>1. ASSUME NEW q \in Requests, WorksOn(q)'
          PROVE  WorksOn(q) /\ HasRow(q)' /\ thread'[q].run = thread[q].run
      <3>1. q # r
        BY <1>1, <2>1 DEF WorksOn, Scoring
      <3>2. WorksOn(q) /\ thread'[q] = thread[q]
        BY <1>1, <2>1, <3>1 DEF WorksOn
      <3>3. thread[q].run # n
        BY <1>2, <1>3, <3>1, <3>2 DEF EvalInv, RowsOfThreads
      <3> QED BY <1>4, <3>2, <3>3 DEF EvalInv, RowsOfThreads, HasRow
    <2> QED BY <2>1 DEF EvalInv, RowsOfThreads
  <1>9. OneAuthor'
    <2>1. \A m \in DOMAIN rows' : Completed(m)' => m \in DOMAIN rows /\ Completed(m) /\ Author(m)' = Author(m)
      BY <1>4, <1>5 DEF Completed, Author
    <2>2. \A q \in Requests : thread[q].pc \in {"reply", "done"} => thread'[q].pc \in {"reply", "done"}
      BY <1>1
    <2> QED BY <2>1, <2>2 DEF EvalInv, OneAuthor
  <1>10. RowsLast
    BY <1>3, <1>4 DEF RowsLast, Completed
  <1> QED BY <1>1, <1>6, <1>7, <1>8, <1>9, <1>10, LastingKeeps DEF EvalInv

LEMMA ScorersKeepInv == ASSUME EvalInv, NEW r \in Requests, Scores(r) PROVE EvalInv'
  <1>1. /\ thread[r].pc = "score" /\ thread'[r].pc = "reply" /\ thread'[r].run = thread[r].run
        /\ \A q \in Requests \ {r} : thread'[q] = thread[q]
        /\ ThreadsShaped' /\ UNCHANGED <<setup, leg, idem>>
    BY DEF Scores
  <1>2. PICK n : n = thread[r].run
    OBVIOUS
  <1>3. WorksOn(r) /\ n \in DOMAIN rows /\ rows[n].status = "running"
    BY <1>1, <1>2 DEF EvalInv, RowsOfThreads, WorksOn, HasRow, Scoring
  <1>4. PICK report, of :
            /\ of.request = r
            /\ rows' = [rows EXCEPT ![n] = [@ EXCEPT !.status = "completed", !.report = report, !.of = of]]
    <2>1. PICK report, named, said :
              rows' = [rows EXCEPT ![thread[r].run] =
                           [@ EXCEPT !.status = "completed", !.report = report,
                                     !.of = [request |-> r, named |-> named, said |-> said]]]
      BY DEF Scores
    <2>2. PICK of : of = [request |-> r, named |-> named, said |-> said]
      OBVIOUS
    <2>3. of.request = r
      BY <2>2
    <2> QED BY <1>2, <2>1, <2>2, <2>3
  <1>5. /\ DOMAIN rows' = DOMAIN rows
        /\ rows'[n] = [rows[n] EXCEPT !.status = "completed", !.report = report, !.of = of]
        /\ \A m \in DOMAIN rows \ {n} : rows'[m] = rows[m]
    BY <1>3, <1>4
  <1>6. /\ rows'[n].status = "completed" /\ rows'[n].of = of
        /\ {"status", "report", "of"} \subseteq DOMAIN rows'[n]
    BY <1>3, <1>5 DEF EvalInv, Shaped, RowsShaped
  <1>7. Shaped'
    <2>1. LegsShaped'
      BY <1>1 DEF EvalInv, Shaped, LegsShaped
    <2>2. ASSUME NEW m \in DOMAIN rows' PROVE {"status", "report", "of"} \subseteq DOMAIN rows'[m]
      <3>1. CASE m = n
        BY <1>6, <3>1
      <3>2. CASE m # n
        BY <1>5, <2>2, <3>2 DEF EvalInv, Shaped, RowsShaped
      <3> QED BY <3>1, <3>2
    <2> QED BY <1>1, <2>1, <2>2 DEF Shaped, RowsShaped
  <1>8. BeginsOnce'
    BY <1>1 DEF EvalInv, BeginsOnce
  <1>9. ASSUME NEW q \in Requests, q # r, WorksOn(q)'
        PROVE  WorksOn(q) /\ HasRow(q)' /\ thread'[q] = thread[q] /\ thread[q].run # n
    <2>1. WorksOn(q) /\ thread'[q] = thread[q]
      BY <1>1, <1>9 DEF WorksOn
    <2>2. thread[q].run # n
      BY <1>2, <1>3, <1>9, <2>1 DEF EvalInv, RowsOfThreads
    <2> QED BY <1>5, <2>1, <2>2 DEF EvalInv, RowsOfThreads, HasRow
  <1>10. RowsOfThreads'
    <2>1. HasRow(r)'
      BY <1>1, <1>2, <1>3, <1>4, <1>5, <1>6 DEF HasRow, Scoring
    <2>2. ASSUME NEW p \in Requests, NEW q \in Requests, WorksOn(p)', WorksOn(q)', thread'[p].run = thread'[q].run
          PROVE  p = q
      BY <1>1, <1>2, <1>9, <2>2 DEF EvalInv, RowsOfThreads
    <2> QED BY <1>9, <2>1, <2>2 DEF RowsOfThreads
  <1>11. OneAuthor'
    <2>1. \A m \in DOMAIN rows' : /\ m \in DOMAIN rows
                                  /\ Completed(m)' => m = n \/ (Completed(m) /\ Author(m)' = Author(m))
      BY <1>5 DEF Completed, Author
    <2>2. Author(n)' = r
      BY <1>4, <1>6 DEF Author
    <2>3. \A m \in DOMAIN rows : Completed(m) => Author(m) # r
      BY <1>1 DEF EvalInv, OneAuthor
    <2>4. /\ \A q \in Requests : thread[q].pc \in {"reply", "done"} => thread'[q].pc \in {"reply", "done"}
          /\ thread'[r].pc = "reply"
      BY <1>1
    <2> QED BY <2>1, <2>2, <2>3, <2>4 DEF EvalInv, OneAuthor
  <1>12. RowsLast /\ NobodyIsTold
    BY <1>1, <1>3, <1>5 DEF RowsLast, Completed, NobodyIsTold, Heard
  <1> QED BY <1>1, <1>7, <1>8, <1>10, <1>11, <1>12, LastingKeeps DEF EvalInv

-----------------------------------------------------------------------------
LEMMA EvalInvTells == ASSUME EvalInv PROVE ToldIsStored
  <1>1. ASSUME NEW r \in Requests, Heard(r).status = 201
        PROVE  /\ rows[Heard(r).body.run].status = "completed"
               /\ rows[Heard(r).body.run].report = Heard(r).body.report
               /\ MayHear(r, Heard(r).body.run)
    BY <1>1 DEF EvalInv, HeardIsStored, IsStored, Completed
  <1>2. ASSUME NEW r \in Requests, NEW q \in Requests, Heard(r).status = 201, r # q, Heard(q).status = 201,
               Asked(r).idem = None \/ Asked(r).idem # Asked(q).idem
        PROVE  Heard(r).body.run # Heard(q).body.run
    BY <1>1, <1>2 DEF MayHear
  <1> QED BY <1>1, <1>2 DEF ToldIsStored, Heard

LEMMA EvalInvKept == ASSUME EvalInv, [EvalNext]_evalVars PROVE EvalInv'
  BY EvalSteps, WanderersKeepInv, TellersKeepInv, CreatorsKeepInv, FailuresKeepInv, ScorersKeepInv

(* Whoever was told of a finished evaluation, first or as a replay of his  *)
(* key, finds that very report under that number ever after, and callers   *)
(* with keys of their own were told of different numbers                   *)
(* (create_eval_run, eval_store.py): whatever the routes, limits,          *)
(* credentials, timeouts and restarts.                                     *)
THEOREM ToldStaysStored == EvalSpec => []ToldIsStored
  <1>1. EvalInit => EvalInv
    BY EvalInitInv
  <1>2. EvalInv /\ [EvalNext]_evalVars => EvalInv'
    BY EvalInvKept
  <1>3. EvalInv => ToldIsStored
    BY EvalInvTells
  <1> QED BY <1>1, <1>2, <1>3, PTL DEF EvalSpec

=============================================================================
