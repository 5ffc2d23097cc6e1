--------------------------- MODULE KnowledgeAnswers ---------------------------
(***************************************************************************)
(* Questions to the knowledge base.  The ingestion-worker writes what it   *)
(* parsed to two side indexes (OpenSearch and Milvus) before the           *)
(* knowledge-api stores the chunks; a question is answered in several      *)
(* transactions (the session's log, the visible documents, keyword recall, *)
(* vector recall, ranking, the answer and its log row) while documents are *)
(* being uploaded, published, archived and restored.                       *)
(*                                                                         *)
(* A document is one chunk: the chunks of a document are written, indexed  *)
(* and made visible together, and the model tells apart only what they are *)
(* found by.  Documents are numbered in the order of their upload.  A text *)
(* is its set of words.  No code gives a chunk ACL tags of its own, so the *)
(* filter on them lets every row through.                                  *)
(***************************************************************************)
EXTENDS Integers, FiniteSets

CONSTANTS Doc, Words, Title, Tags, \* Doc -> the words of its chunk, of its title, its tags
          Parts,       \* word -> the terms that occur inside it
          Entities,    \* word -> the canonical tokens extract_entities reads in it
          Session, Thread, Questions, Scopes,
          PageSize, TopK,
          Similarity, \* the cosine similarities of a chunk and a question, in hundredths
          Setups, \* the ways the services may be set up and used
          NoRow

(* store is build_knowledge_store's choice, opensearch and milvus whether   *)
(* the index is enabled, llm whether the LLM gateway is enabled, faults     *)
(* whether a call to an index, a model or the worker may fail.  A search    *)
(* returns at most rows rows, and window documents go to the reranker (20,  *)
(* and 5 * TopK up to 50, in the code).  Bounds: docs documents are         *)
(* uploaded, asks questions asked, in sessions sessions and threads at a    *)
(* time.                                                                    *)
ASSUME SetupsAssumption ==
    \A dep \in Setups :
        /\ dep.store \in {"sqlite", "postgres"}
        /\ dep.opensearch \in BOOLEAN /\ dep.milvus \in BOOLEAN
        /\ dep.llm \in BOOLEAN /\ dep.faults \in BOOLEAN
        /\ {dep.rows, dep.window} \subseteq Nat \ {0}
        /\ {dep.docs, dep.asks, dep.sessions, dep.threads} \subseteq Nat

ASSUME SimilarityAssumption == Similarity \subseteq -100 .. 100

(* Documents are numbered, texts are finite, and a word occurs in itself.   *)
ASSUME TextsAssumption ==
    /\ Doc \subseteq Int /\ PageSize \in Int
    /\ \A words \in Questions : IsFiniteSet(words)
    /\ \A d \in Doc : /\ IsFiniteSet(Words[d]) /\ IsFiniteSet(Title[d])
                      /\ \A w \in Words[d] : w \in Parts[w]

VARIABLES setup,
          status,   \* Doc -> its parse_status
          worker,   \* Doc -> what the worker does next for it
          waiting,  \* Doc -> the handler that waits for the worker, if any does
          sparse,   \* documents in the OpenSearch index
          vectors,  \* documents with vectors in Milvus
          qaLogs,   \* Session -> its row of qa_logs, or NoRow
          poisoned, \* has a statement failed on the connection of the Postgres store?
          query,    \* Thread -> the question it works on
          asked     \* questions asked so far, for the bound

answersVars == <<setup, status, worker, waiting, sparse, vectors, qaLogs, poisoned, query, asked>>
documents == <<status, worker, waiting, sparse, vectors>>

Idle == [phase |-> "idle", session |-> NoRow, words |-> {}, scopes |-> {}, prior |-> NoRow,
         docs |-> {}, keyed |-> {}, titled |-> {}, best |-> << >>, ranked |-> {}, hits |-> {},
         top |-> NoRow, result |-> "none", always |-> {}, ever |-> {}]

AnswersInit == /\ setup \in Setups
        /\ status = [d \in Doc |-> "absent"]
        /\ worker = [d \in Doc |-> "idle"]
        /\ waiting = [d \in Doc |-> "none"]
        /\ sparse = {} /\ vectors = {}
        /\ qaLogs = [s \in Session |-> NoRow]
        /\ poisoned = FALSE
        /\ query = [t \in Thread |-> Idle]
        /\ asked = 0

Published == {d \in Doc : status[d] = "published"}

-----------------------------------------------------------------------------
(* Documents.  always and ever are history: the documents that have been    *)
(* published throughout, and at some time during, a question.               *)
SetStatus(d, new) ==
    /\ status' = [status EXCEPT ![d] = new]
    /\ query' = [t \in Thread |->
           IF query[t].phase \in {"idle", "done"} THEN query[t]
           ELSE IF new = "published" THEN [query[t] EXCEPT !.ever = @ \cup {d}]
           ELSE [query[t] EXCEPT !.always = @ \ {d}]]

(* The upload handler blocks the event loop while it waits for the worker:  *)
(* no request begins meanwhile.                                             *)
LoopIsFree == \A d \in Doc : waiting[d] # "upload"

Parse(d, from, handler) ==
    /\ status[d] = from /\ worker[d] = "idle" /\ LoopIsFree /\ ~poisoned
    /\ worker' = [worker EXCEPT ![d] = "index"]
    /\ waiting' = [waiting EXCEPT ![d] = handler]
    /\ SetStatus(d, "uploaded")
    /\ UNCHANGED <<setup, sparse, vectors, qaLogs, poisoned, asked>>
Upload(d) == /\ d <= setup.docs
             /\ \A e \in Doc : e < d => status[e] # "absent"
             /\ Parse(d, "absent", "upload")
Reparse(d) == setup.store = "sqlite" /\ Parse(d, "parse_failed", "reparse")

(* The worker indexes the chunks by their ids.  A bulk request that fails   *)
(* goes to a store inside the worker, which nobody else reads.              *)
Indexed(d, reached) == IF setup.opensearch /\ reached THEN sparse \cup {d} ELSE sparse
WorkerIndexes(d) ==
    /\ worker[d] = "index"
    /\ \E reached \in BOOLEAN : /\ reached \/ setup.faults
                                /\ sparse' = Indexed(d, reached)
    /\ worker' = [worker EXCEPT ![d] = "insert"]
    /\ UNCHANGED <<setup, status, waiting, vectors, qaLogs, poisoned, query, asked>>

(* The vectors are added, never replaced; a failure is logged only.         *)
Inserted(d, reached) == IF setup.milvus /\ reached THEN vectors \cup {d} ELSE vectors
WorkerInserts(d) ==
    /\ worker[d] = "insert"
    /\ \E reached \in BOOLEAN : /\ reached \/ setup.faults
                                /\ vectors' = Inserted(d, reached)
    /\ worker' = [worker EXCEPT ![d] = "return"]
    /\ UNCHANGED <<setup, status, waiting, sparse, qaLogs, poisoned, query, asked>>

(* Whoever still waits for the answer acts on it: stores the chunks, or     *)
(* marks the document failed.  By then the indexes may have been written.   *)
Settle(d, new) ==
    /\ worker' = [worker EXCEPT ![d] = "idle"]
    /\ waiting' = [waiting EXCEPT ![d] = "none"]
    /\ IF waiting[d] # "none" /\ ~poisoned THEN SetStatus(d, new) ELSE UNCHANGED <<status, query>>
    /\ UNCHANGED <<setup, sparse, vectors, qaLogs, poisoned, asked>>
WorkerReturns(d) == worker[d] = "return" /\ Settle(d, "ready")

(* Parsing or embedding fails before anything is indexed (4xx, 502).        *)
WorkerFails(d) == setup.faults /\ worker[d] = "index" /\ Settle(d, "parse_failed")

(* Without an answer in time the document stays uploaded, while the worker  *)
(* goes on.                                                                 *)
WorkerTimesOut(d) ==
    /\ setup.faults /\ waiting[d] # "none"
    /\ waiting' = [waiting EXCEPT ![d] = "none"]
    /\ UNCHANGED <<setup, status, worker, sparse, vectors, qaLogs, poisoned, query, asked>>

Move(d, from, to) == /\ status[d] \in from /\ LoopIsFree /\ ~poisoned
                     /\ SetStatus(d, to)
                     /\ UNCHANGED <<setup, worker, waiting, sparse, vectors>>
                     /\ UNCHANGED <<qaLogs, poisoned, asked>>
Publish(d) == Move(d, {"ready"}, "published")
Archive(d) == Move(d, IF setup.store = "sqlite" THEN {"published"}
                      ELSE {"uploaded", "parse_failed", "ready", "published"}, "archived")
Restore(d) == setup.store = "sqlite" /\ Move(d, {"archived"}, "published")

-----------------------------------------------------------------------------
(* What a question finds                                                    *)

(* normalize_query appends the entities it reads in the question.           *)
ExtractEntities(words) == UNION {Entities[w] : w \in words}
Normalized(words) == words \cup ExtractEntities(words)

(* The newest PageSize published documents, of which the scopes see those   *)
(* with a tag or a metadata value in common.                                *)
FirstPage(docs) == {d \in docs : Cardinality({e \in docs : e > d}) < PageSize}
VisibleTo(docs, scopes) == {d \in docs : scopes = {} \/ Tags[d] \cap scopes # {}}
ResolvedStored(scopes) ==   \* mutant: archived documents are listed too
    VisibleTo(FirstPage({d \in Doc : status[d] \in {"published", "archived"}}), scopes)
Resolved(scopes) == VisibleTo(FirstPage(Published), scopes)

(* FTS5 matches whole tokens of the content; the Postgres store looks for   *)
(* terms anywhere in title and content.                                     *)
MatchesFts(words, d) == words \cap Words[d] # {}
MatchesTerm(words, d) == \E w \in Words[d] \cup Title[d] : words \cap Parts[w] # {}
Matches(words, d) == IF setup.store = "sqlite" THEN MatchesFts(words, d)
                                                    ELSE MatchesTerm(words, d)
(* At most so many of the rows; which are the best is not told apart.       *)
UpTo(limit, rows) == IF Cardinality(rows) <= limit THEN {rows}
                     ELSE {kept \in SUBSET rows : Cardinality(kept) = limit}

SearchFts(words, docs) == UpTo(setup.rows, {d \in docs : Matches(words, d)})
SearchSparse(words, docs, reached) ==
    IF setup.opensearch /\ reached
    THEN UpTo(setup.rows, {d \in docs \cap sparse : MatchesFts(words, d)})
    ELSE {{}}

(* A row of the index counts if its chunk is in the store; without rows the *)
(* store's own search is used.                                              *)
Stored(d) == status[d] \in {"ready", "published", "archived"}
KeywordRowsIndexed(words, docs, found) ==   \* mutant: falls back only if OpenSearch is off
    IF setup.opensearch THEN {{d \in found : Stored(d)}} ELSE SearchFts(words, docs)
KeywordRows(words, docs, found) ==
    IF found # {} THEN {{d \in found : Stored(d)}} ELSE SearchFts(words, docs)

SearchVectors(docs, reached) ==
    IF setup.milvus /\ reached THEN UpTo(setup.rows, docs \cap vectors) ELSE {{}}
ChunkRows(docs) == {d \in docs : Stored(d)}
VectorRows(docs, found) == IF found # {} THEN found ELSE ChunkRows(docs)

(* Scores in four-hundredths: half for a keyword match, and half of the     *)
(* similarity brought to 0 .. 1, if any chunk's is positive.                *)
Near(q) == {d \in DOMAIN q.best : q.best[d] >= 70}
FusedByVector(q, d) ==   \* mutant: keyword recall adds nothing
    IF d \in DOMAIN q.best /\ \E e \in DOMAIN q.best : q.best[e] > 0 THEN 100 + q.best[d] ELSE 0
Fused(q, d) ==
    (IF d \in q.keyed THEN 200 ELSE 0)
    + (IF d \in DOMAIN q.best /\ \E e \in DOMAIN q.best : q.best[e] > 0 THEN 100 + q.best[d] ELSE 0)

(* The window with the highest scores goes to the reranker, which keeps     *)
(* TopK of it: which ones is up to the model, or to counts of words in the  *)
(* built-in one.                                                            *)
Candidates(q) == q.docs \cap (q.keyed \cup DOMAIN q.best)
Windows(q) == {ranked \in UpTo(setup.window, Candidates(q)) :
                   \A d \in ranked, e \in Candidates(q) \ ranked : Fused(q, d) >= Fused(q, e)}

(* Refused: nothing was recalled, or only by vectors none of which is near. *)
Unsupported(q) == Candidates(q) = {} \/ (q.keyed = {} /\ Near(q) = {})

-----------------------------------------------------------------------------
(* Questions                                                                *)

End(q, result) == [q EXCEPT !.phase = "done", !.result = result]
Step(t, phase, next) == /\ query[t].phase = phase
                        /\ query' = [query EXCEPT ![t] = next]
                        /\ UNCHANGED <<setup, documents, asked>>
NothingLogged == UNCHANGED <<qaLogs, poisoned>>

(* The Postgres store has one connection and never rolls back: once a       *)
(* statement has failed, all later ones do.  (A commit of another thread    *)
(* would end this; KnowledgeDocuments has the statements one by one.)       *)
Reading(t, phase, next) == Step(t, phase, IF poisoned THEN End(query[t], "error") ELSE next)

(* A follow-up is searched together with the answer of the logged turn.     *)
Effective(words, prior) == words \cup (IF prior = NoRow THEN {} ELSE prior.words)
Asked(s, words, scopes) ==
    LET q == [Idle EXCEPT !.phase = "resolve", !.session = s, !.prior = qaLogs[s],
                          !.scopes = scopes, !.words = Effective(words, qaLogs[s]),
                          !.always = Published, !.ever = Published]
    IN IF poisoned THEN End(q, "error") ELSE q
Ask(t, s, words, scopes) ==
    /\ query[t].phase \in {"idle", "done"} /\ asked < setup.asks /\ LoopIsFree
    /\ t <= setup.threads /\ s <= setup.sessions
    /\ query' = [query EXCEPT ![t] = Asked(s, words, scopes)]
    /\ asked' = asked + 1
    /\ UNCHANGED <<setup, documents, qaLogs, poisoned>>

Resolve(t) ==
    LET docs == Resolved(query[t].scopes)
    IN /\ Reading(t, "resolve", IF docs = {} THEN End(query[t], "refused")
                                ELSE [query[t] EXCEPT !.phase = "keywords", !.docs = docs])
       /\ NothingLogged

(* Rows of the store's own search bring the title, others do not.           *)
RecallKeywords(t) ==
    LET words == Normalized(query[t].words)
        docs == query[t].docs
    IN /\ \E reached \in BOOLEAN : \E found \in SearchSparse(words, docs, reached) :
           \E keyed \in KeywordRows(words, docs, found) :
             /\ reached \/ setup.faults
             /\ Reading(t, "keywords",
                   [query[t] EXCEPT !.phase = "vectors", !.keyed = keyed,
                                    !.titled = IF found = {} THEN keyed ELSE {}])
       /\ NothingLogged

EmbeddingFails(t) ==
    setup.faults /\ Step(t, "vectors", End(query[t], "unavailable")) /\ NothingLogged

(* How similar a chunk is to the question is up to the embedding.          *)
RecallVectors(t) ==
    LET docs == query[t].docs
    IN /\ \E reached \in BOOLEAN : \E found \in SearchVectors(docs, reached) :
           \E best \in [VectorRows(docs, found) -> Similarity] :
             /\ reached \/ setup.faults
             /\ Step(t, "vectors", IF poisoned /\ found = {} THEN End(query[t], "error")
                                   ELSE [query[t] EXCEPT !.phase = "rank", !.best = best])
       /\ NothingLogged

(* Each document of the window must have a title, the row's or the store's. *)
Rank(t) ==
    LET q == query[t]
    IN /\ IF Unsupported(q) THEN Step(t, "rank", End(q, "refused"))
          ELSE \E ranked \in Windows(q) :
                  IF poisoned /\ ~(ranked \subseteq q.titled) THEN Step(t, "rank", End(q, "error"))
                  ELSE \E hits \in UpTo(TopK, ranked) : \E top \in hits :
                          Step(t, "rank", [q EXCEPT !.phase = "answer", !.ranked = ranked,
                                                    !.hits = hits, !.top = top])
       /\ NothingLogged

(* The template quotes the top chunk; a model may say anything, and the     *)
(* template stands in for a model that fails.                               *)
AnswerWords(q) == {Title[q.top] \cup Words[q.top]} \cup (IF setup.llm THEN {{}} ELSE {})

(* trace_id is the same for all questions of a session and unique in the    *)
(* log: the insert of a later row fails, and the failure is ignored.        *)
LoggedAgain(old, row) == row   \* mutant: insert or replace
Logged(old, row) == IF old = NoRow THEN row ELSE old
Poisons(old) == setup.store = "postgres" /\ old # NoRow
Answer(t) ==
    LET q == query[t] IN
    /\ Step(t, "answer", End(q, "answered"))
    /\ IF poisoned THEN NothingLogged
       ELSE /\ \E words \in AnswerWords(q) :
                  LET row == [hits |-> q.hits, words |-> words]
                  IN  qaLogs' = [qaLogs EXCEPT ![q.session] = Logged(@, row)]
            /\ poisoned' = Poisons(qaLogs[q.session])

(* The process is restarted with a new connection; requests in progress are *)
(* lost.                                                                    *)
RestartApi ==
    /\ poisoned
    /\ poisoned' = FALSE
    /\ query' = [t \in Thread |-> Idle]
    /\ waiting' = [d \in Doc |-> "none"]
    /\ UNCHANGED <<setup, status, worker, sparse, vectors, qaLogs, asked>>

Document(d) == \/ Upload(d) \/ Reparse(d) \/ WorkerIndexes(d) \/ WorkerInserts(d)
               \/ WorkerReturns(d) \/ WorkerFails(d) \/ WorkerTimesOut(d)
               \/ Publish(d) \/ Archive(d) \/ Restore(d)
Question(t) == \/ \E s \in Session, words \in Questions, scopes \in Scopes :
                      Ask(t, s, words, scopes)
               \/ Resolve(t) \/ RecallKeywords(t) \/ EmbeddingFails(t) \/ RecallVectors(t)
               \/ Rank(t) \/ Answer(t)
AnswersNext == (\E d \in Doc : Document(d)) \/ (\E t \in Thread : Question(t)) \/ RestartApi
AnswersSpec == AnswersInit /\ [][AnswersNext]_answersVars

-----------------------------------------------------------------------------
(* What an answer cites was published and visible to its scopes while it    *)
(* was worked out, and the documents it was chosen from have evidence among *)
(* them: one with a word of the question or an entity it names, or a near   *)
(* vector.  The cut to the window by the fused score never leaves only      *)
(* documents found by nothing, whatever rows the searches dropped.          *)
Evidenced(q, d) == Matches(Normalized(q.words), d) \/ d \in Near(q)
AnswersRestOnEvidence ==
    \A t \in Thread : LET q == query[t] IN q.result = "answered" =>
        /\ q.hits # {} /\ q.hits \subseteq VisibleTo(q.ever, q.scopes) \cap q.ranked
        /\ \E d \in q.ranked : Evidenced(q, d)

(* A question is refused only if none of the newest PageSize documents that *)
(* stayed published in its scopes throughout has one of its words or names  *)
(* one of its entities, whatever the indexes held or failed to do.  For a   *)
(* follow-up the words are also those of the answer it follows: it is not   *)
(* refused while the document that answer quoted is there.                  *)
Newest(d) == d > setup.docs - PageSize
RefusalsAreTrue ==
    \A t \in Thread : LET q == query[t] IN q.result = "refused" =>
        \A d \in VisibleTo(q.always, q.scopes) : Newest(d) => ~Matches(Normalized(q.words), d)

(* All questions of a session that follow up do so on the same answer, the  *)
(* one the session's row in the log keeps: it is not replaced while they    *)
(* are worked on.                                                           *)
FollowUpsShareOneAnswer ==
    \A t \in Thread : LET q == query[t] IN
        q.phase # "idle" /\ q.prior # NoRow => q.prior = qaLogs[q.session]

=============================================================================
