-------------------------- MODULE MCKnowledgeAnswers --------------------------
(***************************************************************************)
(* Three documents: the first speaks of "a", the second of the entity      *)
(* NE-1, which the question "ne1" means, the third of "ab", in which the   *)
(* Postgres store finds "a", and has "c" in its title.  Scope s sees the   *)
(* first and the second.                                                   *)
(***************************************************************************)
EXTENDS KnowledgeAnswers, Chunking, RemoteCalls

Word == {"a", "ab", "c", "ne1", "NE-1", "x"}
MCWords == [d \in 1..3 |-> CASE d = 1 -> {"a"} [] d = 2 -> {"NE-1"} [] OTHER -> {"ab"}]
MCTitle == [d \in 1..3 |-> IF d = 3 THEN {"c"} ELSE {}]
MCTags == [d \in 1..3 |-> IF d = 3 THEN {"r"} ELSE {"s", "r"}]
MCParts == [w \in Word |-> IF w = "ab" THEN {"a", "ab"} ELSE {w}]
MCEntities == [w \in Word |-> IF w \in {"ne1", "NE-1"} THEN {"NE-1"} ELSE {}]
MCQuestions == {{"a"}, {"ne1"}, {"x"}}
MCScopes == {{}, {"s"}}

MCSimilarity == {-50, 69, 70}

Setup(store, opensearch, milvus, rows, window, llm, faults, docs, asks, sessions, threads) ==
    [store |-> store, opensearch |-> opensearch, milvus |-> milvus, rows |-> rows,
     window |-> window, llm |-> llm, faults |-> faults,
     docs |-> docs, asks |-> asks, sessions |-> sessions, threads |-> threads]

(* Both indexes with failures, for one question and for a follow-up; the    *)
(* plain service with two questions at a time; more documents than a page,  *)
(* a search's rows or a window; Postgres, for one question and for more.    *)
MCSetups == { Setup("sqlite", TRUE, TRUE, 2, 1, FALSE, TRUE, 2, 1, 1, 1),
                   Setup("sqlite", TRUE, TRUE, 1, 1, TRUE, TRUE, 1, 3, 1, 1),
                   Setup("sqlite", FALSE, FALSE, 1, 1, TRUE, FALSE, 1, 3, 2, 2),
                   Setup("sqlite", TRUE, FALSE, 1, 2, FALSE, FALSE, 3, 1, 1, 1),
                   Setup("postgres", FALSE, FALSE, 2, 1, TRUE, FALSE, 3, 1, 1, 1),
                   Setup("postgres", FALSE, FALSE, 1, 1, FALSE, FALSE, 1, 4, 2, 1) }

-----------------------------------------------------------------------------
(* Every text of up to eight characters, with sentences ending anywhere:    *)
(* the window's pieces are not empty, fit it, and leave nothing out if the  *)
(* overlap is about half the window or no sentence ends where it backs off. *)
ASSUME WindowAssumption ==
    \A n \in 1 .. 8 : \A ends \in SUBSET (0 .. n - 1), window \in 1 .. 5, overlap \in 0 .. 5 :
        /\ \A piece \in SlidingWindow(n, window, overlap, ends) :
              piece[1] < piece[2] /\ piece[2] - piece[1] <= window /\ piece[2] <= n
        /\ ends = {} \/ overlap >= window - window \div 2 - 2 =>
              LostPositions(n, window, overlap, ends) = {}

(* With less overlap the text between the end of a sentence and the next    *)
(* window is in no chunk.                                                   *)
ASSUME BackOffAssumption == LostPositions(12, 10, 1, {6}) = {7, 8}

(* Merging keeps every block and its order; what it merges stays short, and *)
(* each row of a table is a chunk of its own.                               *)
ASSUME MergeAssumption ==
    \A blocks \in BoundedSeq(1 .. 4, 4) :
        LET groups == Merged(blocks, FALSE)
            Sum(lengths) == FoldLeft(+, 0, lengths)
        IN /\ \A i \in DOMAIN groups : groups[i].count > 1 => groups[i].length <= MergeMaxLen
           /\ Sum([i \in DOMAIN groups |-> groups[i].count]) = Len(blocks)
           /\ Sum([i \in DOMAIN groups |-> groups[i].length - groups[i].count + 1]) = Sum(blocks)
           /\ Len(Merged(blocks, TRUE)) = Len(blocks)

(* Pieces of the other strategy hold the whole text, none is too long, and  *)
(* none ends inside the only code of a text ...                             *)
Code(from) == [from |-> from, sure |-> from + 5, to |-> from + 5]
Inside(code, piece) == code.from < piece[2] /\ piece[2] < code.to
ASSUME BoundaryAssumption ==
    \A n \in 1 .. 18 : \A from \in 0 .. n - 5, end \in 0 .. n - 1 :
        LET ends == IF end \in from .. from + 5 THEN {} ELSE {end}
            pieces == SplitMerged("boundary", n, 0, 0, ends, {Code(from)})
        IN /\ UNION {piece[1] .. piece[2] - 1 : piece \in pieces} = 0 .. n - 1
           /\ \A piece \in pieces : piece[2] - piece[1] \in 1 .. MaxChunkLen /\ ~Inside(Code(from), piece)

(* ... but one may end inside the second: the first code hides it.          *)
ASSUME SecondCodeAssumption ==
    \E piece \in SplitMerged("boundary", 12, 0, 0, {}, {Code(0), Code(6)}) : Inside(Code(6), piece)
-----------------------------------------------------------------------------
(* Every script of three attempts: no attempt follows a final one, and a    *)
(* call fails with a status worth repeating only when all of them were made *)
(* and it was the last.                                                     *)
Script == [1 .. 3 -> Replies]
ASSUME RetryAssumption ==
    \A script \in Script :
        LET made == Attempts(script, Raised \cup RetryableStatus)
        IN /\ ~Chat(script).raised <=> \E i \in 1 .. 3 :
                  script[i] = "ok" /\ \A j \in 1 .. i - 1 : script[j] \in Raised \cup RetryableStatus
           /\ Chat(script).status \in RetryableStatus => made = 3 /\ script[3] = Chat(script).status
           /\ PostWithRetry(script) = "vectors" => ~Chat(script).raised

(* The two differ where a connection fails once: chat asks again, while the *)
(* provider gives up.                                                       *)
ASSUME NetworkAssumption ==
    LET script == <<"network", "ok", "ok">>
    IN  ~Chat(script).raised /\ PostWithRetry(script) = "network"

(* A call gives every text its vector, in order, or none of them; it fails  *)
(* for the reason of the first batch that did, with no request after it.    *)
ASSUME BatchAssumption ==
    \A texts \in BoundedSeq({1, 2}, 5), maxBatch \in 1 .. 3 :
        \A scripts \in [1 .. 5 -> {<<"ok">>, <<"client">>, <<"timeout">>}] :
            LET call == EmbedBatches(texts, maxBatch, scripts)
                good(b) == scripts[b] = <<"ok">>
            IN /\ \A b \in DOMAIN Batches(texts, maxBatch) : Len(Batches(texts, maxBatch)[b]) \in 1 .. maxBatch
               /\ call.cause = "none" => call.vectors = texts /\ \A b \in 1 .. call.posts : good(b)
               /\ call.cause # "none" => /\ call.vectors = << >> /\ ~good(call.posts)
                                         /\ \A b \in 1 .. call.posts - 1 : good(b)

(* A service that was to embed remotely and does not says so.               *)
ASSUME ProviderAssumption ==
    \A name \in {"stub", "qwen", "openai_compat", "siliconflow"}, given \in SUBSET {"key", "url", "model"} :
        BuildProvider(name, given).degraded <=> name # "stub" /\ BuildProvider(name, given).kind = "stub"
=============================================================================
