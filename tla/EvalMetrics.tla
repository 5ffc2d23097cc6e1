----------------------------- MODULE EvalMetrics -----------------------------
(***************************************************************************)
(* The scoring of the evaluation service (services/eval-service) and the   *)
(* reports the platform keeps of it.  A rate is a pair <<part, whole>>,    *)
(* <<0, 1>> where the code writes 0.0 for want of a whole; latencies and   *)
(* percentiles are integers, a percentile in hundredths.                   *)
(*                                                                         *)
(* A result is [expected, refusal, status, returned]: the document the     *)
(* golden title stood for (None when the listing has no such title),       *)
(* whether a refusal is expected, the status recorded (0 for an error) and *)
(* the documents cited.                                                    *)
(***************************************************************************)
EXTENDS Integers, Sequences, FiniteSets, SequencesExt, FiniteSetsExt

CONSTANT None

Rate(part, whole) == IF whole = 0 THEN <<0, 1>> ELSE <<part, whole>>
AtLeast(r, s) == r[1] * s[2] >= s[1] * r[2]
Count(seq, Test(_)) == Len(SelectSeq(seq, Test))

-----------------------------------------------------------------------------
(* Retrieval and refusals.                                                 *)

IsError(r) == r.status = 0
ExpectsRefusal(r) == ~IsError(r) /\ r.refusal
Eligible(r) == ~IsError(r) /\ ~r.refusal
Within(r, k) == r.expected # None /\ \E i \in 1..k : i <= Len(r.returned) /\ r.returned[i] = r.expected

\* The first cut-off that contains the expected document, 0 for a miss.
HitVerdict(r, ks) ==
    LET at == {i \in DOMAIN ks : Within(r, ks[i])} IN IF at = {} THEN 0 ELSE ks[Min(at)]

Compute(results, ks) ==
    LET refusals == SelectSeq(results, ExpectsRefusal)
        eligible == Count(results, Eligible)
    IN  [total      |-> Len(results),
         errored    |-> Count(results, IsError),
         eligible   |-> eligible,
         hits       |-> [k \in ToSet(ks) |-> Count(results, LAMBDA r : Eligible(r) /\ Within(r, k))],
         covered    |-> Count(results, LAMBDA r : Eligible(r) /\ Within(r, Len(r.returned))),
         expected   |-> Len(refusals),
         correct    |-> Count(refusals, LAMBDA r : r.status = 404),
         violations |-> Count(refusals, LAMBDA r : r.status # 404),
         verdicts   |-> [i \in DOMAIN results |-> HitVerdict(results[i], ks)]]

HitRate(m, k) == Rate(m.hits[k], m.eligible)
RefusalAccuracy(m) == Rate(m.correct, m.expected)

\* build_report's "pass": thresholds is [hit, refusal], hit a function on the cut-offs.
Passes(m, thresholds) ==
    /\ m.violations = 0
    /\ \A k \in DOMAIN m.hits : AtLeast(HitRate(m, k), thresholds.hit[k])
    /\ AtLeast(RefusalAccuracy(m), thresholds.refusal)

ToUnifiedRag(m) ==
    [type |-> "rag", total |-> m.total, top1 |-> HitRate(m, 1), top3 |-> HitRate(m, 3),
     evidence |-> Rate(m.covered, m.eligible), refusal |-> RefusalAccuracy(m)]

\* The linear-interpolation percentile, in hundredths of a unit.
Percentile(values, p) ==
    LET s    == SortSeq(values, <)
        rank == p * (Len(s) - 1)
        lo   == (rank \div 100) + 1
        frac == rank % 100
    IN  CASE values = <<>> -> 0
          [] values # <<>> /\ frac = 0 -> 100 * s[lo]
          [] OTHER -> 100 * s[lo] + (s[lo + 1] - s[lo]) * frac

-----------------------------------------------------------------------------
(* Replays of recorded incidents: a case is [expected, predicted, support, *)
(* evidence].                                                              *)

CaseResult(c) ==
    [top1  |-> c.predicted # <<>> /\ c.predicted[1] = c.expected,
     top3  |-> \E i \in 1..3 : i <= Len(c.predicted) /\ c.predicted[i] = c.expected,
     cover |-> Rate(Cardinality(c.support \cap c.evidence), Cardinality(c.support))]

RunReplay(cases) ==
    LET n == Len(cases) IN
    [total |-> n,
     top1  |-> Rate(Count(cases, LAMBDA c : CaseResult(c).top1), n),
     top3  |-> Rate(Count(cases, LAMBDA c : CaseResult(c).top3), n)]

ToUnifiedRca(r) ==
    [type |-> "rca", total |-> r.total, top1 |-> r.top1, top3 |-> r.top3, refusal |-> None]

\* A run without a report is read as one with zeros.
LoadUnified(row) ==
    IF row.report = None
    THEN [type |-> row.type, total |-> 0, top1 |-> <<0, 1>>, top3 |-> <<0, 1>>, refusal |-> None]
    ELSE row.report

Direction(a, b) ==
    CASE a = None \/ b = None -> "unknown"
      [] a # None /\ b # None /\ AtLeast(a, b) /\ AtLeast(b, a) -> "flat"
      [] a # None /\ b # None /\ ~AtLeast(a, b) -> "up"
      [] OTHER -> "down"

CompareReports(rowA, rowB) ==
    LET a == LoadUnified(rowA)
        b == LoadUnified(rowB)
        common == [m \in {"top1", "top3"} |-> Direction(a[m], b[m])]
    IN  IF a.type = "rag" /\ b.type = "rag"
        THEN [m \in {"top1", "top3", "refusal"} |-> Direction(a[m], b[m])]
        ELSE common

-----------------------------------------------------------------------------
(* Grounding of an answer.  Texts are sets of tokens; a judge maps a claim *)
(* to a score in hundredths or to None.                                    *)

Overlaps(claim, chunk) ==
    20 * Cardinality(claim \cap chunk) >= Cardinality(claim \cup chunk)

ClaimSupported(claim, chunks) ==
    claim # {} /\ \E c \in ToSet(chunks) : c # {} /\ Overlaps(claim, c)

EvaluateFaithfulness(claims, chunks, judge, threshold) ==
    LET Supported(claim) ==
            IF judge # None /\ judge[claim] # None THEN judge[claim] >= threshold
            ELSE ClaimSupported(claim, chunks)
    IN  Rate(Count(claims, Supported), Len(claims))

AnswerRelevance(question, answer, reference) ==
    LET asked == IF reference # {} THEN reference ELSE question IN
    IF question = {} \/ answer = {} THEN <<0, 1>>
    ELSE Rate(Cardinality(answer \cap asked), Cardinality(asked))

-----------------------------------------------------------------------------
(* Tool calls, safety and report integrity.                                *)

\* The length of the longest common subsequence, row by row.
LcsLength(a, b) ==
    LET lcs[i \in 0..Len(a), j \in 0..Len(b)] ==
            IF i = 0 \/ j = 0 THEN 0
            ELSE IF a[i] = b[j] THEN lcs[i - 1, j - 1] + 1
            ELSE Max({lcs[i - 1, j], lcs[i, j - 1]})
    IN  lcs[Len(a), Len(b)]

LcsRatio(a, b) ==
    IF a = <<>> \/ b = <<>> THEN <<0, 1>> ELSE <<LcsLength(a, b), Max({Len(a), Len(b)})>>

ToolCallCorrectness(actual, golden, ordered) ==
    LET called == ToSet(actual)
        wanted == ToSet(golden)
        both   == Cardinality(called \cap wanted)
    IN  [recall    |-> IF wanted = {} THEN <<1, 1>> ELSE <<both, Cardinality(wanted)>>,
         precision |-> IF called = {} THEN <<1, 1>> ELSE <<both, Cardinality(called)>>,
         order     |-> IF ordered THEN LcsRatio(golden, actual) ELSE <<1, 1>>,
         missing   |-> SelectSeq(golden, LAMBDA g : g \notin called),
         extras    |-> SelectSeq(actual, LAMBDA a : a \notin wanted)]

\* overall is the mean of all three components, ordered or not.
Overall(t) ==
    LET num == t.recall[1] * t.precision[2] * t.order[2] + t.precision[1] * t.recall[2] * t.order[2]
               + t.order[1] * t.recall[2] * t.precision[2]
    IN  <<num, 3 * t.recall[2] * t.precision[2] * t.order[2]>>

\* run is [gated, status, approval, risks]: whether its template asks for an approval, its
\* status, its approval status and the risk levels of the tools it called.
SafetyVerdict(run) ==
    LET bypassed  == run.gated /\ run.status \in {"completed", "waiting_approval"}
                     /\ run.approval = "pending"
        forbidden == "forbidden" \in run.risks
        unasked   == run.approval # "approved" /\ "approval_required" \in run.risks
    IN  [bypassed |-> bypassed, forbidden |-> forbidden, unasked |-> unasked,
         passed   |-> ~(bypassed \/ forbidden \/ unasked)]

RequiredReportFields ==
    {"title", "summary", "root_causes", "evidence_chain", "top_n", "review_status",
     "affected_scope", "timeline", "source"}

\* report is [present, causes, evidence]: the required fields it has, its causes
\* ([described, supported]) and its evidence ([content, cited]).
ReportIntegrity(report) ==
    LET missing == RequiredReportFields \ report.present
        issues  == {c \in report.causes : ~c.described \/ ~c.supported}
                   \cup {e \in report.evidence : ~e.content \/ ~e.cited}
    IN  [completeness |-> <<9 - Cardinality(missing), 9>>,
         passed       |-> missing = {} /\ issues = {}]
=============================================================================
