-------------------------- MODULE HypothesisRanking --------------------------
(***************************************************************************)
(* The three causes every report of the rca-agent proposes, scored by six  *)
(* factors over the evidence and ranked.  Pure operators.                  *)
(*                                                                         *)
(* A piece of evidence is a record [type, gap (minutes from the alarm, or  *)
(* Unknown when a time cannot be parsed), confidence (hundredths), says    *)
(* (what its text mentions: "code" and the first words of causes),         *)
(* contradicts]; its id is its place.  An alarm code is the set of the     *)
(* words it contains.  A factor is a number of Units, a score one of       *)
(* hundredths of Units; 720 Units make every quotient of the bounded       *)
(* inputs exact.                                                           *)
(***************************************************************************)
EXTENDS Integers, Sequences, FiniteSets, SequencesExt, TLC

Unit == 720
Certain == 100 * Unit
Unknown == -1
Causes == <<"transmission_link_degradation", "wireless_access_anomaly", "recent_parameter_change">>

Among(n, low, high) == Max({low, Min({n, high})})
Total(evidence, Of(_)) == FoldLeft(LAMBDA sum, e : sum + Of(e), 0, evidence)
OfType(evidence, type) == SelectSeq(evidence, LAMBDA e : e.type = type)

(* One at the alarm's own minute, nothing from an hour on.                 *)
TimeRelevance(evidence) ==
    LET Near(e) == IF e.gap = Unknown THEN Unit \div 2
                   ELSE Max({0, Unit - (Unit * e.gap) \div 60})
    IN  IF evidence = << >> THEN Unit \div 2 ELSE Total(evidence, Near) \div Len(evidence)

KpiStrength(evidence) ==
    LET metrics == OfType(evidence, "metric")
        Strength(e) == (Unit * e.confidence) \div 100
    IN  IF metrics = << >> THEN (3 * Unit) \div 10 ELSE Total(metrics, Strength) \div Len(metrics)

(* hops: those of the dependencies a caller passes; run_rca passes none.   *)
TopologyDistance(hops) ==
    IF hops = {} THEN Unit \div 2 ELSE Max({0, Unit - (Min(hops) - 1) * (Unit \div 4)})

HistorySimilarity(code, evidence) ==
    LET alike == {i \in DOMAIN evidence : evidence[i].type = "ticket" /\ "code" \in evidence[i].says}
    IN  IF code = {} THEN 0 ELSE (Unit * Min({3, Cardinality(alike)})) \div 3

FirstWord == "transmission_link_degradation" :> "TRANSMISSION" @@ "wireless_access_anomaly" :> "WIRELESS"
             @@ "recent_parameter_change" :> "RECENT"
SopMatch(cause, evidence) ==
    IF \E e \in Range(evidence) : e.type = "knowledge" /\ FirstWord[cause] \in e.says THEN Unit ELSE 0

Contradicting(evidence) == {i \in DOMAIN evidence : evidence[i].contradicts}
CounterEvidence(evidence) ==
    IF evidence = << >> THEN 0 ELSE (Unit * Cardinality(Contradicting(evidence))) \div Len(evidence)

(* The prior of a cause, less a penalty when the alarm's code names none   *)
(* of its words.                                                           *)
Base(cause, code) ==
    CASE cause = "transmission_link_degradation" -> IF code \cap {"LINK", "TRANSPORT"} = {} THEN 25 ELSE 45
      [] cause = "wireless_access_anomaly" -> IF code \cap {"RRC", "ACCESS", "WIRELESS"} = {} THEN 25 ELSE 45
      [] cause = "recent_parameter_change" -> 30

Weighted(cause, code, evidence, hops) ==
    Base(cause, code) * Unit + 20 * TimeRelevance(evidence) + 15 * TopologyDistance(hops)
    + 20 * KpiStrength(evidence) + 10 * HistorySimilarity(code, evidence)
    + 15 * SopMatch(cause, evidence) - 20 * CounterEvidence(evidence)
ScoreHypothesis(cause, code, evidence, hops) == Among(Weighted(cause, code, evidence, hops), 0, Certain)

(* Sorted by score, causes of one score in the order of Causes.  Without   *)
(* tagged contradictions, what supports the first of the other hypotheses  *)
(* is listed against a hypothesis.                                         *)
GenerateHypotheses(code, evidence, hops) ==
    LET Score(n) == ScoreHypothesis(Causes[n], code, evidence, hops)
        Before(m, n) == Score(m) > Score(n) \/ (Score(m) = Score(n) /\ m < n)
        order == SetToSortSeq(DOMAIN Causes, Before)
        supporting == DOMAIN evidence \ Contradicting(evidence)
    IN  [k \in DOMAIN order |->
            [cause |-> Causes[order[k]], confidence |-> Score(order[k]), supporting |-> supporting,
             contradicting |-> IF Contradicting(evidence) = {} THEN supporting ELSE Contradicting(evidence)]]
=============================================================================
