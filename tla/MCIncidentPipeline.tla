-------------------------- MODULE MCIncidentPipeline --------------------------
(* Values of the constants of IncidentPipeline for TLC.                    *)
EXTENDS IncidentPipeline, HypothesisRanking

CONSTANTS w1, w2, h1, h2

Alarm(id, fp, site, cell, at, parent, upstream, severity) ==
    [id |-> id, fp |-> fp, site |-> site, cell |-> cell, at |-> at, parent |-> parent,
     upstream |-> upstream, severity |-> severity]

(* A chain of parents in windows of its own, a repeat, a child of another  *)
(* cell, and declarations that lead round three sites and between two.     *)
a == Alarm("a", 1, "s1", "c1", 0, NoParent, {"s2"}, 1)
again == Alarm("again", 1, "s1", "c1", 1, NoParent, {}, 0)
b == Alarm("b", 2, "s1", "c1", 3, "a", {}, 1)
c == Alarm("c", 3, "s1", "c1", 6, "b", {}, 0)
d == Alarm("d", 4, "s1", "c2", 6, "b", {}, 2)
e == Alarm("e", 5, "s2", "c1", 4, NoParent, {"s3"}, 0)
f == Alarm("f", 6, "s3", "c1", 9, NoParent, {"s1"}, 1)
g == Alarm("g", 7, "s3", "c1", 9, NoParent, {"s2"}, 1)
Catalog == {a, again, b, c, d, e, f, g}

NoGraph == [s \in {"s1", "s2", "s3"} |-> {}]
Graph == [NoGraph EXCEPT !["s1"] = {"s3"}]
Request(alarms, window, lag, topology, graph) ==
    [alarms |-> alarms, window |-> window, lag |-> lag, topology |-> topology, graph |-> graph]

Batches == UNION {{s \in [1 .. n -> Catalog] : Cardinality(Range(s)) = n} : n \in 1 .. 4}
Requests == {Request(s, 2, 5, 0, NoGraph) : s \in Batches} \cup {Request(s, 2, 5, 9, NoGraph) : s \in Batches}
            \cup {Request(s, 30, 0, 4, Graph) : s \in Batches}

Limit(run, review, resume, decide, import, post) ==
    [build |-> 1, run |-> run, review |-> review, resume |-> resume,
     decide |-> decide, import |-> import, post |-> post]
Deploy(store, threads, requests, limit, n) ==
    [store |-> store, threads |-> threads, requests |-> requests, limit |-> limit, stops |-> n]
Simple == {Request(<<a>>, 30, 5, 0, NoGraph)}

Rcas == {Deploy("sqlite", {w1}, {r}, Limit(0, 0, 0, 0, 0, 0), 0) : r \in Requests} \cup
        {Deploy("sqlite", {w1}, {Request(<<a, e>>, 30, 5, 0, NoGraph)}, Limit(2, 2, 1, 1, 1, 0), 1),
         Deploy("sqlite", {w1}, Simple, Limit(1, 1, 0, 2, 3, 0), 1),
         Deploy("sqlite", {w1, w2}, Simple, Limit(1, 1, 1, 2, 2, 0), 0),
         Deploy("sqlite", {w1, w2}, Simple, Limit(2, 1, 0, 0, 0, 2), 0),
         Deploy("postgres", {w1}, Simple, Limit(2, 1, 0, 1, 1, 1), 1)}

-----------------------------------------------------------------------------
(* The ranking of hypotheses over bounded evidence: up to two pieces of    *)
(* three kinds, near, an hour away and undated, tagged or not.             *)
Piece(type, gap, confidence, says, tagged) ==
    [type |-> type, gap |-> gap, confidence |-> confidence, says |-> says, contradicts |-> tagged]
Pieces == {Piece("metric", gap, confidence, {}, tagged) :
              gap \in {0, 60, Unknown}, confidence \in {0, 50, 100}, tagged \in BOOLEAN} \cup
          {Piece("ticket", 0, 50, says, FALSE) : says \in SUBSET {"code"}} \cup
          {Piece("knowledge", 30, 50, says, FALSE) : says \in {{}, {"TRANSMISSION"}, {"WIRELESS"}, {"RECENT"}}}
Evidences == UNION {[1 .. n -> Pieces] : n \in 0 .. 2}
Codes == {{}, {"LINK"}, {"RRC"}, {"RRC", "TRANSPORT"}}
HopSets == {{}, {1, 3}, {6}}

(* The penalty outweighs a matching procedure: while no score is cut off   *)
(* at certainty, the cause an alarm's code names comes before the other    *)
(* cause of its kind, whatever the evidence says.                          *)
ASSUME RankingFollowsTheCode ==
    \A evidence \in Evidences, hops \in HopSets :
        LET ranked == GenerateHypotheses({"RRC"}, evidence, hops)
            Place(cause) == SelectInSeq(ranked, LAMBDA hypothesis : hypothesis.cause = cause)
        IN  ranked[1].confidence < Certain =>
                Place("wireless_access_anomaly") < Place("transmission_link_degradation")

(* Cut off, it may come after: three tickets that name the code, a sure    *)
(* metric and the standing procedure put the link first for a wireless     *)
(* alarm.                                                                  *)
ASSUME CertaintyHidesTheCode ==
    LET evidence == <<Piece("metric", 0, 100, {}, FALSE), Piece("knowledge", 0, 70, {"TRANSMISSION"}, FALSE)>>
                    \o [n \in 1 .. 3 |-> Piece("ticket", 0, 66, {"code"}, FALSE)]
    IN  GenerateHypotheses({"RRC"}, evidence, {1})[1].cause = "transmission_link_degradation"

(* What supports and what contradicts does not depend on the cause; without*)
(* a tag the same evidence is listed on both sides of every hypothesis.    *)
ASSUME EvidenceIsSplitAlike ==
    \A evidence \in Evidences, code \in Codes :
        LET ranked == GenerateHypotheses(code, evidence, {})
        IN  /\ Len(ranked) = 3
            /\ \A m, n \in DOMAIN ranked : /\ ranked[m].supporting = ranked[n].supporting
                                          /\ m < n => ranked[m].confidence >= ranked[n].confidence
            /\ \A n \in DOMAIN ranked :
                   IF \E i \in DOMAIN evidence : evidence[i].contradicts
                   THEN /\ ranked[n].supporting \cap ranked[n].contradicting = {}
                        /\ ranked[n].supporting \cup ranked[n].contradicting = DOMAIN evidence
                   ELSE ranked[n].supporting = ranked[n].contradicting

(* A tag on one piece, all else equal, raises nobody.                      *)
ASSUME TagsLower ==
    \A evidence \in Evidences, code \in Codes, cause \in Range(Causes) : \A i \in DOMAIN evidence :
        ScoreHypothesis(cause, code, [evidence EXCEPT ![i].contradicts = TRUE], {})
            <= ScoreHypothesis(cause, code, [evidence EXCEPT ![i].contradicts = FALSE], {})
=============================================================================
