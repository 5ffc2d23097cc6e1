--------------------------- MODULE MCLangGraphRuns ---------------------------
(* Values of the constants of LangGraphRuns for TLC. *)
EXTENDS LangGraphRuns

CONSTANTS r1, r2, x1, x2, w1, w2, s1, s2

Templated(first, second) == [r \in Request |-> IF r = r1 THEN first ELSE second]

Plain == [ requests |-> {r1, r2}, template |-> Templated("rca", "knowledge_qa"),
           scopes |-> [r \in Request |-> Scope], subgraph |-> TRUE, supplement |-> FALSE,
           parallel |-> FALSE, interrupts |-> {"ApprovalRequired"}, backend |-> "memory",
           dsn |-> FALSE, replicas |-> {x1}, threads |-> 1, restarts |-> 0, bypass |-> FALSE ]

(* Every setting of the gates and paths, with calls that take turns. *)
Settings ==
    {[Plain EXCEPT !.template = Templated("rca", t), !.subgraph = g, !.supplement = s,
                   !.parallel = p, !.interrupts = i] :
        t \in {"knowledge_qa", "ticket_summary"}, g \in BOOLEAN, s \in BOOLEAN, p \in BOOLEAN,
        i \in SUBSET {"ApprovalRequired", "SupplementRequired"}}

Overlapping == { [Plain EXCEPT !.threads = 2, !.requests = {r1}],
                 [Plain EXCEPT !.threads = 2, !.subgraph = FALSE] }

Bypassed == {[Plain EXCEPT !.bypass = TRUE, !.template = Templated("rca", "rca")]}

Lasting == {[Plain EXCEPT !.backend = "redis", !.dsn = d, !.restarts = 1] : d \in BOOLEAN}

Replicated == {[Plain EXCEPT !.backend = b, !.dsn = TRUE, !.replicas = {x1, x2},
                             !.template = Templated("rca", "rca")] : b \in {"memory", "postgres"}}

(* No list of scopes, and lists with a blank entry. *)
Scoped == {[Plain EXCEPT !.requests = {r2}, !.parallel = TRUE, !.supplement = s,
                         !.scopes = [r \in Request |-> l]] :
              s \in BOOLEAN, l \in {{}, {None}, {s2, None}}}

MCDeployments == Settings \cup Overlapping \cup Bypassed \cup Lasting \cup Replicated \cup Scoped

=============================================================================
