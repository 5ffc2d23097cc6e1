---------------------------- MODULE MCEvaluations ----------------------------
(***************************************************************************)
(* Two callers' requests and a third that follows; a knowledge base of two *)
(* documents of one title, and the set-ups below.                          *)
(***************************************************************************)
EXTENDS Evaluations

MCPages == [asked |-> 2, default |-> 1]
MCTopKs == <<1, 3, 5>>

NoTenant == [explicit |-> None, header |-> None, subject |-> None]
Hs(roles) == [alg |-> "HS256", key |-> "secret", fresh |-> TRUE, claims |-> TRUE,
              roles |-> roles, scopes |-> {}]
Rs(key) == [alg |-> "RS256", key |-> key, fresh |-> TRUE, claims |-> TRUE,
            roles |-> {"operator"}, scopes |-> {}]

Question(title) == [title |-> title, refusal |-> FALSE]
Refusal == [title |-> None, refusal |-> TRUE]

\* An evaluation asked for with the internal token; the variants below change it.
Run(route, golden) ==
    [kind |-> "run", route |-> route, after |-> 0, user |-> None, bearer |-> None,
     internal |-> "shared secret", query |-> None, path |-> "runs", tool |-> None,
     prefix |-> "platform", tenant |-> NoTenant, idem |-> None, type |-> "rag", golden |-> golden]
After(r, req) == [req EXCEPT !.after = r]
Keyed(req) == [req EXCEPT !.idem = "k"]
Bearing(token, req) == [req EXCEPT !.bearer = token, !.internal = None]
Bare(req) == [req EXCEPT !.internal = None]
Comparison(route, pair) ==
    [Run(route, None) EXCEPT !.kind = "compare", !.path = "compare", !.query = pair, !.internal = None]
Replay(cases) == [Run("direct", cases) EXCEPT !.type = "rca"]
Unsent(r) == After(r, Bare(Run("direct", None)))

Case(expected, predicted) ==
    [expected |-> expected, predicted |-> predicted, support |-> {"e"}, evidence |-> {"e"}]
Hit == <<Case("a", <<"a">>)>>

Base == [requests |-> <<Unsent(1), Unsent(2), Unsent(3)>>, calls |-> "direct",
         prefix |-> "knowledge", key |-> "user",
         backend |-> "memory", limit |-> [gateway |-> 0, platform |-> 0, knowledge |-> 0],
         required |-> FALSE, settings |-> [oidc |-> FALSE, strict |-> FALSE],
         docs |-> {[id |-> 1, title |-> "t", status |-> "published"]},
         publishes |-> FALSE, idps |-> {}, stored |-> {}, restarts |-> 0, ticks |-> FALSE]

Draft == {[id |-> 1, title |-> "t", status |-> "published"],
          [id |-> 2, title |-> "t", status |-> "draft"]}
Up == [up |-> TRUE, keys |-> {"k2"}]
Down == [up |-> FALSE, keys |-> {"k1"}]
One == <<Question("t")>>

MCInstallations ==
    { \* the gateway's root given as the address of the knowledge API
      [Base EXCEPT !.requests = <<Run("direct", <<Question("t"), Refusal>>), Unsent(2), Unsent(3)>>,
                   !.calls = "gateway", !.prefix = "v1"],
      \* two evaluations of questions and refusals, and their comparison, as documents appear
      [Base EXCEPT !.requests = <<Run("direct", <<Question("t"), Refusal>>), Unsent(2),
                                  After(1, Run("direct", One))>>,
                   !.docs = Draft, !.publishes = TRUE],
      [Base EXCEPT !.requests = <<Run("direct", <<Question("t"), Refusal, Question("u")>>),
                                  Replay(<<Case("a", <<"a", "b">>), Case("b", <<"a", "b">>)>>),
                                  After(2, Comparison("direct", <<1, 2>>))>>],
      \* everything through the gateway, with a timed-out caller who tries again
      [Base EXCEPT !.requests = <<Keyed(Run("gateway", <<Question("t"), Refusal>>)),
                                  After(1, Keyed(Run("gateway", One))),
                                  After(2, Comparison("gateway", <<1, 2>>))>>,
                   !.calls = "gateway", !.required = TRUE],
      \* the questions alone through the gateway, whose check they do not pass, or do
      [Base EXCEPT !.requests = <<Run("direct", <<Refusal>>), Unsent(2), Unsent(3)>>,
                   !.calls = "gateway", !.required = TRUE],
      [Base EXCEPT !.requests = <<Run("direct", <<Question("t"), Refusal>>),
                                  Run("gateway", None), Unsent(3)>>,
                   !.calls = "gateway", !.docs = Draft],
      \* limits: on the knowledge API, on the platform as time goes by, on one shared Redis
      [Base EXCEPT !.requests = <<Run("direct", <<Refusal>>), Run("direct", One), Unsent(3)>>,
                   !.limit.knowledge = 2, !.ticks = TRUE],
      [Base EXCEPT !.requests = <<Replay(Hit), Replay(Hit), Replay(Hit)>>,
                   !.limit.platform = 1, !.ticks = TRUE, !.key = "tenant"],
      [Base EXCEPT !.requests = <<Run("gateway", None), After(1, [Run("gateway", None) EXCEPT !.type = "rca"]), Unsent(3)>>,
                   !.limit = [gateway |-> 2, platform |-> 2, knowledge |-> 2],
                   !.backend = "redis", !.ticks = TRUE, !.key = "endpoint"],
      \* credentials: OIDC beside the gateway's HS256, and a rotating or absent provider
      [Base EXCEPT !.requests = <<Bearing(Rs("k1"), Run("direct", None)),
                                  Bearing(Hs({"operator"}), Run("gateway", None)),
                                  Bearing(Rs("k2"), Run("gateway", None))>>,
                   !.required = TRUE, !.settings.oidc = TRUE, !.idps = {Up, Down}, !.key = "tool"],
      [Base EXCEPT !.requests = <<Bearing(Hs({"operator"}), Run("gateway", None)),
                                  Bearing(Hs({}), Run("direct", None)), Run("direct", None)>>,
                   !.required = TRUE, !.settings.strict = TRUE],
      \* tenants and routes
      [Base EXCEPT !.requests = <<[Run("direct", None) EXCEPT !.tenant.explicit = "not a tenant id"],
                                  [Run("gateway", None) EXCEPT !.tenant.explicit = "not a tenant id"],
                                  [Run("gateway", None) EXCEPT !.prefix = "unknown"]>>],
      \* the number after 999, used twice; retries of one key; a restart under way
      [Base EXCEPT !.requests = <<Replay(Hit), Replay(<<Case("a", <<"b">>)>>), Unsent(3)>>,
                   !.stored = {999}],
      [Base EXCEPT !.requests = <<Keyed(Run("direct", One)), After(1, Keyed(Run("direct", One))),
                                  Keyed(Replay(Hit))>>],
      [Base EXCEPT !.requests = <<Run("direct", One), Keyed(Replay(Hit)),
                                  After(2, Keyed(Replay(Hit)))>>,
                   !.restarts = 1, !.limit.platform = 2] }

-----------------------------------------------------------------------------
(* The scores, over every short list of results: the counts add up, a wider *)
(* cut-off hits no less, and a report that passes refused all it should.    *)
Results ==
    {r \in [expected : {None, 1}, refusal : BOOLEAN, status : {0, 200, 404},
            returned : {<<>>, <<1>>, <<2, 1>>}] : r.status # 200 => r.returned = <<>>}

ASSUME RatesAssumption ==
    \A results \in BoundedSeq(Results, 2) :
        LET m == Compute(results, MCTopKs)
            strict == [hit |-> [k \in ToSet(MCTopKs) |-> <<0, 1>>], refusal |-> <<1, 1>>]
        IN  /\ m.total = m.errored + m.eligible + m.expected
            /\ m.expected = m.correct + m.violations
            /\ m.hits[1] <= m.hits[3] /\ m.hits[3] <= m.hits[5] /\ m.hits[5] <= m.covered
            /\ m.covered <= m.eligible
            /\ Passes(m, strict) => m.expected > 0 /\ m.correct = m.expected

(* A percentile lies between the extremes, and does not fall as p rises.    *)
ASSUME PercentileAssumption ==
    \A values \in BoundedSeq(0..3, 3) \ {<<>>} : \A p, q \in {0, 50, 90, 95, 100} :
        /\ 100 * Min(ToSet(values)) <= Percentile(values, p)
        /\ Percentile(values, p) <= 100 * Max(ToSet(values))
        /\ p <= q => Percentile(values, p) <= Percentile(values, q)

(* The row-by-row length is that of the longest common subsequence.         *)
Subsequences(s) == {[i \in 1..Cardinality(at) |-> s[SetToSortSeq(at, <)[i]]] : at \in SUBSET DOMAIN s}
ASSUME LcsAssumption ==
    \A a, b \in BoundedSeq({"x", "y"}, 3) :
        LcsLength(a, b) = Max({Len(s) : s \in Subsequences(a) \cap Subsequences(b)})

(* Exactly the golden calls give full marks; an unordered set of the same   *)
(* calls keeps recall and precision.                                        *)
ASSUME ToolCallAssumption ==
    \A a, g \in BoundedSeq({"x", "y"}, 2) :
        LET t == ToolCallCorrectness(a, g, TRUE) IN
        /\ t.missing = <<>> <=> t.recall[1] = t.recall[2]
        /\ t.extras = <<>> <=> t.precision[1] = t.precision[2]
        /\ Overall(ToolCallCorrectness(a, a, FALSE))[1] = Overall(ToolCallCorrectness(a, a, FALSE))[2]
        /\ Overall(t)[1] <= Overall(t)[2]

(* Swapping two reports swaps the directions; what is measured by both is   *)
(* compared.                                                                *)
Flip(d) == CASE d = "up" -> "down" [] d = "down" -> "up" [] OTHER -> d
Reports ==
    {[type |-> "rag", report |-> ToUnifiedRag(Compute(results, MCTopKs))] : results \in BoundedSeq(Results, 1)}
    \cup {[type |-> "rca", report |-> ToUnifiedRca(RunReplay(cases))] :
            cases \in {Hit, <<Case("a", <<"b", "a">>)>>}}
    \cup {[type |-> t, report |-> None] : t \in {"rag", "rca"}}
ASSUME CompareAssumption ==
    \A a, b \in Reports :
        LET ab == CompareReports(a, b) ba == CompareReports(b, a) IN
        /\ \A m \in DOMAIN ab : ba[m] = Flip(ab[m])
        /\ ab["top1"] # "unknown"

(* More chunks never unsupport a claim; a judge's verdict outranks overlap. *)
ASSUME GroundingAssumption ==
    \A claim, c, d \in SUBSET {"x", "y"} :
        LET silent == [q \in SUBSET {"x", "y"} |-> None]
            no     == [q \in SUBSET {"x", "y"} |-> 0]
        IN  /\ ClaimSupported(claim, <<c>>) => ClaimSupported(claim, <<c, d>>)
            /\ EvaluateFaithfulness(<<claim>>, <<c>>, silent, 50)
                   = EvaluateFaithfulness(<<claim>>, <<c>>, None, 50)
            /\ EvaluateFaithfulness(<<claim>>, <<c>>, no, 50)[1] = 0
            /\ AnswerRelevance(c, claim, d)[1] <= AnswerRelevance(c, claim, d)[2]

(* A run passes the safety check only with its approval, where it needs     *)
(* one; yet one that waits as it should is reported as bypassed.            *)
ASSUME SafetyAssumption ==
    \A gated \in BOOLEAN, status \in {"completed", "waiting_approval", "failed"},
       approval \in {"none", "pending", "approved", "rejected"},
       risks \in SUBSET {"read", "approval_required", "forbidden"} :
        LET v == SafetyVerdict([gated |-> gated, status |-> status, approval |-> approval, risks |-> risks])
        IN  /\ v.passed => "forbidden" \notin risks /\ ("approval_required" \in risks => approval = "approved")
            /\ gated /\ status = "waiting_approval" /\ approval = "pending" => ~v.passed

ASSUME IntegrityAssumption ==
    \A described, supported, content, cited \in BOOLEAN, missing \in SUBSET {"title", "source"} :
        LET r == ReportIntegrity([present  |-> RequiredReportFields \ missing,
                                  causes   |-> {[described |-> described, supported |-> supported]},
                                  evidence |-> {[content |-> content, cited |-> cited]}])
        IN  r.passed <=> missing = {} /\ described /\ supported /\ content /\ cited

-----------------------------------------------------------------------------
(* Credentials: what the gateway lets through with a bearer or an internal  *)
(* token the platform does not call unauthenticated, as long as neither     *)
(* OIDC nor the strict mode is on; with OIDC no token passes both.          *)
Tokens == [alg : {"HS256", "RS256", "none"}, key : {"secret", "k1", "k2"}, fresh : BOOLEAN,
           claims : BOOLEAN, roles : {{}, {"viewer"}, {"reviewer"}}, scopes : {{}}]
ASSUME GatesAssumption ==
    \A token \in Tokens \cup {None}, internal \in {None, "shared secret"},
       up \in BOOLEAN, strict \in BOOLEAN :
        LET req  == [bearer |-> token, internal |-> internal]
            idp0 == [up |-> up, keys |-> {"k1"}]
            Of(oidc) == RequireOidcOrInternal(req, {"knowledge:read"}, [oidc |-> oidc, strict |-> strict], idp0)
        IN  GatewayAuthenticates(req, TRUE) =>
               /\ ~strict => Of(FALSE).status # 401
               /\ token # None => Of(TRUE).status # 200
               /\ Of(FALSE) = RequireInternalOrJwt(req, {"knowledge:read"}, [oidc |-> FALSE, strict |-> strict])

(* A key the provider has is found, cached or not; an old cache may serve a *)
(* key that was withdrawn, until its time is up.                            *)
ASSUME KeyCacheAssumption ==
    \A cached, has \in SUBSET {"k1", "k2"}, at \in 0..3, kid \in {"k1", "k2"} :
        LET keys == FetchedKeys([keys |-> cached, at |-> at], kid, [up |-> TRUE, keys |-> has], 3, 2)
        IN  /\ kid \in has => kid \in keys
            /\ kid \in keys \ has => 3 - at < 2

(* A further role or scope takes no permission away.                        *)
ASSUME RolesAssumption ==
    \A roles \in SUBSET DOMAIN RolePermissions, scopes \in SUBSET {"rca:read", "*"},
       extra \in DOMAIN RolePermissions, p \in SUBSET {"knowledge:read", "rca:approve"} :
        CanAny(roles, scopes, p) => CanAny(roles \cup {extra}, scopes, p)
=============================================================================
