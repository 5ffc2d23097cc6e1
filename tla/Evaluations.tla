----------------------------- MODULE Evaluations -----------------------------
(***************************************************************************)
(* Evaluation runs asked of the platform, directly or through the          *)
(* api-gateway, and the questions each of them puts to the knowledge API,  *)
(* again directly or through the same gateway.  The gateway forwards with  *)
(* a blocking call from its event loop, so it serves nobody else until     *)
(* that call returns or times out; the platform serves each request in a   *)
(* thread of its own.  Rate limits, credentials, tenants and routes are    *)
(* those of RequestAdmission, the scores those of EvalMetrics.             *)
(***************************************************************************)
EXTENDS RequestAdmission, SequencesExt, FiniteSetsExt, Functions

INSTANCE EvalMetrics

CONSTANTS
    Requests,       \* the callers' requests, numbered from 1
    Installations,  \* the set-ups considered, see MCEvaluations
    Window,         \* the limiter's window, in ticks
    MaxEntries,     \* what a Redis log keeps
    Pages,          \* [asked, default]: the page sizes of a listing with and without its query
    Permissions,    \* what an evaluation requires
    TopKs,          \* the cut-offs
    MaxTime         \* bound on the clock

VARIABLES
    setup,      \* the deployment
    now,        \* the clock the limiters read
    docs,       \* the knowledge base: a set of [id, title, status]
    idp,        \* the identity provider: [up, keys]
    leg,        \* where each request and each runner's call is, and its answer
    busy,       \* the leg the gateway is forwarding, None when its event loop is free
    logs,       \* the limiters' logs, by bucket
    granted,    \* every admission of each bucket since its process started (history)
    idem,       \* the idempotency records
    rows,       \* the eval_runs table, by number
    thread,     \* the platform's thread of each request
    restarts

evalVars == <<setup, now, docs, idp, leg, busy, logs, granted, idem, rows, thread, restarts>>
limits == <<logs, granted>>

Legs == Requests \X {"request", "call"}
Asked(r) == setup.requests[r]
RequestLeg(r) == <<r, "request">>
CallLeg(r) == <<r, "call">>
NoAnswer == [status |-> 0, body |-> None]
Answer(status, body) == [status |-> status, body |-> body]

\* The runner's calls carry no header of the caller.  Behind the gateway api_base names
\* the route of the knowledge API, or the gateway's root: then the prefix is "v1".
Anonymous(r) ==
    [user |-> None, bearer |-> None, internal |-> None, query |-> None,
     path |-> IF thread[r].pc = "listing" THEN "documents" ELSE "chat",
     tool |-> None, prefix |-> setup.prefix,
     tenant |-> [explicit |-> None, header |-> None, subject |-> None]]

Headers(l) == IF l[2] = "call" THEN Anonymous(l[1]) ELSE Asked(l[1])
Route(l) == IF l[2] = "call" THEN setup.calls ELSE Asked(l[1]).route

\* The address a service sees: the gateway's for what the gateway forwards.
Host(service, l) ==
    CASE service # "gateway" /\ Route(l) = "gateway" -> "gateway"
      [] l[2] = "call" -> "platform"
      [] OTHER -> "client"

-----------------------------------------------------------------------------
(* Limiters.                                                               *)

\* The Redis keys carry no service name: one Redis is one set of buckets.  At the gateway
\* a path begins with its route's prefix.
Bucket(service, l) ==
    LET req  == Headers(l)
        path == <<IF service = "gateway" THEN req.prefix ELSE None, req.path>>
        key  == BucketOf(setup.key, [req EXCEPT !.path = path], Host(service, l))
    IN  IF setup.backend = "redis" THEN <<"rl", key>> ELSE <<service, key>>

\* A function that is y at x; its value, or no log.
With(f, x, y) == [z \in DOMAIN f \cup {x} |-> IF z = x THEN y ELSE f[z]]
At(f, x) == IF x \in DOMAIN f THEN f[x] ELSE <<>>

Decision(service, l) ==
    IF setup.limit[service] = 0 THEN [allowed |-> TRUE, log |-> <<>>]
    ELSE Allow(setup.backend, At(logs, Bucket(service, l)), now, Window,
               setup.limit[service], MaxEntries)

\* The limiter's books after a decision.
Counted(service, l) ==
    LET d == Decision(service, l)
        b == Bucket(service, l)
    IN  IF setup.limit[service] = 0 THEN UNCHANGED limits
        ELSE /\ logs' = With(logs, b, d.log)
             /\ granted' = IF d.allowed THEN With(granted, b, Append(At(granted, b), now))
                           ELSE granted

-----------------------------------------------------------------------------
(* Legs.                                                                   *)

\* A server's answer reaches whoever still waits for it.
Resolved(l, a) ==
    /\ leg' = IF leg[l].at = "backend" THEN [leg EXCEPT ![l] = [at |-> "answered", answer |-> a]]
              ELSE leg
    /\ busy' = IF busy = l THEN None ELSE busy

Sent(l) == [leg EXCEPT ![l].at = IF Route(l) = "gateway" THEN "gateway" ELSE "backend"]

Reached(r) == [thread EXCEPT ![r].pc = "arrive"]

Send(r) ==
    /\ leg[RequestLeg(r)].at = "idle"
    /\ Asked(r).after # 0 => leg[RequestLeg(Asked(r).after)].at = "answered"
    /\ leg' = Sent(RequestLeg(r))
    /\ thread' = IF Asked(r).route = "gateway" THEN thread ELSE Reached(r)
    /\ UNCHANGED <<setup, now, docs, idp, busy, limits, idem, rows, restarts>>

\* The gateway's limiter runs on its event loop.
Admit(l) ==
    /\ leg[l].at = "gateway" /\ busy = None
    /\ Counted("gateway", l)
    /\ leg' = IF Decision("gateway", l).allowed THEN [leg EXCEPT ![l].at = "admitted"]
              ELSE [leg EXCEPT ![l] = [at |-> "answered", answer |-> Answer(429, None)]]
    /\ UNCHANGED <<setup, now, docs, idp, busy, idem, rows, thread, restarts>>

Refused(l, status) ==
    /\ leg' = [leg EXCEPT ![l] = [at |-> "answered", answer |-> Answer(status, None)]]
    /\ UNCHANGED <<busy, thread>>

\* gateway_route: the route, the credentials, then the blocking call.
Forward(l) ==
    /\ leg[l].at = "admitted" /\ busy = None
    /\ CASE MatchBackend(Headers(l).prefix) = None -> Refused(l, 404)
         [] ~GatewayAuthenticates(Headers(l), setup.required) -> Refused(l, 401)
         [] OTHER -> /\ leg' = [leg EXCEPT ![l].at = "backend"]
                     /\ busy' = l
                     /\ thread' = IF l[2] = "request" THEN Reached(l[1]) ELSE thread
    /\ UNCHANGED <<setup, now, docs, idp, limits, idem, rows, restarts>>

\* The forward gives up: 502 to the caller; the backend goes on.
ForwardTimesOut ==
    /\ busy # None
    /\ leg' = IF leg[busy].at = "backend"
              THEN [leg EXCEPT ![busy] = [at |-> "answered", answer |-> Answer(502, None)]]
              ELSE leg
    /\ busy' = None
    /\ UNCHANGED <<setup, now, docs, idp, limits, idem, rows, thread, restarts>>

\* Mutant: calls without a timeout.
CallWaits(r) == FALSE

\* The runner's own timeout: whoever holds the call drops it.
CallTimesOut(r) ==
    /\ leg[CallLeg(r)].at \in {"gateway", "admitted", "backend"}
    /\ leg' = [leg EXCEPT ![CallLeg(r)] = [at |-> "answered", answer |-> NoAnswer]]
    /\ UNCHANGED <<setup, now, docs, idp, busy, limits, idem, rows, thread, restarts>>

-----------------------------------------------------------------------------
(* The platform's handlers.                                                *)

NoThread == [pc |-> "none", run |-> 0, results |-> <<>>, named |-> <<>>, said |-> <<>>]

Goes(r, pc) == thread' = [thread EXCEPT ![r].pc = pc]
Ends(r, a) == Goes(r, "done") /\ Resolved(RequestLeg(r), a)

\* The request as the platform receives it.
Received(r) == IF Asked(r).route = "gateway" THEN Forwarded(Asked(r)) ELSE Asked(r)

\* Limiter, tenant middleware and the endpoint's credential dependency; comparing needs no
\* credential.
Arrives(r) ==
    LET d == Decision("platform", RequestLeg(r))
        who == IF Asked(r).kind = "compare" THEN Grants(None)
               ELSE RequireOidcOrInternal(Received(r), Permissions, setup.settings, idp)
    IN  /\ thread[r].pc = "arrive"
        /\ Counted("platform", RequestLeg(r))
        /\ CASE ~d.allowed -> Ends(r, Answer(429, None))
             [] d.allowed /\ ResolveTenant(Received(r)).id = None -> Ends(r, Answer(400, None))
             [] d.allowed /\ ResolveTenant(Received(r)).id # None /\ who.status # 200 ->
                    Ends(r, Answer(who.status, None))
             [] OTHER -> /\ Goes(r, IF Asked(r).kind = "compare" THEN "compare" ELSE "begin")
                         /\ UNCHANGED <<leg, busy>>
        /\ UNCHANGED <<setup, now, docs, idp, idem, rows, restarts>>

\* get_or_begin: only a finished record is replayed.
BeginRun(r) ==
    LET key == Asked(r).idem IN
    /\ thread[r].pc = "begin"
    /\ IF key # None /\ key \in DOMAIN idem /\ idem[key] # None
       THEN Ends(r, Answer(201, idem[key])) /\ UNCHANGED idem
       ELSE /\ Goes(r, "create")
            /\ idem' = IF key = None THEN idem ELSE With(idem, key, None)
            /\ UNCHANGED <<leg, busy>>
    /\ UNCHANGED <<setup, now, docs, idp, limits, rows, restarts>>

\* Run ids are compared as texts, numbers below a thousand padded to three digits.
TextKey(n) == IF n < 1000 THEN 10 * n ELSE n
Later(n, m) == TextKey(n) > TextKey(m) \/ (TextKey(n) = TextKey(m) /\ n > m)
NextEvalRun(table) ==
    IF DOMAIN table = {} THEN 1
    ELSE 1 + CHOOSE n \in DOMAIN table : \A m \in DOMAIN table \ {n} : Later(n, m)

RunningRow(r) ==
    [status |-> "running", type |-> Asked(r).type, report |-> None, of |-> None]

\* Mutant: a number already taken is written over.
CreateOver(r) ==
    LET n == NextEvalRun(rows) IN
    /\ thread[r].pc = "create"
    /\ rows' = With(rows, n, RunningRow(r))
    /\ thread' = [thread EXCEPT ![r].pc = "load", ![r].run = n]
    /\ UNCHANGED <<setup, now, docs, idp, leg, busy, limits, idem, restarts>>

\* A number already taken is refused by the primary key, and nobody catches that.
Create(r) ==
    LET n == NextEvalRun(rows) IN
    /\ thread[r].pc = "create"
    /\ IF n \in DOMAIN rows
       THEN Ends(r, Answer(500, None)) /\ UNCHANGED rows
       ELSE /\ rows' = With(rows, n, RunningRow(r))
            /\ thread' = [thread EXCEPT ![r].pc = "load", ![r].run = n]
            /\ UNCHANGED <<leg, busy>>
    /\ UNCHANGED <<setup, now, docs, idp, limits, idem, restarts>>

\* The golden file or the replay file is read; a bad one, or no api_base, fails the run, and
\* so do a replay file that is not there and an api_base that is no address, told as 500.
Load(r) ==
    /\ thread[r].pc = "load"
    /\ IF Asked(r).golden = None
       THEN /\ rows' = [rows EXCEPT ![thread[r].run].status = "failed"]
            /\ \E status \in {400, 500} : Ends(r, Answer(status, thread[r].run))
       ELSE /\ Goes(r, IF Asked(r).type = "rca" THEN "score" ELSE "list")
            /\ UNCHANGED <<rows, leg, busy>>
    /\ UNCHANGED <<setup, now, docs, idp, limits, idem, restarts>>

-----------------------------------------------------------------------------
(* The runner and the knowledge API.                                       *)

Calls(r, from, to) ==
    /\ thread[r].pc = from /\ Goes(r, to)
    /\ leg' = Sent(CallLeg(r))
    /\ UNCHANGED <<setup, now, docs, idp, busy, limits, idem, rows, restarts>>

List(r) == Calls(r, "list", "listing")
Ask(r) == Calls(r, "ask", "asking")

\* The newest documents of a listing; without its query it is neither filtered nor of the
\* size asked for.
Listed ==
    LET asked == setup.calls = "direct"
        pool  == IF asked THEN {d \in docs : d.status = "published"} ELSE docs
    IN  {d \in pool : Cardinality({e \in pool : e.id > d.id})
                        < IF asked THEN Pages.asked ELSE Pages.default}

\* Of the documents of one title the last listed, the oldest, stays in the map.
TitleMap(list) ==
    [t \in {d.title : d \in list} |-> Min({d.id : d \in {e \in list : e.title = t}})]

\* What the knowledge API may answer a question: a refusal, an error, or citations of what
\* is published.
Published == {d.id : d \in {e \in docs : e.status = "published"}}
Verdicts ==
    {Answer(404, None), Answer(500, None)}
    \cup {Answer(200, c) : c \in {s \in TupleOf(Published, 1) \cup TupleOf(Published, 2) : IsInjective(s)}}

Serves(r, pc, a, heard) ==
    LET d == Decision("knowledge", CallLeg(r)) IN
    /\ thread[r].pc = pc /\ leg[CallLeg(r)].at = "backend"
    /\ Counted("knowledge", CallLeg(r))
    /\ Resolved(CallLeg(r), IF d.allowed THEN a ELSE Answer(429, None))
    /\ thread' = IF d.allowed /\ heard THEN [thread EXCEPT ![r].said = Append(@, a)] ELSE thread
    /\ UNCHANGED <<setup, now, docs, idp, idem, rows, restarts>>

KnowledgeLists(r) ==
    \E a \in {Answer(200, TitleMap(Listed)), Answer(500, None)} : Serves(r, "listing", a, FALSE)
KnowledgeAnswers(r) == \E a \in Verdicts : Serves(r, "asking", a, TRUE)

Hangs(r) == [leg EXCEPT ![CallLeg(r)] = [at |-> "idle", answer |-> NoAnswer]]

Expected(named, item) ==
    IF item.title \in DOMAIN named THEN named[item.title] ELSE None

\* Mutant: whatever is not an answer counts as a refusal.
ResultOfAnything(item, named, a) ==
    [expected |-> Expected(named, item), refusal |-> item.refusal,
     status   |-> IF a.status = 200 THEN 200 ELSE 404,
     returned |-> IF a.status = 200 THEN a.body ELSE <<>>]

\* HttpApi and Runner: 404 is a refusal, anything else but 200 an error.
ResultOf(item, named, a) ==
    [expected |-> Expected(named, item), refusal |-> item.refusal,
     status   |-> IF a.status \in {200, 404} THEN a.status ELSE 0,
     returned |-> IF a.status = 200 THEN a.body ELSE <<>>]

\* No listing, no questions: every item is an error.
GotListing(r) ==
    LET a == leg[CallLeg(r)].answer
        items == Asked(r).golden
    IN  /\ thread[r].pc = "listing" /\ leg[CallLeg(r)].at = "answered"
        /\ leg' = Hangs(r)
        /\ thread' = [thread EXCEPT ![r] =
              IF a.status \in {200, 404}
              THEN [@ EXCEPT !.pc = "ask", !.named = IF a.status = 200 THEN a.body ELSE <<>>]
              ELSE [@ EXCEPT !.pc = "score", !.said = [i \in DOMAIN items |-> NoAnswer],
                             !.results = [i \in DOMAIN items |-> ResultOf(items[i], <<>>, a)]]]
        /\ UNCHANGED <<setup, now, docs, idp, busy, limits, idem, rows, restarts>>

GotAnswer(r) ==
    LET t == thread[r]
        i == Len(t.results) + 1
        a == leg[CallLeg(r)].answer
    IN  /\ t.pc = "asking" /\ leg[CallLeg(r)].at = "answered"
        /\ leg' = Hangs(r)
        /\ thread' = [thread EXCEPT
              ![r].results = Append(@, ResultOf(Asked(r).golden[i], t.named, a)),
              ![r].said    = IF Len(@) < i THEN Append(@, NoAnswer) ELSE @,
              ![r].pc      = IF i = Len(Asked(r).golden) THEN "score" ELSE "ask"]
        /\ UNCHANGED <<setup, now, docs, idp, busy, limits, idem, rows, restarts>>

-----------------------------------------------------------------------------
(* The end of a run, comparisons, and the world around.                    *)

Scored(r) ==
    IF Asked(r).type = "rca" THEN ToUnifiedRca(RunReplay(Asked(r).golden))
    ELSE ToUnifiedRag(Compute(thread[r].results, TopKs))

\* complete_eval_run; of is what the report is about (history).
Score(r) ==
    /\ thread[r].pc = "score"
    /\ rows' = [rows EXCEPT ![thread[r].run] =
                  [@ EXCEPT !.status = "completed", !.report = Scored(r),
                            !.of = [request |-> r, named |-> thread[r].named,
                                    said |-> thread[r].said]]]
    /\ Goes(r, "reply")
    /\ UNCHANGED <<setup, now, docs, idp, leg, busy, limits, idem, restarts>>

Reply(r) ==
    LET key  == Asked(r).idem
        body == [run |-> thread[r].run, report |-> rows[thread[r].run].report]
    IN  /\ thread[r].pc = "reply"
        /\ idem' = IF key \in DOMAIN idem THEN [idem EXCEPT ![key] = body] ELSE idem
        /\ Ends(r, Answer(201, body))
        /\ UNCHANGED <<setup, now, docs, idp, limits, rows, restarts>>

\* compare_eval_runs: both runs are named in the query.
Compare(r) ==
    LET q == Received(r).query IN
    /\ thread[r].pc = "compare"
    /\ CASE q = None -> Ends(r, Answer(422, None))
         [] q # None /\ ~ToSet(q) \subseteq DOMAIN rows -> Ends(r, Answer(404, None))
         [] OTHER -> Ends(r, Answer(200, CompareReports(rows[q[1]], rows[q[2]])))
    /\ UNCHANGED <<setup, now, docs, idp, limits, idem, rows, restarts>>

\* A restart of the platform ends its threads; rows stay, what was in memory goes.
RestartPlatform ==
    LET cut == {r \in Requests : thread[r].pc \notin {"none", "done"}}
        lost(l) == l[1] \in cut /\ (l[2] = "call" \/ leg[l].at = "backend")
        kept(f) == IF setup.backend = "redis" THEN f
                   ELSE [b \in {x \in DOMAIN f : x[1] # "platform"} |-> f[b]]
    IN  /\ restarts < setup.restarts
        /\ restarts' = restarts + 1
        /\ thread' = [r \in Requests |-> IF r \in cut THEN [thread[r] EXCEPT !.pc = "done"] ELSE thread[r]]
        /\ leg' = [l \in Legs |->
              CASE ~lost(l) -> leg[l]
                [] lost(l) /\ l[2] = "call" -> [at |-> "idle", answer |-> NoAnswer]
                [] OTHER -> [at |-> "answered", answer |-> Answer(502, None)]]
        /\ busy' = IF busy # None /\ lost(busy) /\ busy[2] = "request" THEN None ELSE busy
        /\ idem' = <<>>
        /\ logs' = kept(logs) /\ granted' = kept(granted)
        /\ UNCHANGED <<setup, now, docs, idp, rows>>

PublishDraft ==
    \E d \in docs :
        /\ setup.publishes /\ d.status = "draft"
        /\ docs' = (docs \ {d}) \cup {[d EXCEPT !.status = "published"]}
        /\ UNCHANGED <<setup, now, idp, leg, busy, limits, idem, rows, thread, restarts>>

\* The identity provider rotates its keys or goes away.
IdpChanges ==
    \E p \in setup.idps \ {idp} :
        /\ idp' = p
        /\ UNCHANGED <<setup, now, docs, leg, busy, limits, idem, rows, thread, restarts>>

Tick ==
    /\ now < MaxTime /\ setup.ticks
    /\ now' = now + 1
    /\ UNCHANGED <<setup, docs, idp, leg, busy, limits, idem, rows, thread, restarts>>

-----------------------------------------------------------------------------
EvalInit ==
    /\ setup \in Installations
    /\ now = 0 /\ docs = setup.docs /\ idp = [up |-> TRUE, keys |-> {"k1"}]
    /\ leg = [l \in Legs |-> [at |-> "idle", answer |-> NoAnswer]]
    /\ busy = None /\ logs = <<>> /\ granted = <<>> /\ idem = <<>>
    /\ rows = [n \in setup.stored |->
                 [status |-> "failed", type |-> "rag", report |-> None, of |-> None]]
    /\ thread = [r \in Requests |-> NoThread]
    /\ restarts = 0

Gateway == ForwardTimesOut \/ \E l \in Legs : Admit(l) \/ Forward(l)
Serving(r) ==
    \/ Arrives(r) \/ BeginRun(r) \/ Create(r) \/ Load(r) \/ List(r) \/ Ask(r)
    \/ GotListing(r) \/ GotAnswer(r) \/ Score(r) \/ Reply(r) \/ Compare(r)
Knowledge(r) == KnowledgeLists(r) \/ KnowledgeAnswers(r)

EvalNext ==
    \/ Gateway
    \/ \E r \in Requests : Send(r) \/ Serving(r) \/ Knowledge(r) \/ CallTimesOut(r)
    \/ RestartPlatform \/ PublishDraft \/ IdpChanges \/ Tick

EvalSpec == EvalInit /\ [][EvalNext]_evalVars

\* The gateway's loop and the platform's threads run on, and the timeouts fire; the
\* knowledge API need not answer.
Fairness == WF_evalVars(Gateway) /\ \A r \in Requests : WF_evalVars(Serving(r)) /\ WF_evalVars(CallTimesOut(r))
FairEvalSpec == EvalSpec /\ Fairness

-----------------------------------------------------------------------------
(* Properties.                                                             *)

Recent(b) == Count(At(granted, b), LAMBDA t : t >= now - Window)

\* The services whose limiter a leg passes.
OnTheWay(l) ==
    {IF l[2] = "call" THEN "knowledge" ELSE "platform"}
    \cup IF Route(l) = "gateway" THEN {"gateway"} ELSE {}

\* With the logs in memory a limiter lets at most its limit through in any window, and
\* whoever hears 429 met a limiter whose window was full: the bound is never beaten by a
\* burst across a boundary, nor does a refused request use it up (limiter.py, "sliding
\* window").
LimitHolds ==
    [][setup.backend = "memory" =>
        /\ \A b \in DOMAIN granted' : Recent(b)' <= setup.limit[b[1]]
        /\ \A l \in Legs : leg'[l].answer.status = 429 /\ leg[l].answer.status # 429 =>
              \E s \in OnTheWay(l) :
                  setup.limit[s] > 0 /\ Recent(Bucket(s, l)) = setup.limit[s]]_evalVars

\* Does api_base lead to the knowledge API?
Leads == setup.calls = "direct" \/ MatchBackend(setup.prefix) = "knowledge-api"

\* If api_base leads to the knowledge API, a report counts what that API itself said: a
\* question that a limiter, a credential check, the gateway's timeout or the runner's own
\* kept from it, or that failed there, is in no rate, neither as a miss nor as a refusal
\* (runner.py, metrics.py: errored results are excluded).
OnlyKnowledgeVerdictsCount ==
    \A n \in DOMAIN rows :
        LET of     == rows[n].of
            report == rows[n].report
            items  == Asked(of.request).golden
            Heard(refusal) == {i \in DOMAIN items :
                                 of.said[i].status \in {200, 404} /\ items[i].refusal = refusal}
            First(i, k) == \E j \in 1..k : /\ of.said[i].status = 200 /\ j <= Len(of.said[i].body)
                                           /\ of.said[i].body[j] = Expected(of.named, items[i])
            Share(S, Test(_)) == Rate(Cardinality({i \in S : Test(i)}), Cardinality(S))
        IN  Leads /\ rows[n].status = "completed" /\ rows[n].type = "rag" =>
              /\ report.total = Len(items)
              /\ report.refusal = Share(Heard(TRUE), LAMBDA i : of.said[i].status = 404)
              /\ report.top1 = Share(Heard(FALSE), LAMBDA i : First(i, 1))
              /\ report.top3 = Share(Heard(FALSE), LAMBDA i : First(i, 3))

\* Whoever was told of a finished evaluation, first or as a replay of his key, finds that
\* very report under that number ever after; callers with keys of their own were told of
\* different numbers (create_eval_run, eval_store.py).
ToldIsStored ==
    \A r, q \in Requests :
        LET a(x) == leg[RequestLeg(x)].answer IN
        a(r).status = 201 =>
            /\ rows[a(r).body.run].status = "completed"
            /\ rows[a(r).body.run].report = a(r).body.report
            /\ r # q /\ a(q).status = 201 /\ (Asked(r).idem = None \/ Asked(r).idem # Asked(q).idem) =>
                  a(r).body.run # a(q).body.run

\* Every request is answered in the end, and no run stays "running" unless a restart cut
\* its thread off: even when the knowledge API never answers, or when the evaluation asks
\* its questions of the gateway that is waiting for it.
EvaluationsSettle ==
    /\ \A r \in Requests :
          leg[RequestLeg(r)].at # "idle" ~> leg[RequestLeg(r)].at = "answered"
    /\ \A r \in Requests :
          thread[r].pc # "none" ~>
              thread[r].pc = "done"
              /\ (thread[r].run # 0 => rows[thread[r].run].status # "running" \/ restarts > 0)

=============================================================================
