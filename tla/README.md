# Formal models of AI_Employee

TLA+ models, TLC runs and TLAPS proofs for the services and packages under `src/`.
The system is a set of Python services (FastAPI, threads of a handler pool, a few
asyncio loops) around Postgres/SQLite, Redis, Kafka and two search indexes. What can go
wrong in it is mostly not in an algorithm but between two of its steps: two handlers that
read the same row, a call that applied and whose answer was lost, a process that stopped
between an effect and the record of it. That is what the models are about; the algorithms
that do decide something (convergence of alarms, ranking of causes, chunking, rate limits,
metrics) are operators beside them, checked over bounded inputs.

Every definition is translated from the source; `PROJECT.json` names, for each one, the
lines it stands for. The lines named are 30 % of the implementation. Paths below are
abbreviated:

| short | path |
|---|---|
| platform | `src/services/agent-platform-api/src/ai_employee/agent_platform_api/` |
| approval | `src/services/approval-service/src/ai_employee/approval_service/` |
| knowledge | `src/services/knowledge-api/src/ai_employee/knowledge_api/` |
| worker | `src/services/ingestion-worker/src/ai_employee/ingestion_worker/` |
| registry | `src/services/tool-registry/src/ai_employee/tool_registry/` |
| mcp | `src/services/mcp-gateway/src/ai_employee/mcp_gateway/` |
| rca | `src/services/rca-agent/src/ai_employee/rca_agent/` |
| gateway | `src/services/event-gateway/src/ai_employee/event_gateway/` |
| api-gateway | `src/services/api-gateway/src/ai_employee/api_gateway/` |
| eval | `src/services/eval-service/src/ai_employee/eval/` |
| auth, rate | `src/packages/auth-policy/`, `src/packages/rate-limit/` |
| common | `src/packages/common-schemas/src/ai_employee/common_schemas/` |

## 1. Inventory

For each component: the state it keeps, what changes it, who it talks to, what is hard,
and what makes it correct. *Modelled* means that every operation which changes state is an
action of a module; *partly*, that some are; the rest is under "Not modelled" at the end.

**approval-service** (approval: `app.py`, `state_machine.py`, `store.py`) - *modelled*.
State: the `approval_tasks` table. Operations: create, decide, governance supplement and
resolve, transfer, escalate. Each handler reads a row, computes a new one, upserts it
whole; the store's lock is held for each of the two calls and not across them. Hard:
check-then-act between handler threads, hand-over chains built by long mixes of requests.
Correct when every row is consistent with itself, the hand-over history is one authorised
chain, and only a stale write can undo what was acknowledged.

**agent runs and their approvals** (platform: `runtime.py`, `app.py`, `run_store.py`) -
*partly*. State: the dictionaries of runs, of tasks and of tool calls, the audit log, the
`agent_runs` table. Operations: create a run with its task, decide, legacy and governance
endpoints on the task, timeout, resume. No lock anywhere, handlers on pool threads. Hard:
run and task are two objects written one after the other, the table by a third step.
Correct when run, task, audit log and table agree.

**HTTP-mode approvals** and the **escalation sweep** (platform: `clients.py`, `app.py`,
`escalation.py`) - *modelled*. The platform keeps a shadow of tasks the approval-service
owns and applies decisions to its runs; the sweep escalates the stale tasks of a snapshot.
Hard: an applied call without an answer; a restart after which ids are handed out anew; a
task decided while the sweep holds its copy. Correct when a run shows a decision the
service took, of a task of that run, and every decision reaches its run.

**idempotent requests** (common: `idempotency.py`; the POSTs that take an
`Idempotency-Key`) - *modelled*. State: a record per key, in memory or in a Redis hash.
Hard: a retry while the first request runs, a claim that is two HSETs after an HGETALL,
faults between effect and completion. Correct when an execution beyond the first is
excused by a fault and a retry is sent the first answer.

**scheduler** (platform: `leader_election.py`, `scheduler_loop.py`, `scheduled_runs.py`,
`cron.py`) - *modelled*. A Redis lease, a loop that ticks while it holds it, a table of
schedules. Hard: the renewal is a read and a write, the lease is shorter than two ticks,
`stop` may leave its thread behind, the search for the next fire time gives up after 1460
days and raises out of the tick. Correct when one replica ticks, every slot fires once
and, while a loop runs, none is missed.

**langgraph runtime** (platform: `langgraph_runtime.py`) - *modelled*. State: a counter, a
dictionary of runs and one of tasks per process, and the threads of a checkpointer that may
outlive it. Operations: run, resume, resume from a supplement, decide. Hard: interrupts in
front of a gate and a state update from outside; fan-out joined by a reducer; thread ids
counted per process. Correct when held tools wait for an approval of their run, no item is
invoked twice, and stored run, task and thread tell the same.

**tool-registry**, **mcp-gateway** and the **tool endpoints of the platform** (registry:
`app.py`, `circuit_breaker.py`, `store.py`; mcp: `app.py`; platform:
`tool_resilience.py`) - *partly*. Retries, timeouts on threads that go on, a circuit
breaker without a lock, a log of calls. Correct when a tool's effect happens no more often
than its policy says, a circuit opens on failures only, and every call is logged.

**alarm stream** (gateway: `forwarder.py`, `app.py`; rca: `kafka_ingest.py`) - *partly*.
State: the consumer's position and committed offset, a bounded queue, the batch in hand.
Hard: two loops share a queue, the commit does not say what it commits, any failure drops
the record at hand. Correct when an alarm is posted once per life of the gateway, in order,
and arrives if nobody goes down.

**alarm convergence** (rca: `runtime.py`, `topology.py`) - *modelled*; **incidents,
reports, candidate knowledge and ticket write-back** (rca: `app.py`, `runtime.py`,
`store.py`, `pg_store.py`, `ticket_writeback.py`, `knowledge_feedback.py`) - *partly*.
State: objects in memory under counted ids, saved row by row. Hard: chains of merges,
two rows per handler, ids counted again after a restart, an import whose answer is lost.
Correct when incidents partition the alarms along their links, the knowledge base holds
only what experts accepted, and memory is what a restart would read back.

**knowledge documents** (knowledge: `app.py`, `store.py`, `pg_store.py`,
`worker_client.py`) - *partly*. State: documents with a parse status, chunks. Two stores
behind one interface, one of which shares a connection and its transaction among all
threads. Hard: the worker is called between two store calls; a refused call may have
written. Correct when status and chunks agree, one parse runs at a time, parsing ends.

**knowledge retrieval and answers** (knowledge: `app.py`, `retrieval.py`,
`reranker.py`, `query_normalize.py`, both stores) - *modelled*; **ingestion-worker and search
indexes** (worker: `chunker.py`, `app.py`; OpenSearch, Milvus) - *partly*. Hard: an answer
takes five transactions while documents come and go; the indexes are written before the
document is; sessions reuse a trace id the log holds unique. Correct when an answer rests
on published documents of the caller's scopes and a refusal on their absence.

**api-gateway** (api-gateway: `app.py`), **rate limits** (rate) -
*modelled*; **access policy and tenants** (auth; platform: `tenant.py`), **evaluation runs,
comparisons, eval-service** (platform: `eval_store.py`, `eval_compare.py`; eval) - *partly*.
Hard: the gateway's event loop waits for what it forwards, and an evaluation may ask its
questions of the very gateway it came through; a limiter behind it sees one client; errors
must not be scored. Correct when a window holds no more than its limit, a report counts
only what the knowledge API said, what a caller was told is stored, and every evaluation
settles.

Interactions: the web portal reaches the services through the api-gateway; the platform
calls approval-service, tool-registry, mcp-gateway and rca-agent over HTTP, keeps runs of
its own and evaluates the knowledge-api; knowledge-api calls the ingestion-worker, which
writes the search indexes; event-gateway drains Kafka into the rca-agent, which imports
knowledge into knowledge-api.

The hazards - each at the line where it bites, with the properties that would catch it -
are listed in `PROJECT.json`.

## 2. What is modelled

Most modules have a variable the code does not have: `deployment` (`stream` in
`AlarmIngest`, `setup` in `KnowledgeAnswers` and `Evaluations`, `agent` in `IncidentPipeline`), a
record chosen by the initial predicate from a constant (`Deployments`, `Streams`, `Setups`,
`Agents`, `Installations`) and never changed. It says how the component is set up and used: which store is behind an interface,
how many handlers may be in progress at a time, what may fail, and the bounds on requests
and restarts. One run then covers several of them, and a property that needs some of them
says so (`OneAtATime => ...`, `Reliable => ...`, `InTurn => ...`, `OneHandler => ...`). `MC*` modules
give TLC its sets, deployments and symmetries, and hold the `ASSUME`s that check pure operators.
Four services share the module of their proofs (`ServicesProofs`), and documents and evaluations
another (`KnowledgeProofs`), which is why the variables and specifications of four of them have
names of their own (`StreamSpec`, `AnswersSpec`, `AgentSpec`, `EvalSpec`).

### ApprovalTask, ApprovalService, ApprovalLifecycle

`ApprovalTask` holds a task's row and the pure transitions of `state_machine.py`: one
predicate (`CanDecide`, `CanTransfer`, ...) and one function (`Decide`, `TransferTo`, ...)
per transition. Texts and timestamps are left out; users stay, because who may hand a task
over depends on them. `ApprovalService` has `store`, the table, and `pending`, the row each
worker has computed and not yet upserted. Each endpoint is an action that reads, checks and
computes; `Persist` is the upsert; `Restart` drops what is pending. A request that is
refused changes nothing and is no step. The field `fresh` of a pending row belongs to the
model only: it turns false when somebody else stores the task first, so that properties can
speak of stale writes.

`ApprovalLifecycle` is what a client is promised of one task: it is opened once, handed
over while it is open, with the hand-overs only growing, and closed at most once. Under the
mapping of `ApprovalService` (`Phase`, `HandOvers`) every step is a step of it or none -
except the upsert of a stale row (`ImplementsLifecycle`).

### AgentRuns

The platform with its own store of tasks. Variables are the dictionaries of the store
(`task`, `run`), the audit log's decisions, the persisted table (`db`) and, per worker, the
handler's next step with the objects it holds (`job`). Every handler is cut where another
thread's write could matter: after it read the task object, before each write of a
dictionary, before `upsert_run`. A handler that has read a task works on its copy (pydantic's
`model_copy`), and that copy is what it writes back. One run has one task, so runs stand for
both.

### ApprovalDelegation

The platform with `APPROVAL_SERVICE_URL` set. A handler is the list of steps it has yet to
take (`todo`): post the task, apply the decision to the run, mirror the service's answer in
the shadow, persist. A call to the service is one step, since how the service's threads
interleave is `ApprovalService`; `CallTimesOut` drops the rest of a handler before or after
the service applied its call, which is what an unanswered `httpx` call does to the code.
`Restart` empties the memory *and the counters ids are made from*; `service` and `db`
remain. The sweep is a snapshot (`StartSweep`) whose tasks are read again and written back
one by one.

### IdempotentRequests

The endpoints share a shape: claim, replay or execute, complete, answer. A request
is a program counter with its key and what it saw; `effects` is the sequence of
executions, so that an execution's number is its response. The Redis store is a hash whose
fields are written one command at a time, the memory store acts under a lock, and
`deployment.names` says whether field names come back as `str`. `Expire`, `Crash`,
`HandlerFails` and `RedisRefuses` are faults, counted per key, because they are the only
excuse for a second execution.

### Scheduler

Time is discrete: a unit is 15 seconds, `Minute` = 4 of them. What cron fields say recurs
after `Cycle` minutes and the search for the next slot gives up after `Horizon` minutes: 3 and
1 here, a leap cycle of 1461 days and 1460 days in the code, so that in both there are
schedules that are accepted and, right after a firing, have no next fire time. A
replica has a `loop` object, up to two threads (the one of the last start and the one an
early `stop` left behind), a registry of schedules in memory and the callbacks it has run
(`fires`). `RenewRead`/`RenewSet`, `TryAcquire`, `ReleaseRead`/`ReleaseDelete` are the
Redis calls of `leader_election.py` one by one; `Wake`, `TickDue`, `Fire`, `RecordRun` the
loop. `Pace` says how much time may pass while a loop works. Cron fields are sets of pieces
parsed as in `cron.py`; minutes only, since the other fields restrict the same search.
`TickDue` walks the due schedules in the order of their creation; where the search raises,
those before are advanced, the batch is lost and `seen.raised` remembers it.

### LangGraphRuns

A call (run, resume, supplement) is a *leg*: a worker that carries the state of one run
from node to node, saving it in the checkpointer after each (`ExecuteNode`) and stopping in
front of an interrupt (`Onwards`). Node functions are operators on a `RunState` and routes
are operators named like the code's. A route of the parallel retrieval that finds no scope to
send to (a list of blank entries) ends the graph. The items of a fan-out are invoked one by one, in any
order (`Invoke`), and joined by the reducer. `Inject` is `update_state`, `InvokeThread` the
`invoke(None)` after it; `Decide` is the shortcut that rewrites the run without the graph.
`BuildCheckpointer` maps a process to its own saver or to the one outside. The engine is a
library: `invoke`, reducer and `update_state` are modelled from how the runtime uses them.

### ToolInvocation

One invocation is admitted, attempted as often as the policy allows, counted in the circuit
breaker in the reads and writes of `circuit_breaker.py`, and logged. A timed-out attempt
goes on in its thread (`running`), and may have its effect later (`LateEnd`). In the
gateway's deployments there is one attempt, no timeout and no log. `calls` keeps, per
invocation, what ran for it, so that properties can count effects.

### AlarmIngest

One partition, whose records are the sequence `topic`. `position` is what the fetching loop has read, `committed` the group's
offset, `buffer` the queue, `batch` what `drain_batch` holds. `Fetch` is one record of
`getmany` with its `put_nowait`; `Poll`, `Skip`/`Post`/`PostUnanswered`/`PostFails` and
`FinishBatch` are `drain_batch`; `AutoCommit` is the Kafka library's, whose default the code
does not change. `Crash` and `Shutdown` begin a new life (`generation`) at the committed offset.

### AlarmConvergence, HypothesisRanking, IncidentPipeline

`AlarmConvergence` is `build_incidents` as operators: deduplication, grouping, the two
merges with their depth-limited chains, the primary alarm. The reference definition is
declarative: `Partitions`, and `FollowsLinks`, which says of the groups before and after a
merge that they end together along links and only along links. `HypothesisRanking` is the
scoring of the three causes in exact arithmetic. `IncidentPipeline` puts both into the
service: handlers save an object in memory, then its row; `StartRun` and `CollectEvidence`
are the two places where `run_rca` draws its numbers; a review yields candidates, a decided
candidate is imported by a call that may be lost. `RestartAgent` reads SQLite back (not
Postgres, whose store never does) and continues the counters (`SyncCounters`). What a handler
carries from step to step is its `work`. That a request has an alarm, hence a group
(`ConvergeAssumption`), is the `min_length=1` of `schemas.py:39`.

### KnowledgeDocuments

A handler is the list of calls it has yet to make (`todo`), so that control flow is visible in
one place: `After` says what follows a call and its outcome. `Backend` selects between the
table of transitions and the atomicity of `store.py` (one locked transaction per call) and
of `pg_store.py` (statements `select`, `insert`, `update`, `commit` on a shared
connection: `table` is what the connection sees, `saved` what is committed, `failed`
whether the transaction is poisoned). An upload is a coroutine that calls the
worker synchronously, so no request starts while one runs (`Begin`).

### KnowledgeAnswers, Chunking, RemoteCalls

Here a document is one chunk and a text its set of words. The worker writes OpenSearch
(`sparse`), then Milvus (`vectors`), then the handler that still waits stores the chunk. A
question is a thread with the phase it is in and everything it has read; the phases are
the code's transactions. A search returns at most `rows` rows. How similar a recalled chunk is
to the question is up to the embedding, so it is chosen; the fused score, and the cut by it to
the reranker's `window`, are computed in four-hundredths. Which documents of the window a
reranker, the built-in or a remote one, puts first is left open.
A session's row of `qa_logs` is `qaLogs[s]`, or `NoRow`.
`always` and `ever` record which documents were published throughout and at some time
during a question: a race-free way to say what an answer may rest on. `Chunking` has both
strategies of `chunker.py` over positions. `RemoteCalls` has how both services call a remote
model, over every script of answers to the attempts allowed: what is repeated, what is raised,
how texts are batched, which provider a service starts with.

### RequestAdmission, EvalMetrics, Evaluations

`RequestAdmission` has what stands between a caller and a handler as operators: limiter
decisions on both backends, key functions, credential checks, tenants and routes.
`EvalMetrics` has the scores, `CompareReports` and the platform's gates. `Evaluations`
composes them: a caller's request and each call of a runner is a *leg* that passes the
api-gateway (`busy` is the leg its event loop waits for) and the limiters on its way; the
platform serves a request in a thread of its own, which lists the documents, asks the
questions one by one, scores and stores. `setup.calls` and `setup.prefix` are the run's
`api_base`: the knowledge API itself, its route through the gateway, or the gateway's root,
whose 404 then is what the runner hears; an address of anybody else is not modelled, one that
is no address fails the run. `granted` and `of` are histories: all admissions
of a bucket, and what a stored report is about.

## 3. Runs

`CHECK_DEADLOCK FALSE` in every run: tasks reach terminal statuses, and the finite supply
of ids, requests, questions or records runs out; the system may really stop there.

| run | deployments and bounds | shows |
|---|---|---|
| `approval_service` | 1 task, 2 users; 2 overlapping handlers with 1 transfer, 1 at a time with 2 | rows and hand-over histories stay consistent whatever overlaps; only stale writes undo a decision or a hand-over or leave `ApprovalLifecycle` |
| `agent_runs` | 1 run, 2 workers; overlapping and one at a time | no run, tool or row completes without a recorded approval; one at a time run, task, audit log and table agree; a closed task is revived by an overlap only |
| `approval_delegation` | 2 runs between restarts, 2 handlers; six deployments: calm, with legacy endpoints, with timeouts and a restart, each in turn and overlapping | a run shows a decision only if the service took it on a task of that run id; in turn and calm all copies agree and a decided shadow stays; every decision reaches its run |
| `idempotent_requests` | 2 keys, 3 requests, 2 faults per key; Redis (with either kind of field names) and memory in turn, memory with 3 overlapping | second executions are excused by faults; late retries are not executed and get the first answer |
| `scheduler` | 2 replicas, 2 schedules, 15 units; six deployments: alone, a thread left behind, two replicas by the default lease, a long lease with a failing Redis, lease and schedule together, two schedules with callbacks that fail and a slot behind the horizon | no slot fires twice, one replica ticks, a lost leader is succeeded within an interval and a lease, one prompt loop misses nothing before a tick raises |
| `langgraph_runs` | 2 requests, 77 deployments: every combination of templates, fan-out, supplement, parallel retrieval and interrupt nodes in turn, lists of scopes with blank entries; overlapping calls, decisions around the graph, durable checkpoints with a restart, two replicas | held tools wait for an approval; each item once; run, task and thread agree, but for a run that has no scope to retrieve from; an approved run finishes |
| `tool_invocation` | 1 tool, 2 handlers, up to 4 calls, threshold 2; registry and gateway, policies of 0 to 2 attempts, re-registration, a restart | effects stay within the policy, a circuit follows the failures, every admitted call is answered and logged |
| `alarm_ingest` | 3 records, batch 2, 2 restarts; queue of 2 with gateway and rca-agent going down, queue with room for all and nobody down | one post per life, in order; in the calm case every alarm arrives |
| `incident_pipeline` | every batch of up to 4 of 8 alarms under 3 requests (6,240 deployments); five more with runs, reviews, imports, posts, two threads, stops, Postgres | incidents partition the alarms along their links; imported knowledge was accepted and approved; memory is what a restart reads back; no row changes its owner |
| `knowledge_documents` | 2 documents, 3 handlers; SQLite with everything that may go wrong, SQLite in a calm environment, Postgres with requests in turn | status and chunks agree, one parser per document, parsing ends |
| `knowledge_answers` | 3 documents, page of 2, 1 hit, up to 4 questions, 2 sessions, 2 threads, similarities of -0.5, 0.69 and 0.7; six deployments over both stores, indexes, failures and how many rows and candidates are kept | answers rest on visible documents, chosen from some with evidence; refusals on its absence; follow-ups of a session on one answer |
| `evaluations` | 3 requests, window 2, clock to 3; 15 deployments over routes, limits, credentials, tenants, retries, a restart | a window holds no more than its limit; reports count the knowledge API's verdicts only, where the address leads to it; what a caller was told is stored; every evaluation settles |

Pure operators are checked by `ASSUME`s that TLC evaluates in the same runs:
`MCIncidentPipeline` (the ranking of causes over all evidence of up to two of 24 pieces),
`MCKnowledgeAnswers` (chunking of every text of up to 8 positions for the window and 18
for the cuts, and all sequences of up to 4 blocks) and `MCEvaluations` (rates, percentiles,
sequence scores, comparisons, grounding, safety, integrity, the credential gates and the
key cache).

**Why the bounds are enough.** Most handlers look at one task, run, key or document, and the
races are between a read and a write of one object, so two workers show every pair of
handlers. Where more can meet there is more: a parse, a reparse and a callback need the
third handler of `knowledge_documents`, whose shared transaction needs the second document;
two transfers are the least for which a chain has a link between entries; three
requests are one that completes, one that races it and a late retry, or an evaluation,
its retry and a comparison; three records in a queue of two fill it, leave one behind and let a
restart fall between two. Two runs and a restart are the least for an id to be used twice. Four
alarms make a chain of three parents with a stranger, or a circle of declarations with one
alarm outside it. A page of two with three documents leaves one out. Code constants are
scaled where only their order matters (threshold 5 to 2, page 200 to 2, hits 3 to 1, rows and
the reranker's window, 20 and 50 at most, to 1 or 2); the
default lease and interval of the scheduler keep their ratio. The properties proved in
section 4 do not depend on bounds at all.

**Fairness.** It is assumed of what the servers run, never of clients, operators, restarts
or other services.

| run | weak fairness of | because |
|---|---|---|
| `knowledge_documents` | each handler that has calls left (`Serve`) | a server runs a handler to its end, and the worker client has a timeout |
| `alarm_ingest` | `Fetch`, `Poll`, `Forward`, `Finish` | both are `while` loops that run until the process ends; every wait in them has a timeout |
| `approval_delegation` | `Serve(w)` | a started handler goes on, and calls end with an answer or a timeout |
| `langgraph_runs` | `LegStep(w)` | the engine runs a leg to its next interrupt |
| `tool_invocation` | the steps of a request, but not the return of a tool's handler; `TimesOut` | the join on the handler's thread has a timeout, the handler need not return |
| `evaluations` | the gateway's loop, the platform's threads, their timeouts | the knowledge API need not answer |

All other properties are safety properties.

**Properties that need more than the code gives.** A property that holds only in turn, or
without timeouts, says so in its antecedent; what happens otherwise is in the table that
follows, and is seen by dropping the antecedent.

### Where the repository and the code disagree

Seen while modelling; each row follows from a model by dropping the condition named, or
from an `ASSUME`.

| what the repository says | what the code does | how to see it |
|---|---|---|
| "Decided tasks cannot be changed" (platform `README.md`, `src/Docs/approval-state-machine.md:18`) | two overlapping decisions are both answered 200, the later replaces the earlier (approval `app.py:128`) | `OnlyStaleWritesUndo` without `StaleWrite` |
| every transfer appends to `transfers` (same document, line 70) | the upsert of a stale row drops a transfer that was answered 200 (approval `app.py:205`) | the same |
| `supplement_pending` must be resolved before a decision (same document, line 95) | transfer and escalation leave `supplement_pending`, after which the task can be decided (`state_machine.py:157`) | a decided row with `supplement_requested` and not `supplement_resolved`, one thread |
| a closed task "cannot be revived or further mutated by the legacy HITL actions" (platform `runtime.py:553`) | a handler that read the task before writes its open copy back (`runtime.py:557`) | `OnlyOverlapRevives` without `OneAtATime` |
| "approved decisions complete the run" (platform `README.md`) | a decision and a timeout that overlap end with the task approved and the run failed (`runtime.py:470`) | `RunAgreesInTurn` without `OneAtATime` |
| "rejected decisions fail the run" (same) | resume refuses completed runs only, so a rejected run waits again for a task nobody can decide (`app.py:447`) | task `rejected`, run `waiting_approval`, one thread |
| the service "owns the state machine" in HTTP mode (platform `app.py:410`) | a local timeout expires a run whose task is approved meanwhile; a lost answer leaves the run waiting and the retry gets 409; after a restart a decision on an old task completes the new run that was given its id (`clients.py:760`, `runtime.py:186`) | `DecisionsReachTheirRuns` without `Reliable`; `CopiesAgree` with `restarts` |
| a retry "is executed exactly once" (`idempotency.py:5`), in flight "409" (`src/Docs/superpowers/specs/2026-06-19-r23-ha-idempotency.md:42`) | a retry during the execution executes again (`app.py:398`); on Redis an unconditional claim resets a completed record (`idempotency.py:173`) | `LateRetryReplays` for requests that overlap |
| the same | the Redis client is built without `decode_responses`, so a record read back has byte names and is never replayed (`idempotency.py:160`; the cache of knowledge-api does set it, `cache.py:186`) | `names` FALSE |
| an upload whose worker cannot be reached stays `uploaded`, "/reparse" is the way out (`src/Docs/superpowers/specs/2026-06-17-knowledge-m1-persistence-ingestion-design.md:325`) | reparse accepts `parse_failed` only (knowledge `app.py:428`) | `ParsingEnds` with worker unreachable |
| parse_failed → (reparse) uploaded; `/restore` (knowledge `README.md:12,20`) | on Postgres a failed document cannot be reparsed nor an archived one restored: another table of transitions (`pg_store.py:755`) | `AllowedPg` |
| "Validate + apply a parse-status transition" (`pg_store.py:264`) | check and update are two statements without a lock (`pg_store.py:239`); a refused `write_chunks` leaves its inserts in the shared transaction (`pg_store.py:350`) | `StatusAndChunksAgree` on Postgres, with two threads or with `UnparsedHasNoChunks` |
| the alarm stream survives rca-agent restarts, each alarm is forwarded (gateway `README.md:28`, `:6`) | a post while the rca-agent is down is dropped (`forwarder.py:151`); so is a record fetched while the queue is full (`kafka_ingest.py:276`); `commit()` names no offset and covers what a crash then loses (`kafka_ingest.py:297`) | `AlarmsArrive` without its antecedent |
| "a crashed leader is succeeded within one tick window" (`scheduler_loop.py:47`) | up to an interval and a lease; with the default lease of 15 s and interval of 30 s the lease lapses between ticks anyway | `SuccessionInTime` |
| "only the replica holding the lease ticks" (`scheduler_loop.py:45`) | renew and release look, then act: a lease that lapses in between is overwritten or deleted, and two tick (`leader_election.py:87`) | `OneReplicaTicks` with pace `slow` |
| `_DOW_MAX  # 0 = Monday` (`cron.py:22`) | matching takes 0 as Sunday (`cron.py:114`); a backward range is an empty field, not an error | `PieceValues` |
| "a misbehaving schedule cannot take down the whole scheduler" (`scheduler_loop.py:9`), "can't poison the batch" (`:121`), cron strings are rejected "at create-time, not at tick-time" (`scheduled_runs.py:62`) | the search for the next fire time ends after 365·4 days and raises (`cron.py:112,125`): `0 0 29 2 *` is accepted, and once its slot has come every tick raises, for about a day, after advancing some of the due schedules and firing none | `NoSlotMissed` without `seen.raised` |
| the log "stores every tool invocation" (`tool_call_log.py:3`) | ids start over with the process and the failed inserts are swallowed (`tool_call_log.py:68`) | `AnsweredAndLogged` with `restarts` |
| merges resolve chains and avoid cycles (rca `runtime.py:360`) | a circle is cut wherever a walk of 33 steps stands: its groups stay apart, swap, or land beside a stranger | `IncidentsFollowLinks` without `Circular` |
| the primary alarm is the most severe, then the earliest (rca `runtime.py:128`) | merged groups are not sorted by time, the first in the group wins (`runtime.py:958`) | `PrimaryAlarm` |
| run ids are allocated early so that tool calls carry the right one (rca `runtime.py:454`) | the counters grow again after the evidence is collected: the calls carry an id that is no run's | `CollectEvidence` |
| a wireless alarm ranks the wireless cause above the link cause (rca `runtime.py:779`) | scores are cut off at 1.0 and a tie goes to the first cause | `CertaintyHidesTheCode` |
| contradicting evidence is "the *other* hypothesis's" (rca `runtime.py:856`) | what supports does not depend on the cause, so each lists the same evidence on both sides | `EvidenceIsSplitAlike` |
| the thread "survives a replica restart and can be resumed by another replica" (`langgraph_runtime.py:310`) | thread ids are counted per process: after a restart or on a second replica a run takes over a parked thread, and a decision meets another run (`:1503`) | `HeldToolsWait` without `SharesName` |
| a run that "was already resumed" has "nothing to drive forward" (`langgraph_runtime.py:1704`) | check, update and invoke are not one step: two resumes may call the held tools twice, or reject after execution | `EachItemOnce` with two threads |
| scopes: a list of blanks is dropped "so the fan-out still has one worker" (`langgraph_runtime.py:294`) | the default applies only without a list (`:298`): with `[""]` the fan-out has no worker, the graph ends and the run stays `running` | `RunFollowsThread` without `RetrievesNothing` |
| "a failed log write must not block answers" (knowledge `app.py:720`, in Chinese) | on Postgres the second answer of a session violates UNIQUE(trace_id) on the shared connection, and every later statement fails until a restart | `poisoned` |
| multi-turn follow-ups, "支持多轮追问" (knowledge `app.py:599`) | only the first turn of a session is ever logged, so every follow-up continues the first | `FollowUpsShareOneAnswer` |
| "consecutive chunks share `overlap` characters" (`chunker.py:72`) | a window that backed off moves on as if it had not: text is in no chunk unless overlap ≥ window − window÷2 − 2 | `BackOffAssumption` |
| alarm codes are not split (`chunker.py:40`, in Chinese); backing off can overshoot (`:136`) | only the first code of a piece is spared; no piece ever overshoots | `SecondCodeAssumption`, `WindowAssumption` |
| without scopes all published documents are returned (common `acl.py:21`, in Chinese) | the newest 200 are | `Newest` in `RefusalsAreTrue` |
| "`limit` events per `window_seconds`" (`limiter.py:84`) | Redis' `trim` does nothing (`:73`): a key that was admitted `limit` times is refused for ever; one Redis is one set of buckets for all services | `LimitHolds` on Redis |
| the gateway's auth matches the rest of the platform (api-gateway `app.py:202`) | it knows HS256 only, and with OIDC on the platform refuses HS256: no bearer passes both | `GatesAssumption` in `MCEvaluations` |
| the verifier is built once per process (`fastapi_dep.py:109`) | once per request, so its key cache is never used and an outage of the provider is a 500 | `KeyCacheAssumption` in `MCEvaluations` |
| a 404 means that the remote API has no knowledge for the question (`runner.py:122`, in Chinese) | any 404 does: the gateway's own `unknown_route`, when `api_base` is the gateway's root, makes the listing empty and each question a refusal, and the report counts them (`runner.py:142,162`) | `OnlyKnowledgeVerdictsCount` without `Leads` |
| missing metrics are `null` in a comparison (`eval_compare.py:10`) | a failed evaluation is compared as zeros | `CompareReports` |
| `overall` is the mean of 2 or 3 numbers (`metrics.py:304`); sequences are deduplicated (`:381`) | always of 3; they are not | `ToolCallAssumption` in `MCEvaluations` |
| a run is unsafe when *completed* while pending (`metrics.py:454`) | one that properly waits is reported too (`metrics.py:471`) | `SafetyAssumption` in `MCEvaluations` |

Some more have no statement to disagree with:

- a chunk id that exists poisons Postgres' shared transaction until somebody commits or
  restarts, and `create_document` blocks the event loop while the worker parses;
- a call to the worker that timed out leaves its document `uploaded` with its side-index
  entries in place; Milvus' recall hides the stored vectors of documents it does not hold;
- a candidate whose import lost its answer is imported again, a ticket whose summary lost its
  answer is commented again; a report that was reviewed may be reviewed anew;
- the rca-agent's Postgres store is never read back and holds no candidates: after a restart
  numbers start over and rows change owner (`RowsKeepTheirOwner` on Postgres);
- with `SupplementRequired` as the only interrupt node the approval gate does not stop, and
  runs that need an approval are rejected on their way; a decision taken by the platform never
  reaches a parked graph;
- a late success closes an open circuit, and a half-open one lets everybody through; a
  re-registration over HTTP unbinds a built-in handler;
- the api-gateway drops the query string, so a comparison through it is always 422, and
  forwards with a blocking call in a coroutine, so that one slow forward stops everybody and an
  evaluation that asks its questions through the same gateway waits for itself;
- evaluation ids are compared as texts: after `eval_1000` every further one fails with 500
  (`stored` = {999}); a report "passes" when every question failed and thresholds are empty;
- slots that fall due while a tick is late by up to a minute are skipped;
- a refused connection is final for the embedding provider and repeated by the chat client
  (`NetworkAssumption`); the cause `dim_mismatch` (common `embedding.py:67`) is never raised.

## 4. Proofs

The theorems hold for every value of the constants: any number of tasks, users, workers,
runs, keys, documents, tools, alarms, replicas and restarts, every deployment and every bound.
Their only assumptions are the named `ASSUME`s of the modules: `None` is none of the other values,
deployments have the fields they should have, intervals and bounds are numbers, the shared saver
is no process, a scope is not a tool, a text holds finitely many words and each word matches
itself, similarities are cosines, a request to build incidents has an alarm, schedules, threads and requests are finitely
many. TLC evaluates them on every run.

Eight modules hold theorems: one for each component of the platform's protocols, and
`KnowledgeProofs` and `ServicesProofs` for services around them that share no state. They are
built alike: the invariants; what each action does, fact by fact, as a lemma; one step lemma per
invariant, with a case per action, that uses those facts alone; the theorems. TLC checked
every invariant below on the run's instances before it was proved, and each was strengthened
until it was inductive. The type invariants are proved and therefore not checked by a run.

| module | theorem | property of a run it states |
|---|---|---|
| `ApprovalServiceProofs` | `RowsConsistent`, `HistoriesConsistent` | `StoredRowsConsistent`, `StoredHistoryConsistent` |
| | `UndoneByStaleWritesOnly`, `FreshWritesImplementLifecycle`, `SerialImplementsLifecycle` | `OnlyStaleWritesUndo`, `ImplementsLifecycle` |
| `AgentRunsProofs` | `OutcomesNeedDecisions` | `NoOutcomeWithoutDecision` |
| | `AgreeInTurn`, `ClosedStaysClosed` | `RunAgreesInTurn`, `OnlyOverlapRevives` |
| `IdempotentRequestsProofs` | `AnswersBelong` | (whose execution an answer is; no run states it) |
| | `OnceInTurn`, `LateRetries` | `ExecutedOnceInTurn`, `LateRetryReplays` |
| `KnowledgeProofs` | `StatusAgrees`, `OneParser` | `StatusAndChunksAgree`, `OneParserPerDocument` |
| | `ToldStaysStored` | `ToldIsStored` |
| `ServicesProofs`, alarm stream | `PostedOnceInOrder` | `OncePerLifeInOrder` |
| | `CalmLosesNothing` | (the safety half of `AlarmsArrive`) |
| `ServicesProofs`, tools | `PolicyBoundsEffects`, `CircuitsFollowFailures` | `EffectsWithinPolicy`, `CircuitFollowsFailures` |
| `ServicesProofs`, answers | `AnswersAreGrounded`, `RefusalsHideNothing` | `AnswersRestOnEvidence`, `RefusalsAreTrue` |
| | `FollowUpsAgree` | `FollowUpsShareOneAnswer` |
| `ServicesProofs`, incidents | `KnowledgeFromExperts`, `MemoryIsOnDisk` | `KnowledgeIsEarned`, `DiskKeepsUp` |
| | `RowsStayWithTheirOwner` | `RowsKeepTheirOwner` |
| `SchedulerProofs` | `OneTicks`, `SlotsFireOnce` | `OneReplicaTicks`, `EachSlotOnce` |
| | `SuccessorTicksInTime`, `NoSlotIsMissed` | `SuccessionInTime`, `NoSlotMissed` |
| `ApprovalDelegationProofs` | `OutcomesAreTheServices` | `OutcomeNeedsServiceDecision` |
| | `DecidedShadowsStay`, `CopiesAgreeInTurn` | `DecidedShadowStays`, `CopiesAgree` |
| `LangGraphRunsProofs` | `HeldToolsAreApproved` | `HeldToolsWait` |
| | `EachItemIsCalledOnce`, `RunsFollowThreads` | `EachItemOnce`, `RunFollowsThread` |

Each has a `TypeCorrect` as well (in `ServicesProofs` `StreamTypesCorrect`, `ToolTypesCorrect`,
`AnswersTypesCorrect` and `AgentTypes`).

*ApprovalServiceProofs*. `StoredRowsConsistent` is not inductive: `Persist` stores a row that
was computed earlier. The inductive invariant therefore says of **pending** rows what the
property says of stored ones; each transition is shown, as a lemma about `ApprovalTask`'s
operators, to keep a consistent row consistent, and `Persist` only moves a row.
For the action properties a second invariant, `FreshInv`, says that a pending row that is
still fresh is a transition of the row *now* stored: true when it is computed, and
`Persist` makes every other pending row of the task stale. It yields
`UndoneByStaleWritesOnly` (a step that is not a stale write changes no decided task and
drops no hand-over) and `FreshWritesImplementLifecycle` (every other step is a step of
`ApprovalLifecycle`). With one handler at a time no pending row is ever stale, which turns
the latter into plain refinement, `SerialImplementsLifecycle`; the assumption `Serial` is
stated in that theorem only, and it is needed: two overlapping decisions leave
`ApprovalLifecycle`.

*AgentRunsProofs*. `OutcomesNeedDecisions` rests on `RunsInv`: beside the types it says of the
record a handler holds that its verdict is in the audit log, of a handler on its way to write a
decision that it has one to write, and that no task is without its run - needed because
handlers act on copies long after they read them. No assumption on overlap is made.
The two properties of calls in turn add `InTurn`: a run no handler is busy with shows what its
task and its row show, and the one busy handler is at a point of its sequence at which the
task, the run and the row are what that sequence has made of them so far (`BetweenSteps`).

*IdempotentRequestsProofs*. `BaseInv` has what a handler holds at each step, that every result
in a record, a job or an answer is an execution of its own key (`OwnResults`, hence
`AnswersBelong`, with no assumption on overlap, expiry or crashes), and who is alone.
`OnceInTurn` needs a **budget**: executions of a key never exceed the faults that struck it by more than
one, and when they do exceed them, either the record can be replayed or a handler is about to
complete it; so a handler that will execute is always owed an execution. `LateRetries` needs
that what was finished stays replayable while no fault strikes (`FinishedIsKept`), and that in
turn it is one result with nobody at work behind it (`OneResult`).

*KnowledgeProofs, documents*. On SQLite every call is a transaction of its own (`WholeCalls`),
and rows agree with their status after each, whatever overlaps. On Postgres, in turn,
`ReadHolds` says that what a handler read is still so when it writes. `OneParser` rests on
`LockInv`: the status is the lock. The handler between its claim and the worker's answer finds
`uploaded`, the one behind it `parsing`, and no second handler holds the document.

*KnowledgeProofs, evaluations*. `EvalInv`: a request's thread begins once (`BeginsOnce`), a thread
that works on a run has a row to itself (`RowsOfThreads`), a completed row has one author
(`OneAuthor`), and what is kept for a key or was answered is of a completed row whose author asked
with that key, or is the one answered (`KeysReplay`, `HeardIsStored`). A number is only ever
written while it is free, so it does not matter which number `_next_eval_run_id` picks. Every step
is then one of five kinds: it tells nobody of a run (`Wanders`), tells one request of a stored one
(`Tells`), or creates, fails or completes a row; limits, credentials and routes only decide which.

*ServicesProofs, the alarm stream*. `Pipeline` puts everything on its way into the order of the topic: what
this life has posted, then the batch, then the queue, then what is not fetched, each ascending;
what an earlier life posted is told apart by its number. `CalmLosesNothing` adds that every
fetched alarm is in one of the three while nothing crashes and the queue has room.

*ServicesProofs, tools*. A call keeps three numbers: attempts started, effects they had, attempts
that were given up and run on. `BudgetInv`: effects and those that run on are never more than what
was started, and what was started, with what the thread at work may still start, never more
than what the policy means; a thread has a call to itself. So a late end moves an attempt from one
number to another and needs nobody's leave. For `CircuitsFollowFailures` whatever overlaps,
`CountInv` bounds the breaker's count, *and the count a thread has read and not yet written*, by
the failed requests of this life: lost updates make a count too low, never too high. In turn,
`TurnInv` says that count and streak are one number and names the steps (`close`, `judge`)
at which the state still has to follow.

*ServicesProofs, answers*. `Sound` says of a question at each phase what its lists are worth:
what is visible is among what was published at some time, all newest documents that stayed
published are on the page, keyword recall is empty only if none of them has a word (the fallback
from the index to the store's own search is what makes that inductive), and so on to the hits.
It is about the question's own histories, so archiving needs no case of its own. That the
window never holds only documents found by nothing is arithmetic (`FusedBounds`): a document of the
keyword recall scores half at least, a near one 0.425, any other less, so whatever the cut
leaves out, the best it keeps has evidence (`WindowHasEvidence`). More cannot be said: a document found by
nothing may displace one with a word of the question, by its similarity in the cut or by the
reranker. `FollowUpsAgree` needs only that a row of the log is written once.

*ServicesProofs, incidents*. Every action is first turned into what it does to one handler's work
and one row of one kind. `Earned` is true whatever overlaps: a candidate in memory, in a row or in
a handler's hands is of a report accepted with a cause, an approved one was approved by an expert,
and the document a handler is about to import is such a one. The rest is about one handler
at a time, and begins with a fact: the handler that steps is then the only one at work. With it,
what a handler holds of a candidate is what memory holds (`AsRead`), and `ImportedOnce` follows a
document from the library to the candidate that records it or the handler about to. `InStep`
says that memory and disk are the same but for the one report whose row comes next, and that
the numbers a handler was given are free in both; `Paired`, that a run and its report have one
number until a restart. A restart keeps `InStep` since the counters continue after the largest
number read back, which is why `RowsStayWithTheirOwner` needs no bound on stops.

*SchedulerProofs*. `OneTicks`: while no lease lapses under its holder's work, a replica has one
thread, and a thread between "may tick" and the end of its tick, or a stop about to delete the
key, is the holder's (`LeaseInv`); so two of them would be two holders. `SlotsFireOnce` makes no such
assumption: slots that fired or are about to lie before the schedule's next one, which moves
only forward, and no two entries of any batch, of the thread or the one an early stop left
behind, are the same slot (`SlotInv`). That a next slot which is found lies ahead is a lemma about
the cron matcher, for any fields and horizon; a tick that raises advances only schedules for which
one is found. `SuccessorTicksInTime`: with Redis answering and no time
passing while a loop works, a held key lapses a lease after the last tick, a thread past the leader's check
is no later than that, and one that sleeps, whether it ticked or found the key taken, wakes an
interval later at most (`InTime`). `NoSlotIsMissed` keeps for every schedule that each due time before
its next one has fired or is in the batch, and that the next one is no older than an
interval before a tick and yet to come after it (`KeptAt`). As first stated that property was false
for intervals longer than a minute, where one tick skips slots, and for a Redis that refuses calls,
so `Unhindered` now excludes both. Nor does it
hold once a tick has raised (`seen.raised`): the batch lost with it is never fired.

*ApprovalDelegationProofs*. `VerdictsInv`: each verdict on a run, on a row, and in the hands of
a handler about to apply it, is one the service recorded on a task of that run id; with
timeouts, local expiry and restarts. `ShadowInv` holds with one handler or sweep at a time: a
decided shadow is of a decided task, and a handler that still wants to write holds an undecided one.
`CopiesInv` says for calls in turn which copy lags behind and which handler is about to write
it: a copy that nobody is about to write agrees.

*LangGraphRunsProofs*. A run is named once and keeps its name (`NamesInv`; that a process never
counts past the requests is what types a run's number), and the state in a thread or carried by
a call belongs to the run of that name (`ThreadsInv`, `LegsInv`), though several calls may
carry it and any of them may have been overtaken. `GateInv` says that a state that is past its
gate, or will be once its node is done, is of a released run: not held, approved, or sharing its
name. The step that needs all of it is `Inject`: the decision it writes was given on the call's
own run, the thread it finds is of the run of that name, so they are one run or two of one name.
No assumption on overlap, restarts, replicas, `decide` or the interrupt nodes is made.
`EachItemIsCalledOnce` and `RunsFollowThreads` are about calls in turn, and rest on `TurnInv`: a
thread at rest is at a place of the graph that its template's route reaches (`Walk`), and has
called exactly the items of the nodes behind it, with the result of each (`Tidy`, `Spent`); the
one leg in progress has the saved state, and its items to do and done make up those of its node
(`Works`). What a process shows of a run is the last answer of its thread (`RunsAnswered`). A run
whose scopes are all blank is the exception of the latter: its thread ends as it began.

Only model-checked, not proved:

- liveness, and with it `ParsingEnds`, `AlarmsArrive`, `ApprovedRunsFinish` and the other
  `~>` and `WF_` properties: out of the prover's reach, like ENABLED;
- `IncidentsFollowLinks` of `IncidentPipeline`: it is about what convergence, a fold over groups
  with walks of limited depth, computes for every batch of alarms, which is induction over data;
- `LimitHolds` and `OnlyKnowledgeVerdictsCount` of `Evaluations`: they are about how many entries
  a filter of a log or of a run's results keeps, for logs and results of every length;
- `DecisionsReachTheirRuns` and `AnsweredAndLogged`, which are liveness;
- the operators of `AlarmConvergence`, `HypothesisRanking`, `Chunking`, `RemoteCalls`,
  `EvalMetrics` and `RequestAdmission`, compared with their reference statements over bounded
  inputs: what a fold over a sequence computes for every input needs induction over data.

## 5. Plan

The models above cover what the plan of this project set out to model, and the theorems every
safety property of a run except those named under "only model-checked". No module uses a
RECURSIVE operator; constants have named assumptions.

To model next, should the code grow there: the event bus once something publishes; rebalancing
once several gateways share the topic; the Postgres run store with its celery workers.

## Not modelled

| part | why |
|---|---|
| run events (platform `events.py`) | nothing in `src/` publishes an event: bus, history and Redis channel are unused |
| `PgRunStore`, celery tasks (`pg_run_store.py`, `tasks.py`) | `run_agent` builds a store of its own in the worker, so its run is always `agent_run_001` and lost with the task; the store itself has the interface `AgentRuns` models, and upserts |
| audit trail, object references, metrics, health | append-only logs and read-only views of state modelled elsewhere |
| A/B tests, inspections, MCP surface of the platform | used by nobody in `src/`, or read-only views, or thin wrappers of endpoints |
| upload progress, answer cache, versions, query rewriting, charts (knowledge-api) | nothing in `src/` records progress, fills the cache, keeps versions or rewrites questions |
| document parsers, OCR; report texts and prompts | stateless data; a text enters the models by what a property tells apart |
| Casbin engine and policy file (auth) | nothing in `src/` imports the engine |
| `health_probe`, `decide_retry`, `platform_breaker`, `run_eval`, token-bucket and per-template limiters, `_legacy_collect_evidence`, `process_batch` | defined and called by nobody (the platform breaker is built per request and never opens) |
| rca's enterprise adapters | not used in `src/` |
| several replicas between the Redis round trips of one limiter decision; rebalancing of a consumer group | one step per decision, one consumer: the code has no protocol there that a model could show right |
| a write of an empty list of chunks (`/internal/chunks`) | `KnowledgeDocuments` keeps of a document whether it has chunks, and lets each write bring some; after an empty one a document would be `ready` without any |
| shared storage helpers, object store, observability | clients of external services, redaction, logging |
| web portal, deployment, migrations, scripts | no protocol of their own |
