------------------------- MODULE IdempotentRequests -------------------------
(***************************************************************************)
(* POSTs that carry an Idempotency-Key: create_agent_run and               *)
(* create_eval_run of the agent-platform, create_document of the           *)
(* knowledge-api (whose key also holds the hash of the content).  The      *)
(* three share one shape over common_schemas/idempotency.py: claim the     *)
(* key, replay a cached response if there is one, otherwise execute, cache *)
(* the response and answer.  What is executed is abstracted to the fresh   *)
(* run, eval or document it leaves behind.                                 *)
(*                                                                         *)
(* A record may expire at any time, a handler may die at any step and      *)
(* Redis may refuse any command; such faults are counted per key, because  *)
(* they excuse an execution that would otherwise be one too many.          *)
(***************************************************************************)
EXTENDS Sequences, Integers, FiniteSets

CONSTANTS Key,           \* idempotency keys clients choose
          Request,       \* requests sent, each retry being one of its own
          Deployments,   \* the ways the service may be set up and used, see below
          MaxFaults,     \* bound: expiries, deaths and refusals per key
          None

(* store is build_idempotency_store's choice, names says whether the Redis *)
(* client hands field names out as str, threads how many handlers may be   *)
(* in progress at a time.                                                  *)
ASSUME DeploymentsAssumption ==
    Deployments \subseteq [store : {"memory", "redis"}, names : BOOLEAN, threads : Nat \ {0}]
ASSUME BoundsAssumption == MaxFaults \in Nat
ASSUME NoneAssumption == /\ None \notin Int \cup Key
                         /\ None \notin [status : {"in_flight", "success"}, result : Int \cup {None}]

VARIABLES deployment, \* the deployment this is
          record,    \* Key -> what the store holds for it, or None
          effects,   \* the key each execution was for, in order: <<key, ...>>
          job,       \* Request -> where its handler is
          answer,    \* Request -> the execution whose response it was sent
          late,      \* requests sent after another with their key had finished
          faults     \* Key -> faults that struck it

vars == <<deployment, record, effects, job, answer, late, faults>>

Execution == 1 .. Len(effects)

(* A record of the store; get_or_begin hands out one of these too. *)
InFlight == [status |-> "in_flight", result |-> None]
Record == [status : {"in_flight", "success"}, result : Execution \cup {None}]

Steps == {"claim_status", "claim_result", "check", "execute",
          "complete_status", "complete_result", "answer"}
NotSent == [step |-> "not_sent", key |-> None, seen |-> None, result |-> None]
Job == [ step : Steps \cup {"done"}, key : Key,
         seen : Record \cup {None}, result : Execution \cup {None} ] \cup {NotSent}

Init == /\ deployment \in Deployments
        /\ record = [k \in Key |-> None]
        /\ effects = << >>
        /\ job = [q \in Request |-> NotSent]
        /\ answer = [q \in Request |-> None]
        /\ late = {}
        /\ faults = [k \in Key |-> 0]

InProgress == {q \in Request : job[q].step \in Steps}
At(q, s) == job[q].step = s
GoTo(q, s) == job' = [job EXCEPT ![q].step = s]
KeyOf(q) == job[q].key

Backend == deployment.store
DecodesNames == deployment.names
OneAtATime == deployment.threads = 1

(* complete() of the in-memory store holds the lock get_or_begin needs. *)
Locked == Backend = "memory" /\ \E q \in Request : At(q, "complete_result")

-----------------------------------------------------------------------------
(* The handler reads the header and calls get_or_begin.  A Redis client    *)
(* that returns bytes for field names makes data.get("status") and         *)
(* data.get("result") miss, so whatever is stored reads as in flight.      *)
Seen(k) == IF DecodesNames THEN record[k] ELSE InFlight

Begin(q, k) ==
    LET to(s, seen) == [step |-> s, key |-> k, seen |-> seen, result |-> None]
    IN  IF Backend = "memory"
        THEN /\ record' = [record EXCEPT ![k] = IF @ = None THEN InFlight ELSE @]
             /\ job' = [job EXCEPT ![q] = to("check", None)]
        ELSE /\ job' = [job EXCEPT ![q] = IF record[k] = None
                                          THEN to("claim_status", InFlight)
                                          ELSE to("check", Seen(k))]
             /\ UNCHANGED record

Send(q, k) ==
    /\ job[q] = NotSent
    /\ Cardinality(InProgress) < deployment.threads
    /\ ~Locked
    /\ Begin(q, k)
    /\ late' = IF /\ faults[k] = 0
                  /\ \E p \in Request : KeyOf(p) = k /\ At(p, "done") /\ job[p].result # None
               THEN late \cup {q} ELSE late
    /\ UNCHANGED <<deployment, effects, answer, faults>>

(* The claim is one command per field; created_at is never read back.      *)
ClaimStatus(q) ==
    /\ At(q, "claim_status")
    /\ record' = [record EXCEPT ![KeyOf(q)] =
                     IF @ = None THEN InFlight ELSE [@ EXCEPT !.status = "in_flight"]]
    /\ GoTo(q, "claim_result")
    /\ UNCHANGED <<deployment, effects, answer, late, faults>>

ClaimResult(q) ==
    /\ At(q, "claim_result")
    /\ record' = [record EXCEPT ![KeyOf(q)] =
                     IF @ = None THEN InFlight ELSE [@ EXCEPT !.result = None]]
    /\ GoTo(q, "check")
    /\ UNCHANGED <<deployment, effects, answer, late, faults>>

(* "in {success, failed} and result is not None": replay, else execute.    *)
(* The in-memory store handed out the record itself, which is read here.   *)
Held(q) == IF Backend = "memory" THEN record[KeyOf(q)] ELSE job[q].seen
ReplayableFailed(rec) == rec # None /\ rec.status = "failed"   \* mutant
Replayable(rec) == rec # None /\ rec.status = "success" /\ rec.result # None

Check(q) ==
    /\ At(q, "check")
    /\ job' = [job EXCEPT ![q].seen = None,
                          ![q].result = IF Replayable(Held(q)) THEN Held(q).result ELSE None,
                          ![q].step = IF Replayable(Held(q)) THEN "answer" ELSE "execute"]
    /\ UNCHANGED <<deployment, record, effects, answer, late, faults>>

(* The payload is refused (an unknown template, a mime type): nothing was  *)
(* executed and the key stays claimed.                                     *)
Reject(q) ==
    /\ At(q, "execute")
    /\ GoTo(q, "done")
    /\ UNCHANGED <<deployment, record, effects, answer, late, faults>>

(* create_run, create_eval_run or store.create_document and what follows.  *)
Execute(q) ==
    /\ At(q, "execute")
    /\ effects' = Append(effects, KeyOf(q))
    /\ job' = [job EXCEPT ![q].step = "complete_status", ![q].result = Len(effects) + 1]
    /\ UNCHANGED <<deployment, record, answer, late, faults>>

(* complete() writes the status first, then the result.  In memory it does *)
(* nothing for a key it does not know; Redis creates the hash again.       *)
Refused(k) == Backend = "memory" /\ record[k] = None

CompleteStatus(q) ==
    /\ At(q, "complete_status")
    /\ ~Locked
    /\ record' = [record EXCEPT ![KeyOf(q)] =
                     IF Refused(KeyOf(q)) THEN None
                     ELSE IF @ = None THEN [status |-> "success", result |-> None]
                     ELSE [@ EXCEPT !.status = "success"]]
    /\ GoTo(q, "complete_result")
    /\ UNCHANGED <<deployment, effects, answer, late, faults>>

CompleteWithoutResult(q) ==   \* mutant: only the status is recorded
    /\ At(q, "complete_result")
    /\ GoTo(q, "answer")
    /\ UNCHANGED <<deployment, record, effects, answer, late, faults>>

CompleteResult(q) ==
    /\ At(q, "complete_result")
    /\ record' = [record EXCEPT ![KeyOf(q)] =
                     IF Refused(KeyOf(q)) THEN None
                     ELSE IF @ = None THEN [status |-> "in_flight", result |-> job[q].result]
                     ELSE [@ EXCEPT !.result = job[q].result]]
    /\ GoTo(q, "answer")
    /\ UNCHANGED <<deployment, effects, answer, late, faults>>

Answer(q) ==
    /\ At(q, "answer")
    /\ answer' = [answer EXCEPT ![q] = job[q].result]
    /\ GoTo(q, "done")
    /\ UNCHANGED <<deployment, record, effects, late, faults>>

(* The client timed out or the connection broke: it never sees the answer. *)
LoseAnswer(q) ==
    /\ At(q, "answer")
    /\ GoTo(q, "done")
    /\ UNCHANGED <<deployment, record, effects, answer, late, faults>>

-----------------------------------------------------------------------------
Fault(k) == /\ faults[k] < MaxFaults
            /\ faults' = [faults EXCEPT ![k] = @ + 1]

(* The TTL of a record elapses.  A day is far longer than the instant      *)
(* between get_or_begin and the check of what it returned.                 *)
Expire(k) ==
    /\ record[k] # None
    /\ ~Locked
    /\ Backend = "memory" => \A q \in Request : ~(At(q, "check") /\ KeyOf(q) = k)
    /\ Fault(k)
    /\ record' = [record EXCEPT ![k] = None]
    /\ UNCHANGED <<deployment, effects, job, answer, late>>

(* A command to Redis raises: get_or_begin fails open, complete gives up.  *)
RedisRefuses(q) ==
    /\ Backend = "redis"
    /\ q \in InProgress
    /\ Fault(KeyOf(q))
    /\ \/ /\ job[q].step \in {"claim_status", "claim_result"}
          /\ job' = [job EXCEPT ![q].step = "check", ![q].seen = InFlight]
       \/ /\ At(q, "check")   \* the hgetall that led here
          /\ job' = [job EXCEPT ![q].seen = InFlight]
       \/ /\ job[q].step \in {"complete_status", "complete_result"}
          /\ GoTo(q, "answer")
    /\ UNCHANGED <<deployment, record, effects, answer, late>>

(* The handler raises after the effect and before the response is cached:  *)
(* the upsert of the run, the evaluation or the rename of the file fails.  *)
HandlerFails(q) ==
    /\ At(q, "complete_status")
    /\ Fault(KeyOf(q))
    /\ job' = [job EXCEPT ![q].step = "done", ![q].result = None]
    /\ UNCHANGED <<deployment, record, effects, answer, late>>

(* The process dies with all its handlers.  Redis keeps the records, the   *)
(* dictionary of the in-memory store is gone.                              *)
Crash ==
    /\ InProgress # {}
    /\ LET lost == IF Backend = "memory" THEN {k \in Key : record[k] # None}
                   ELSE {KeyOf(q) : q \in InProgress}
       IN  /\ \A k \in lost : faults[k] < MaxFaults
           /\ faults' = [k \in Key |-> faults[k] + IF k \in lost THEN 1 ELSE 0]
    /\ record' = IF Backend = "memory" THEN [k \in Key |-> None] ELSE record
    /\ job' = [q \in Request |-> IF q \in InProgress THEN [job[q] EXCEPT !.step = "done", !.result = None]
                                 ELSE job[q]]
    /\ UNCHANGED <<deployment, effects, answer, late>>

Serve(q) == \/ ClaimStatus(q)    \/ ClaimResult(q)    \/ Check(q)
            \/ Reject(q)         \/ Execute(q)
            \/ CompleteStatus(q) \/ CompleteResult(q) \/ Answer(q)  \/ LoseAnswer(q)

Next == \/ \E q \in Request, k \in Key : Send(q, k)
        \/ \E q \in Request : Serve(q) \/ RedisRefuses(q) \/ HandlerFails(q)
        \/ \E k \in Key : Expire(k)
        \/ Crash

Spec == Init /\ [][Next]_vars

-----------------------------------------------------------------------------
Executions(k) == Cardinality({i \in Execution : effects[i] = k})

(* "executed exactly once" (idempotency.py): every execution of a key      *)
(* beyond the first is excused by a fault that struck the key.             *)
ExecutedOnce == \A k \in Key : Executions(k) <= 1 + faults[k]

(* Requests that do not overlap are executed once, whatever expires, is    *)
(* refused, dies or gets lost between the steps of a handler, with either  *)
(* store (on Redis provided the client decodes field names).               *)
ExecutedOnceInTurn == OneAtATime /\ DecodesNames => ExecutedOnce

(* A retry sent after another request with its key had finished, whether   *)
(* or not the client saw that answer, and with no fault in between is not  *)
(* executed again (create_agent_run's replay, lines 395-399 of app.py), in *)
(* memory, where the claim is atomic, also when handlers overlap; and in   *)
(* turn it is sent what the earlier one had to answer: a replay "returns   *)
(* the original response verbatim" (idempotency.py).                       *)
LateRetryReplays ==
    \A q \in late : faults[KeyOf(q)] = 0 =>
        /\ (OneAtATime /\ DecodesNames) \/ Backend = "memory" =>
               job[q].step \notin {"execute", "complete_status", "complete_result"}
        /\ OneAtATime /\ DecodesNames /\ answer[q] # None =>
               \A p \in Request : KeyOf(p) = KeyOf(q) /\ At(p, "done") /\ job[p].result # None =>
                   answer[q] = job[p].result
=============================================================================
