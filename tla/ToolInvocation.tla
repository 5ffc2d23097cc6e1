---------------------------- MODULE ToolInvocation ----------------------------
(***************************************************************************)
(* Registering and invoking tools: the tool-registry, and the mcp-gateway  *)
(* the platform's own tool endpoints delegate to.  Handlers are bound in   *)
(* memory when the application is built, with the policy the deployment    *)
(* gives them; a registration over HTTP binds none in the tool-registry.   *)
(* The tool-registry keeps a table of declarations and a log of calls,     *)
(* runs a handler in a thread it waits for no longer than the timeout and  *)
(* retries; the gateway calls the handler itself, once.  Both count the    *)
(* failed requests of a tool in a circuit breaker without a lock.          *)
(***************************************************************************)
EXTENDS Integers, Sequences, FiniteSets

CONSTANTS Tool, Worker,
          MaxCalls,
          Threshold,     \* failed requests that open a circuit (5)
          None,
          Deployments

(* policy: the retry_policy of the tools, as max_attempts or max_retries.  *)
(* Bounds: invocations that pass the first checks, restarts.               *)
ASSUME DeploymentsAssumption ==
    Deployments \subseteq [service : {"tool-registry", "mcp-gateway"}, threads : SUBSET Worker,
                           policy : [max_attempts : Nat] \cup [max_retries : Nat],
                           registers : BOOLEAN, restarts : Nat, calls : 0 .. MaxCalls]
Outcome == {"ok", "failed", "circuit_open", "not_invokable"}
ASSUME ConstantsAssumption ==
    Threshold \in Nat \ {0} /\ IsFiniteSet(Worker) /\ None \notin Outcome

VARIABLES deployment,
          spec,      \* Tool -> in memory: its risk level and is a handler bound?
          row,       \* Tool -> the declaration in the table
          breaker,   \* Tool -> failures, state, has the recovery time passed?
          job,       \* Worker -> the request it handles
          calls,     \* the invocations, in order: what was run for them and answered
          log,       \* tool_call_log: the counter and the rows by their id
          streak,    \* Tool -> failed requests since the last one that succeeded
          life

vars == <<deployment, spec, row, breaker, job, calls, log, streak, life>>

Registry == deployment.service = "tool-registry"
Free == [at |-> "free", tool |-> None, call |-> 0, left |-> 0, seen |-> 0, risk |-> "read_only"]
Closed == [failures |-> 0, state |-> "closed", cooled |-> FALSE]
Bound == [risk |-> "read_only", handler |-> TRUE]
Declared(risk) == [risk |-> risk, policy |-> deployment.policy]

Init == /\ deployment \in Deployments
        /\ spec = [t \in Tool |-> Bound]
        /\ row = [t \in Tool |-> Declared("read_only")]
        /\ breaker = [t \in Tool |-> Closed]
        /\ job = [w \in Worker |-> Free]
        /\ calls = << >>
        /\ log = [counter |-> 0, rows |-> << >>]
        /\ streak = [t \in Tool |-> 0]
        /\ life = 0

(* The number of attempts a policy means.                                  *)
AttemptsAnother(policy) ==   \* mutant: max_attempts counts the retries only
    1 + IF "max_attempts" \in DOMAIN policy THEN policy.max_attempts ELSE policy.max_retries
Attempts(policy) ==
    IF "max_attempts" \in DOMAIN policy
    THEN IF policy.max_attempts > 1 THEN policy.max_attempts ELSE 1
    ELSE 1 + policy.max_retries

Goto(w, at) == job' = [job EXCEPT ![w].at = at]
Leave(w) == job' = [job EXCEPT ![w] = Free]

-----------------------------------------------------------------------------
(* POST tools: the tool-registry replaces what is in memory, then the row; *)
(* the gateway refuses a name it has, which it looks up first.             *)
Register(w, t, risk) ==
    /\ deployment.registers /\ w \in deployment.threads /\ job[w] = Free
    /\ Registry
    /\ spec' = [spec EXCEPT ![t] = [risk |-> risk, handler |-> FALSE]]
    /\ job' = [job EXCEPT ![w] = [Free EXCEPT !.at = "upsert", !.tool = t, !.risk = risk]]
    /\ UNCHANGED <<deployment, row, breaker, calls, log, streak, life>>

Upsert(w) ==
    /\ job[w].at = "upsert"
    /\ row' = [row EXCEPT ![job[w].tool] = Declared(job[w].risk)]
    /\ Leave(w)
    /\ UNCHANGED <<deployment, spec, breaker, calls, log, streak, life>>

(* POST invoke, up to the row and its risk level; forbidden tools stop     *)
(* here.  The gateway keeps the one specification it looked up.            *)
Invoke(w, t) ==
    LET declared == IF Registry THEN row[t].risk ELSE spec[t].risk
    IN  /\ w \in deployment.threads /\ job[w] = Free /\ Len(calls) < deployment.calls
        /\ declared # "forbidden"
        /\ calls' = Append(calls, [tool |-> t, life |-> life, started |-> 0, running |-> 0,
                                   effects |-> 0, answer |-> None])
        /\ job' = [job EXCEPT ![w] = [Free EXCEPT !.at = "admit", !.tool = t, !.call = Len(calls'),
                       !.left = IF Registry THEN Attempts(row[t].policy) ELSE 1]]
        /\ UNCHANGED <<deployment, spec, row, breaker, log, streak, life>>

(* The answer of a request, which the tool-registry logs first.            *)
Finish(w, answer) ==
    /\ calls' = [calls EXCEPT ![job[w].call].answer = answer]
    /\ IF Registry THEN Goto(w, "log") ELSE Leave(w)

(* Without a handler the request is refused, and not logged; then the      *)
(* breaker is asked, which turns half-open by being asked.                 *)
Admit(w) ==
    LET t == job[w].tool
        b == breaker[t]
    IN  /\ job[w].at = "admit"
        /\ IF ~spec[t].handler
           THEN /\ calls' = [calls EXCEPT ![job[w].call].answer = "not_invokable"]
                /\ Leave(w) /\ UNCHANGED breaker
           ELSE IF b.state = "open" /\ ~b.cooled
           THEN Finish(w, "circuit_open") /\ UNCHANGED breaker
           ELSE /\ breaker' = [breaker EXCEPT ![t].state = IF @ = "open" THEN "half_open" ELSE @]
                /\ Goto(w, "attempt") /\ UNCHANGED calls
        /\ UNCHANGED <<deployment, spec, row, log, streak, life>>

(* An attempt that did not return a result: another one, or the failure.   *)
TryAgain(w) ==
    job' = [job EXCEPT ![w] = [@ EXCEPT !.left = job[w].left - 1,
                                        !.at = IF job[w].left > 1 THEN "attempt" ELSE "fail"]]

(* A call the handler is started for, which has its effect, or is given up  *)
(* on and runs on; and the end of one that ran on.                         *)
Started(c, effects, running) ==
    [c EXCEPT !.started = @ + 1, !.effects = @ + effects, !.running = @ + running]
Ended(c, effects) == [c EXCEPT !.effects = @ + effects, !.running = @ - 1]

Succeeds(w) ==
    /\ job[w].at = "attempt" /\ spec[job[w].tool].handler
    /\ calls' = [calls EXCEPT ![job[w].call] = Started(@, 1, 0)]
    /\ Goto(w, "reset")
    /\ UNCHANGED <<deployment, spec, row, breaker, log, streak, life>>

(* It raises, or the handler is gone since the check.                      *)
Raises(w) ==
    /\ job[w].at = "attempt"
    /\ calls' = [calls EXCEPT ![job[w].call] =
                     IF spec[job[w].tool].handler THEN Started(@, 0, 0) ELSE @]
    /\ TryAgain(w)
    /\ UNCHANGED <<deployment, spec, row, breaker, log, streak, life>>

WaitsForever(w) == FALSE   \* mutant: a join without a timeout
(* The tool-registry gives up waiting; the handler's thread goes on.       *)
TimesOut(w) ==
    /\ job[w].at = "attempt" /\ Registry /\ spec[job[w].tool].handler
    /\ calls' = [calls EXCEPT ![job[w].call] = Started(@, 0, 1)]
    /\ TryAgain(w)
    /\ UNCHANGED <<deployment, spec, row, breaker, log, streak, life>>

(* A handler given up on has its effect after all, or fails.               *)
LateEnd(i) ==
    /\ calls[i].running > 0
    /\ \E effect \in 0 .. 1 :
           calls' = [calls EXCEPT ![i] = Ended(@, effect)]
    /\ UNCHANGED <<deployment, spec, row, breaker, job, log, streak, life>>

-----------------------------------------------------------------------------
(* _on_success in its writes, _on_failure in its read and writes.          *)
ResetFailures(w) ==
    /\ job[w].at = "reset"
    /\ breaker' = [breaker EXCEPT ![job[w].tool].failures = 0]
    /\ streak' = [streak EXCEPT ![job[w].tool] = 0]
    /\ Goto(w, "close")
    /\ UNCHANGED <<deployment, spec, row, calls, log, life>>

KeepHalfOpen(w) ==   \* mutant: a success clears the failures only
    /\ job[w].at = "close" /\ Finish(w, "ok")
    /\ UNCHANGED <<deployment, spec, row, breaker, log, streak, life>>
Close(w) ==
    /\ job[w].at = "close"
    /\ breaker' = [breaker EXCEPT ![job[w].tool] = [@ EXCEPT !.state = "closed", !.cooled = FALSE]]
    /\ Finish(w, "ok")
    /\ UNCHANGED <<deployment, spec, row, log, streak, life>>

ReadFailures(w) ==
    /\ job[w].at = "fail"
    /\ job' = [job EXCEPT ![w] = [@ EXCEPT !.at = "count", !.seen = breaker[job[w].tool].failures]]
    /\ UNCHANGED <<deployment, spec, row, breaker, calls, log, streak, life>>

Capped(n) == IF n > Threshold THEN Threshold ELSE n   \* more than Threshold is as good

CountFailure(w) ==
    /\ job[w].at = "count"
    /\ breaker' = [breaker EXCEPT ![job[w].tool].failures = Capped(job[w].seen + 1)]
    /\ streak' = [streak EXCEPT ![job[w].tool] = Capped(@ + 1)]
    /\ Goto(w, "judge")
    /\ UNCHANGED <<deployment, spec, row, calls, log, life>>

Judge(w) ==
    LET b == breaker[job[w].tool]
    IN  /\ job[w].at = "judge"
        /\ breaker' = [breaker EXCEPT ![job[w].tool] =
               IF b.failures >= Threshold \/ b.state = "half_open"
               THEN [@ EXCEPT !.state = "open", !.cooled = FALSE] ELSE @]
        /\ Finish(w, "failed")
        /\ UNCHANGED <<deployment, spec, row, log, streak, life>>

CoolDown(t) ==
    /\ breaker[t].state = "open" /\ ~breaker[t].cooled
    /\ breaker' = [breaker EXCEPT ![t].cooled = TRUE]
    /\ UNCHANGED <<deployment, spec, row, job, calls, log, streak, life>>

(* record: the next id; a row with that id is there from a former life     *)
(* sometimes, the insertion then fails and nobody hears of it.             *)
Record(w) ==
    LET id == log.counter + 1
    IN  /\ job[w].at = "log"
        /\ log' = [counter |-> id,
                   rows |-> IF id \in DOMAIN log.rows THEN log.rows ELSE Append(log.rows, job[w].call)]
        /\ Leave(w)
        /\ UNCHANGED <<deployment, spec, row, breaker, calls, streak, life>>

(* The process is started anew and binds its tools; rows and log remain.   *)
Restart ==
    /\ life < deployment.restarts /\ life' = life + 1
    /\ spec' = [t \in Tool |-> Bound] /\ row' = [t \in Tool |-> Declared("read_only")]
    /\ breaker' = [t \in Tool |-> Closed] /\ streak' = [t \in Tool |-> 0]
    /\ job' = [w \in Worker |-> Free]
    /\ calls' = [i \in DOMAIN calls |-> [calls[i] EXCEPT !.running = 0]]
    /\ log' = [log EXCEPT !.counter = 0]
    /\ UNCHANGED deployment

-----------------------------------------------------------------------------
Serve(w) == \/ Upsert(w) \/ Admit(w) \/ Succeeds(w) \/ Raises(w) \/ TimesOut(w)
            \/ ResetFailures(w) \/ Close(w) \/ ReadFailures(w) \/ CountFailure(w)
            \/ Judge(w) \/ Record(w)

Next == \/ \E w \in Worker, t \in Tool :
               Invoke(w, t) \/ \E risk \in {"read_only", "forbidden"} : Register(w, t, risk)
        \/ \E w \in Worker : Serve(w)
        \/ \E i \in DOMAIN calls : LateEnd(i)
        \/ \E t \in Tool : CoolDown(t)
        \/ Restart

(* The threads of the pool run; a handler need not return, but the join on *)
(* its thread does.                                                        *)
Spec == /\ Init /\ [][Next]_vars
        /\ \A w \in Worker : /\ WF_vars(Serve(w) /\ job[w].at # "attempt")
                             /\ WF_vars(TimesOut(w)) /\ WF_vars(Raises(w) /\ ~spec[job[w].tool].handler)

-----------------------------------------------------------------------------
InTurn == Cardinality(deployment.threads) = 1
Quiet == \A w \in Worker : job[w] = Free

(* Where the policy allows no second attempt a call has its effect at most *)
(* once, late ends of handlers that were given up on included; otherwise   *)
(* at most as often as the policy says.                                    *)
EffectsWithinPolicy ==
    \A i \in DOMAIN calls :
        LET policy == deployment.policy
        IN  /\ policy \in {[max_retries |-> 0], [max_attempts |-> 0], [max_attempts |-> 1]} =>
                   calls[i].effects + calls[i].running <= 1
            /\ \A n \in 1 .. 3 : policy \in {[max_retries |-> n], [max_attempts |-> n + 1]} =>
                   calls[i].effects + calls[i].running <= n + 1

(* "Consecutive failures": handled in turn, a tool's circuit is closed as  *)
(* long as fewer than Threshold requests in a row have failed, and from    *)
(* the success of a trial on; however requests overlap, it opens on        *)
(* Threshold failed requests of this life at least.                        *)
CircuitFollowsFailures ==
    \A t \in Tool :
        /\ InTurn /\ Quiet => (breaker[t].state = "closed" <=> streak[t] < Threshold)
        /\ breaker[t].state # "closed" =>
               Cardinality({i \in DOMAIN calls :
                   /\ calls[i].tool = t /\ calls[i].life = life
                   /\ \/ calls[i].answer = "failed"
                      \/ \E w \in Worker : job[w].call = i /\ job[w].at \in {"count", "judge"}})
                   >= Threshold

Admitted(i) == i \in DOMAIN calls /\ Registry /\ calls[i].answer # "not_invokable"

(* "Every tool invocation" is answered and logged while the process lives, *)
(* be the circuit open, the handler hanging or another request logged      *)
(* meanwhile.                                                              *)
AnsweredAndLogged ==
    \A i \in 1 .. MaxCalls :
        Admitted(i) /\ deployment.restarts = 0 ~>
            i \in DOMAIN calls /\ (calls[i].answer = "not_invokable"
                                    \/ \E k \in DOMAIN log.rows : log.rows[k] = i)
=============================================================================
