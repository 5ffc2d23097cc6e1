------------------------------- MODULE Scheduler -------------------------------
(***************************************************************************)
(* Scheduled agent runs: in each replica a registry of cron schedules and  *)
(* a loop that ticks it, and in Redis the lease the loops compete for.     *)
(* The registry lives in the replica's memory.  Stopping a loop waits only *)
(* so long for its thread: with a callback that takes longer the thread    *)
(* goes on, and a new start lets it, beside the new one.                   *)
(*                                                                         *)
(* Time is discrete.  A minute has Minute units; what the five cron fields *)
(* say recurs after Cycle minutes (in the code a leap cycle, 1461 days),   *)
(* and the search for the next fire time gives up after Horizon minutes    *)
(* (1460 days).                                                            *)
(***************************************************************************)
EXTENDS Integers, Sequences, FiniteSets, FiniteSetsExt, SequencesExt

CONSTANTS Replica, Schedule,
          Minute,            \* units of a minute
          Cycle, Horizon,    \* in minutes
          MaxTime,           \* bound: how far the clock goes
          MaxRecent,         \* run ids a schedule keeps (50)
          None, Gone,
          Crons,             \* the cron strings that are submitted
          Deployments        \* the settings and circumstances of the loops

(* pace: "prompt" when no time passes while a loop works, "timely" when no *)
(* lease lapses while its holder works, "slow" otherwise; redis: may calls *)
(* to it fail ("flaky"), or was it unreachable when the loops were built   *)
(* ("none")?  Bounds: end of the clock, stops and crashes of loops,        *)
(* schedules that are created.                                             *)
ASSUME DeploymentsAssumption ==
    Deployments \subseteq [replicas : SUBSET Replica, ttl : Nat \ {0}, interval : Nat \ {0},
                           pace : {"prompt", "timely", "slow"}, redis : {"up", "flaky", "none"},
                           end : 0 .. MaxTime, stops : Nat, schedules : SUBSET Schedule]
ASSUME BoundsAssumption == /\ Minute \in Nat \ {0} /\ Cycle \in Nat \ {0} /\ Horizon \in Nat
                           /\ MaxTime \in Nat /\ MaxRecent \in Nat \ {0} /\ IsFiniteSet(Schedule)

Time == 0 .. MaxTime
Worker == {1, 2}       \* the thread of the last start, and the one before it
RenewEvery == 2        \* 1 / renew_ratio

VARIABLES deployment, now,
          key,      \* the lease: its holder and when it lapses, or None
          loop,     \* Replica -> the SchedulerLoop object
          thread,   \* Replica -> Worker -> where that thread is
          store,    \* Replica -> Schedule -> None, the schedule, or Gone (deleted)
          fires,    \* Replica -> Schedule -> the callbacks run, in order
          seen,     \* since when each loop runs, the last tick of anyone, and
                    \* whether the registry has raised in a tick
          stops

vars == <<deployment, now, key, loop, thread, store, fires, seen, stops>>

LeaseRecord == [holder : Replica, until : Nat]
LoopRecord == [up : BOOLEAN, stop : BOOLEAN, ticks : 0 .. RenewEvery - 1,
               stopping : {"no", "join", "release", "delete"}]
Entry == [s : Schedule, slot : Nat, id : Nat \cup {None}]
ThreadRecord == [at : {"off", "asleep", "ensure", "acquire", "renew", "set", "tick", "fire", "record"},
                 wake : Nat, batch : Seq(Entry)]
ScheduleRecord == [minutes : (SUBSET (0 .. Cycle - 1)) \ {{}}, recent : Seq(Nat), created : Time,
                   number : Nat, next : Nat]
Firing == [slot : Nat, ok : BOOLEAN]

ASSUME NoneAssumption == /\ None \notin Nat \cup LeaseRecord /\ None # Gone
                         /\ \A m \in SUBSET (0 .. Cycle - 1) : m # None
                         /\ None \notin ScheduleRecord /\ Gone \notin ScheduleRecord

TypeOK == /\ deployment \in Deployments
          /\ now \in Time
          /\ key \in LeaseRecord \cup {None}
          /\ loop \in [Replica -> LoopRecord]
          /\ thread \in [Replica -> [Worker -> ThreadRecord]]
          /\ store \in [Replica -> [Schedule -> ScheduleRecord \cup {None, Gone}]]
          /\ fires \in [Replica -> [Schedule -> Seq(Firing)]]
          /\ seen \in [since : [Replica -> Time \cup {None}], tick : Time, raised : BOOLEAN]
          /\ stops \in Nat

-----------------------------------------------------------------------------
(* Cron fields: pieces with a base and a step; None where parse_cron       *)
(* raises.  A range that runs backwards or starts beyond hi is empty.      *)
PieceValues(p, lo, hi) ==
    LET first == IF p.base = "*" THEN lo ELSE p.from
        last  == IF p.base = "*" \/ (p.base = "value" /\ p.step > 1) THEN hi ELSE p.to
        run   == {v \in first .. last : (v - first) % p.step = 0}
    IN  IF p.step > 0 /\ run \subseteq lo .. hi THEN run ELSE None

ParseField(pieces, lo, hi) ==
    LET sets == {PieceValues(p, lo, hi) : p \in pieces}
    IN  IF pieces = {} \/ None \in sets THEN None ELSE UNION sets

MinuteOf(t) == t \div Minute
Matches(minutes, t) == t % Minute = 0 /\ MinuteOf(t) % Cycle \in minutes

NextFromNow(minutes, t) ==   \* mutant: the search starts at the minute itself
    LET hits == {c \in MinuteOf(t) * Minute .. (MinuteOf(t) + Horizon + 1) * Minute : Matches(minutes, c)}
    IN  IF hits = {} THEN None ELSE Min(hits)
(* The search starts at the next full minute; next_fire_after raises (None)*)
(* without a hit within the horizon, be it that the schedule never fires   *)
(* or that its next slot is further away.                                  *)
NextFireAfter(minutes, t) ==
    LET from == (MinuteOf(t) + 1) * Minute
        hits == {c \in from .. from + Horizon * Minute : Matches(minutes, c)}
    IN  IF hits = {} THEN None ELSE Min(hits)

-----------------------------------------------------------------------------
Off == [at |-> "off", wake |-> 0, batch |-> << >>]
Stopped == [up |-> FALSE, stop |-> FALSE, ticks |-> 0, stopping |-> "no"]
Busy(r, i) == thread[r][i].at \notin {"off", "asleep"}
Ticking(r) == \E i \in Worker : thread[r][i].at \in {"tick", "fire", "record"}

Init == /\ deployment \in Deployments
        /\ now = 0 /\ key = None /\ stops = 0
        /\ loop = [r \in Replica |-> Stopped]
        /\ thread = [r \in Replica |-> [i \in Worker |-> Off]]
        /\ store = [r \in Replica |-> [s \in Schedule |-> None]]
        /\ fires = [r \in Replica |-> [s \in Schedule |-> << >>]]
        /\ seen = [since |-> [r \in Replica |-> None], tick |-> 0, raised |-> FALSE]

Goto(r, i, at) == thread' = [thread EXCEPT ![r][i].at = at]
Asleep(r, i) == thread' = [thread EXCEPT ![r][i] =
                    [at |-> "asleep", wake |-> now + deployment.interval, batch |-> << >>]]
MayTick(r, i) == Goto(r, i, "tick") /\ seen' = [seen EXCEPT !.tick = now]

(* start: no second thread while the last one is known; the stop flag is   *)
(* cleared, for a thread that was given up too.                            *)
Start(r) ==
    /\ r \in deployment.replicas /\ ~loop[r].up /\ loop[r].stopping = "no"
    /\ thread[r][2].at = "off"
    /\ loop' = [loop EXCEPT ![r] = [@ EXCEPT !.up = TRUE, !.stop = FALSE]]
    /\ thread' = [thread EXCEPT ![r] = <<[Off EXCEPT !.at = "ensure"], thread[r][1]>>]
    /\ seen' = [seen EXCEPT !.since[r] = now]
    /\ UNCHANGED <<deployment, now, key, store, fires, stops>>

(* stop: the flag, the join with its timeout, and the release of the lease *)
(* which reads the holder before it deletes the key.                       *)
Stop(r) ==
    /\ stops < deployment.stops /\ loop[r].up /\ loop[r].stopping = "no"
    /\ stops' = stops + 1
    /\ loop' = [loop EXCEPT ![r] = [@ EXCEPT !.stop = TRUE, !.stopping = "join"]]
    /\ seen' = [seen EXCEPT !.since[r] = None]
    /\ UNCHANGED <<deployment, now, key, thread, store, fires>>

StopJoined(r) ==
    /\ loop[r].stopping = "join"
    /\ thread[r][1].at = "off" \/ (deployment.pace = "slow" /\ Busy(r, 1))
    /\ loop' = [loop EXCEPT ![r] = [@ EXCEPT !.up = FALSE, !.stopping = "release"]]
    /\ UNCHANGED <<deployment, now, key, thread, store, fires, seen, stops>>

HoldsLease(r) == key # None /\ key.holder = r
Reaches(redis) == deployment.redis = "flaky" \/ redis   \* the call may be refused

ReleaseAnyones(r) ==   \* mutant: the holder is not looked at
    /\ loop[r].stopping = "release" /\ deployment.redis # "none"
    /\ loop' = [loop EXCEPT ![r].stopping = "delete"]
    /\ UNCHANGED <<deployment, now, key, thread, store, fires, seen, stops>>

ReleaseRead(r) ==
    /\ loop[r].stopping = "release"
    /\ \E ok \in BOOLEAN :
           /\ Reaches(ok)
           /\ loop' = [loop EXCEPT ![r].stopping =
                           IF ok /\ HoldsLease(r) /\ deployment.redis # "none" THEN "delete" ELSE "no"]
    /\ UNCHANGED <<deployment, now, key, thread, store, fires, seen, stops>>

ReleaseDelete(r) ==
    /\ loop[r].stopping = "delete"
    /\ \E ok \in BOOLEAN : Reaches(ok) /\ key' = IF ok THEN None ELSE key
    /\ loop' = [loop EXCEPT ![r].stopping = "no"]
    /\ UNCHANGED <<deployment, now, thread, store, fires, seen, stops>>

(* The process dies: its schedules and counters are gone.                  *)
Crash(r) ==
    /\ stops < deployment.stops /\ loop[r].up /\ stops' = stops + 1
    /\ loop' = [loop EXCEPT ![r] = Stopped]
    /\ thread' = [thread EXCEPT ![r] = [i \in Worker |-> Off]]
    /\ store' = [store EXCEPT ![r] =
           [s \in Schedule |-> IF @[s] = None THEN None ELSE Gone]]
    /\ seen' = [seen EXCEPT !.since[r] = None]
    /\ UNCHANGED <<deployment, now, key, fires>>

-----------------------------------------------------------------------------
Wake(r, i) ==
    /\ thread[r][i].at = "asleep"
    /\ \/ loop[r].stop /\ Goto(r, i, "off")
       \/ ~loop[r].stop /\ now >= thread[r][i].wake /\ Goto(r, i, "ensure")
    /\ UNCHANGED <<deployment, now, key, loop, store, fires, seen, stops>>

(* _ensure_leader: every RenewEvery-th tick of a holder renews.            *)
Ensure(r, i) ==
    LET ticks == (loop[r].ticks + 1) % RenewEvery
    IN  /\ thread[r][i].at = "ensure"
        /\ \E ok \in BOOLEAN :
              /\ Reaches(ok)
              /\ IF deployment.redis = "none" THEN MayTick(r, i) /\ UNCHANGED loop
                 ELSE IF ~ok \/ ~HoldsLease(r) THEN Goto(r, i, "acquire") /\ UNCHANGED <<loop, seen>>
                 ELSE /\ loop' = [loop EXCEPT ![r].ticks = ticks]
                      /\ IF ticks = 0 THEN Goto(r, i, "renew") /\ UNCHANGED seen ELSE MayTick(r, i)
        /\ UNCHANGED <<deployment, now, key, store, fires, stops>>

LeaseForGood(r) == [holder |-> r, until |-> MaxTime + 1]   \* mutant: no expiry
Lease(r) == [holder |-> r, until |-> now + deployment.ttl]

(* renew: the holder is read once more, then the key is set, whoever holds *)
(* it by now.                                                              *)
RenewRead(r, i) ==
    /\ thread[r][i].at = "renew"
    /\ \E ok \in BOOLEAN : /\ Reaches(ok)
                           /\ IF ok /\ HoldsLease(r) THEN Goto(r, i, "set") ELSE Asleep(r, i)
    /\ UNCHANGED <<deployment, now, key, loop, store, fires, seen, stops>>

RenewSet(r, i) ==
    /\ thread[r][i].at = "set"
    /\ \E ok \in BOOLEAN :
          /\ Reaches(ok)
          /\ IF ok THEN key' = Lease(r) /\ MayTick(r, i)
             ELSE UNCHANGED <<key, seen>> /\ Asleep(r, i)
    /\ UNCHANGED <<deployment, now, loop, store, fires, stops>>

TryAcquire(r, i) ==
    /\ thread[r][i].at = "acquire"
    /\ \E ok \in BOOLEAN :
          /\ Reaches(ok)
          /\ IF ok /\ key = None THEN key' = Lease(r) /\ MayTick(r, i)
             ELSE UNCHANGED <<key, seen>> /\ Asleep(r, i)
    /\ UNCHANGED <<deployment, now, loop, store, fires, stops>>

-----------------------------------------------------------------------------
Live(r, s) == store[r][s] # None /\ store[r][s] # Gone
Due(r, t) == {s \in Schedule : Live(r, s) /\ store[r][s].next <= t}

Advance(sched) == [sched EXCEPT !.next = NextFireAfter(sched.minutes, now)]

(* tick_due, under the registry's lock, goes through the due schedules in  *)
(* the order of their creation.  Where the next fire time of one of them   *)
(* is not found it raises: those before it are advanced, it and those      *)
(* after it stay due, and the batch is lost with the tick.                 *)
Raising(r) == {s \in Due(r, now) : NextFireAfter(store[r][s].minutes, now) = None}
Advanced(r) == {s \in Due(r, now) :
                    \A q \in Raising(r) : store[r][s].number < store[r][q].number}
Enumerations(r, S) == {q \in [1 .. Cardinality(S) -> S] :
    \A j, k \in DOMAIN q : j < k => store[r][q[j]].number < store[r][q[k]].number}
Batch(r, due) == [j \in DOMAIN due |-> [s |-> due[j], slot |-> store[r][due[j]].next, id |-> None]]

TickDue(r, i) ==
    /\ thread[r][i].at = "tick"
    /\ store' = [store EXCEPT ![r] =
           [s \in Schedule |-> IF s \in Advanced(r) THEN Advance(@[s]) ELSE @[s]]]
    /\ \/ Raising(r) # {} /\ Asleep(r, i) /\ seen' = [seen EXCEPT !.raised = TRUE]
       \/ Due(r, now) = {} /\ Asleep(r, i) /\ UNCHANGED seen
       \/ /\ Raising(r) = {} /\ Due(r, now) # {} /\ UNCHANGED seen
          /\ \E due \in Enumerations(r, Due(r, now)) :
                 thread' = [thread EXCEPT ![r][i] = [@ EXCEPT !.at = "fire", !.batch = Batch(r, due)]]
    /\ UNCHANGED <<deployment, now, key, loop, fires, stops>>

FirstOnly(r, i) == Asleep(r, i)   \* mutant: the first callback ends the batch
Proceed(r, i) ==
    IF Len(thread[r][i].batch) = 1 THEN Asleep(r, i)
    ELSE thread' = [thread EXCEPT ![r][i] = [@ EXCEPT !.at = "fire", !.batch = Tail(thread[r][i].batch)]]

(* The callback: it creates a run or raises, which is logged.              *)
Fire(r, i) ==
    LET e == Head(thread[r][i].batch)
    IN  /\ thread[r][i].at = "fire"
        /\ \E ok \in BOOLEAN :
              /\ fires' = [fires EXCEPT ![r][e.s] = Append(@, [slot |-> e.slot, ok |-> ok])]
              /\ IF ok THEN thread' = [thread EXCEPT ![r][i] =
                       [@ EXCEPT !.at = "record", !.batch = <<[e EXCEPT !.id = Len(fires'[r][e.s])]>>
                                                                \o Tail(thread[r][i].batch)]]
                 ELSE Proceed(r, i)
        /\ UNCHANGED <<deployment, now, key, loop, store, seen, stops>>

CappedOldest(ids) == IF Len(ids) > MaxRecent THEN SubSeq(ids, 1, MaxRecent) ELSE ids   \* mutant
Capped(ids) == IF Len(ids) > MaxRecent THEN SubSeq(ids, Len(ids) - MaxRecent + 1, Len(ids)) ELSE ids

(* record_run: nothing for a schedule deleted meanwhile.                   *)
RecordRun(r, i) ==
    LET e == Head(thread[r][i].batch)
    IN  /\ thread[r][i].at = "record"
        /\ store' = IF Live(r, e.s)
                    THEN [store EXCEPT ![r][e.s].recent = Capped(Append(@, e.id))] ELSE store
        /\ Proceed(r, i)
        /\ UNCHANGED <<deployment, now, key, loop, fires, seen, stops>>

(* create: refused are a cron string that does not parse, and one without  *)
(* a fire time within the horizon.                                         *)
Create(r, s, pieces) ==
    LET minutes == ParseField(pieces, 0, Cycle - 1)
        known == {q \in Schedule : store[r][q] # None}
    IN  /\ r \in deployment.replicas /\ s \in deployment.schedules
        /\ \A q \in Replica : store[q][s] = None
        /\ minutes # None /\ NextFireAfter(minutes, now) # None
        /\ store' = [store EXCEPT ![r][s] = [minutes |-> minutes, recent |-> << >>, created |-> now,
                                             number |-> Cardinality(known) + 1,
                                             next |-> NextFireAfter(minutes, now)]]
        /\ UNCHANGED <<deployment, now, key, loop, thread, fires, seen, stops>>

Delete(r, s) ==
    /\ Live(r, s)
    /\ store' = [store EXCEPT ![r][s] = Gone]
    /\ UNCHANGED <<deployment, now, key, loop, thread, fires, seen, stops>>

-----------------------------------------------------------------------------
Pace ==
    CASE deployment.pace = "prompt" ->
             \A r \in Replica : /\ loop[r].stopping = "no"
                                /\ \A i \in Worker : ~Busy(r, i)
                                /\ \A i \in Worker : thread[r][i].at = "asleep" => thread[r][i].wake > now
      [] deployment.pace = "timely" ->
             key # None /\ key.until <= now + 1 =>
                 \A i \in Worker : ~Busy(key.holder, i) /\ loop[key.holder].stopping = "no"
      [] OTHER -> TRUE

(* Time passes; Redis drops a key that has lapsed.                         *)
Pass ==
    /\ now < deployment.end /\ Pace
    /\ now' = now + 1
    /\ key' = IF key # None /\ key.until <= now + 1 THEN None ELSE key
    /\ UNCHANGED <<deployment, loop, thread, store, fires, seen, stops>>

Run(r, i) == \/ Wake(r, i) \/ Ensure(r, i) \/ RenewRead(r, i) \/ RenewSet(r, i)
             \/ TryAcquire(r, i) \/ TickDue(r, i) \/ Fire(r, i) \/ RecordRun(r, i)

Next == \/ Pass
        \/ \E r \in Replica : \/ Start(r) \/ Stop(r) \/ StopJoined(r) \/ ReleaseRead(r)
                              \/ ReleaseDelete(r) \/ Crash(r)
                              \/ \E i \in Worker : Run(r, i)
                              \/ \E s \in Schedule : \/ Delete(r, s)
                                                     \/ \E c \in Crons : Create(r, s, c)

Spec == Init /\ [][Next]_vars

-----------------------------------------------------------------------------
(* A due time of a schedule is acted on once: whatever threads an early    *)
(* stop left behind and however slowly they run, no slot fires twice.      *)
EachSlotOnce ==
    \A r \in Replica, s \in Schedule : \A j, k \in DOMAIN fires[r][s] :
        fires[r][s][j].slot = fires[r][s][k].slot => j = k

(* "Only the replica holding the lease ticks": while no lease lapses under *)
(* its holder's work and Redis was there from the start, no two replicas   *)
(* are ticking, through stops, crashes and refused calls.                  *)
OneReplicaTicks ==
    deployment.pace # "slow" /\ deployment.redis # "none" =>
        Cardinality({r \in Replica : Ticking(r)}) <= 1

(* A lease that is lost with its holder keeps the others out no longer     *)
(* than until it lapses: with a loop running and Redis answering, nobody   *)
(* waits longer for a tick than an interval and a lease.                   *)
SuccessionInTime ==
    LET patience == deployment.interval + deployment.ttl
    IN  deployment.pace = "prompt" /\ deployment.redis # "flaky" =>
            \A r \in Replica :
                seen.since[r] # None /\ now > seen.since[r] + patience => seen.tick >= now - patience

(* Are these the last ids of the set, as many as are kept, oldest first?   *)
Latest(ids, kept) ==
    /\ Len(kept) <= MaxRecent
    /\ \A j \in DOMAIN kept : kept[j] \in ids
    /\ \A j, k \in DOMAIN kept : j < k => kept[j] < kept[k]
    /\ \A id \in ids : \/ \E j \in DOMAIN kept : kept[j] = id
                       \/ Len(kept) = MaxRecent /\ \A j \in DOMAIN kept : id < kept[j]

(* One loop that ticks at least once a minute and is not held up.  (A loop *)
(* that sleeps longer than a minute skips slots.)                          *)
Unhindered == /\ deployment.pace = "prompt" /\ deployment.redis # "flaky"
              /\ deployment.interval <= Minute /\ stops = 0
              /\ \E r \in Replica : deployment.replicas = {r}

(* Has every slot of this schedule fired that came an interval ago, and    *)
(* are the last runs it created the ones it remembers?                     *)
Served(r, s) ==
    LET sched == store[r][s]
        log == fires[r][s]
        slots == {log[j].slot : j \in DOMAIN log}
    IN  /\ \A t \in Time :
               Matches(sched.minutes, t) /\ sched.created < t /\ seen.since[r] < t
                   /\ t + deployment.interval < now => t \in slots
        /\ ~Ticking(r) => Latest({j \in DOMAIN log : log[j].ok}, sched.recent)

(* Under one unhindered loop every slot of every schedule fires before     *)
(* another interval is over and its last runs are remembered, even if the  *)
(* callbacks of others in the batch fail: up to the first tick in which    *)
(* the search for a next fire time raises.                                 *)
NoSlotMissed ==
    Unhindered /\ ~seen.raised =>
        \A r \in deployment.replicas, s \in Schedule :
            Live(r, s) /\ seen.since[r] # None => Served(r, s)
=============================================================================
