----------------------------- MODULE MCScheduler -----------------------------
(* Values of the constants of Scheduler for TLC. *)
EXTENDS Scheduler, TLC

CONSTANTS a, b, s1, s2

Piece(base, from, to, step) == [base |-> base, from |-> from, to |-> to, step |-> step]

(* Every minute; the first minute of a cycle, from a backward range and a  *)
(* value, whose slots are further apart than the horizon; one refused.     *)
CronStrings == {{Piece("*", 0, 0, 1)}, {Piece("range", 2, 1, 1), Piece("value", 0, 0, 3)},
                {Piece("range", 0, 3, 1)}}

Deploy(replicas, ttl, interval, pace, redis, end, n, schedules) ==
    [replicas |-> replicas, ttl |-> ttl, interval |-> interval, pace |-> pace, redis |-> redis,
     end |-> end, stops |-> n, schedules |-> schedules]

(* The defaults are a lease of 1 and an interval of 2 units of 15 seconds. *)
Alone == Deploy({a}, 1, 2, "prompt", "up", 14, 1, {s1})
Lingering == Deploy({a}, 1, 2, "slow", "none", 8, 1, {s1})
InTurn == Deploy({a, b}, 1, 2, "prompt", "up", 9, 2, {})
LongLease == Deploy({a, b}, 3, 1, "timely", "flaky", 5, 1, {})
Both == Deploy({a, b}, 3, 2, "timely", "up", 4, 1, {s1})
Pair == Deploy({a}, 1, 2, "prompt", "up", 15, 0, {s1, s2})
Settings == {Alone, Lingering, InTurn, LongLease, Both, Pair}

Symmetry == Permutations({a, b})
=============================================================================
