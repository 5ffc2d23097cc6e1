-------------------------- MODULE SchedulerProofs --------------------------
(***************************************************************************)
(* Proofs about Scheduler, for any replicas and schedules, any cron        *)
(* strings, any cycle and any horizon of the search, and any settings.     *)
(* First what each action does, fact by fact; then the invariants, by      *)
(* those facts alone.                                                      *)
(***************************************************************************)
EXTENDS Scheduler, FiniteSetTheorems, WellFoundedInduction, SequenceTheorems, TLAPS

(* What the constants are. *)
LEMMA Settings ==
    ASSUME TypeOK
    PROVE  /\ deployment.interval \in Nat /\ deployment.ttl \in Nat /\ deployment.end \in 0 .. MaxTime
           /\ now \in Nat /\ MaxTime \in Nat /\ Time \subseteq Nat /\ deployment.stops \in Nat
  BY DeploymentsAssumption, BoundsAssumption DEF TypeOK, Time

-----------------------------------------------------------------------------
(* Steps of a thread: only it moves. *)
At == {"off", "asleep", "ensure", "acquire", "renew", "set", "tick", "fire", "record"}

Moves(r, i, x) == /\ thread'[r][i] = x
                  /\ \A k \in Worker \ {i} : thread'[r][k] = thread[r][k]
                  /\ \A q \in Replica \ {r} : thread'[q] = thread[q]
                  /\ thread' \in [Replica -> [Worker -> ThreadRecord]]

LEMMA SetsThread ==
    ASSUME TypeOK, NEW r \in Replica, NEW i \in Worker, NEW x \in ThreadRecord,
           thread' = [thread EXCEPT ![r][i] = x]
    PROVE  Moves(r, i, x)
  BY DEF Moves, TypeOK

LEMMA GotoMoves ==
    ASSUME TypeOK, NEW r \in Replica, NEW i \in Worker, NEW at \in At, Goto(r, i, at)
    PROVE  \E x \in ThreadRecord : Moves(r, i, x) /\ x.at = at /\ x.batch = thread[r][i].batch
  <1>0. PICK x \in ThreadRecord : x = [thread[r][i] EXCEPT !.at = at]
    <2>1. thread[r][i] \in ThreadRecord
      BY DEF TypeOK
    <2> QED BY <2>1 DEF ThreadRecord, At
  <1>1. x.at = at /\ x.batch = thread[r][i].batch
    BY <1>0 DEF TypeOK, ThreadRecord
  <1>2. thread' = [thread EXCEPT ![r][i] = x]
    BY <1>0 DEF Goto, TypeOK
  <1> QED BY <1>1, <1>2, SetsThread

Sleeps(x) == x.at = "asleep" => x.wake = now + deployment.interval

LEMMA AsleepMoves ==
    ASSUME TypeOK, NEW r \in Replica, NEW i \in Worker, Asleep(r, i)
    PROVE  \E x \in ThreadRecord : Moves(r, i, x) /\ x.at = "asleep" /\ x.batch = << >> /\ Sleeps(x)
  <1>0. PICK x \in ThreadRecord : x = [at |-> "asleep", wake |-> now + deployment.interval, batch |-> << >>]
    <2>1. << >> \in Seq(Entry) /\ now + deployment.interval \in Nat
      BY Settings
    <2> QED BY <2>1 DEF ThreadRecord
  <1>1. x.at = "asleep" /\ x.batch = << >> /\ Sleeps(x)
    BY <1>0 DEF Sleeps
  <1>2. thread' = [thread EXCEPT ![r][i] = x]
    BY <1>0 DEF Asleep
  <1> QED BY <1>1, <1>2, SetsThread

(* The steps of a thread between two ticks. *)
Between(r, i) == \/ Wake(r, i) \/ Ensure(r, i) \/ RenewRead(r, i)
                 \/ RenewSet(r, i) \/ TryAcquire(r, i)
NeedsLease == {"set", "tick", "fire", "record"}

SeenTypes == [since : [Replica -> Time \cup {None}], tick : Time, raised : BOOLEAN]
LoopTypes == [Replica -> LoopRecord]
SameStops == \A q \in Replica : loop'[q].up = loop[q].up /\ loop'[q].stopping = loop[q].stopping

(* What they change of the lease, and what a thread that is about to tick  *)
(* or to renew found there.                                                *)
Earns(r, i, x) ==
    /\ \/ key' = key
       \/ key' = Lease(r) /\ (thread[r][i].at = "set" \/ key = None)
    /\ x.at \in NeedsLease /\ deployment.redis # "none" => key' = Lease(r) \/ (key' = key /\ HoldsLease(r))

LEMMA MayTickMoves ==
    ASSUME TypeOK, NEW r \in Replica, NEW i \in Worker, MayTick(r, i)
    PROVE  /\ \E x \in ThreadRecord : Moves(r, i, x) /\ x.at = "tick" /\ x.batch = thread[r][i].batch
           /\ seen' \in SeenTypes
  <1>1. seen' \in SeenTypes
    BY DEF MayTick, TypeOK, SeenTypes
  <1> QED BY <1>1, GotoMoves DEF MayTick, At

LEMMA BetweenDoes ==
    ASSUME TypeOK, NEW r \in Replica, NEW i \in Worker, Between(r, i)
    PROVE  \E x \in ThreadRecord :
               /\ Moves(r, i, x) /\ Earns(r, i, x)
               /\ x.batch = thread[r][i].batch \/ x.batch = << >>
               /\ x.at \notin {"fire", "record"}
               /\ thread[r][i].at \notin {"off", "tick", "fire", "record"}
               /\ loop' \in LoopTypes /\ SameStops /\ seen' \in SeenTypes
               /\ UNCHANGED <<deployment, now, store, fires, stops>>
  <1>0. loop \in LoopTypes /\ seen \in SeenTypes
    BY DEF TypeOK, LoopTypes, SeenTypes
  <1>1. CASE Wake(r, i)
    <2>1. PICK at \in {"off", "ensure"} : Goto(r, i, at)
      BY <1>1 DEF Wake
    <2>2. PICK x \in ThreadRecord : Moves(r, i, x) /\ x.at = at /\ x.batch = thread[r][i].batch
      BY <2>1, GotoMoves DEF At
    <2>3. x.at \notin NeedsLease /\ x.at \notin {"fire", "record"}
      BY <2>2 DEF NeedsLease
    <2>4. Earns(r, i, x)
      BY <1>1, <2>3 DEF Wake, Earns
    <2> QED BY <1>0, <1>1, <2>2, <2>3, <2>4 DEF Wake, SameStops
  <1>2. CASE Ensure(r, i)
    <2>0. thread[r][i].at = "ensure" /\ UNCHANGED <<deployment, now, key, store, fires, stops>>
      BY <1>2 DEF Ensure
    <2>1. loop' \in LoopTypes /\ SameStops
      <3>1. CASE UNCHANGED loop
        BY <1>0, <3>1 DEF SameStops
      <3>2. ASSUME NEW t \in 0 .. RenewEvery - 1, loop' = [loop EXCEPT ![r].ticks = t]
            PROVE  loop' \in LoopTypes /\ SameStops
        BY <1>0, <3>2 DEF SameStops, LoopTypes, LoopRecord
      <3>3. (loop[r].ticks + 1) % RenewEvery \in 0 .. RenewEvery - 1
        BY <1>0 DEF LoopTypes, LoopRecord, RenewEvery
      <3> QED BY <1>2, <3>1, <3>2, <3>3 DEF Ensure
    <2>2. \/ MayTick(r, i) /\ (deployment.redis = "none" \/ HoldsLease(r))
          \/ seen' = seen /\ \E at \in {"acquire", "renew"} : Goto(r, i, at)
      BY <1>2 DEF Ensure
    <2>3. CASE MayTick(r, i) /\ (deployment.redis = "none" \/ HoldsLease(r))
      <3>1. PICK x \in ThreadRecord : Moves(r, i, x) /\ x.at = "tick" /\ x.batch = thread[r][i].batch
        BY <2>3, MayTickMoves
      <3>2. seen' \in SeenTypes
        BY <2>3, MayTickMoves
      <3>3. Earns(r, i, x)
        BY <2>0, <2>3 DEF Earns
      <3> QED BY <2>0, <2>1, <3>1, <3>2, <3>3
    <2>4. CASE seen' = seen /\ \E at \in {"acquire", "renew"} : Goto(r, i, at)
      <3>1. PICK at \in {"acquire", "renew"} : Goto(r, i, at)
        BY <2>4
      <3>2. PICK x \in ThreadRecord : Moves(r, i, x) /\ x.at = at /\ x.batch = thread[r][i].batch
        BY <3>1, GotoMoves DEF At
      <3>3. x.at \notin NeedsLease /\ x.at \notin {"fire", "record"}
        BY <3>2 DEF NeedsLease
      <3>4. Earns(r, i, x)
        BY <2>0, <3>3 DEF Earns
      <3> QED BY <1>0, <2>0, <2>1, <2>4, <3>2, <3>3, <3>4
    <2> QED BY <2>2, <2>3, <2>4
  <1>a. ASSUME Asleep(r, i), key' = key, loop' = loop, seen' = seen,
               thread[r][i].at \notin {"off", "tick", "fire", "record"},
               UNCHANGED <<deployment, now, store, fires, stops>>
        PROVE  \E x \in ThreadRecord :
                 /\ Moves(r, i, x) /\ Earns(r, i, x)
                 /\ x.batch = thread[r][i].batch \/ x.batch = << >>
                 /\ x.at \notin {"fire", "record"}
                 /\ thread[r][i].at \notin {"off", "tick", "fire", "record"}
                 /\ loop' \in LoopTypes /\ SameStops /\ seen' \in SeenTypes
                 /\ UNCHANGED <<deployment, now, store, fires, stops>>
    <2>1. PICK x \in ThreadRecord : Moves(r, i, x) /\ x.at = "asleep" /\ x.batch = << >>
      BY <1>a, AsleepMoves
    <2>2. Earns(r, i, x)
      BY <1>a, <2>1 DEF Earns, NeedsLease
    <2> QED BY <1>0, <1>a, <2>1, <2>2 DEF SameStops
  <1>3. CASE RenewRead(r, i)
    <2>1. thread[r][i].at = "renew" /\ UNCHANGED <<deployment, now, key, loop, store, fires, seen, stops>>
      BY <1>3 DEF RenewRead
    <2>2. CASE HoldsLease(r) /\ Goto(r, i, "set")
      <3>1. PICK x \in ThreadRecord : Moves(r, i, x) /\ x.at = "set" /\ x.batch = thread[r][i].batch
        BY <2>2, GotoMoves DEF At
      <3>2. Earns(r, i, x)
        BY <2>1, <2>2 DEF Earns
      <3> QED BY <1>0, <2>1, <3>1, <3>2 DEF SameStops
    <2> QED BY <1>3, <1>a, <2>1, <2>2 DEF RenewRead
  <1>4. CASE RenewSet(r, i) \/ TryAcquire(r, i)
    <2>1. /\ thread[r][i].at \in {"set", "acquire"} /\ UNCHANGED <<deployment, now, loop, store, fires, stops>>
          /\ \/ /\ key' = Lease(r) /\ (thread[r][i].at = "set" \/ key = None) /\ MayTick(r, i)
             \/ UNCHANGED <<key, seen>> /\ Asleep(r, i)
      BY <1>4 DEF RenewSet, TryAcquire
    <2>2. CASE key' = Lease(r) /\ (thread[r][i].at = "set" \/ key = None) /\ MayTick(r, i)
      <3>1. PICK x \in ThreadRecord : Moves(r, i, x) /\ x.at = "tick" /\ x.batch = thread[r][i].batch
        BY <2>2, MayTickMoves
      <3>2. seen' \in SeenTypes
        BY <2>2, MayTickMoves
      <3>3. Earns(r, i, x)
        BY <2>2 DEF Earns
      <3> QED BY <1>0, <2>1, <3>1, <3>2, <3>3 DEF SameStops
    <2> QED BY <1>a, <2>1, <2>2
  <1> QED BY <1>1, <1>2, <1>3, <1>4 DEF Between

-----------------------------------------------------------------------------
(* Arithmetic of the clock, and the next fire time.                        *)
LEMMA DivMod ==
    ASSUME NEW a \in Int, NEW b \in Nat \ {0}
    PROVE  /\ a \div b \in Int /\ a % b \in 0 .. b - 1
           /\ b * (a \div b) \in Int /\ a - (a % b) = b * (a \div b)
  <1>1. a - (a % b) = b * (a \div b)
    OBVIOUS
  <1>2. a \div b \in Int /\ a % b \in Int
    OBVIOUS
  <1>3. 0 <= a % b /\ a % b < b
    OBVIOUS
  <1> QED BY <1>1, <1>2, <1>3

LEMMA LeastElement ==
    ASSUME NEW S \in SUBSET Nat, S # {}
    PROVE  Min(S) \in S /\ \A y \in S : Min(S) <= y
  <1>1. PICK x \in S : \A y \in S : ~(<<y, x>> \in OpToRel(<, Nat))
    BY NatLessThanWellFounded, WFMin, Zenon
  <1>2. \A y \in S : ~(<<y, x>> \in {ss \in Nat \X Nat : ss[1] < ss[2]})
    BY <1>1, Zenon DEF OpToRel
  <1>3. ASSUME NEW y \in S, y < x PROVE <<y, x>> \in {ss \in Nat \X Nat : ss[1] < ss[2]}
    BY <1>3
  <1>4. \A y \in S : ~(y < x)
    BY <1>2, <1>3, Zenon
  <1>5. \A y \in S : x <= y
    BY <1>4
  <1> QED BY <1>5 DEF Min

(* A schedule that fires at all has a next due time, after any given one.  *)
LEMMA NextMultiple ==
    ASSUME NEW q \in Int, NEW u \in Int, u % Minute = 0, Minute * q < u
    PROVE  Minute * q + Minute <= u
  <1>0. Minute \in Nat \ {0} /\ Minute * q \in Int
    BY BoundsAssumption
  <1>1. PICK c \in Int : u = Minute * c
    <2>1. u \div Minute \in Int /\ u - (u % Minute) = Minute * (u \div Minute)
      BY <1>0, DivMod
    <2> QED BY <2>1
  <1>2. ~(c <= q)
    <2> SUFFICES ASSUME c <= q PROVE FALSE
      OBVIOUS
    <2>1. PICK d \in Nat : q = c + d
      <3>1. q - c \in Nat /\ q = c + (q - c)
        OBVIOUS
      <3> QED BY <3>1
    <2>2. Minute * d \in Nat /\ Minute * q = Minute * c + Minute * d
      BY <1>0, <2>1
    <2> QED BY <1>0, <1>1, <2>2
  <1>3. PICK d \in Nat : c = q + 1 + d
    <2>1. c - (q + 1) \in Nat /\ c = q + 1 + (c - (q + 1))
      BY <1>2
    <2> QED BY <2>1
  <1>4. Minute * d \in Nat /\ Minute * c = Minute * q + Minute + Minute * d
    BY <1>0, <1>3
  <1> QED BY <1>0, <1>1, <1>4

LEMMA MultiplesApart ==
    ASSUME NEW a \in Nat, NEW b \in Nat, a % Minute = 0, b % Minute = 0, a < b
    PROVE  a + Minute <= b
  <1>1. Minute \in Nat \ {0}
    BY BoundsAssumption
  <1>2. a \div Minute \in Int /\ a - (a % Minute) = Minute * (a \div Minute)
    <2>1. a \in Int
      OBVIOUS
    <2> QED BY <1>1, <2>1, DivMod
  <1>3. a = Minute * (a \div Minute)
    BY <1>2
  <1>4. Minute * (a \div Minute) + Minute <= b
    BY <1>2, <1>3, NextMultiple
  <1> QED BY <1>3, <1>4

LEMMA NextFires ==
    ASSUME NEW m, NEW t \in Nat, NextFireAfter(m, t) # None
    PROVE  /\ NextFireAfter(m, t) \in Nat /\ NextFireAfter(m, t) > t
           /\ NextFireAfter(m, t) % Minute = 0
           /\ \A u \in Nat : t < u /\ u < NextFireAfter(m, t) => ~Matches(m, u)
  <1> DEFINE k == MinuteOf(t) + 1
             from == k * Minute
             hits == {c \in from .. from + Horizon * Minute : Matches(m, c)}
  <1>0. Minute \in Nat \ {0} /\ Horizon \in Nat /\ Horizon * Minute \in Nat
    BY BoundsAssumption
  <1>1. k \in Nat /\ from \in Nat /\ t < from
    <2> DEFINE q == t \div Minute
               d == t % Minute
    <2>1. q \in Int /\ d \in 0 .. Minute - 1 /\ Minute * q \in Int /\ t - d = Minute * q
      BY <1>0, DivMod
    <2>2. k = q + 1
      BY DEF MinuteOf
    <2> HIDE DEF q, d, k
    <2>3. q >= 0
      <3> SUFFICES ASSUME q <= -1 PROVE FALSE
        BY <2>1
      <3>1. PICK p \in Nat : q = -1 - p
        <4>1. -1 - q \in Nat /\ q = -1 - (-1 - q)
          BY <2>1
        <4> QED BY <4>1
      <3>2. Minute * q = -Minute - Minute * p /\ Minute * p \in Nat
        BY <1>0, <3>1
      <3> QED BY <1>0, <2>1, <3>2
    <2>4. k * Minute = Minute * q + Minute
      BY <1>0, <2>1, <2>2
    <2>5. k \in Nat /\ k * Minute \in Nat
      BY <1>0, <2>1, <2>2, <2>3
    <2> QED BY <1>0, <2>1, <2>4, <2>5
  <1> HIDE DEF k
  <1>6. hits # {} /\ hits \in SUBSET Nat
    <2>1. hits # {}
      BY DEF NextFireAfter, k
    <2>2. from .. from + Horizon * Minute \subseteq Nat
      BY <1>0, <1>1
    <2> QED BY <2>1, <2>2
  <1>7. NextFireAfter(m, t) = Min(hits)
    BY <1>6 DEF NextFireAfter, k
  <1>8. Min(hits) \in hits
    BY <1>6, LeastElement
  <1>9. Min(hits) \in Nat /\ Min(hits) >= from
    <2>1. from + Horizon * Minute \in Nat
      BY <1>0, <1>1
    <2> HIDE DEF from
    <2>2. \A y \in hits : y \in Nat /\ y >= from
      BY <1>1, <2>1
    <2> QED BY <1>8, <2>2
  <1>10. Min(hits) % Minute = 0
    BY <1>8 DEF Matches
  <1>11. ASSUME NEW u \in Nat, t < u, u < Min(hits), Matches(m, u) PROVE FALSE
    <2>1. from <= u
      <3>1. t \div Minute \in Int /\ t % Minute \in 0 .. Minute - 1 /\ Minute * (t \div Minute) \in Int
            /\ t - (t % Minute) = Minute * (t \div Minute)
        <4>1. t \in Int
          OBVIOUS
        <4> QED BY <1>0, <4>1, DivMod
      <3>2. Minute * (t \div Minute) < u /\ u % Minute = 0
        BY <1>0, <1>11, <3>1 DEF Matches
      <3>3. Minute * (t \div Minute) + Minute <= u
        BY <3>1, <3>2, NextMultiple
      <3>4. from = Minute * (t \div Minute) + Minute
        BY <1>0, <3>1 DEF k, MinuteOf
      <3> QED BY <3>3, <3>4
    <2>2. from + Horizon * Minute \in Nat /\ Min(hits) <= from + Horizon * Minute
      <3>1. from + Horizon * Minute \in Nat
        BY <1>0, <1>1
      <3> HIDE DEF from
      <3>2. \A y \in hits : y <= from + Horizon * Minute
        BY <1>1, <3>1
      <3> QED BY <1>8, <3>1, <3>2
    <2>3. u \in hits
      <3> HIDE DEF from
      <3> QED BY <1>1, <1>9, <1>11, <2>1, <2>2
    <2> QED BY <1>6, <1>9, <1>11, <2>3, LeastElement
  <1> HIDE DEF from, hits
  <1> QED BY <1>1, <1>7, <1>9, <1>10, <1>11

(* What create accepts fires at all. *)
LEMMA Accepted ==
    ASSUME NEW pieces, NEW t, NEW m, m = ParseField(pieces, 0, Cycle - 1), m # None,
           NextFireAfter(m, t) # None
    PROVE  m \in (SUBSET (0 .. Cycle - 1)) \ {{}}
  <1> DEFINE sets == {PieceValues(p, 0, Cycle - 1) : p \in pieces}
  <1>1. None \notin sets /\ m = UNION sets
    BY DEF ParseField
  <1>2. \A p \in pieces : PieceValues(p, 0, Cycle - 1) # None => PieceValues(p, 0, Cycle - 1) \subseteq 0 .. Cycle - 1
    BY DEF PieceValues
  <1>3. m \subseteq 0 .. Cycle - 1
    BY <1>1, <1>2
  <1>4. m # {}
    <2> SUFFICES ASSUME m = {} PROVE FALSE
      OBVIOUS
    <2>1. \A c : ~Matches(m, c)
      BY DEF Matches
    <2> QED BY <2>1 DEF NextFireAfter
  <1> QED BY <1>3, <1>4

(* Schedules enumerated in the order of their numbers: each comes once.    *)
LEMMA Enumerates ==
    ASSUME NEW r, NEW S, IsFiniteSet(S), \A s \in S : store[r][s].number \in Nat,
           NEW due \in Enumerations(r, S)
    PROVE  /\ due \in Seq(S) /\ DOMAIN due = 1 .. Len(due)
           /\ \A j, l \in DOMAIN due : due[j] = due[l] => j = l
           /\ \A x \in S : \E j \in DOMAIN due : due[j] = x
  <1>1. Cardinality(S) \in Nat
    BY FS_CardinalityType
  <1>2. due \in [1 .. Cardinality(S) -> S]
        /\ \A j, k \in DOMAIN due : j < k => store[r][due[j]].number < store[r][due[k]].number
    BY DEF Enumerations
  <1>3. ASSUME NEW j \in DOMAIN due, NEW k \in DOMAIN due, due[j] = due[k] PROVE j = k
    <2>1. j \in Nat /\ k \in Nat /\ due[j] \in S
      BY <1>1, <1>2
    <2>2. PICK n \in Nat : n = store[r][due[j]].number
      BY <2>1
    <2>3. ~(j < k) /\ ~(k < j)
      BY <1>2, <1>3, <2>2
    <2> QED BY <2>1, <2>3
  <1>4. due \in Surjection(1 .. Cardinality(S), S)
    <2>1. Cardinality(1 .. Cardinality(S)) = Cardinality(S) /\ IsFiniteSet(1 .. Cardinality(S))
      BY <1>1, FS_Interval
    <2>2. due \in Injection(1 .. Cardinality(S), S)
      BY <1>2, <1>3 DEF Injection, IsInjective
    <2> QED BY <2>1, <2>2, FS_Injection
  <1> QED BY <1>1, <1>2, <1>3, <1>4 DEF Surjection

-----------------------------------------------------------------------------
(* A batch is there when, and only when, a thread works on it; the run id  *)
(* to record is known by the time it is recorded.                          *)
BatchesFit == \A r \in Replica, i \in Worker :
    /\ (thread[r][i].batch = << >>) <=> (thread[r][i].at \notin {"fire", "record"})
    /\ thread[r][i].at = "record" => thread[r][i].batch[1].id \in Nat

BaseInv == TypeOK /\ BatchesFit

StoreTypes == [Replica -> [Schedule -> ScheduleRecord \cup {None, Gone}]]
FireTypes == [Replica -> [Schedule -> Seq(Firing)]]

LEMMA LiveSchedule ==
    ASSUME TypeOK, NEW r \in Replica, NEW s \in Schedule
    PROVE  /\ Live(r, s) => store[r][s] \in ScheduleRecord
           /\ Live(r, s) => store[r][s].next \in Nat
           /\ store[r][s] \in ScheduleRecord => Live(r, s)
  BY NoneAssumption DEF Live, TypeOK, ScheduleRecord

(* The rest of the batch, after its first entry. *)
LEMMA ProceedMoves ==
    ASSUME TypeOK, NEW r \in Replica, NEW i \in Worker, thread[r][i].batch # << >>, Proceed(r, i)
    PROVE  \E x \in ThreadRecord :
               /\ Moves(r, i, x) /\ x.batch = Tail(thread[r][i].batch)
               /\ x.at = (IF x.batch = << >> THEN "asleep" ELSE "fire") /\ Sleeps(x)
  <1> DEFINE b == thread[r][i].batch
  <1>0. b \in Seq(Entry) /\ thread[r][i] \in ThreadRecord
    BY DEF TypeOK, ThreadRecord
  <1>1. Tail(b) \in Seq(Entry) /\ Len(Tail(b)) = Len(b) - 1 /\ Len(b) \in Nat \ {0}
    BY <1>0
  <1>a. \A c \in Seq(Entry) : c = << >> <=> Len(c) = 0
    BY EmptySeq
  <1>2. CASE Len(b) = 1
    <2>1. Tail(b) = << >>
      <3>1. Len(Tail(b)) = 0
        BY <1>1, <1>2
      <3> QED BY <1>1, <1>a, <3>1
    <2>2. Asleep(r, i)
      BY <1>2 DEF Proceed
    <2> QED BY <2>1, <2>2, AsleepMoves
  <1>3. CASE Len(b) # 1
    <2>1. Tail(b) # << >>
      <3>1. Len(Tail(b)) # 0
        BY <1>1, <1>3
      <3> QED BY <1>1, <1>a, <3>1
    <2>2. PICK x \in ThreadRecord : x = [thread[r][i] EXCEPT !.at = "fire", !.batch = Tail(b)]
      BY <1>0, <1>1 DEF ThreadRecord
    <2>3. x.at = "fire" /\ x.batch = Tail(b)
      BY <1>0, <2>2 DEF ThreadRecord
    <2>4. thread' = [thread EXCEPT ![r][i] = x]
      BY <1>3, <2>2 DEF Proceed, TypeOK
    <2> QED BY <2>1, <2>3, <2>4, SetsThread DEF Sleeps
  <1> QED BY <1>2, <1>3

(* The batch of a tick: schedules that were due and are advanced, each     *)
(* once, with its due time; all that were due unless the tick raised.      *)
Sweeps(r, x) == /\ \A j \in DOMAIN x.batch : /\ x.batch[j].s \in Advanced(r)
                                             /\ x.batch[j].slot = store[r][x.batch[j].s].next
                /\ \A j, l \in DOMAIN x.batch : x.batch[j].s = x.batch[l].s => j = l
SweepsAll(r, x) == /\ seen' = seen /\ Advanced(r) = Due(r, now)
                   /\ \A s \in Due(r, now) : \E j \in DOMAIN x.batch : x.batch[j].s = s

(* What is advanced was due, and its next fire time was found. *)
LEMMA AdvancedDoes ==
    ASSUME TypeOK, NEW r \in Replica, NEW s \in Advanced(r)
    PROVE  /\ s \in Due(r, now) /\ s \in Schedule /\ Live(r, s)
           /\ store[r][s] \in ScheduleRecord /\ store[r][s].next \in Nat /\ store[r][s].next <= now
           /\ NextFireAfter(store[r][s].minutes, now) # None
  <1>1. s \in Due(r, now) /\ \A q \in Raising(r) : store[r][s].number < store[r][q].number
    BY DEF Advanced
  <1>2. s \in Schedule /\ Live(r, s) /\ store[r][s].next <= now
    BY <1>1 DEF Due
  <1>3. store[r][s] \in ScheduleRecord /\ store[r][s].next \in Nat /\ store[r][s].number \in Nat
    BY <1>2, LiveSchedule DEF ScheduleRecord
  <1>4. s \notin Raising(r)
    <2>1. ~(store[r][s].number < store[r][s].number)
      BY <1>3
    <2> QED BY <1>1, <2>1
  <1> QED BY <1>1, <1>2, <1>3, <1>4 DEF Raising

LEMMA TickDoes ==
    ASSUME TypeOK, NEW r \in Replica, NEW i \in Worker, TickDue(r, i)
    PROVE  /\ thread[r][i].at = "tick" /\ UNCHANGED <<deployment, now, key, loop, fires, stops>>
           /\ seen' \in SeenTypes /\ seen'.since = seen.since /\ seen'.tick = seen.tick
           /\ store' \in StoreTypes /\ \A q \in Replica \ {r} : store'[q] = store[q]
           /\ \A s \in Schedule \ Advanced(r) : store'[r][s] = store[r][s]
           /\ \A s \in Advanced(r) : /\ store'[r][s] \in ScheduleRecord /\ store'[r][s].next > now
                                      /\ store'[r][s] = Advance(store[r][s])
           /\ \E x \in ThreadRecord :
                 /\ Moves(r, i, x) /\ x.at = (IF x.batch = << >> THEN "asleep" ELSE "fire") /\ Sleeps(x)
                 /\ Sweeps(r, x) /\ (SweepsAll(r, x) \/ seen'.raised)
  <1> DEFINE D == Due(r, now)
             row == [s \in Schedule |-> IF s \in Advanced(r) THEN Advance(store[r][s]) ELSE store[r][s]]
  <1>1. /\ thread[r][i].at = "tick" /\ UNCHANGED <<deployment, now, key, loop, fires, stops>>
        /\ store' = [store EXCEPT ![r] = row]
    BY DEF TickDue
  <1>a. seen' \in SeenTypes /\ seen'.since = seen.since /\ seen'.tick = seen.tick
    <2>1. seen \in SeenTypes
      BY DEF TypeOK, SeenTypes
    <2>2. seen' = seen \/ seen' = [seen EXCEPT !.raised = TRUE]
      BY DEF TickDue
    <2> QED BY <2>1, <2>2 DEF SeenTypes
  <1>2. D \subseteq Schedule /\ \A s \in D : Live(r, s)
    BY DEF Due
  <1>3. ASSUME NEW s \in Advanced(r)
        PROVE  Advance(store[r][s]) \in ScheduleRecord /\ Advance(store[r][s]).next > now
    <2>1. store[r][s] \in ScheduleRecord /\ now \in Nat
      BY AdvancedDoes, Settings
    <2>2. NextFireAfter(store[r][s].minutes, now) \in Nat /\ NextFireAfter(store[r][s].minutes, now) > now
      BY <2>1, AdvancedDoes, NextFires
    <2>3. PICK n \in Nat : n = NextFireAfter(store[r][s].minutes, now)
      BY <2>2
    <2>4. [store[r][s] EXCEPT !.next = n] \in ScheduleRecord /\ [store[r][s] EXCEPT !.next = n].next = n
      BY <2>1 DEF ScheduleRecord
    <2> QED BY <2>2, <2>3, <2>4 DEF Advance
  <1>4. row \in [Schedule -> ScheduleRecord \cup {None, Gone}]
    BY <1>3 DEF TypeOK
  <1>5. store' \in StoreTypes /\ store'[r] = row /\ \A q \in Replica \ {r} : store'[q] = store[q]
    BY <1>1, <1>4 DEF StoreTypes, TypeOK
  <1>b. \A s \in Advanced(r) : s \in Schedule
    BY AdvancedDoes
  <1>6. /\ \A s \in Schedule \ Advanced(r) : store'[r][s] = store[r][s]
        /\ \A s \in Advanced(r) : /\ store'[r][s] \in ScheduleRecord /\ store'[r][s].next > now
                                   /\ store'[r][s] = Advance(store[r][s])
    BY <1>3, <1>5, <1>b
  <1> HIDE DEF row
  (* Nothing was due, or the tick raised. *)
  <1>7. ASSUME Asleep(r, i), (D = {} /\ seen' = seen) \/ seen'.raised
        PROVE  \E x \in ThreadRecord :
                 /\ Moves(r, i, x) /\ x.at = (IF x.batch = << >> THEN "asleep" ELSE "fire") /\ Sleeps(x)
                 /\ Sweeps(r, x) /\ (SweepsAll(r, x) \/ seen'.raised)
    <2>1. PICK x \in ThreadRecord : Moves(r, i, x) /\ x.at = "asleep" /\ x.batch = << >> /\ Sleeps(x)
      BY <1>7, AsleepMoves
    <2>2. DOMAIN x.batch = {}
      BY <2>1
    <2>3. Sweeps(r, x)
      BY <2>2 DEF Sweeps
    <2>4. D = {} => Advanced(r) = D
      BY DEF Advanced
    <2>5. SweepsAll(r, x) \/ seen'.raised
      BY <1>7, <2>4 DEF SweepsAll
    <2> QED BY <2>1, <2>3, <2>5
  <1>8. ASSUME Raising(r) = {}, D # {}, seen' = seen, NEW due \in Enumerations(r, D),
               thread' = [thread EXCEPT ![r][i] = [@ EXCEPT !.at = "fire", !.batch = Batch(r, due)]]
        PROVE  \E x \in ThreadRecord :
                 /\ Moves(r, i, x) /\ x.at = (IF x.batch = << >> THEN "asleep" ELSE "fire") /\ Sleeps(x)
                 /\ Sweeps(r, x) /\ (SweepsAll(r, x) \/ seen'.raised)
    <2>0. Advanced(r) = D
      BY <1>8 DEF Advanced
    <2>1. /\ due \in Seq(D) /\ DOMAIN due = 1 .. Len(due)
          /\ \A j, l \in DOMAIN due : due[j] = due[l] => j = l
          /\ \A s \in D : \E j \in DOMAIN due : due[j] = s
      <3>1. IsFiniteSet(D)
        BY <1>2, BoundsAssumption, FS_Subset
      <3>2. \A s \in D : store[r][s].number \in Nat
        BY <1>2, LiveSchedule DEF ScheduleRecord
      <3> HIDE DEF D
      <3> QED BY <1>8, <3>1, <3>2, Enumerates
    <2>2. PICK b : b = Batch(r, due)
      OBVIOUS
    <2>3. \A j \in DOMAIN due : due[j] \in D /\ due[j] \in Schedule /\ store[r][due[j]].next \in Nat
      BY <1>2, <2>1, LiveSchedule
    <2>4. /\ b \in Seq(Entry) /\ DOMAIN b = DOMAIN due
          /\ \A j \in DOMAIN b : b[j].s = due[j] /\ b[j].slot = store[r][due[j]].next
      <3>1. \A j \in 1 .. Len(due) : [s |-> due[j], slot |-> store[r][due[j]].next, id |-> None] \in Entry
        BY <2>1, <2>3 DEF Entry
      <3>2. b = [j \in 1 .. Len(due) |-> [s |-> due[j], slot |-> store[r][due[j]].next, id |-> None]]
        BY <2>1, <2>2 DEF Batch
      <3>3. b \in Seq(Entry)
        BY <2>1, <3>1, <3>2
      <3> QED BY <2>1, <3>2, <3>3
    <2>5. thread[r][i] \in ThreadRecord
      BY DEF TypeOK
    <2>6. PICK x \in ThreadRecord : x = [thread[r][i] EXCEPT !.at = "fire", !.batch = b]
      BY <2>4, <2>5 DEF ThreadRecord
    <2>7. x.at = "fire" /\ x.batch = b
      BY <2>5, <2>6 DEF ThreadRecord
    <2>8. thread' = [thread EXCEPT ![r][i] = x]
      BY <1>8, <2>2, <2>6 DEF TypeOK
    <2>9. \A s \in D : \E j \in DOMAIN b : b[j].s = s
      <3> SUFFICES ASSUME NEW s \in D PROVE \E j \in DOMAIN b : b[j].s = s
        OBVIOUS
      <3>1. PICK j \in DOMAIN due : due[j] = s
        BY <2>1
      <3> QED BY <2>4, <3>1
    <2>10. b # << >>
      <3>1. PICK s \in D : TRUE
        BY <1>8
      <3>2. DOMAIN b # {}
        BY <2>9, <3>1
      <3> QED BY <3>2
    <2>11. Sweeps(r, x)
      <3>1. \A j \in DOMAIN b : b[j].s \in D /\ b[j].slot = store[r][b[j].s].next
        BY <2>1, <2>3, <2>4
      <3>2. \A j, l \in DOMAIN b : b[j].s = b[l].s => j = l
        BY <2>1, <2>4
      <3> QED BY <2>0, <2>7, <3>1, <3>2 DEF Sweeps
    <2>12. SweepsAll(r, x)
      BY <1>8, <2>0, <2>7, <2>9 DEF SweepsAll
    <2>13. Moves(r, i, x)
      BY <2>8, SetsThread
    <2> QED BY <2>7, <2>10, <2>11, <2>12, <2>13 DEF Sleeps
  <1>9. PICK x \in ThreadRecord :
                 /\ Moves(r, i, x) /\ x.at = (IF x.batch = << >> THEN "asleep" ELSE "fire") /\ Sleeps(x)
                 /\ Sweeps(r, x) /\ (SweepsAll(r, x) \/ seen'.raised)
    <2>1. \/ Asleep(r, i) /\ seen' = [seen EXCEPT !.raised = TRUE]
          \/ D = {} /\ Asleep(r, i) /\ seen' = seen
          \/ /\ Raising(r) = {} /\ D # {} /\ seen' = seen
             /\ \E due \in Enumerations(r, D) :
                    thread' = [thread EXCEPT ![r][i] = [@ EXCEPT !.at = "fire", !.batch = Batch(r, due)]]
      BY DEF TickDue
    <2>2. seen' = [seen EXCEPT !.raised = TRUE] => seen'.raised
      BY DEF TypeOK
    <2> HIDE DEF D
    <2> QED BY <1>7, <1>8, <2>1, <2>2
  <1> QED BY <1>1, <1>a, <1>5, <1>6, <1>9

Logs(r, i, ok) ==
    LET s == thread[r][i].batch[1].s
    IN  fires'[r][s][Len(fires'[r][s])].ok = ok

(* A callback that raises, and one that creates a run, which is recorded.  *)
Skips(r, i, x) == /\ x.batch = Tail(thread[r][i].batch) /\ Logs(r, i, FALSE)
                  /\ x.at = IF x.batch = << >> THEN "asleep" ELSE "fire"
Creates(r, i, x) == /\ x.at = "record" /\ DOMAIN x.batch = DOMAIN thread[r][i].batch
                    /\ x.batch[1].id \in Nat /\ x.batch # << >> /\ Logs(r, i, TRUE)
                    /\ x.batch[1].id = Len(fires'[r][x.batch[1].s])
                    /\ \A j \in DOMAIN x.batch : /\ x.batch[j].s = thread[r][i].batch[j].s
                                                 /\ x.batch[j].slot = thread[r][i].batch[j].slot

LEMMA FireDoes ==
    ASSUME BaseInv, NEW r \in Replica, NEW i \in Worker, Fire(r, i)
    PROVE  /\ thread[r][i].at = "fire" /\ thread[r][i].batch # << >>
           /\ UNCHANGED <<deployment, now, key, loop, store, seen, stops>>
           /\ fires' \in FireTypes /\ \A q \in Replica \ {r} : fires'[q] = fires[q]
           /\ \E e \in Entry, f \in Firing :
                 /\ e = thread[r][i].batch[1] /\ f.slot = e.slot
                 /\ fires'[r][e.s] = Append(fires[r][e.s], f)
                 /\ \A s \in Schedule \ {e.s} : fires'[r][s] = fires[r][s]
           /\ \E x \in ThreadRecord :
                 /\ Moves(r, i, x) /\ Sleeps(x)
                 /\ Skips(r, i, x) \/ Creates(r, i, x)
  <1> DEFINE b == thread[r][i].batch
             e == Head(b)
  <1>0. /\ b \in Seq(Entry) /\ thread[r][i] \in ThreadRecord
        /\ fires \in FireTypes
    BY DEF BaseInv, TypeOK, ThreadRecord, FireTypes
  <1>1. /\ thread[r][i].at = "fire" /\ b # << >>
        /\ UNCHANGED <<deployment, now, key, loop, store, seen, stops>>
    BY DEF Fire, BaseInv, BatchesFit
  <1>2. e \in Entry /\ e = b[1] /\ Len(b) \in Nat \ {0} /\ Tail(b) \in Seq(Entry)
        /\ Len(Tail(b)) = Len(b) - 1 /\ \A j \in 1 .. Len(b) - 1 : Tail(b)[j] = b[j + 1]
    BY <1>0, <1>1
  <1>3. PICK ok \in BOOLEAN :
              /\ fires' = [fires EXCEPT ![r][e.s] = Append(@, [slot |-> e.slot, ok |-> ok])]
              /\ IF ok THEN thread' = [thread EXCEPT ![r][i] =
                              [@ EXCEPT !.at = "record", !.batch = <<[e EXCEPT !.id = Len(fires'[r][e.s])]>> \o Tail(thread[r][i].batch)]]
                 ELSE Proceed(r, i)
    <2>1. \E ok \in BOOLEAN :
              /\ fires' = [fires EXCEPT ![r][Head(thread[r][i].batch).s] = Append(@, [slot |-> Head(thread[r][i].batch).slot, ok |-> ok])]
              /\ IF ok THEN thread' = [thread EXCEPT ![r][i] =
                              [@ EXCEPT !.at = "record", !.batch = <<[Head(thread[r][i].batch) EXCEPT !.id = Len(fires'[r][Head(thread[r][i].batch).s])]>> \o Tail(thread[r][i].batch)]]
                 ELSE Proceed(r, i)
      BY DEF Fire
    <2> QED BY <2>1
  <1>4. PICK a \in Entry : a = e
    BY <1>2
  <1>5. PICK f \in Firing : f = [slot |-> a.slot, ok |-> ok]
    BY DEF Firing, Entry
  <1>6. /\ fires' = [fires EXCEPT ![r][a.s] = Append(fires[r][a.s], f)]
        /\ a.s \in Schedule /\ f.slot = a.slot /\ Append(fires[r][a.s], f) \in Seq(Firing)
    <2>1. a.s \in Schedule
      BY DEF Entry
    <2>2. f.slot = a.slot
      BY <1>5
    <2>3. Append(fires[r][a.s], f) \in Seq(Firing)
      <3>1. fires[r][a.s] \in Seq(Firing)
        BY <1>0, <2>1 DEF FireTypes
      <3> QED BY <3>1
    <2>4. fires' = [fires EXCEPT ![r][a.s] = Append(fires[r][a.s], f)]
      BY <1>0, <1>3, <1>4, <1>5, <2>1 DEF FireTypes
    <2> QED BY <2>1, <2>2, <2>3, <2>4
  <1>7. /\ fires' \in FireTypes /\ \A q \in Replica \ {r} : fires'[q] = fires[q]
        /\ fires'[r][a.s] = Append(fires[r][a.s], f)
        /\ \A s \in Schedule \ {a.s} : fires'[r][s] = fires[r][s]
    BY <1>0, <1>6 DEF FireTypes
  <1>8. \E x \in ThreadRecord :
                 /\ Moves(r, i, x) /\ Sleeps(x)
                 /\ Skips(r, i, x) \/ Creates(r, i, x)
    <2>0. Logs(r, i, ok)
      <3>1. fires[r][a.s] \in Seq(Firing) /\ f.ok = ok
        BY <1>0, <1>5, <1>6 DEF FireTypes
      <3>2. fires'[r][a.s][Len(fires'[r][a.s])] = f
        BY <1>7, <3>1
      <3> QED BY <1>2, <1>4, <3>1, <3>2 DEF Logs
    <2>1. CASE ~ok
      BY <1>1, <1>3, <2>0, <2>1, ProceedMoves DEF BaseInv, Skips
    <2>2. CASE ok
      <3>1. PICK n \in Nat : n = Len(fires'[r][a.s])
        BY <1>6, <1>7
      <3>2. PICK g \in Entry : g = [a EXCEPT !.id = n] /\ g.id = n /\ g.s = a.s /\ g.slot = a.slot
        <4>1. [a EXCEPT !.id = n] \in Entry
          BY DEF Entry
        <4>2. /\ [a EXCEPT !.id = n].id = n /\ [a EXCEPT !.id = n].s = a.s
              /\ [a EXCEPT !.id = n].slot = a.slot
          BY DEF Entry
        <4> QED BY <4>1, <4>2
      <3>3. PICK c \in Seq(Entry) : c = <<g>> \o Tail(b)
        <4>1. <<g>> \in Seq(Entry)
          OBVIOUS
        <4> QED BY <1>2, <4>1, ConcatProperties
      <3>4. /\ Len(c) = Len(b) /\ c[1] = g
            /\ \A j \in 2 .. Len(b) : c[j] = b[j]
        <4>1. Len(c) = Len(b) /\ c[1] = g
          BY <1>2, <3>3
        <4>2. ASSUME NEW j \in 2 .. Len(b) PROVE c[j] = b[j]
          <5>1. c[j] = Tail(b)[j - 1]
            BY <1>2, <3>3
          <5> QED BY <1>2, <5>1
        <4> QED BY <4>1, <4>2
      <3>5. PICK x \in ThreadRecord : x = [thread[r][i] EXCEPT !.at = "record", !.batch = c]
        BY <1>0 DEF ThreadRecord
      <3>6. x.at = "record" /\ x.batch = c
        BY <1>0, <3>5 DEF ThreadRecord
      <3>7. thread' = [thread EXCEPT ![r][i] = x]
        <4>1. c = <<[e EXCEPT !.id = Len(fires'[r][e.s])]>> \o Tail(b)
          BY <1>4, <3>1, <3>2, <3>3
        <4> QED BY <1>3, <2>2, <3>5, <4>1 DEF BaseInv, TypeOK
      <3>8. Moves(r, i, x)
        BY <3>7, SetsThread DEF BaseInv
      <3>9. DOMAIN c = 1 .. Len(b) /\ DOMAIN b = 1 .. Len(b) /\ c # << >>
        BY <1>0, <1>2, <3>4
      <3>10. \A j \in DOMAIN c : c[j].s = b[j].s /\ c[j].slot = b[j].slot
        <4> SUFFICES ASSUME NEW j \in 1 .. Len(b) PROVE c[j].s = b[j].s /\ c[j].slot = b[j].slot
          BY <3>9
        <4>1. j = 1 \/ j \in 2 .. Len(b)
          OBVIOUS
        <4> QED BY <1>2, <1>4, <3>2, <3>4, <4>1
      <3>11. c[1].id \in Nat
        BY <3>2, <3>4
      <3> HIDE DEF b
      <3>12. /\ x.at = "record" /\ DOMAIN x.batch = DOMAIN b
             /\ x.batch[1].id \in Nat /\ x.batch # << >>
             /\ \A j \in DOMAIN x.batch : x.batch[j].s = b[j].s /\ x.batch[j].slot = b[j].slot
        BY <3>6, <3>9, <3>10, <3>11
      <3>13. x.batch[1].id = Len(fires'[r][x.batch[1].s])
        BY <3>1, <3>2, <3>4, <3>6
      <3> QED BY <2>0, <2>2, <3>8, <3>12, <3>13 DEF b, Sleeps, Creates
    <2> QED BY <2>1, <2>2
  <1>9. a = thread[r][i].batch[1]
    BY <1>2, <1>4
  <1> QED BY <1>1, <1>6, <1>7, <1>8, <1>9

Remembers(new, old, id) ==
    /\ new.minutes = old.minutes /\ new.created = old.created /\ new.next = old.next
    /\ new.recent = Capped(Append(old.recent, id))

LEMMA RecordDoes ==
    ASSUME BaseInv, NEW r \in Replica, NEW i \in Worker, RecordRun(r, i)
    PROVE  /\ thread[r][i].at = "record" /\ thread[r][i].batch # << >>
           /\ UNCHANGED <<deployment, now, key, loop, fires, seen, stops>>
           /\ store' \in StoreTypes /\ \A q \in Replica \ {r} : store'[q] = store[q]
           /\ \A s \in Schedule : \/ store'[r][s] = store[r][s]
                                  \/ /\ Live(r, s) /\ store'[r][s] \in ScheduleRecord
                                     /\ store'[r][s].next = store[r][s].next
           /\ \A s \in Schedule : IF Live(r, s) /\ s = thread[r][i].batch[1].s
                                  THEN Remembers(store'[r][s], store[r][s], thread[r][i].batch[1].id)
                                  ELSE store'[r][s] = store[r][s]
           /\ \E x \in ThreadRecord :
                 /\ Moves(r, i, x) /\ x.batch = Tail(thread[r][i].batch)
                 /\ x.at = (IF x.batch = << >> THEN "asleep" ELSE "fire") /\ Sleeps(x)
  <1> DEFINE b == thread[r][i].batch
             e == Head(b)
  <1>0. b \in Seq(Entry) /\ thread[r][i] \in ThreadRecord /\ store \in StoreTypes
    BY DEF BaseInv, TypeOK, ThreadRecord, StoreTypes
  <1>1. /\ thread[r][i].at = "record" /\ b # << >> /\ b[1].id \in Nat
        /\ UNCHANGED <<deployment, now, key, loop, fires, seen, stops>> /\ Proceed(r, i)
        /\ store' = IF Live(r, e.s)
                    THEN [store EXCEPT ![r][e.s].recent = Capped(Append(@, e.id))] ELSE store
    BY DEF RecordRun, BaseInv, BatchesFit
  <1>2. PICK a \in Entry : a = e /\ a.id \in Nat /\ a = b[1]
    <2>0. b # << >>
      BY <1>1
    <2>1. e \in Entry /\ e = b[1]
      BY <1>0, <2>0
    <2> QED BY <1>1, <2>1
  <1>3. a.s \in Schedule
    BY DEF Entry
  <1>4. /\ store' \in StoreTypes /\ \A q \in Replica \ {r} : store'[q] = store[q]
        /\ \A s \in Schedule : \/ store'[r][s] = store[r][s]
                               \/ /\ Live(r, s) /\ store'[r][s] \in ScheduleRecord
                                  /\ store'[r][s].next = store[r][s].next
        /\ \A s \in Schedule : IF Live(r, s) /\ s = a.s THEN Remembers(store'[r][s], store[r][s], a.id)
                               ELSE store'[r][s] = store[r][s]
    <2>1. CASE ~Live(r, a.s)
      BY <1>0, <1>1, <1>2, <2>1
    <2>2. CASE Live(r, a.s)
      <3>1. PICK old \in ScheduleRecord : old = store[r][a.s]
        BY <1>3, <2>2, LiveSchedule DEF BaseInv
      <3>2. PICK ids \in Seq(Nat) : ids = Append(old.recent, a.id)
        <4>1. old.recent \in Seq(Nat)
          BY DEF ScheduleRecord
        <4> QED BY <1>2, <4>1, AppendProperties
      <3>3. PICK capped \in Seq(Nat) : capped = Capped(ids)
        <4>1. CASE Len(ids) > MaxRecent
          <5>1. Len(ids) - MaxRecent + 1 \in 1 .. Len(ids) + 1
            BY <4>1, BoundsAssumption
          <5>2. SubSeq(ids, Len(ids) - MaxRecent + 1, Len(ids)) \in Seq(Nat)
            BY <5>1, SubSeqProperties
          <5> QED BY <4>1, <5>2 DEF Capped
        <4>2. CASE ~(Len(ids) > MaxRecent)
          BY <4>2 DEF Capped
        <4> QED BY <4>1, <4>2
      <3>4. PICK new \in ScheduleRecord : new = [old EXCEPT !.recent = capped] /\ new.next = old.next
        BY DEF ScheduleRecord
      <3>a. Remembers(new, old, a.id)
        BY <3>2, <3>3, <3>4 DEF ScheduleRecord, Remembers
      <3>5. store' = [store EXCEPT ![r][a.s] = new]
        <4>1. store' = [store EXCEPT ![r][a.s].recent = Capped(Append(@, a.id))]
          BY <1>1, <1>2, <2>2
        <4> QED BY <1>0, <3>1, <3>2, <3>3, <3>4, <4>1 DEF StoreTypes
      <3>6. /\ store' \in StoreTypes /\ store'[r][a.s] = new
            /\ \A q \in Replica \ {r} : store'[q] = store[q]
            /\ \A s \in Schedule \ {a.s} : store'[r][s] = store[r][s]
        BY <1>0, <1>3, <3>5 DEF StoreTypes
      <3> QED BY <2>2, <3>1, <3>4, <3>6, <3>a
    <2> QED BY <2>1, <2>2
  <1> QED BY ZenonT(40), <1>1, <1>2, <1>4, ProceedMoves DEF BaseInv

-----------------------------------------------------------------------------
(* Starts, stops and crashes of a loop. *)
ThreadTypes == [Replica -> [Worker -> ThreadRecord]]

LEMMA StartDoes ==
    ASSUME TypeOK, NEW r \in Replica, Start(r)
    PROVE  /\ ~loop[r].up /\ loop[r].stopping = "no" /\ thread[r][2].at = "off"
           /\ loop' \in LoopTypes /\ loop'[r].up /\ loop'[r].stopping = "no"
           /\ \A q \in Replica \ {r} : loop'[q] = loop[q] /\ thread'[q] = thread[q]
           /\ thread' \in ThreadTypes /\ thread'[r][2] = thread[r][1]
           /\ thread'[r][1].at = "ensure" /\ thread'[r][1].batch = << >>
           /\ seen' \in SeenTypes
           /\ UNCHANGED <<deployment, now, key, store, fires, stops>>
  <1>1. PICK x \in ThreadRecord : x = [Off EXCEPT !.at = "ensure"] /\ x.at = "ensure" /\ x.batch = << >>
    <2>1. << >> \in Seq(Entry)
      OBVIOUS
    <2>2. Off \in ThreadRecord
      BY <2>1 DEF Off, ThreadRecord
    <2>3. [Off EXCEPT !.at = "ensure"] \in ThreadRecord
      BY <2>2 DEF ThreadRecord
    <2>4. [Off EXCEPT !.at = "ensure"].at = "ensure" /\ [Off EXCEPT !.at = "ensure"].batch = << >>
      BY DEF Off
    <2> QED BY <2>3, <2>4
  <1>2. PICK y \in ThreadRecord : y = thread[r][1]
    BY DEF TypeOK, Worker
  <1>3. <<x, y>> \in [Worker -> ThreadRecord] /\ <<x, y>>[1] = x /\ <<x, y>>[2] = y
    BY DEF Worker
  <1>4. thread' = [thread EXCEPT ![r] = <<x, y>>]
    BY <1>1, <1>2 DEF Start
  <1>5. /\ thread' \in ThreadTypes /\ thread'[r] = <<x, y>>
        /\ \A q \in Replica \ {r} : thread'[q] = thread[q]
    BY <1>3, <1>4 DEF TypeOK, ThreadTypes
  <1>6. PICK l \in LoopRecord : l = [loop[r] EXCEPT !.up = TRUE, !.stop = FALSE]
    <2>1. loop[r] \in LoopRecord
      BY DEF TypeOK
    <2> QED BY <2>1 DEF LoopRecord
  <1>7. l.up /\ l.stopping = loop[r].stopping
    BY <1>6 DEF TypeOK, LoopRecord
  <1>8. loop' = [loop EXCEPT ![r] = l] /\ loop[r].stopping = "no"
    BY <1>6 DEF Start
  <1>9. /\ loop' \in LoopTypes /\ loop'[r] = l
        /\ \A q \in Replica \ {r} : loop'[q] = loop[q]
    BY <1>8 DEF TypeOK, LoopTypes
  <1>10. seen' \in SeenTypes
    BY DEF Start, TypeOK, SeenTypes
  <1>11. /\ ~loop[r].up /\ thread[r][2].at = "off"
         /\ UNCHANGED <<deployment, now, key, store, fires, stops>>
    BY DEF Start
  <1> QED BY ZenonT(40), <1>1, <1>2, <1>3, <1>5, <1>7, <1>8, <1>9, <1>10, <1>11

WindsDown(r) == Stop(r) \/ StopJoined(r) \/ ReleaseRead(r) \/ ReleaseDelete(r)

LEMMA WindsDownDoes ==
    ASSUME TypeOK, NEW r \in Replica, WindsDown(r)
    PROVE  /\ loop' \in LoopTypes /\ \A q \in Replica \ {r} : loop'[q] = loop[q]
           /\ \/ loop[r].stopping = "no" /\ loop'[r].stopping = "join" /\ loop'[r].up = loop[r].up /\ key' = key
              \/ /\ ~loop'[r].up /\ loop'[r].stopping = "release" /\ key' = key
                 /\ thread[r][1].at = "off" \/ deployment.pace = "slow"
              \/ /\ loop[r].stopping = "release" /\ loop'[r].up = loop[r].up /\ key' = key
                 /\ loop'[r].stopping = "no" \/ (loop'[r].stopping = "delete" /\ HoldsLease(r))
              \/ /\ loop[r].stopping = "delete" /\ loop'[r].up = loop[r].up
                 /\ loop'[r].stopping = "no" /\ (key' = key \/ key' = None)
           /\ seen' \in SeenTypes /\ stops' \in Nat
           /\ UNCHANGED <<deployment, now, thread, store, fires>>
  <1>0. loop \in LoopTypes /\ loop[r] \in LoopRecord /\ seen \in SeenTypes /\ stops \in Nat
    BY DEF TypeOK, LoopTypes, SeenTypes
  <1>1. CASE Stop(r)
    <2>1. PICK l \in LoopRecord : l = [loop[r] EXCEPT !.stop = TRUE, !.stopping = "join"]
      BY <1>0 DEF LoopRecord
    <2>2. l.stopping = "join" /\ l.up = loop[r].up
      BY <1>0, <2>1 DEF LoopRecord
    <2>3. loop' = [loop EXCEPT ![r] = l]
      BY <1>1, <2>1 DEF Stop
    <2>4. loop' \in LoopTypes /\ loop'[r] = l /\ \A q \in Replica \ {r} : loop'[q] = loop[q]
      BY <1>0, <2>3 DEF LoopTypes
    <2>5. seen' \in SeenTypes /\ stops' \in Nat
      BY <1>0, <1>1 DEF Stop, SeenTypes
    <2> QED BY <1>1, <2>2, <2>4, <2>5 DEF Stop
  <1>2. CASE StopJoined(r)
    <2>1. PICK l \in LoopRecord : l = [loop[r] EXCEPT !.up = FALSE, !.stopping = "release"]
      BY <1>0 DEF LoopRecord
    <2>2. l.stopping = "release" /\ ~l.up
      BY <1>0, <2>1 DEF LoopRecord
    <2>3. loop' = [loop EXCEPT ![r] = l]
      BY <1>2, <2>1 DEF StopJoined
    <2>4. loop' \in LoopTypes /\ loop'[r] = l /\ \A q \in Replica \ {r} : loop'[q] = loop[q]
      BY <1>0, <2>3 DEF LoopTypes
    <2> QED BY <1>0, <1>2, <2>2, <2>4 DEF StopJoined
  <1>3. ASSUME NEW p \in {"no", "delete"}, loop' = [loop EXCEPT ![r].stopping = p]
        PROVE  /\ loop' \in LoopTypes /\ \A q \in Replica \ {r} : loop'[q] = loop[q]
               /\ loop'[r].up = loop[r].up /\ loop'[r].stopping = p
    <2>1. PICK l \in LoopRecord : l = [loop[r] EXCEPT !.stopping = p]
      BY <1>0 DEF LoopRecord
    <2>2. l.stopping = p /\ l.up = loop[r].up
      BY <1>0, <2>1 DEF LoopRecord
    <2>3. loop' = [loop EXCEPT ![r] = l]
      BY <1>0, <1>3, <2>1 DEF LoopTypes
    <2> QED BY <1>0, <2>2, <2>3 DEF LoopTypes
  <1>4. CASE ReleaseRead(r)
    <2>1. /\ loop[r].stopping = "release"
          /\ UNCHANGED <<deployment, now, key, thread, store, fires, seen, stops>>
      BY <1>4 DEF ReleaseRead
    <2>2. PICK p \in {"no", "delete"} :
              loop' = [loop EXCEPT ![r].stopping = p] /\ (p = "delete" => HoldsLease(r))
      <3>1. PICK ok \in BOOLEAN :
              loop' = [loop EXCEPT ![r].stopping =
                  IF ok /\ HoldsLease(r) /\ deployment.redis # "none" THEN "delete" ELSE "no"]
        BY <1>4 DEF ReleaseRead
      <3>2. CASE ok /\ HoldsLease(r) /\ deployment.redis # "none"
        BY <3>1, <3>2
      <3>3. CASE ~(ok /\ HoldsLease(r) /\ deployment.redis # "none")
        BY <3>1, <3>3
      <3> QED BY <3>2, <3>3
    <2> QED BY <1>0, <1>3, <2>1, <2>2
  <1>5. CASE ReleaseDelete(r)
    <2>1. /\ loop[r].stopping = "delete" /\ loop' = [loop EXCEPT ![r].stopping = "no"]
          /\ UNCHANGED <<deployment, now, thread, store, fires, seen, stops>>
          /\ key' = key \/ key' = None
      BY <1>5 DEF ReleaseDelete
    <2> QED BY <1>0, <1>3, <2>1
  <1> QED BY <1>1, <1>2, <1>4, <1>5 DEF WindsDown

LEMMA CrashDoes ==
    ASSUME TypeOK, NEW r \in Replica, Crash(r)
    PROVE  /\ loop' \in LoopTypes /\ loop'[r].stopping = "no"
           /\ \A q \in Replica \ {r} : loop'[q] = loop[q] /\ thread'[q] = thread[q] /\ store'[q] = store[q]
           /\ thread' \in ThreadTypes
           /\ \A i \in Worker : thread'[r][i].at = "off" /\ thread'[r][i].batch = << >>
           /\ store' \in StoreTypes
           /\ \A s \in Schedule : store'[r][s] = IF store[r][s] = None THEN None ELSE Gone
           /\ seen' \in SeenTypes /\ stops' \in Nat
           /\ UNCHANGED <<deployment, now, key, fires>>
  <1>1. Off \in ThreadRecord /\ Off.at = "off" /\ Off.batch = << >>
    <2>1. << >> \in Seq(Entry)
      OBVIOUS
    <2> QED BY <2>1 DEF Off, ThreadRecord
  <1>2. [i \in Worker |-> Off] \in [Worker -> ThreadRecord]
    BY <1>1
  <1>3. thread' = [thread EXCEPT ![r] = [i \in Worker |-> Off]]
    BY DEF Crash
  <1>4. /\ thread' \in ThreadTypes /\ thread'[r] = [i \in Worker |-> Off]
        /\ \A q \in Replica \ {r} : thread'[q] = thread[q]
    BY <1>2, <1>3 DEF TypeOK, ThreadTypes
  <1>5. Stopped \in LoopRecord /\ Stopped.stopping = "no"
    BY DEF Stopped, LoopRecord, RenewEvery
  <1>6. loop' = [loop EXCEPT ![r] = Stopped]
    BY DEF Crash
  <1>7. loop' \in LoopTypes /\ loop'[r] = Stopped /\ \A q \in Replica \ {r} : loop'[q] = loop[q]
    BY <1>5, <1>6 DEF TypeOK, LoopTypes
  <1>8. store' = [store EXCEPT ![r] = [s \in Schedule |-> IF store[r][s] = None THEN None ELSE Gone]]
    BY DEF Crash
  <1>9. /\ store' \in StoreTypes /\ \A q \in Replica \ {r} : store'[q] = store[q]
        /\ \A s \in Schedule : store'[r][s] = IF store[r][s] = None THEN None ELSE Gone
    BY <1>8 DEF TypeOK, StoreTypes
  <1>10. seen' \in SeenTypes /\ stops' \in Nat
    <2>1. seen \in SeenTypes /\ stops \in Nat
      BY DEF TypeOK, SeenTypes
    <2>2. stops' = stops + 1 /\ seen' = [seen EXCEPT !.since[r] = None]
      BY DEF Crash
    <2> QED BY <2>1, <2>2 DEF SeenTypes
  <1> QED BY <1>1, <1>4, <1>5, <1>7, <1>9, <1>10 DEF Crash

(* Schedules that come and go. *)
LEMMA CreateDoes ==
    ASSUME TypeOK, NEW r \in Replica, NEW s \in Schedule, NEW pieces \in Crons, Create(r, s, pieces)
    PROVE  /\ store[r][s] = None /\ store' \in StoreTypes /\ store'[r][s] \in ScheduleRecord
           /\ \A q \in Replica \ {r} : store'[q] = store[q]
           /\ \A t \in Schedule \ {s} : store'[r][t] = store[r][t]
           /\ store'[r][s].recent = << >> /\ store'[r][s].created = now
           /\ store'[r][s].next = NextFireAfter(store'[r][s].minutes, now)
           /\ NextFireAfter(store'[r][s].minutes, now) # None
           /\ UNCHANGED <<deployment, now, key, loop, thread, fires, seen, stops>>
  <1> DEFINE m == ParseField(pieces, 0, Cycle - 1)
             known == {q \in Schedule : store[r][q] # None}
  <1>1. /\ store[r][s] = None /\ m # None /\ NextFireAfter(m, now) # None
        /\ store' = [store EXCEPT ![r][s] = [minutes |-> m, recent |-> << >>, created |-> now,
                                             number |-> Cardinality(known) + 1,
                                             next |-> NextFireAfter(m, now)]]
        /\ UNCHANGED <<deployment, now, key, loop, thread, fires, seen, stops>>
    BY DEF Create
  <1>2. m \in (SUBSET (0 .. Cycle - 1)) \ {{}}
    BY <1>1, Accepted
  <1>3. NextFireAfter(m, now) \in Nat /\ now \in Time
    BY <1>1, Settings, NextFires DEF TypeOK
  <1>4. << >> \in Seq(Nat) /\ Cardinality(known) + 1 \in Nat
    <2>1. IsFiniteSet(known)
      BY BoundsAssumption, FS_Subset
    <2> QED BY <2>1, FS_CardinalityType
  <1>5. PICK new \in ScheduleRecord : new = [minutes |-> m, recent |-> << >>, created |-> now,
                                             number |-> Cardinality(known) + 1,
                                             next |-> NextFireAfter(m, now)]
    BY <1>2, <1>3, <1>4 DEF ScheduleRecord
  <1>6. store' = [store EXCEPT ![r][s] = new]
    BY <1>1, <1>5
  <1>7. new.recent = << >> /\ new.created = now /\ new.next = NextFireAfter(new.minutes, now)
        /\ NextFireAfter(new.minutes, now) # None
    BY <1>1, <1>5
  <1> QED BY <1>1, <1>6, <1>7 DEF TypeOK, StoreTypes

LEMMA DeleteDoes ==
    ASSUME TypeOK, NEW r \in Replica, NEW s \in Schedule, Delete(r, s)
    PROVE  /\ store' \in StoreTypes /\ store'[r][s] = Gone /\ store[r][s] # None
           /\ \A q \in Replica \ {r} : store'[q] = store[q]
           /\ \A t \in Schedule \ {s} : store'[r][t] = store[r][t]
           /\ UNCHANGED <<deployment, now, key, loop, thread, fires, seen, stops>>
  BY DEF Delete, Live, TypeOK, StoreTypes

LEMMA PassDoes ==
    ASSUME TypeOK, Pass
    PROVE  /\ now' = now + 1 /\ now' \in Time
           /\ key' = key \/ key' = None
           /\ UNCHANGED <<deployment, loop, thread, store, fires, seen, stops>>
  <1>1. now + 1 \in Time
    BY Settings, BoundsAssumption DEF Pass, Time
  <1> QED BY <1>1 DEF Pass

LEMMA NextCases ==
    ASSUME [Next]_vars
    PROVE  \/ Pass
           \/ \E r \in Replica : Start(r) \/ WindsDown(r) \/ Crash(r)
           \/ \E r \in Replica, i \in Worker :
                  Between(r, i) \/ TickDue(r, i) \/ Fire(r, i) \/ RecordRun(r, i)
           \/ \E r \in Replica, s \in Schedule : Delete(r, s) \/ \E c \in Crons : Create(r, s, c)
           \/ UNCHANGED vars
  BY DEF Next, Run, Between, WindsDown

-----------------------------------------------------------------------------
(* The types, and the batches with them. *)
LEMMA InitBase == Init => BaseInv
  <1> SUFFICES ASSUME Init PROVE BaseInv
    OBVIOUS
  <1>1. Off \in ThreadRecord /\ Off.at = "off" /\ Off.batch = << >>
    <2>1. << >> \in Seq(Entry)
      OBVIOUS
    <2> QED BY <2>1 DEF Off, ThreadRecord
  <1>2. thread \in ThreadTypes /\ \A r \in Replica, i \in Worker : thread[r][i] = Off
    BY <1>1 DEF Init, ThreadTypes
  <1>3. loop \in LoopTypes
    BY DEF Init, LoopTypes, Stopped, LoopRecord, RenewEvery
  <1>4. fires \in FireTypes /\ store \in StoreTypes
    <2>1. << >> \in Seq(Firing)
      OBVIOUS
    <2> QED BY <2>1 DEF Init, FireTypes, StoreTypes
  <1>5. now \in Time /\ key \in LeaseRecord \cup {None} /\ stops \in Nat /\ deployment \in Deployments
    BY BoundsAssumption DEF Init, Time
  <1>6. seen \in SeenTypes
    BY BoundsAssumption DEF Init, SeenTypes, Time
  <1>7. TypeOK
    BY <1>2, <1>3, <1>4, <1>5, <1>6 DEF TypeOK, ThreadTypes, LoopTypes, FireTypes, StoreTypes, SeenTypes
  <1>8. BatchesFit
    BY <1>1, <1>2 DEF BatchesFit
  <1> QED BY <1>7, <1>8 DEF BaseInv

LEMMA LeaseType == ASSUME TypeOK, NEW r \in Replica PROVE Lease(r) \in LeaseRecord
  BY Settings DEF Lease, LeaseRecord

(* The step of one thread, x being what becomes of it. *)
LEMMA MovedBatches ==
    ASSUME BaseInv, NEW r \in Replica, NEW i \in Worker, NEW x \in ThreadRecord, Moves(r, i, x),
           (x.batch = << >>) <=> (x.at \notin {"fire", "record"}),
           x.at = "record" => x.batch[1].id \in Nat
    PROVE  thread' \in ThreadTypes /\ BatchesFit'
  <1>1. ASSUME NEW q \in Replica, NEW k \in Worker PROVE thread'[q][k] = thread[q][k] \/ thread'[q][k] = x
    BY DEF Moves
  <1> QED BY <1>1 DEF BatchesFit, BaseInv, Moves, ThreadTypes

LEMMA SameDeployment == ASSUME BaseInv, [Next]_vars PROVE deployment' = deployment
  <1>1. ASSUME NEW r \in Replica, NEW i \in Worker, Between(r, i) \/ TickDue(r, i) \/ Fire(r, i) \/ RecordRun(r, i)
        PROVE  deployment' = deployment
    BY <1>1, BetweenDoes, TickDoes, FireDoes, RecordDoes DEF BaseInv
  <1>2. ASSUME NEW r \in Replica, Start(r) \/ WindsDown(r) \/ Crash(r) PROVE deployment' = deployment
    BY <1>2, StartDoes, WindsDownDoes, CrashDoes DEF BaseInv
  <1>3. ASSUME NEW r \in Replica, NEW s \in Schedule, Delete(r, s) \/ \E c \in Crons : Create(r, s, c)
        PROVE  deployment' = deployment
    BY <1>3 DEF Delete, Create
  <1> QED BY <1>1, <1>2, <1>3, NextCases DEF Pass, vars

LEMMA BaseStep == BaseInv /\ [Next]_vars => BaseInv'
  <1> SUFFICES ASSUME BaseInv, [Next]_vars PROVE BaseInv'
    OBVIOUS
  <1> USE DEF TypeOK, ThreadTypes, LoopTypes, FireTypes, StoreTypes, SeenTypes
  <1>0. TypeOK
    BY DEF BaseInv
  <1>1. CASE Pass
    BY <1>0, <1>1, PassDoes DEF BaseInv, BatchesFit
  <1>2. ASSUME NEW r \in Replica, Start(r) PROVE BaseInv'
    <2>1. TypeOK'
      BY <1>0, <1>2, StartDoes
    <2>2. BatchesFit'
      <3>1. ASSUME NEW q \in Replica, NEW k \in Worker
            PROVE  \/ thread'[q][k] = thread[q][k]
                   \/ q = r /\ k = 1 /\ thread'[q][k].at = "ensure" /\ thread'[q][k].batch = << >>
                   \/ q = r /\ k = 2 /\ thread'[q][k] = thread[r][1]
        BY <1>0, <1>2, StartDoes DEF Worker
      <3>2. ASSUME NEW q \in Replica, NEW k \in Worker
            PROVE  /\ (thread'[q][k].batch = << >>) <=> (thread'[q][k].at \notin {"fire", "record"})
                   /\ thread'[q][k].at = "record" => thread'[q][k].batch[1].id \in Nat
        <4>1. 1 \in Worker
          BY DEF Worker
        <4>2. CASE thread'[q][k] = thread[q][k]
          BY <4>2 DEF BatchesFit, BaseInv
        <4>3. CASE thread'[q][k].at = "ensure" /\ thread'[q][k].batch = << >>
          BY <4>3
        <4>4. CASE thread'[q][k] = thread[r][1]
          BY <4>1, <4>4 DEF BatchesFit, BaseInv
        <4> QED BY <3>1, <4>2, <4>3, <4>4
      <3> QED BY <3>2 DEF BatchesFit
    <2> QED BY <2>1, <2>2 DEF BaseInv
  <1>3. ASSUME NEW r \in Replica, WindsDown(r) PROVE BaseInv'
    <2>1. TypeOK'
      BY <1>0, <1>3, WindsDownDoes
    <2>2. BatchesFit'
      BY <1>0, <1>3, WindsDownDoes DEF BaseInv, BatchesFit
    <2> QED BY <2>1, <2>2 DEF BaseInv
  <1>4. ASSUME NEW r \in Replica, Crash(r) PROVE BaseInv'
    <2>1. TypeOK'
      BY <1>0, <1>4, CrashDoes
    <2>2. BatchesFit'
      <3>1. ASSUME NEW q \in Replica, NEW k \in Worker
            PROVE  \/ thread'[q][k] = thread[q][k]
                   \/ thread'[q][k].at = "off" /\ thread'[q][k].batch = << >>
        BY <1>0, <1>4, CrashDoes
      <3>2. ASSUME NEW q \in Replica, NEW k \in Worker
            PROVE  /\ (thread'[q][k].batch = << >>) <=> (thread'[q][k].at \notin {"fire", "record"})
                   /\ thread'[q][k].at = "record" => thread'[q][k].batch[1].id \in Nat
        <4>1. CASE thread'[q][k] = thread[q][k]
          BY <4>1 DEF BatchesFit, BaseInv
        <4>2. CASE thread'[q][k].at = "off" /\ thread'[q][k].batch = << >>
          BY <4>2
        <4> QED BY <3>1, <4>1, <4>2
      <3> QED BY <3>2 DEF BatchesFit
    <2> QED BY <2>1, <2>2 DEF BaseInv
  <1>5. ASSUME NEW r \in Replica, NEW i \in Worker, Between(r, i) PROVE BaseInv'
    <2>1. PICK x \in ThreadRecord :
               /\ Moves(r, i, x) /\ Earns(r, i, x)
               /\ x.batch = thread[r][i].batch \/ x.batch = << >>
               /\ x.at \notin {"fire", "record"}
               /\ thread[r][i].at \notin {"off", "tick", "fire", "record"}
      BY <1>0, <1>5, BetweenDoes
    <2>2. /\ loop' \in LoopTypes /\ seen' \in SeenTypes
          /\ UNCHANGED <<deployment, now, store, fires, stops>>
      BY <1>0, <1>5, BetweenDoes
    <2>3. x.batch = << >>
      BY <2>1 DEF BaseInv, BatchesFit
    <2>4. thread' \in ThreadTypes /\ BatchesFit'
      BY <2>1, <2>3, MovedBatches
    <2>5. key' \in LeaseRecord \cup {None}
      BY <1>0, <2>1, LeaseType DEF Earns
    <2> QED BY <1>0, <2>2, <2>4, <2>5 DEF BaseInv
  <1>6. ASSUME NEW r \in Replica, NEW i \in Worker, TickDue(r, i) PROVE BaseInv'
    <2>1. PICK x \in ThreadRecord : Moves(r, i, x) /\ x.at = IF x.batch = << >> THEN "asleep" ELSE "fire"
      BY <1>0, <1>6, TickDoes
    <2>2. thread' \in ThreadTypes /\ BatchesFit'
      BY <2>1, MovedBatches
    <2>3. store' \in StoreTypes /\ seen' \in SeenTypes /\ UNCHANGED <<deployment, now, key, loop, fires, stops>>
      BY <1>0, <1>6, TickDoes
    <2> QED BY <1>0, <2>2, <2>3 DEF BaseInv
  <1>7. ASSUME NEW r \in Replica, NEW i \in Worker, Fire(r, i) PROVE BaseInv'
    <2>1. PICK x \in ThreadRecord : Moves(r, i, x) /\ (Skips(r, i, x) \/ Creates(r, i, x))
      BY <1>7, FireDoes
    <2>2. thread' \in ThreadTypes /\ BatchesFit'
      BY <2>1, MovedBatches DEF Skips, Creates
    <2>3. fires' \in FireTypes /\ UNCHANGED <<deployment, now, key, loop, store, seen, stops>>
      BY <1>7, FireDoes
    <2> QED BY <1>0, <2>2, <2>3 DEF BaseInv
  <1>8. ASSUME NEW r \in Replica, NEW i \in Worker, RecordRun(r, i) PROVE BaseInv'
    <2>1. PICK x \in ThreadRecord : Moves(r, i, x) /\ x.at = IF x.batch = << >> THEN "asleep" ELSE "fire"
      BY <1>8, RecordDoes
    <2>2. thread' \in ThreadTypes /\ BatchesFit'
      BY <2>1, MovedBatches
    <2>3. store' \in StoreTypes /\ UNCHANGED <<deployment, now, key, loop, fires, seen, stops>>
      BY <1>8, RecordDoes
    <2> QED BY <1>0, <2>2, <2>3 DEF BaseInv
  <1>9. ASSUME NEW r \in Replica, NEW s \in Schedule, NEW c \in Crons, Create(r, s, c) PROVE BaseInv'
    <2>1. TypeOK'
      BY <1>0, <1>9, CreateDoes
    <2>2. BatchesFit'
      BY <1>0, <1>9, CreateDoes DEF BaseInv, BatchesFit
    <2> QED BY <2>1, <2>2 DEF BaseInv
  <1>10. ASSUME NEW r \in Replica, NEW s \in Schedule, Delete(r, s) PROVE BaseInv'
    <2>1. TypeOK'
      BY <1>0, <1>10, DeleteDoes
    <2>2. BatchesFit'
      BY <1>0, <1>10, DeleteDoes DEF BaseInv, BatchesFit
    <2> QED BY <2>1, <2>2 DEF BaseInv
  <1>11. CASE UNCHANGED vars
    BY <1>0, <1>11 DEF BaseInv, BatchesFit, vars
  <1> QED BY <1>1, <1>2, <1>3, <1>4, <1>5, <1>6, <1>7, <1>8, <1>9, <1>10, <1>11, NextCases

(* The types of the lease, the loops and their threads, the schedules and  *)
(* the logs, however the loops start, stop, crash and lose Redis.          *)
THEOREM TypeCorrect == Spec => []TypeOK
  <1>1. BaseInv => TypeOK
    BY DEF BaseInv
  <1> QED BY <1>1, InitBase, BaseStep, PTL DEF Spec

-----------------------------------------------------------------------------
(* One replica ticks.  No lease lapses under its holder's work, and the    *)
(* loops found Redis when they were built.  A loop then has one thread;    *)
(* a thread that is about to tick, that ticks or renews, and a stop that   *)
(* is about to delete the key, are those of the lease's holder.            *)
Leased == deployment.pace # "slow" /\ deployment.redis # "none"

OneThread == \A r \in Replica : /\ thread[r][2].at = "off"
                                /\ ~loop[r].up => thread[r][1].at = "off"
                                /\ loop[r].stopping \in {"release", "delete"} => ~loop[r].up
WorkHoldsLease == \A r \in Replica :
    thread[r][1].at \in NeedsLease \/ loop[r].stopping = "delete" => HoldsLease(r)

LeaseInv == BaseInv /\ (Leased => OneThread /\ WorkHoldsLease)

LEMMA InitLease == Init => LeaseInv
  <1>1. Init => OneThread /\ WorkHoldsLease
    BY DEF Init, OneThread, WorkHoldsLease, Off, Stopped, NeedsLease, Worker
  <1> QED BY <1>1, InitBase DEF LeaseInv

LEMMA HeldLease == ASSUME TypeOK, NEW r \in Replica, key' = Lease(r) PROVE HoldsLease(r)'
  BY LeaseType, NoneAssumption DEF HoldsLease, Lease

(* A step of thread 1 of r that keeps to the lease. *)
LEMMA WorkerKeepsLease ==
    ASSUME LeaseInv, Leased, NEW r \in Replica, NEW i \in Worker, NEW x \in ThreadRecord,
           Moves(r, i, x), Earns(r, i, x), thread[r][i].at # "off", SameStops
    PROVE  OneThread' /\ WorkHoldsLease'
  <1>0. OneThread /\ WorkHoldsLease /\ TypeOK
    BY DEF LeaseInv, BaseInv
  <1>1. i = 1 /\ loop[r].up
    BY <1>0 DEF OneThread, Worker
  <1>2. OneThread'
    BY <1>0, <1>1 DEF OneThread, Moves, SameStops, Worker
  <1>3. CASE key' = key
    <2>1. \A q \in Replica : HoldsLease(q)' <=> HoldsLease(q)
      BY <1>3 DEF HoldsLease
    <2>2. x.at \in NeedsLease => HoldsLease(r)'
      BY <2>1, <1>0, <1>3, HeldLease DEF Earns, Leased
    <2>3. WorkHoldsLease'
      BY <1>0, <1>1, <2>1, <2>2 DEF WorkHoldsLease, Moves, SameStops, Worker
    <2> QED BY <1>2, <2>3
  <1>4. CASE key' = Lease(r) /\ (thread[r][i].at = "set" \/ key = None)
    <2>1. HoldsLease(r)'
      BY <1>0, <1>4, HeldLease
    <2>2. ASSUME NEW q \in Replica, q # r PROVE ~HoldsLease(q)
      BY <1>0, <1>1, <1>4, <2>2 DEF WorkHoldsLease, HoldsLease, NeedsLease
    <2>3. WorkHoldsLease'
      BY <1>0, <2>1, <2>2 DEF WorkHoldsLease, Moves, SameStops
    <2> QED BY <1>2, <2>3
  <1> QED BY <1>3, <1>4 DEF Earns

(* A step of a thread that already holds the lease.                        *)
LEMMA HolderKeepsLease ==
    ASSUME LeaseInv, Leased, NEW r \in Replica, NEW i \in Worker, NEW x \in ThreadRecord,
           Moves(r, i, x), thread[r][i].at \in NeedsLease, UNCHANGED <<key, loop>>
    PROVE  OneThread' /\ WorkHoldsLease'
  <1>1. i = 1
    BY DEF LeaseInv, OneThread, Worker, NeedsLease
  <1>2. HoldsLease(r)
    BY <1>1 DEF LeaseInv, WorkHoldsLease
  <1>3. Earns(r, i, x) /\ SameStops /\ thread[r][i].at # "off"
    BY <1>2 DEF Earns, SameStops, NeedsLease
  <1> QED BY <1>3, WorkerKeepsLease

LEMMA LeaseStep == LeaseInv /\ [Next]_vars => LeaseInv'
  <1> SUFFICES ASSUME LeaseInv, [Next]_vars PROVE LeaseInv'
    OBVIOUS
  <1>0. BaseInv /\ TypeOK /\ BaseInv'
    BY BaseStep DEF LeaseInv, BaseInv
  <1>s. Leased' => Leased
    BY <1>0, SameDeployment DEF Leased
  <1> SUFFICES ASSUME Leased PROVE OneThread' /\ WorkHoldsLease'
    BY <1>0, <1>s DEF LeaseInv
  <1>a. OneThread /\ WorkHoldsLease
    BY DEF LeaseInv
  <1>1. CASE Pass
    <2>1. UNCHANGED <<thread, loop>> /\ now' = now + 1
      BY <1>0, <1>1, PassDoes
    <2>2. OneThread'
      BY <1>a, <2>1 DEF OneThread
    <2>3. CASE key' = key
      BY <1>a, <2>1, <2>2, <2>3 DEF WorkHoldsLease, HoldsLease
    <2>4. CASE key' # key
      <3>1. key # None /\ key.until <= now + 1 /\ Pace
        BY <1>1, <2>4 DEF Pass
      <3>2. key.holder \in Replica
        BY <1>0, <3>1 DEF TypeOK, LeaseRecord
      <3>3. deployment.pace \in {"prompt", "timely"}
        BY <1>0, DeploymentsAssumption DEF Leased, TypeOK
      <3>4. \A i \in Worker : ~Busy(key.holder, i) /\ loop[key.holder].stopping = "no"
        <4>1. CASE deployment.pace = "prompt"
          BY <3>1, <3>2, <4>1 DEF Pace
        <4>2. CASE deployment.pace = "timely"
          BY <3>1, <3>2, <4>2 DEF Pace
        <4> QED BY <3>3, <4>1, <4>2
      <3>5. \A r \in Replica : ~(thread[r][1].at \in NeedsLease \/ loop[r].stopping = "delete")
        BY <1>a, <3>4 DEF WorkHoldsLease, HoldsLease, Busy, NeedsLease, Worker
      <3>6. WorkHoldsLease'
        BY <2>1, <3>5 DEF WorkHoldsLease
      <3> QED BY <2>2, <3>6
    <2> QED BY <2>3, <2>4
  <1>2. ASSUME NEW r \in Replica, Start(r) PROVE OneThread' /\ WorkHoldsLease'
    <2>1. thread[r][1].at = "off"
      BY <1>0, <1>2, <1>a, StartDoes DEF OneThread
    <2>2. OneThread'
      BY <1>0, <1>2, <1>a, <2>1, StartDoes DEF OneThread
    <2>3. WorkHoldsLease'
      BY <1>0, <1>2, <1>a, StartDoes DEF WorkHoldsLease, HoldsLease, NeedsLease
    <2> QED BY <2>2, <2>3
  <1>3. ASSUME NEW r \in Replica, WindsDown(r) PROVE OneThread' /\ WorkHoldsLease'
    <2>0. thread' = thread /\ \A q \in Replica \ {r} : loop'[q] = loop[q]
      BY <1>0, <1>3, WindsDownDoes
    <2>1. CASE loop[r].stopping = "no" /\ loop'[r].stopping = "join" /\ loop'[r].up = loop[r].up /\ key' = key
      <3>1. OneThread'
        BY <1>a, <2>0, <2>1 DEF OneThread
      <3>2. WorkHoldsLease'
        BY <1>a, <2>0, <2>1 DEF WorkHoldsLease, HoldsLease
      <3> QED BY <3>1, <3>2
    <2>2. CASE ~loop'[r].up /\ loop'[r].stopping = "release" /\ key' = key /\ thread[r][1].at = "off"
      <3>1. OneThread'
        BY <1>a, <2>0, <2>2 DEF OneThread
      <3>2. WorkHoldsLease'
        BY <1>a, <2>0, <2>2 DEF WorkHoldsLease, HoldsLease
      <3> QED BY <3>1, <3>2
    <2>3. CASE /\ loop[r].stopping = "release" /\ loop'[r].up = loop[r].up /\ key' = key
               /\ loop'[r].stopping = "no" \/ (loop'[r].stopping = "delete" /\ HoldsLease(r))
      <3>1. OneThread'
        BY <1>a, <2>0, <2>3 DEF OneThread
      <3>2. WorkHoldsLease'
        BY <1>a, <2>0, <2>3 DEF WorkHoldsLease, HoldsLease
      <3> QED BY <3>1, <3>2
    <2>4. CASE /\ loop[r].stopping = "delete" /\ loop'[r].up = loop[r].up
               /\ loop'[r].stopping = "no" /\ (key' = key \/ key' = None)
      <3>1. OneThread'
        BY <1>a, <2>0, <2>4 DEF OneThread
      <3>2. HoldsLease(r) /\ thread[r][1].at = "off"
        BY <1>a, <2>4 DEF OneThread, WorkHoldsLease
      <3>3. \A q \in Replica \ {r} : ~HoldsLease(q)
        BY <3>2 DEF HoldsLease
      <3>4. WorkHoldsLease'
        BY <1>a, <2>0, <2>4, <3>2, <3>3 DEF WorkHoldsLease, NeedsLease
      <3> QED BY <3>1, <3>4
    <2> QED BY <1>0, <1>3, <2>1, <2>2, <2>3, <2>4, WindsDownDoes DEF Leased
  <1>4. ASSUME NEW r \in Replica, Crash(r) PROVE OneThread' /\ WorkHoldsLease'
    <2>1. OneThread'
      BY <1>0, <1>4, <1>a, CrashDoes DEF OneThread, Worker
    <2>2. WorkHoldsLease'
      BY <1>0, <1>4, <1>a, CrashDoes DEF WorkHoldsLease, HoldsLease, NeedsLease, Worker
    <2> QED BY <2>1, <2>2
  <1>5. ASSUME NEW r \in Replica, NEW i \in Worker, Between(r, i) PROVE OneThread' /\ WorkHoldsLease'
    BY <1>0, <1>5, BetweenDoes, WorkerKeepsLease
  <1>6. ASSUME NEW r \in Replica, NEW i \in Worker, TickDue(r, i) \/ Fire(r, i) \/ RecordRun(r, i)
        PROVE  OneThread' /\ WorkHoldsLease'
    <2>1. thread[r][i].at \in NeedsLease /\ UNCHANGED <<key, loop>>
      BY <1>6 DEF TickDue, Fire, RecordRun, NeedsLease
    <2>2. PICK x \in ThreadRecord : Moves(r, i, x)
      <3>1. CASE TickDue(r, i)
        BY <1>0, <3>1, TickDoes
      <3>2. CASE Fire(r, i)
        BY <1>0, <3>2, FireDoes
      <3>3. CASE RecordRun(r, i)
        BY <1>0, <3>3, RecordDoes
      <3> QED BY <1>6, <3>1, <3>2, <3>3
    <2> QED BY <2>1, <2>2, HolderKeepsLease
  <1>7. ASSUME UNCHANGED <<key, loop, thread>> PROVE OneThread' /\ WorkHoldsLease'
    BY <1>7, <1>a DEF OneThread, WorkHoldsLease, HoldsLease
  <1>8. ASSUME NEW r \in Replica, NEW s \in Schedule, Delete(r, s) \/ \E c \in Crons : Create(r, s, c)
        PROVE  OneThread' /\ WorkHoldsLease'
    BY <1>7, <1>8 DEF Delete, Create
  <1>9. CASE UNCHANGED vars
    BY <1>7, <1>9 DEF vars
  <1> QED BY <1>1, <1>2, <1>3, <1>4, <1>5, <1>6, <1>8, <1>9, NextCases

THEOREM LeaseInvariant == Spec => []LeaseInv
  <1> QED BY InitLease, LeaseStep, PTL DEF Spec

(* While no lease lapses under its holder's work, no two replicas tick,    *)
(* for any number of replicas, any lease and any interval, through stops,  *)
(* crashes and calls to Redis that fail (leader.py and loop.py).           *)
THEOREM OneTicks == Spec => []OneReplicaTicks
  <1>1. LeaseInv => OneReplicaTicks
    <2> SUFFICES ASSUME LeaseInv, Leased PROVE Cardinality({r \in Replica : Ticking(r)}) <= 1
      BY DEF OneReplicaTicks, Leased
    <2>1. ASSUME NEW r \in Replica, Ticking(r) PROVE HoldsLease(r)
      BY <2>1 DEF LeaseInv, OneThread, WorkHoldsLease, Ticking, NeedsLease, Worker
    <2>2. ASSUME NEW r \in Replica, NEW q \in Replica, Ticking(r), Ticking(q) PROVE r = q
      BY <2>1, <2>2 DEF HoldsLease
    <2>3. CASE \A r \in Replica : ~Ticking(r)
      <3>1. {r \in Replica : Ticking(r)} = {}
        BY <2>3
      <3> QED BY <3>1, FS_EmptySet
    <2>4. CASE \E r \in Replica : Ticking(r)
      <3>1. PICK r \in Replica : Ticking(r)
        BY <2>4
      <3>2. {q \in Replica : Ticking(q)} = {r}
        BY <2>2, <3>1
      <3>3. Cardinality({r}) = 1
        BY FS_Singleton
      <3> QED BY <3>2, <3>3
    <2> QED BY <2>3, <2>4
  <1> QED BY <1>1, LeaseInvariant, PTL

-----------------------------------------------------------------------------
(* Each slot once.  The entries of a batch that have yet to fire: while    *)
(* the first is recorded it has fired already.                             *)
Pending(x) == {j \in DOMAIN x.batch : j > 1 \/ x.at # "record"}

(* What has fired, and what is about to, was due before the time a         *)
(* schedule is due next; nothing is known of schedules not created yet.    *)
SlotsArePast == \A r \in Replica, s \in Schedule :
    /\ Live(r, s) => \A k \in DOMAIN fires[r][s] : fires[r][s][k].slot < store[r][s].next
    /\ store[r][s] = None => fires[r][s] = << >>

EntryIsPast(r, i, j) ==
    LET e == thread[r][i].batch[j]
    IN  /\ Live(r, e.s) => e.slot < store[r][e.s].next
        /\ store[r][e.s] # None
        /\ j \in Pending(thread[r][i]) =>
               \A k \in DOMAIN fires[r][e.s] : fires[r][e.s][k].slot # e.slot

EntriesArePast ==
    \A r \in Replica, i \in Worker : \A j \in DOMAIN thread[r][i].batch : EntryIsPast(r, i, j)

(* No two threads of a replica, and no two entries of a batch, are about   *)
(* to fire the same slot.                                                  *)
SameSlot(b, j, c, l) == b[j].s = c[l].s /\ b[j].slot = c[l].slot
EntriesDiffer == \A r \in Replica, i, k \in Worker :
    \A j \in DOMAIN thread[r][i].batch, l \in DOMAIN thread[r][k].batch :
        SameSlot(thread[r][i].batch, j, thread[r][k].batch, l) => i = k /\ j = l

SlotInv == BaseInv /\ EachSlotOnce /\ SlotsArePast /\ EntriesArePast /\ EntriesDiffer

LEMMA EntryType ==
    ASSUME TypeOK, NEW r \in Replica, NEW i \in Worker, NEW j \in DOMAIN thread[r][i].batch
    PROVE  /\ thread[r][i].batch \in Seq(Entry) /\ thread[r][i].batch[j] \in Entry /\ j \in Nat \ {0}
           /\ thread[r][i].batch[j].s \in Schedule /\ thread[r][i].batch[j].slot \in Nat
  <1>1. thread[r][i].batch \in Seq(Entry)
    BY DEF TypeOK, ThreadRecord
  <1>2. thread[r][i].batch[j] \in Entry /\ j \in Nat \ {0}
    BY <1>1
  <1> QED BY <1>1, <1>2 DEF Entry

LEMMA FiredType ==
    ASSUME TypeOK, NEW r \in Replica, NEW s \in Schedule, NEW k \in DOMAIN fires[r][s]
    PROVE  fires[r][s] \in Seq(Firing) /\ fires[r][s][k].slot \in Nat
  <1>1. fires[r][s] \in Seq(Firing)
    BY DEF TypeOK
  <1>2. fires[r][s][k] \in Firing
    BY <1>1
  <1> QED BY <1>1, <1>2 DEF Firing

LEMMA NextTypes ==
    ASSUME BaseInv', NEW q \in Replica
    PROVE  /\ \A i \in Worker : \A j \in DOMAIN thread'[q][i].batch : j \in Nat \ {0}
           /\ \A s \in Schedule : Live(q, s)' => store'[q][s] \in ScheduleRecord /\ store'[q][s].next \in Nat
  <1>1. ASSUME NEW i \in Worker, NEW j \in DOMAIN thread'[q][i].batch PROVE j \in Nat \ {0}
    <2>1. thread'[q][i].batch \in Seq(Entry)
      BY DEF BaseInv, TypeOK, ThreadRecord
    <2> QED BY <2>1
  <1>2. ASSUME NEW s \in Schedule, Live(q, s)'
        PROVE  store'[q][s] \in ScheduleRecord /\ store'[q][s].next \in Nat
    BY <1>2 DEF Live, BaseInv, TypeOK, ScheduleRecord
  <1> QED BY <1>1, <1>2

(* A schedule does not come back, and what it is due for does not go back. *)
Follows == \A q \in Replica, s \in Schedule :
    store[q][s] # None => /\ store'[q][s] # None
                          /\ Live(q, s)' => Live(q, s) /\ store[q][s].next <= store'[q][s].next

LEMMA FiredStaysPast ==
    ASSUME SlotInv, BaseInv', Follows, fires' = fires
    PROVE  SlotsArePast' /\ EachSlotOnce'
  <1>1. EachSlotOnce'
    BY DEF SlotInv, EachSlotOnce
  <1>2. ASSUME NEW r \in Replica, NEW s \in Schedule
        PROVE  /\ Live(r, s)' => \A k \in DOMAIN fires'[r][s] : fires'[r][s][k].slot < store'[r][s].next
               /\ store'[r][s] = None => fires'[r][s] = << >>
    <2>1. CASE store[r][s] = None
      <3>1. fires'[r][s] = << >>
        BY <2>1 DEF SlotInv, SlotsArePast
      <3> QED BY <3>1
    <2>2. CASE store[r][s] # None
      <3>1. ASSUME Live(r, s)', NEW k \in DOMAIN fires[r][s] PROVE fires[r][s][k].slot < store'[r][s].next
        <4>1. Live(r, s) /\ store[r][s].next <= store'[r][s].next
          BY <2>2, <3>1 DEF Follows
        <4>2. fires[r][s][k].slot < store[r][s].next
          BY <4>1 DEF SlotInv, SlotsArePast
        <4>3. fires[r][s][k].slot \in Nat /\ store[r][s].next \in Nat
          BY <4>1, FiredType, LiveSchedule DEF SlotInv, BaseInv
        <4>4. store'[r][s].next \in Nat
          BY <3>1, NextTypes
        <4> QED BY <4>1, <4>2, <4>3, <4>4
      <3> QED BY <2>2, <3>1 DEF Follows
    <2> QED BY <2>1, <2>2
  <1> QED BY <1>1, <1>2 DEF SlotsArePast

(* Entry j of thread i is what entry l of thread k was.                    *)
Stems(q, i, j, k, l) ==
    /\ l \in DOMAIN thread[q][k].batch
    /\ thread'[q][i].batch[j].s = thread[q][k].batch[l].s
    /\ thread'[q][i].batch[j].slot = thread[q][k].batch[l].slot
    /\ j \in Pending(thread'[q][i]) => l \in Pending(thread[q][k])

LEMMA StemStaysPast ==
    ASSUME SlotInv, BaseInv', Follows, fires' = fires, NEW q \in Replica, NEW i \in Worker, NEW k \in Worker,
           NEW j \in DOMAIN thread'[q][i].batch, NEW l, Stems(q, i, j, k, l)
    PROVE  EntryIsPast(q, i, j)'
  <1>1. PICK s \in Schedule, t \in Nat : s = thread[q][k].batch[l].s /\ t = thread[q][k].batch[l].slot
    BY EntryType DEF Stems, SlotInv, BaseInv
  <1>2. thread'[q][i].batch[j].s = s /\ thread'[q][i].batch[j].slot = t
    BY <1>1 DEF Stems
  <1>3. /\ Live(q, s) => t < store[q][s].next
        /\ store[q][s] # None
        /\ l \in Pending(thread[q][k]) => \A m \in DOMAIN fires[q][s] : fires[q][s][m].slot # t
    BY <1>1 DEF Stems, SlotInv, EntriesArePast, EntryIsPast
  <1>4. ASSUME Live(q, s)' PROVE t < store'[q][s].next
    <2>1. Live(q, s) /\ store[q][s].next <= store'[q][s].next
      BY <1>3, <1>4 DEF Follows
    <2>2. store[q][s].next \in Nat /\ store'[q][s].next \in Nat
      BY <1>4, <2>1, LiveSchedule, NextTypes DEF SlotInv, BaseInv
    <2> QED BY <1>3, <2>1, <2>2
  <1>5. store'[q][s] # None
    BY <1>3 DEF Follows
  <1> QED BY <1>2, <1>3, <1>4, <1>5 DEF EntryIsPast, Stems, Live

(* The batches of a step that forms no new one: thread k of a replica has  *)
(* the batch of f[k], from its d[k]th entry on.                            *)
Carried(f, d) ==
    /\ \A q \in Replica : \A k, l \in Worker : f[q][k] = f[q][l] => k = l
    /\ \A q \in Replica, k \in Worker : \A j \in DOMAIN thread'[q][k].batch :
           Stems(q, k, j, f[q][k], j + d[q][k])

Shifts == [Replica -> [Worker -> Nat]]
Origins == [Replica -> [Worker -> Worker]]
Here == [q \in Replica |-> [k \in Worker |-> k]]
Whole == [q \in Replica |-> [k \in Worker |-> 0]]

LEMMA CarriedDiffer ==
    ASSUME SlotInv, BaseInv', NEW f \in Origins, NEW d \in Shifts, Carried(f, d)
    PROVE  EntriesDiffer'
  <1> SUFFICES ASSUME NEW q \in Replica, NEW i \in Worker, NEW k \in Worker,
                      NEW j \in DOMAIN thread'[q][i].batch, NEW l \in DOMAIN thread'[q][k].batch,
                      SameSlot(thread'[q][i].batch, j, thread'[q][k].batch, l)
               PROVE  i = k /\ j = l
    BY DEF EntriesDiffer
  <1>1. f[q][i] \in Worker /\ f[q][k] \in Worker /\ d[q][i] \in Nat /\ d[q][k] \in Nat
    BY DEF Origins, Shifts
  <1>2. Stems(q, i, j, f[q][i], j + d[q][i]) /\ Stems(q, k, l, f[q][k], l + d[q][k])
    BY DEF Carried
  <1>3. f[q][i] = f[q][k] /\ j + d[q][i] = l + d[q][k]
    <2>1. PICK a \in Worker, b \in Worker : a = f[q][i] /\ b = f[q][k]
      BY <1>1
    <2>2. /\ j + d[q][i] \in DOMAIN thread[q][a].batch /\ l + d[q][k] \in DOMAIN thread[q][b].batch
          /\ SameSlot(thread[q][a].batch, j + d[q][i], thread[q][b].batch, l + d[q][k])
      BY <1>2, <2>1 DEF Stems, SameSlot
    <2> QED BY <2>1, <2>2 DEF SlotInv, EntriesDiffer
  <1>4. i = k
    BY <1>3 DEF Carried
  <1>5. j \in Nat /\ l \in Nat
    BY NextTypes
  <1> QED BY <1>1, <1>3, <1>4, <1>5

LEMMA CarriedKeeps ==
    ASSUME SlotInv, BaseInv', Follows, fires' = fires,
           NEW f \in Origins, NEW d \in Shifts, Carried(f, d)
    PROVE  SlotInv'
  <1>1. EntriesDiffer'
    BY CarriedDiffer
  <1>2. EntriesArePast'
    <2> SUFFICES ASSUME NEW q \in Replica, NEW i \in Worker, NEW j \in DOMAIN thread'[q][i].batch
                 PROVE  EntryIsPast(q, i, j)'
      BY DEF EntriesArePast
    <2>1. f[q][i] \in Worker /\ Stems(q, i, j, f[q][i], j + d[q][i])
      BY DEF Carried, Origins
    <2> QED BY <2>1, StemStaysPast
  <1> QED BY <1>1, <1>2, FiredStaysPast DEF SlotInv

(* A step that leaves every batch as it was, or drops it. *)
LEMMA SameBatches ==
    ASSUME SlotInv, BaseInv', Follows, fires' = fires,
           \A q \in Replica, k \in Worker :
               \/ thread'[q][k].batch = << >>
               \/ thread'[q][k].batch = thread[q][k].batch /\ thread'[q][k].at = thread[q][k].at
    PROVE  SlotInv'
  <1>1. Here \in Origins /\ Whole \in Shifts
    BY DEF Here, Whole, Origins, Shifts
  <1>2. Carried(Here, Whole)
    <2>1. ASSUME NEW q \in Replica, NEW k \in Worker, NEW j \in DOMAIN thread'[q][k].batch
          PROVE  Stems(q, k, j, Here[q][k], j + Whole[q][k])
      <3>1. Here[q][k] = k /\ j + Whole[q][k] = j
        BY NextTypes DEF Here, Whole
      <3>2. thread'[q][k].batch = thread[q][k].batch /\ thread'[q][k].at = thread[q][k].at
        OBVIOUS
      <3> QED BY <3>1, <3>2 DEF Stems, Pending
    <2> QED BY <2>1 DEF Carried, Here
  <1> QED BY <1>1, <1>2, CarriedKeeps

LEMMA SameStore == ASSUME TypeOK, store' = store PROVE Follows
  <1>1. ASSUME NEW q \in Replica, NEW s \in Schedule, Live(q, s)
        PROVE  store[q][s].next <= store'[q][s].next
    BY <1>1, LiveSchedule
  <1> QED BY <1>1 DEF Follows, Live

(* A start: the thread of the last one lingers, with its batch. *)
LEMMA StartKeepsSlots ==
    ASSUME SlotInv, BaseInv', NEW r \in Replica, Start(r)
    PROVE  SlotInv'
  <1> DEFINE f == [q \in Replica |-> IF q = r THEN [k \in Worker |-> 3 - k] ELSE [k \in Worker |-> k]]
  <1>0. TypeOK
    BY DEF SlotInv, BaseInv
  <1>1. f \in Origins /\ Whole \in Shifts
    BY DEF Origins, Whole, Shifts, Worker
  <1>2. \A q \in Replica : \A k, l \in Worker : f[q][k] = f[q][l] => k = l
    BY DEF Worker
  <1>3. ASSUME NEW q \in Replica, NEW k \in Worker, NEW j \in DOMAIN thread'[q][k].batch
        PROVE  Stems(q, k, j, f[q][k], j + Whole[q][k])
    <2>1. j + Whole[q][k] = j
      BY NextTypes DEF Whole
    <2>2. f[q][k] \in Worker /\ thread'[q][k] = thread[q][f[q][k]]
      <3>1. CASE q # r
        BY <1>0, <3>1, StartDoes
      <3>2. CASE q = r
        <4>1. k = 2
          <5>1. CASE k = 1
            BY <1>0, <3>2, <5>1, StartDoes
          <5> QED BY <5>1 DEF Worker
        <4>2. f[q][k] = 1
          BY <3>2, <4>1
        <4> QED BY <1>0, <3>2, <4>1, <4>2, StartDoes DEF Worker
      <3> QED BY <3>1, <3>2
    <2> HIDE DEF f
    <2> QED BY <2>1, <2>2 DEF Stems, Pending
  <1> HIDE DEF f
  <1>4. Carried(f, Whole)
    BY <1>2, <1>3 DEF Carried
  <1>5. Follows /\ fires' = fires
    BY <1>0, StartDoes, SameStore
  <1> QED BY <1>1, <1>4, <1>5, CarriedKeeps

(* A thread that is done with the first entry of its batch. *)
LEMMA TailCarried ==
    ASSUME BaseInv, BaseInv', NEW r \in Replica, NEW i \in Worker, NEW x \in ThreadRecord,
           Moves(r, i, x), x.batch = Tail(thread[r][i].batch), thread[r][i].batch # << >>
    PROVE  \E f \in Origins, d \in Shifts : Carried(f, d) /\ f = Here /\ d[r][i] = 1
  <1> DEFINE d == [q \in Replica |-> [k \in Worker |-> IF q = r /\ k = i THEN 1 ELSE 0]]
  <1>1. Here \in Origins /\ d \in Shifts /\ d[r][i] = 1
    BY DEF Here, Origins, Shifts
  <1>2. ASSUME NEW q \in Replica, NEW k \in Worker, NEW j \in DOMAIN thread'[q][k].batch
        PROVE  Stems(q, k, j, k, j + d[q][k])
    <2>1. CASE q = r /\ k = i
      <3>1. thread'[q][k] = x /\ d[q][k] = 1
        BY <2>1 DEF Moves
      <3>0. thread[r][i] \in ThreadRecord
        BY DEF BaseInv, TypeOK
      <3>2. PICK b \in Seq(Entry) : b = thread[r][i].batch
        BY <3>0 DEF ThreadRecord
      <3>3. /\ Tail(b) \in Seq(Entry) /\ Len(Tail(b)) = Len(b) - 1
            /\ \A n \in 1 .. Len(b) - 1 : Tail(b)[n] = b[n + 1]
        BY <3>2, HeadTailProperties
      <3>4. j \in 1 .. Len(b) - 1
        <4>1. j \in DOMAIN Tail(b)
          BY <3>1, <3>2
        <4>2. DOMAIN Tail(b) = 1 .. Len(Tail(b))
          BY <3>3
        <4> QED BY <3>3, <4>1, <4>2
      <3>5. j + 1 \in DOMAIN b /\ x.batch[j] = b[j + 1] /\ j + 1 > 1
        BY <3>2, <3>3, <3>4
      <3> HIDE DEF d
      <3> QED BY <2>1, <3>1, <3>2, <3>5 DEF Stems, Pending
    <2>2. CASE ~(q = r /\ k = i)
      <3>1. thread'[q][k] = thread[q][k]
        BY <2>2 DEF Moves
      <3>2. j + d[q][k] = j
        BY <2>2, NextTypes
      <3> HIDE DEF d
      <3> QED BY <3>1, <3>2 DEF Stems
    <2> QED BY <2>1, <2>2
  <1> HIDE DEF d
  <1>3. Carried(Here, d)
    BY <1>2 DEF Carried, Here
  <1> QED BY <1>1, <1>3

LEMMA RecordKeepsSlots ==
    ASSUME SlotInv, BaseInv', NEW r \in Replica, NEW i \in Worker, RecordRun(r, i)
    PROVE  SlotInv'
  <1>0. BaseInv /\ TypeOK
    BY DEF SlotInv, BaseInv
  <1>1. PICK x \in ThreadRecord : Moves(r, i, x) /\ x.batch = Tail(thread[r][i].batch)
    BY <1>0, RecordDoes
  <1>2. PICK f \in Origins, d \in Shifts : Carried(f, d)
    BY <1>0, <1>1, RecordDoes, TailCarried
  <1>3. Follows
    <2> SUFFICES ASSUME NEW q \in Replica, NEW s \in Schedule, store[q][s] # None
                 PROVE  /\ store'[q][s] # None
                        /\ Live(q, s)' => Live(q, s) /\ store[q][s].next <= store'[q][s].next
      BY DEF Follows
    <2>1. CASE store'[q][s] = store[q][s]
      BY <1>0, <2>1, LiveSchedule DEF Live
    <2>2. CASE store'[q][s] # store[q][s]
      <3>1. Live(q, s) /\ store'[q][s] \in ScheduleRecord /\ store'[q][s].next = store[q][s].next
        BY <1>0, <2>2, RecordDoes
      <3>2. store[q][s].next \in Nat
        BY <1>0, <3>1, LiveSchedule
      <3> QED BY <3>1, <3>2, NoneAssumption
    <2> QED BY <2>1, <2>2
  <1> QED BY <1>0, <1>2, <1>3, RecordDoes, CarriedKeeps

(* Schedules that come and go; a crash.                                    *)
LEMMA StoreKeepsSlots ==
    ASSUME SlotInv, BaseInv', NEW r \in Replica,
           Crash(r) \/ \E s \in Schedule : Delete(r, s) \/ \E c \in Crons : Create(r, s, c)
    PROVE  SlotInv'
  <1>0. TypeOK
    BY DEF SlotInv, BaseInv
  <1>1. CASE Crash(r)
    <2>1. Follows
      <3> SUFFICES ASSUME NEW q \in Replica, NEW s \in Schedule, store[q][s] # None
                   PROVE  /\ store'[q][s] # None
                          /\ Live(q, s)' => Live(q, s) /\ store[q][s].next <= store'[q][s].next
        BY DEF Follows
      <3>1. CASE q = r
        BY <1>0, <1>1, <3>1, CrashDoes, NoneAssumption DEF Live
      <3>2. CASE q # r
        BY <1>0, <1>1, <3>2, CrashDoes, LiveSchedule DEF Live
      <3> QED BY <3>1, <3>2
    <2>2. \A q \in Replica, k \in Worker :
               \/ thread'[q][k].batch = << >>
               \/ thread'[q][k].batch = thread[q][k].batch /\ thread'[q][k].at = thread[q][k].at
      BY <1>0, <1>1, CrashDoes
    <2> QED BY <1>0, <1>1, <2>1, <2>2, CrashDoes, SameBatches
  <1>2. ASSUME NEW s \in Schedule, Delete(r, s) PROVE SlotInv'
    <2>1. Follows
      <3> SUFFICES ASSUME NEW q \in Replica, NEW t \in Schedule, store[q][t] # None
                   PROVE  /\ store'[q][t] # None
                          /\ Live(q, t)' => Live(q, t) /\ store[q][t].next <= store'[q][t].next
        BY DEF Follows
      <3>1. CASE q = r /\ t = s
        BY <1>0, <1>2, <3>1, DeleteDoes, NoneAssumption DEF Live
      <3>2. CASE ~(q = r /\ t = s)
        BY <1>0, <1>2, <3>2, DeleteDoes, LiveSchedule DEF Live
      <3> QED BY <3>1, <3>2
    <2> QED BY <1>0, <1>2, <2>1, DeleteDoes, SameBatches
  <1>3. ASSUME NEW s \in Schedule, NEW c \in Crons, Create(r, s, c) PROVE SlotInv'
    <2>1. Follows
      <3> SUFFICES ASSUME NEW q \in Replica, NEW t \in Schedule, store[q][t] # None
                   PROVE  /\ store'[q][t] # None
                          /\ Live(q, t)' => Live(q, t) /\ store[q][t].next <= store'[q][t].next
        BY DEF Follows
      <3>1. ~(q = r /\ t = s)
        BY <1>0, <1>3, CreateDoes
      <3>2. store'[q][t] = store[q][t]
        BY <1>0, <1>3, <3>1, CreateDoes
      <3> QED BY <1>0, <3>2, LiveSchedule DEF Live
    <2> QED BY <1>0, <1>3, <2>1, CreateDoes, SameBatches
  <1> QED BY <1>1, <1>2, <1>3

(* The steps that have nothing to do with slots. *)
LEMMA IdleKeepsSlots ==
    ASSUME SlotInv, BaseInv',
           \/ Pass \/ UNCHANGED vars
           \/ \E r \in Replica : WindsDown(r)
           \/ \E r \in Replica, i \in Worker : Between(r, i)
    PROVE  SlotInv'
  <1>0. TypeOK /\ BatchesFit
    BY DEF SlotInv, BaseInv
  <1>1. ASSUME UNCHANGED <<thread, store, fires>> PROVE SlotInv'
    BY <1>0, <1>1, SameStore, SameBatches
  <1>2. ASSUME NEW r \in Replica, WindsDown(r) PROVE SlotInv'
    BY <1>0, <1>1, <1>2, WindsDownDoes
  <1>3. ASSUME NEW r \in Replica, NEW i \in Worker, Between(r, i) PROVE SlotInv'
    <2>1. PICK x \in ThreadRecord :
               /\ Moves(r, i, x)
               /\ x.batch = thread[r][i].batch \/ x.batch = << >>
               /\ thread[r][i].at \notin {"fire", "record"}
      BY <1>0, <1>3, BetweenDoes
    <2>2. x.batch = << >>
      BY <1>0, <2>1 DEF BatchesFit
    <2>3. \A q \in Replica, k \in Worker :
               \/ thread'[q][k].batch = << >>
               \/ thread'[q][k].batch = thread[q][k].batch /\ thread'[q][k].at = thread[q][k].at
      BY <2>1, <2>2 DEF Moves
    <2> QED BY <1>0, <1>3, <2>3, BetweenDoes, SameStore, SameBatches
  <1> QED BY <1>1, <1>2, <1>3 DEF Pass, vars

(* A tick: the slots it takes were next until now.                         *)
LEMMA TickKeepsSlots ==
    ASSUME SlotInv, BaseInv', NEW r \in Replica, NEW i \in Worker, TickDue(r, i)
    PROVE  SlotInv'
  <1>0. TypeOK /\ BatchesFit
    BY DEF SlotInv, BaseInv
  <1>1. PICK x \in ThreadRecord :
                 /\ Moves(r, i, x) /\ x.at = (IF x.batch = << >> THEN "asleep" ELSE "fire") /\ Sleeps(x)
                 /\ Sweeps(r, x)
    BY <1>0, TickDoes
  <1>2. /\ fires' = fires /\ \A q \in Replica \ {r} : store'[q] = store[q]
        /\ \A s \in Schedule \ Advanced(r) : store'[r][s] = store[r][s]
        /\ \A s \in Advanced(r) : store'[r][s] \in ScheduleRecord /\ store'[r][s].next > now
        /\ now \in Nat
    BY <1>0, TickDoes, Settings
  <1>3. ASSUME NEW s \in Advanced(r)
        PROVE  /\ Live(r, s) /\ store[r][s].next \in Nat /\ store[r][s].next <= now
               /\ store'[r][s] # None /\ store'[r][s].next \in Nat /\ store[r][s].next < store'[r][s].next
    <2>1. s \in Schedule /\ Live(r, s) /\ store[r][s].next <= now
      BY <1>0, AdvancedDoes
    <2>2. store[r][s].next \in Nat
      BY <1>0, AdvancedDoes
    <2>3. store'[r][s] \in ScheduleRecord /\ store'[r][s].next > now /\ store'[r][s].next \in Nat
      BY <1>2 DEF ScheduleRecord
    <2> QED BY <1>2, <2>1, <2>2, <2>3, NoneAssumption
  <1>4. Follows
    <2> SUFFICES ASSUME NEW q \in Replica, NEW s \in Schedule, store[q][s] # None
                 PROVE  /\ store'[q][s] # None
                        /\ Live(q, s)' => Live(q, s) /\ store[q][s].next <= store'[q][s].next
      BY DEF Follows
    <2>1. CASE q = r /\ s \in Advanced(r)
      BY <1>3, <2>1
    <2>2. CASE ~(q = r /\ s \in Advanced(r))
      BY <1>0, <1>2, <2>2, LiveSchedule DEF Live
    <2> QED BY <2>1, <2>2
  (* The new entries, and those of the other threads. *)
  <1>5. ASSUME NEW q \in Replica, NEW k \in Worker, ~(q = r /\ k = i), NEW j \in DOMAIN thread'[q][k].batch
        PROVE  Stems(q, k, j, k, j) /\ thread'[q][k] = thread[q][k]
    BY <1>1, <1>5 DEF Stems, Moves
  <1>6. \A j \in DOMAIN x.batch : EntryIsPast(r, i, j)'
    <2> SUFFICES ASSUME NEW j \in DOMAIN x.batch PROVE EntryIsPast(r, i, j)'
      OBVIOUS
    <2>1. PICK s \in Advanced(r) : s = x.batch[j].s /\ x.batch[j].slot = store[r][s].next
      BY <1>1 DEF Sweeps
    <2>2. /\ Live(r, s) /\ store[r][s].next \in Nat /\ store'[r][s] # None
          /\ store[r][s].next < store'[r][s].next /\ s \in Schedule
      BY <1>0, <1>3, AdvancedDoes
    <2>3. ASSUME NEW k \in DOMAIN fires[r][s] PROVE fires[r][s][k].slot # store[r][s].next
      <3>1. fires[r][s][k].slot < store[r][s].next
        BY <2>2 DEF SlotInv, SlotsArePast
      <3>2. fires[r][s][k].slot \in Nat
        BY <1>0, <2>2, FiredType
      <3> QED BY <2>2, <3>1, <3>2
    <2>4. thread'[r][i] = x
      BY <1>1 DEF Moves
    <2> QED BY <1>2, <2>1, <2>2, <2>3, <2>4 DEF EntryIsPast
  <1>7. EntriesArePast'
    <2> SUFFICES ASSUME NEW q \in Replica, NEW k \in Worker, NEW j \in DOMAIN thread'[q][k].batch
                 PROVE  EntryIsPast(q, k, j)'
      BY DEF EntriesArePast
    <2>1. CASE q = r /\ k = i
      BY <1>1, <1>6, <2>1 DEF Moves
    <2>2. CASE ~(q = r /\ k = i)
      BY <1>2, <1>4, <1>5, <2>2, StemStaysPast
    <2> QED BY <2>1, <2>2
  (* A new entry is of the slot that was next, an old one of one before.   *)
  <1>8. ASSUME NEW j \in DOMAIN x.batch, NEW k \in Worker \ {i}, NEW l \in DOMAIN thread[r][k].batch
        PROVE  ~SameSlot(x.batch, j, thread[r][k].batch, l)
    <2>1. PICK s \in Advanced(r) : s = x.batch[j].s /\ x.batch[j].slot = store[r][s].next
      BY <1>1 DEF Sweeps
    <2>2. Live(r, s) /\ store[r][s].next \in Nat
      BY <1>3
    <2>3. EntryIsPast(r, k, l) /\ thread[r][k].batch[l].slot \in Nat
      BY <1>0, EntryType DEF SlotInv, EntriesArePast
    <2>4. PICK t \in Schedule, n \in Nat : t = thread[r][k].batch[l].s /\ n = thread[r][k].batch[l].slot
      BY <1>0, EntryType
    <2>5. Live(r, t) => n < store[r][t].next
      BY <2>3, <2>4 DEF EntryIsPast
    <2>6. SameSlot(x.batch, j, thread[r][k].batch, l) => s = t /\ store[r][s].next = n
      BY <2>1, <2>4 DEF SameSlot
    <2> QED BY <2>2, <2>4, <2>5, <2>6
  <1>9. EntriesDiffer'
    <2> SUFFICES ASSUME NEW q \in Replica, NEW k \in Worker, NEW m \in Worker,
                        NEW j \in DOMAIN thread'[q][k].batch, NEW l \in DOMAIN thread'[q][m].batch,
                        SameSlot(thread'[q][k].batch, j, thread'[q][m].batch, l)
                 PROVE  k = m /\ j = l
      BY DEF EntriesDiffer
    <2>0. thread'[r][i] = x
      BY <1>1 DEF Moves
    <2>1. CASE q = r /\ k = i /\ m = i
      BY <1>1, <2>0, <2>1 DEF SameSlot, Sweeps
    <2>2. CASE q = r /\ k = i /\ m # i
      BY <1>5, <1>8, <2>0, <2>2
    <2>3. CASE q = r /\ k # i /\ m = i
      BY <1>5, <1>8, <2>0, <2>3 DEF SameSlot
    <2>4. CASE q # r \/ (k # i /\ m # i)
      BY <1>5, <2>4 DEF SlotInv, EntriesDiffer
    <2> QED BY <2>1, <2>2, <2>3, <2>4
  <1> QED BY <1>2, <1>4, <1>7, <1>9, FiredStaysPast DEF SlotInv

(* A callback runs: its slot has not fired, and is not that of any entry   *)
(* that is left.                                                           *)
LEMMA FireKeepsSlots ==
    ASSUME SlotInv, BaseInv', NEW r \in Replica, NEW i \in Worker, Fire(r, i)
    PROVE  SlotInv'
  <1>0. BaseInv /\ TypeOK
    BY DEF SlotInv, BaseInv
  <1>1. PICK e \in Entry, f \in Firing :
                 /\ e = thread[r][i].batch[1] /\ f.slot = e.slot
                 /\ fires'[r][e.s] = Append(fires[r][e.s], f)
                 /\ \A s \in Schedule \ {e.s} : fires'[r][s] = fires[r][s]
    BY <1>0, FireDoes
  <1>2. /\ thread[r][i].at = "fire" /\ thread[r][i].batch # << >>
        /\ store' = store /\ \A q \in Replica \ {r} : fires'[q] = fires[q]
        /\ e.s \in Schedule /\ e.slot \in Nat
    BY <1>0, FireDoes DEF Entry
  <1>3. 1 \in DOMAIN thread[r][i].batch /\ 1 \in Pending(thread[r][i])
    <2>1. thread[r][i].batch \in Seq(Entry)
      BY <1>0 DEF TypeOK, ThreadRecord
    <2>2. 1 \in DOMAIN thread[r][i].batch
      BY <1>2, <2>1
    <2> QED BY <1>2, <2>2 DEF Pending
  <1>4. /\ Live(r, e.s) => e.slot < store[r][e.s].next
        /\ store[r][e.s] # None
        /\ \A k \in DOMAIN fires[r][e.s] : fires[r][e.s][k].slot # e.slot
    BY <1>1, <1>3 DEF SlotInv, EntriesArePast, EntryIsPast
  (* The log: one slot more, that was not there.                           *)
  <1>5. \A q \in Replica, s \in Schedule : \A k \in DOMAIN fires'[q][s] :
            \/ k \in DOMAIN fires[q][s] /\ fires'[q][s][k] = fires[q][s][k]
            \/ q = r /\ s = e.s /\ k = Len(fires[r][e.s]) + 1 /\ fires'[q][s][k] = f
    <2> SUFFICES ASSUME NEW q \in Replica, NEW s \in Schedule, NEW k \in DOMAIN fires'[q][s]
                 PROVE  \/ k \in DOMAIN fires[q][s] /\ fires'[q][s][k] = fires[q][s][k]
                        \/ q = r /\ s = e.s /\ k = Len(fires[r][e.s]) + 1 /\ fires'[q][s][k] = f
      OBVIOUS
    <2>1. CASE q = r /\ s = e.s
      <3>1. PICK log \in Seq(Firing) : log = fires[r][e.s]
        BY <1>0, <1>2 DEF TypeOK
      <3>2. /\ Len(Append(log, f)) = Len(log) + 1 /\ Append(log, f)[Len(log) + 1] = f
            /\ \A n \in 1 .. Len(log) : Append(log, f)[n] = log[n]
            /\ Append(log, f) \in Seq(Firing)
        BY AppendProperties
      <3>6. fires'[q][s] = Append(log, f)
        BY <1>1, <2>1, <3>1
      <3>7. DOMAIN Append(log, f) = 1 .. Len(log) + 1
        BY <3>2
      <3>3. k \in 1 .. Len(log) + 1
        BY <3>6, <3>7
      <3>4. k \in 1 .. Len(log) \/ k = Len(log) + 1
        BY <3>3
      <3>5. DOMAIN log = 1 .. Len(log)
        OBVIOUS
      <3> QED BY <2>1, <3>1, <3>2, <3>4, <3>5, <3>6
    <2>2. CASE ~(q = r /\ s = e.s)
      BY <1>1, <1>2, <2>2
    <2> QED BY <2>1, <2>2
  <1>6. EachSlotOnce'
    <2> SUFFICES ASSUME NEW q \in Replica, NEW s \in Schedule, NEW j \in DOMAIN fires'[q][s],
                        NEW k \in DOMAIN fires'[q][s], fires'[q][s][j].slot = fires'[q][s][k].slot
                 PROVE  j = k
      BY DEF EachSlotOnce
    <2>1. CASE q = r /\ s = e.s
      <3>1. ASSUME NEW l \in DOMAIN fires[r][e.s] PROVE fires[r][e.s][l].slot # f.slot
        BY <1>1, <1>4
      <3>2. \A l, m \in DOMAIN fires[r][e.s] : fires[r][e.s][l].slot = fires[r][e.s][m].slot => l = m
        BY <1>2 DEF SlotInv, EachSlotOnce
      <3>3. \A l \in DOMAIN fires'[r][e.s] :
               \/ l \in DOMAIN fires[r][e.s] /\ fires'[r][e.s][l] = fires[r][e.s][l]
               \/ l = Len(fires[r][e.s]) + 1 /\ fires'[r][e.s][l] = f
        BY <1>2, <1>5
      <3> QED BY <2>1, <3>1, <3>2, <3>3
    <2>2. CASE ~(q = r /\ s = e.s)
      <3>1. fires'[q][s] = fires[q][s]
        BY <1>1, <1>2, <2>2
      <3> QED BY <3>1 DEF SlotInv, EachSlotOnce
    <2> QED BY <2>1, <2>2
  <1>7. SlotsArePast'
    <2>1. ASSUME NEW q \in Replica, NEW s \in Schedule
          PROVE  /\ Live(q, s)' => \A k \in DOMAIN fires'[q][s] : fires'[q][s][k].slot < store'[q][s].next
                 /\ store'[q][s] = None => fires'[q][s] = << >>
      <3>1. Live(q, s)' <=> Live(q, s)
        BY <1>2 DEF Live
      <3>2. ASSUME Live(q, s), NEW k \in DOMAIN fires'[q][s] PROVE fires'[q][s][k].slot < store'[q][s].next
        BY ZenonT(40), <1>1, <1>2, <1>4, <1>5, <3>2 DEF SlotInv, SlotsArePast
      <3>3. store'[q][s] = None => fires'[q][s] = << >>
        <4>1. CASE q = r /\ s = e.s
          BY <1>2, <1>4, <4>1
        <4>2. CASE ~(q = r /\ s = e.s)
          <5>1. fires'[q][s] = fires[q][s] /\ store'[q][s] = store[q][s]
            BY <1>1, <1>2, <4>2
          <5>2. store[q][s] = None => fires[q][s] = << >>
            BY DEF SlotInv, SlotsArePast
          <5> QED BY <5>1, <5>2
        <4> QED BY <4>1, <4>2
      <3> QED BY <3>1, <3>2, <3>3
    <2> QED BY <2>1 DEF SlotsArePast
  (* The batch: its first entry goes, or is no longer about to fire.       *)
  <1>8. \E h \in Origins, d \in Shifts :
            /\ Carried(h, d) /\ h = Here
            /\ \A j \in Pending(thread'[r][i]) : j + d[r][i] > 1
    <2>1. PICK x \in ThreadRecord : Moves(r, i, x) /\ (Skips(r, i, x) \/ Creates(r, i, x))
      BY <1>0, FireDoes
    <2>2. CASE x.batch = Tail(thread[r][i].batch)
      <3>1. PICK h \in Origins, d \in Shifts : Carried(h, d) /\ h = Here /\ d[r][i] = 1
        BY <1>0, <1>2, <2>1, <2>2, TailCarried
      <3>2. \A j \in Pending(thread'[r][i]) : j + d[r][i] > 1
        BY <3>1, NextTypes DEF Pending
      <3> QED BY <3>1, <3>2
    <2>3. CASE /\ x.at = "record" /\ DOMAIN x.batch = DOMAIN thread[r][i].batch
               /\ \A j \in DOMAIN x.batch : /\ x.batch[j].s = thread[r][i].batch[j].s
                                            /\ x.batch[j].slot = thread[r][i].batch[j].slot
      <3>1. Here \in Origins /\ Whole \in Shifts
        BY DEF Here, Whole, Origins, Shifts
      <3>2. ASSUME NEW q \in Replica, NEW k \in Worker, NEW j \in DOMAIN thread'[q][k].batch
            PROVE  Stems(q, k, j, k, j)
        <4>1. CASE q = r /\ k = i
          BY <1>2, <2>1, <2>3, <4>1 DEF Stems, Moves, Pending
        <4>2. CASE ~(q = r /\ k = i)
          BY <2>1, <4>2 DEF Stems, Moves
        <4> QED BY <4>1, <4>2
      <3>3. ASSUME NEW q \in Replica, NEW k \in Worker, NEW j \in DOMAIN thread'[q][k].batch
            PROVE  Here[q][k] = k /\ j + Whole[q][k] = j
        BY NextTypes DEF Here, Whole
      <3>4. Carried(Here, Whole)
        BY <3>2, <3>3 DEF Carried, Here
      <3>5. ASSUME NEW j \in Pending(thread'[r][i]) PROVE j + Whole[r][i] > 1
        <4>1. j \in DOMAIN thread'[r][i].batch /\ j > 1
          BY <2>1, <2>3 DEF Pending, Moves
        <4> QED BY <3>3, <4>1
      <3> QED BY <3>1, <3>4, <3>5
    <2> QED BY <2>1, <2>2, <2>3 DEF Skips, Creates
  <1>9. PICK h \in Origins, d \in Shifts :
            /\ Carried(h, d) /\ h = Here
            /\ \A j \in Pending(thread'[r][i]) : j + d[r][i] > 1
    BY <1>8
  <1>10. EntriesDiffer'
    BY <1>9, CarriedDiffer
  <1>11. EntriesArePast'
    <2> SUFFICES ASSUME NEW q \in Replica, NEW k \in Worker, NEW j \in DOMAIN thread'[q][k].batch
                 PROVE  EntryIsPast(q, k, j)'
      BY DEF EntriesArePast
    <2>1. PICK l : l = j + d[q][k] /\ Stems(q, k, j, k, l)
      BY <1>9 DEF Carried, Here
    <2>2. PICK s \in Schedule, t \in Nat : s = thread[q][k].batch[l].s /\ t = thread[q][k].batch[l].slot
      BY <1>0, <2>1, EntryType DEF Stems
    <2>3. thread'[q][k].batch[j].s = s /\ thread'[q][k].batch[j].slot = t
      BY <2>1, <2>2 DEF Stems
    <2>4. /\ Live(q, s) => t < store[q][s].next
          /\ store[q][s] # None
          /\ l \in Pending(thread[q][k]) => \A m \in DOMAIN fires[q][s] : fires[q][s][m].slot # t
      BY <2>1, <2>2 DEF Stems, SlotInv, EntriesArePast, EntryIsPast
    <2>5. ASSUME j \in Pending(thread'[q][k]), NEW m \in DOMAIN fires'[q][s] PROVE fires'[q][s][m].slot # t
      <3>1. CASE m \in DOMAIN fires[q][s] /\ fires'[q][s][m] = fires[q][s][m]
        BY <2>1, <2>4, <2>5, <3>1 DEF Stems
      <3>2. CASE q = r /\ s = e.s /\ fires'[q][s][m] = f
        <4>1. SUFFICES ASSUME t = e.slot PROVE FALSE
          BY <1>1, <3>2
        <4>2. SameSlot(thread[r][k].batch, l, thread[r][i].batch, 1) /\ l \in DOMAIN thread[r][k].batch
          BY <1>1, <2>1, <2>2, <3>2, <4>1 DEF SameSlot, Stems
        <4>3. k = i /\ l = 1
          BY <1>3, <4>2 DEF SlotInv, EntriesDiffer
        <4> QED BY <1>9, <2>1, <2>5, <3>2, <4>3
      <3> QED BY <1>5, <3>1, <3>2
    <2>6. Live(q, s)' <=> Live(q, s)
      BY <1>2 DEF Live
    <2> QED BY <1>2, <2>3, <2>4, <2>5, <2>6 DEF EntryIsPast
  <1> QED BY <1>6, <1>7, <1>10, <1>11 DEF SlotInv

-----------------------------------------------------------------------------
LEMMA InitSlots == Init => SlotInv
  <1>1. Init => EachSlotOnce /\ SlotsArePast
    BY DEF Init, EachSlotOnce, SlotsArePast, Live
  <1>2. Init => EntriesArePast /\ EntriesDiffer
    <2>1. Init => \A r \in Replica, i \in Worker : thread[r][i].batch = << >>
      BY DEF Init, Off
    <2>2. DOMAIN << >> = {}
      OBVIOUS
    <2> QED BY <2>1, <2>2 DEF EntriesArePast, EntriesDiffer
  <1> QED BY <1>1, <1>2, InitBase DEF SlotInv

LEMMA SlotStep == SlotInv /\ [Next]_vars => SlotInv'
  <1> SUFFICES ASSUME SlotInv, [Next]_vars PROVE SlotInv'
    OBVIOUS
  <1>1. BaseInv'
    BY BaseStep DEF SlotInv
  <1> QED
    BY <1>1, NextCases, StartKeepsSlots, StoreKeepsSlots, IdleKeepsSlots, TickKeepsSlots,
       FireKeepsSlots, RecordKeepsSlots

(* No slot of a schedule fires twice in a replica, whatever its cron       *)
(* string, with threads an early stop left behind, callbacks that take any *)
(* time, deletions and crashes between any two steps (registry.py's        *)
(* tick_due, under its lock, and loop.py).                                 *)
THEOREM SlotsFireOnce == Spec => []EachSlotOnce
  <1>1. SlotInv => EachSlotOnce
    BY DEF SlotInv
  <1> QED BY <1>1, InitSlots, SlotStep, PTL DEF Spec

-----------------------------------------------------------------------------
(* Succession.  While no time passes as a loop works and Redis answers,    *)
(* the last tick is never further back than the lease allows: a key that   *)
(* is held lapses a lease after it, a thread that is past the leader's     *)
(* check is no later than that, and one that sleeps, whether it ticked or  *)
(* found the key taken, wakes within an interval more.                     *)
Prompt == deployment.pace = "prompt" /\ deployment.redis # "flaky"
Holding == {"renew", "set", "tick", "fire", "record"}
Patience == deployment.interval + deployment.ttl

TickInTime == /\ seen.tick <= now
              /\ key # None => now < key.until /\ key.until <= seen.tick + deployment.ttl
ThreadInTime(x) == /\ x.at \in Holding => now <= seen.tick + deployment.ttl
                   /\ x.at = "asleep" => now <= x.wake /\ x.wake <= seen.tick + Patience
LoopInTime(r) == seen.since[r] # None =>
    /\ ~loop[r].stop /\ thread[r][1].at # "off"
    /\ thread[r][1].at # "asleep" => now <= seen.tick + Patience \/ seen.since[r] = now
InTime == /\ TickInTime
          /\ \A r \in Replica, i \in Worker : ThreadInTime(thread[r][i])
          /\ \A r \in Replica : LoopInTime(r)
TimeInv == BaseInv /\ (Prompt => InTime)

LEMMA PatienceType ==
    ASSUME TypeOK
    PROVE  /\ deployment.ttl \in Nat \ {0} /\ deployment.interval \in Nat /\ now \in Nat
           /\ Patience \in Nat /\ Patience = deployment.interval + deployment.ttl
           /\ seen.tick \in Nat /\ \A q \in Replica : seen.since[q] \in Nat \cup {None}
           /\ key # None => key.until \in Nat
  BY Settings, DeploymentsAssumption DEF TypeOK, Patience, LeaseRecord

(* A step of a thread, x being what becomes of it: what it changes of the  *)
(* lease and the last tick, and when it may work or sleep.                 *)
Advances(r, i, x) ==
    /\ Moves(r, i, x) /\ thread[r][i].at # "off"
    /\ UNCHANGED <<deployment, now>>
    /\ seen'.since = seen.since /\ seen'.tick \in {seen.tick, now}
    /\ \A q \in Replica : loop'[q].stop = loop[q].stop
    /\ key' = key \/ (key' = Lease(r) /\ seen'.tick = now)
    /\ x.at \in Holding \cup {"asleep"} => now <= seen'.tick + deployment.ttl
    /\ x.at = "asleep" => x.wake = now + deployment.interval
    /\ x.at = "off" => loop[r].stop
    /\ thread[r][i].at = "asleep" => x.at \in {"off", "ensure"}

LEMMA TickTimes ==
    ASSUME TypeOK, NEW r \in Replica, NEW i \in Worker, MayTick(r, i)
    PROVE  seen'.since = seen.since /\ seen'.tick = now
  BY DEF MayTick, TypeOK

LEMMA TickAdvances ==
    ASSUME TimeInv, Prompt, NEW r \in Replica, NEW i \in Worker, MayTick(r, i),
           thread[r][i].at \notin {"off", "asleep"}, UNCHANGED <<deployment, now>>,
           \A q \in Replica : loop'[q].stop = loop[q].stop,
           key' = key \/ key' = Lease(r)
    PROVE  \E x \in ThreadRecord : Advances(r, i, x)
  <1>0. TypeOK
    BY DEF TimeInv, BaseInv
  <1>1. PICK x \in ThreadRecord : Moves(r, i, x) /\ x.at = "tick"
    BY <1>0, MayTickMoves
  <1>2. seen'.since = seen.since /\ seen'.tick = now
    BY <1>0, TickTimes
  <1>3. now <= now + deployment.ttl
    BY <1>0, PatienceType
  <1> QED BY <1>1, <1>2, <1>3 DEF Advances

(* To sleep goes a thread that found the lease taken, or one that worked.  *)
LEMMA SleepAdvances ==
    ASSUME TimeInv, Prompt, NEW r \in Replica, NEW i \in Worker, NEW x \in ThreadRecord,
           Moves(r, i, x), x.at \in {"asleep", "set", "fire", "record"}, Sleeps(x),
           thread[r][i].at \in Holding \/ (thread[r][i].at = "acquire" /\ key # None),
           UNCHANGED <<deployment, now, key, loop>>, seen'.since = seen.since, seen'.tick = seen.tick
    PROVE  Advances(r, i, x)
  <1>0. TypeOK /\ TickInTime /\ ThreadInTime(thread[r][i])
    BY DEF TimeInv, BaseInv, InTime
  <1>1. now <= seen.tick + deployment.ttl
    <2>1. CASE thread[r][i].at \in Holding
      BY <1>0, <2>1 DEF ThreadInTime
    <2>2. CASE key # None
      BY <1>0, <2>2, PatienceType DEF TickInTime
    <2> QED BY <2>1, <2>2
  <1> QED BY <1>1 DEF Advances, Holding, Sleeps

LEMMA BetweenAdvances ==
    ASSUME TimeInv, Prompt, NEW r \in Replica, NEW i \in Worker, Between(r, i)
    PROVE  \E x \in ThreadRecord : Advances(r, i, x)
  <1>0. TypeOK /\ TickInTime /\ ThreadInTime(thread[r][i]) /\ loop \in LoopTypes
    BY DEF TimeInv, BaseInv, InTime, TypeOK, LoopTypes
  <1>a. \A ok : Reaches(ok) => ok
    BY DEF Reaches, Prompt
  <1>1. CASE Wake(r, i)
    <2>1. PICK at \in {"off", "ensure"} : Goto(r, i, at) /\ (at = "off" => loop[r].stop)
      BY <1>1 DEF Wake
    <2>2. PICK x \in ThreadRecord : Moves(r, i, x) /\ x.at = at
      BY <1>0, <2>1, GotoMoves DEF At
    <2>3. UNCHANGED <<deployment, now, key, loop, seen>> /\ thread[r][i].at = "asleep"
      BY <1>1 DEF Wake
    <2> QED BY <2>1, <2>2, <2>3 DEF Advances, Holding
  <1>2. CASE Ensure(r, i)
    <2>0. thread[r][i].at = "ensure" /\ UNCHANGED <<deployment, now, key>>
      BY <1>2 DEF Ensure
    <2>1. \A q \in Replica : loop'[q].stop = loop[q].stop
      <3>1. CASE UNCHANGED loop
        BY <3>1
      <3>2. ASSUME NEW t \in 0 .. RenewEvery - 1, loop' = [loop EXCEPT ![r].ticks = t]
            PROVE  \A q \in Replica : loop'[q].stop = loop[q].stop
        BY <1>0, <3>2 DEF LoopTypes, LoopRecord
      <3>3. (loop[r].ticks + 1) % RenewEvery \in 0 .. RenewEvery - 1
        BY <1>0 DEF LoopTypes, LoopRecord, RenewEvery
      <3> QED BY <1>2, <3>1, <3>2, <3>3 DEF Ensure
    <2>2. \/ MayTick(r, i)
          \/ seen' = seen /\ (Goto(r, i, "acquire") \/ (Goto(r, i, "renew") /\ key # None))
      BY <1>2 DEF Ensure, HoldsLease
    <2>3. CASE MayTick(r, i)
      BY <2>0, <2>1, <2>3, TickAdvances
    <2>4. CASE seen' = seen /\ Goto(r, i, "acquire")
      <3>1. PICK x \in ThreadRecord : Moves(r, i, x) /\ x.at = "acquire"
        BY <1>0, <2>4, GotoMoves DEF At
      <3> QED BY <2>0, <2>1, <2>4, <3>1 DEF Advances, Holding
    <2>5. CASE seen' = seen /\ Goto(r, i, "renew") /\ key # None
      <3>1. PICK x \in ThreadRecord : Moves(r, i, x) /\ x.at = "renew"
        BY <1>0, <2>5, GotoMoves DEF At
      <3>2. now <= seen'.tick + deployment.ttl
        BY <1>0, <2>5, PatienceType DEF TickInTime
      <3> QED BY <2>0, <2>1, <2>5, <3>1, <3>2 DEF Advances, Holding
    <2> QED BY <2>2, <2>3, <2>4, <2>5
  <1>3. CASE RenewRead(r, i)
    <2>1. thread[r][i].at = "renew" /\ UNCHANGED <<deployment, now, key, loop, seen>>
      BY <1>3 DEF RenewRead
    <2>2. Goto(r, i, "set") \/ Asleep(r, i)
      BY <1>3 DEF RenewRead
    <2>3. PICK x \in ThreadRecord : Moves(r, i, x) /\ x.at \in {"set", "asleep"} /\ Sleeps(x)
      BY <1>0, <2>2, GotoMoves, AsleepMoves DEF At, Sleeps
    <2> QED BY <2>1, <2>3, SleepAdvances DEF Holding
  <1>4. CASE RenewSet(r, i)
    <2>1. thread[r][i].at = "set" /\ UNCHANGED <<deployment, now, loop>> /\ key' = Lease(r) /\ MayTick(r, i)
      BY <1>4, <1>a DEF RenewSet
    <2> QED BY <2>1, TickAdvances
  <1>5. CASE TryAcquire(r, i)
    <2>1. thread[r][i].at = "acquire" /\ UNCHANGED <<deployment, now, loop>>
      BY <1>5 DEF TryAcquire
    <2>2. (key' = Lease(r) /\ MayTick(r, i)) \/ (key # None /\ UNCHANGED <<key, seen>> /\ Asleep(r, i))
      BY <1>5, <1>a DEF TryAcquire
    <2>3. CASE key' = Lease(r) /\ MayTick(r, i)
      BY <2>1, <2>3, TickAdvances
    <2>4. CASE key # None /\ UNCHANGED <<key, seen>> /\ Asleep(r, i)
      <3>1. PICK x \in ThreadRecord : Moves(r, i, x) /\ x.at = "asleep" /\ Sleeps(x)
        BY <1>0, <2>4, AsleepMoves
      <3> QED BY <2>1, <2>4, <3>1, SleepAdvances
    <2> QED BY <2>2, <2>3, <2>4
  <1> QED BY <1>1, <1>2, <1>3, <1>4, <1>5 DEF Between

LEMMA TicksAdvance ==
    ASSUME TimeInv, Prompt, NEW r \in Replica, NEW i \in Worker,
           TickDue(r, i) \/ Fire(r, i) \/ RecordRun(r, i)
    PROVE  \E x \in ThreadRecord : Advances(r, i, x)
  <1>0. TypeOK /\ BaseInv
    BY DEF TimeInv, BaseInv
  <1>1. /\ thread[r][i].at \in Holding /\ UNCHANGED <<deployment, now, key, loop>>
        /\ seen'.since = seen.since /\ seen'.tick = seen.tick
    <2>1. TickDue(r, i) => seen'.since = seen.since /\ seen'.tick = seen.tick
      BY <1>0, TickDoes
    <2> QED BY <2>1 DEF TickDue, Fire, RecordRun, Holding
  <1>2. PICK x \in ThreadRecord : Moves(r, i, x) /\ x.at \in {"asleep", "fire", "record"} /\ Sleeps(x)
    <2>1. CASE TickDue(r, i)
      BY <1>0, <2>1, TickDoes
    <2>2. CASE Fire(r, i)
      BY <1>0, <2>2, FireDoes DEF Skips, Creates
    <2>3. CASE RecordRun(r, i)
      BY <1>0, <2>3, RecordDoes
    <2> QED BY <2>1, <2>2, <2>3
  <1> QED BY <1>1, <1>2, SleepAdvances

LEMMA AdvanceKeepsTime ==
    ASSUME TimeInv, Prompt, NEW r \in Replica, NEW i \in Worker, NEW x \in ThreadRecord, Advances(r, i, x),
           TypeOK'
    PROVE  InTime'
  <1>0. TypeOK /\ InTime /\ ThreadInTime(thread[r][i])
    BY DEF TimeInv, BaseInv, InTime
  <1>1. /\ deployment' = deployment /\ now' = now /\ seen'.since = seen.since
        /\ seen.tick <= seen'.tick /\ seen'.tick <= now /\ seen'.tick \in Nat /\ Patience' = Patience
    BY <1>0, PatienceType DEF Advances, InTime, TickInTime, Patience
  <1>2. TickInTime'
    <2>1. CASE key' = key
      BY <1>0, <1>1, <2>1, PatienceType DEF InTime, TickInTime
    <2>2. CASE key' = Lease(r) /\ seen'.tick = now
      BY <1>0, <1>1, <2>2, PatienceType DEF TickInTime, Lease
    <2> QED BY <2>1, <2>2 DEF Advances
  <1>3. ThreadInTime(x)'
    BY <1>0, <1>1, PatienceType DEF Advances, ThreadInTime
  <1>4. ASSUME NEW q \in Replica, NEW k \in Worker PROVE ThreadInTime(thread[q][k])'
    <2>1. CASE thread'[q][k] = x
      BY <1>3, <2>1 DEF ThreadInTime
    <2>2. CASE thread'[q][k] = thread[q][k]
      <3>1. ThreadInTime(thread[q][k])
        BY <1>0 DEF InTime
      <3>2. thread[q][k] \in ThreadRecord
        BY <1>0 DEF TypeOK
      <3> QED BY SMTT(30), <1>0, <1>1, <2>2, <3>1, <3>2, PatienceType DEF ThreadInTime, ThreadRecord
    <2> QED BY <2>1, <2>2 DEF Advances, Moves
  <1>5. ASSUME NEW q \in Replica PROVE LoopInTime(q)'
    <2> SUFFICES ASSUME seen.since[q] # None
                 PROVE  /\ ~loop[q].stop /\ thread'[q][1].at # "off"
                        /\ thread'[q][1].at # "asleep" => now <= seen'.tick + Patience \/ seen.since[q] = now
      BY <1>1 DEF LoopInTime, Advances
    <2>1. /\ ~loop[q].stop /\ thread[q][1].at # "off"
          /\ thread[q][1].at # "asleep" => now <= seen.tick + Patience \/ seen.since[q] = now
      BY <1>0 DEF InTime, LoopInTime
    <2>2. CASE q = r /\ i = 1
      <3>1. thread'[q][1] = x
        BY <2>2 DEF Advances, Moves
      <3>2. x.at # "off"
        BY <2>1, <2>2 DEF Advances
      <3>3. thread[r][i].at = "asleep" => now <= seen.tick + Patience
        <4>1. thread[r][i] \in ThreadRecord
          BY <1>0 DEF TypeOK
        <4> QED BY <1>0, <4>1, PatienceType DEF ThreadInTime, ThreadRecord
      <3> QED BY <1>0, <1>1, <2>1, <2>2, <3>1, <3>2, <3>3, PatienceType
    <2>3. CASE ~(q = r /\ i = 1)
      <3>1. thread'[q][1] = thread[q][1]
        BY <2>3 DEF Advances, Moves, Worker
      <3> QED BY <1>0, <1>1, <2>1, <3>1, PatienceType
    <2> QED BY <2>2, <2>3
  <1> QED BY <1>2, <1>4, <1>5 DEF InTime

LEMMA InitTime == Init => TimeInv
  <1> SUFFICES ASSUME Init PROVE TimeInv
    OBVIOUS
  <1>1. BaseInv
    BY InitBase
  <1>2. TickInTime
    BY DEF Init, TickInTime
  <1>3. \A r \in Replica, i \in Worker : thread[r][i].at = "off"
    BY DEF Init, Off
  <1>4. \A r \in Replica, i \in Worker : ThreadInTime(thread[r][i])
    BY <1>3 DEF ThreadInTime, Holding
  <1>5. \A r \in Replica : LoopInTime(r)
    BY DEF Init, LoopInTime
  <1> QED BY <1>1, <1>2, <1>4, <1>5 DEF TimeInv, InTime

LEMMA TimeStep == TimeInv /\ [Next]_vars => TimeInv'
  <1> SUFFICES ASSUME TimeInv, [Next]_vars PROVE TimeInv'
    OBVIOUS
  <1>0. BaseInv /\ TypeOK /\ BaseInv' /\ TypeOK' /\ deployment' = deployment
    BY BaseStep, SameDeployment DEF TimeInv, BaseInv
  <1> SUFFICES ASSUME Prompt PROVE InTime'
    BY <1>0 DEF TimeInv, InTime, Prompt
  <1>a. InTime
    BY DEF TimeInv, InTime
  <1>b. Patience' = Patience
    BY <1>0 DEF Patience
  <1>1. CASE Pass
    <2>1. now' = now + 1 /\ UNCHANGED <<deployment, loop, thread, seen>>
      BY <1>0, <1>1, PassDoes
    <2>2. \A r \in Replica, i \in Worker : /\ thread[r][i].at \in {"off", "asleep"}
                                           /\ thread[r][i].at = "asleep" => thread[r][i].wake > now
      BY <1>1 DEF Pass, Pace, Prompt, Busy
    <2>3. TickInTime'
      <3>1. key' = None \/ (key' = key /\ (key # None => ~(key.until <= now + 1)))
        BY <1>1 DEF Pass
      <3> QED BY <1>0, <1>a, <2>1, <3>1, PatienceType DEF InTime, TickInTime
    <2>4. ASSUME NEW q \in Replica, NEW k \in Worker PROVE ThreadInTime(thread[q][k])'
      <3>1. ThreadInTime(thread[q][k])
        BY <1>a DEF InTime
      <3>2. thread[q][k] \in ThreadRecord
        BY <1>0 DEF TypeOK
      <3> QED BY SMTT(30), <1>0, <1>b, <2>1, <2>2, <3>1, <3>2, PatienceType DEF ThreadInTime, ThreadRecord, Holding
    <2>5. ASSUME NEW q \in Replica PROVE LoopInTime(q)'
      BY <1>a, <2>1, <2>2 DEF InTime, LoopInTime, Worker
    <2> QED BY <2>3, <2>4, <2>5 DEF InTime
  <1>2. ASSUME NEW r \in Replica, Start(r) PROVE InTime'
    <2>1. /\ UNCHANGED <<deployment, now, key>> /\ \A q \in Replica \ {r} : loop'[q] = loop[q] /\ thread'[q] = thread[q]
          /\ thread'[r][2] = thread[r][1] /\ thread'[r][1].at = "ensure"
      BY <1>0, <1>2, StartDoes
    <2>2. seen'.tick = seen.tick /\ seen'.since[r] = now /\ \A q \in Replica \ {r} : seen'.since[q] = seen.since[q]
      BY <1>0, <1>2 DEF Start, TypeOK
    <2>3. ~loop'[r].stop
      BY <1>0, <1>2 DEF Start, TypeOK, LoopRecord
    <2>4. TickInTime'
      BY <1>a, <2>1, <2>2 DEF InTime, TickInTime
    <2>5. ASSUME NEW q \in Replica, NEW k \in Worker PROVE ThreadInTime(thread[q][k])'
      <3>1. thread'[q][k].at = "ensure" \/ \E j \in Worker : thread'[q][k] = thread[q][j]
        BY <2>1 DEF Worker
      <3>2. CASE thread'[q][k].at = "ensure"
        BY <3>2 DEF ThreadInTime, Holding
      <3>3. ASSUME NEW j \in Worker, thread'[q][k] = thread[q][j] PROVE ThreadInTime(thread[q][k])'
        <4>1. ThreadInTime(thread[q][j])
          BY <1>a DEF InTime
        <4> QED BY <1>b, <2>1, <2>2, <3>3, <4>1 DEF ThreadInTime
      <3> QED BY <3>1, <3>2, <3>3
    <2>6. ASSUME NEW q \in Replica PROVE LoopInTime(q)'
      <3>1. CASE q = r
        BY <2>1, <2>2, <2>3, <3>1 DEF LoopInTime
      <3>2. CASE q # r
        BY <1>a, <1>b, <2>1, <2>2, <3>2 DEF InTime, LoopInTime
      <3> QED BY <3>1, <3>2
    <2> QED BY <2>4, <2>5, <2>6 DEF InTime
  <1>3. ASSUME NEW r \in Replica, WindsDown(r) PROVE InTime'
    <2>1. UNCHANGED <<deployment, now, thread>> /\ (key' = key \/ key' = None)
      BY <1>0, <1>3, WindsDownDoes
    <2>2. /\ seen'.tick = seen.tick
          /\ \A q \in Replica : \/ seen'.since[q] = None
                                \/ seen'.since[q] = seen.since[q] /\ loop'[q].stop = loop[q].stop
      <3>1. CASE Stop(r)
        BY <1>0, <3>1 DEF Stop, TypeOK
      <3>2. CASE StopJoined(r) \/ ReleaseRead(r) \/ ReleaseDelete(r)
        <4>1. seen' = seen
          BY <3>2 DEF StopJoined, ReleaseRead, ReleaseDelete
        <4>2. \A q \in Replica : loop'[q].stop = loop[q].stop
          <5>1. ASSUME NEW p, loop' = [loop EXCEPT ![r].stopping = p] PROVE \A q \in Replica : loop'[q].stop = loop[q].stop
            BY <1>0, <5>1 DEF TypeOK, LoopRecord
          <5>2. CASE StopJoined(r)
            BY <1>0, <5>2 DEF StopJoined, TypeOK, LoopRecord
          <5>3. CASE ReleaseRead(r)
            BY <5>1, <5>3 DEF ReleaseRead
          <5>4. CASE ReleaseDelete(r)
            BY <5>1, <5>4 DEF ReleaseDelete
          <5> QED BY <3>2, <5>2, <5>3, <5>4
        <4> QED BY <4>1, <4>2
      <3> QED BY <1>3, <3>1, <3>2 DEF WindsDown
    <2>3. TickInTime'
      BY <1>a, <2>1, <2>2 DEF InTime, TickInTime
    <2>4. ASSUME NEW q \in Replica, NEW k \in Worker PROVE ThreadInTime(thread[q][k])'
      BY <1>a, <1>b, <2>1, <2>2 DEF InTime, ThreadInTime
    <2>5. ASSUME NEW q \in Replica PROVE LoopInTime(q)'
      BY <1>a, <1>b, <2>1, <2>2 DEF InTime, LoopInTime
    <2> QED BY <2>3, <2>4, <2>5 DEF InTime
  <1>4. ASSUME NEW r \in Replica, Crash(r) PROVE InTime'
    <2>1. /\ UNCHANGED <<deployment, now, key>> /\ \A q \in Replica \ {r} : loop'[q] = loop[q] /\ thread'[q] = thread[q]
          /\ \A i \in Worker : thread'[r][i].at = "off"
      BY <1>0, <1>4, CrashDoes
    <2>2. seen'.tick = seen.tick /\ seen'.since[r] = None /\ \A q \in Replica \ {r} : seen'.since[q] = seen.since[q]
      BY <1>0, <1>4 DEF Crash, TypeOK
    <2>3. TickInTime'
      BY <1>a, <2>1, <2>2 DEF InTime, TickInTime
    <2>4. ASSUME NEW q \in Replica, NEW k \in Worker PROVE ThreadInTime(thread[q][k])'
      <3>1. thread'[q][k].at = "off" \/ thread'[q][k] = thread[q][k]
        BY <2>1
      <3>2. CASE thread'[q][k].at = "off"
        BY <3>2 DEF ThreadInTime, Holding
      <3>3. CASE thread'[q][k] = thread[q][k]
        BY <1>a, <1>b, <2>1, <2>2, <3>3 DEF InTime, ThreadInTime
      <3> QED BY <3>1, <3>2, <3>3
    <2>5. ASSUME NEW q \in Replica PROVE LoopInTime(q)'
      BY <1>a, <1>b, <2>1, <2>2 DEF InTime, LoopInTime
    <2> QED BY <2>3, <2>4, <2>5 DEF InTime
  <1>5. ASSUME NEW r \in Replica, NEW i \in Worker, Between(r, i) \/ TickDue(r, i) \/ Fire(r, i) \/ RecordRun(r, i)
        PROVE  InTime'
    <2>1. PICK x \in ThreadRecord : Advances(r, i, x)
      BY <1>5, BetweenAdvances, TicksAdvance
    <2> QED BY <1>0, <2>1, AdvanceKeepsTime
  <1>6. ASSUME UNCHANGED <<deployment, now, key, loop, thread, seen>> PROVE InTime'
    BY <1>6, <1>a, <1>b DEF InTime, TickInTime, ThreadInTime, LoopInTime
  <1>7. ASSUME NEW r \in Replica, NEW s \in Schedule, Delete(r, s) \/ \E c \in Crons : Create(r, s, c)
        PROVE  InTime'
    BY <1>6, <1>7 DEF Delete, Create
  <1>8. CASE UNCHANGED vars
    BY <1>6, <1>8 DEF vars
  <1> QED BY <1>1, <1>2, <1>3, <1>4, <1>5, <1>7, <1>8, NextCases

(* Nobody with a running loop waits longer for a tick, their own or        *)
(* another's, than an interval and a lease, however the holder stopped or  *)
(* crashed (leader.py, loop.py): for any number of replicas, any lease and *)
(* any interval.                                                           *)
THEOREM SuccessorTicksInTime == Spec => []SuccessionInTime
  <1>1. TimeInv => SuccessionInTime
    <2> SUFFICES ASSUME TimeInv, Prompt, NEW r \in Replica,
                        seen.since[r] # None, now > seen.since[r] + Patience
                 PROVE  seen.tick >= now - Patience
      BY DEF SuccessionInTime, Prompt, Patience
    <2>0. TypeOK /\ LoopInTime(r) /\ ThreadInTime(thread[r][1]) /\ thread[r][1] \in ThreadRecord
      BY DEF TimeInv, BaseInv, InTime, TypeOK, Worker
    <2>1. seen.since[r] # now
      BY <2>0, PatienceType
    <2>2. now <= seen.tick + Patience
      BY SMTT(30), <2>0, <2>1, PatienceType DEF LoopInTime, ThreadInTime, ThreadRecord
    <2> QED BY <2>0, <2>2, PatienceType
  <1> QED BY <1>1, InitTime, TimeStep, PTL DEF Spec

-----------------------------------------------------------------------------
-----------------------------------------------------------------------------
(* No slot missed.  A loop on its own, not held up, which ticks at least   *)
(* once a minute.  Its one thread, while the loop runs, holds the lease    *)
(* when it renews, finds it free when it acquires, and wakes in time.      *)
Before == {"ensure", "acquire", "renew", "set", "tick"}

OnlyThread == \A q \in Replica :
    /\ thread[q][2].at = "off" /\ ~loop[q].stop /\ loop[q].stopping = "no"
    /\ thread[q][1].at # "off" => q \in deployment.replicas /\ loop[q].up /\ seen.since[q] # None
    /\ loop[q].up => thread[q][1].at # "off"
    /\ ~loop[q].up => seen.since[q] = None
OnlyHolder == /\ key # None => key.holder \in deployment.replicas
              /\ \A q \in Replica : /\ thread[q][1].at = "acquire" => key = None
                                    /\ thread[q][1].at = "renew" => key # None
OnTime == \A q \in Replica : thread[q][1].at = "asleep" =>
    now <= thread[q][1].wake /\ thread[q][1].wake <= now + deployment.interval
OnlyLoop == OnlyThread /\ OnlyHolder /\ OnTime

(* A due time since the loop started, and before the next one, has fired   *)
(* or is in the batch.                                                     *)
Awaits(x, s, t) == \E j \in Pending(x) : x.batch[j].s = s /\ x.batch[j].slot = t
Fired(r, s, t) == \E k \in DOMAIN fires[r][s] : fires[r][s][k].slot = t
AfterStart(r, t) == seen.since[r] # None => seen.since[r] < t
IsBehind(sched, t) == Matches(sched.minutes, t) /\ sched.created < t /\ t < sched.next
Covered(r, s) == \A t \in Nat :
    IsBehind(store[r][s], t) /\ AfterStart(r, t) => Fired(r, s, t) \/ Awaits(thread[r][1], s, t)

(* Before a tick the next due time is no older than an interval, unless    *)
(* the loop has only just started; after it, it is yet to come.            *)
NextIsFresh(r, s) ==
    LET next == store[r][s].next
        x == thread[r][1]
    IN  /\ next % Minute = 0
        /\ x.at \in Before => seen.since[r] = now \/ now < next + deployment.interval
        /\ x.at = "asleep" => x.wake < next + deployment.interval
        /\ x.at \in {"fire", "record"} => now < next
BatchIsFresh(r) == \A j \in DOMAIN thread[r][1].batch :
    \/ now < thread[r][1].batch[j].slot + deployment.interval
    \/ seen.since[r] = now /\ thread[r][1].batch[j].slot <= now

(* The runs created, but for the one that is being recorded, are those     *)
(* that the schedule remembers the last of.                                *)
Recording(x, s) == x.at = "record" /\ x.batch[1].s = s
Told(r, s) == {j \in DOMAIN fires[r][s] :
                  fires[r][s][j].ok /\ ~(Recording(thread[r][1], s) /\ j = Len(fires[r][s]))}
HeadIsLast(r) == \A s \in Schedule : Recording(thread[r][1], s) =>
    /\ thread[r][1].batch[1].id = Len(fires[r][s]) /\ Len(fires[r][s]) > 0
    /\ fires[r][s][Len(fires[r][s])].ok

KeptOne(r, s) == Live(r, s) => /\ Covered(r, s) /\ NextIsFresh(r, s)
                               /\ Latest(Told(r, s), store[r][s].recent)
KeptAt(r) == BatchIsFresh(r) /\ HeadIsLast(r) /\ \A s \in Schedule : KeptOne(r, s)

UnhinderedInv == SlotInv /\ (Unhindered /\ ~seen.raised => OnlyLoop /\ \A r \in Replica : KeptAt(r))

LEMMA LatestAppends ==
    ASSUME NEW ids \in SUBSET Nat, NEW kept \in Seq(Nat), NEW n \in Nat,
           Latest(ids, kept), \A id \in ids : id < n
    PROVE  Latest(ids \cup {n}, Capped(Append(kept, n)))
  <1>0. MaxRecent \in Nat \ {0} /\ Len(kept) \in Nat /\ Len(kept) <= MaxRecent /\ DOMAIN kept = 1 .. Len(kept)
    BY BoundsAssumption DEF Latest
  <1>1. PICK a \in Seq(Nat) : a = Append(kept, n)
    BY AppendProperties
  <1>2. /\ Len(a) = Len(kept) + 1 /\ DOMAIN a = 1 .. Len(kept) + 1
        /\ a[Len(kept) + 1] = n /\ \A j \in 1 .. Len(kept) : a[j] = kept[j]
    BY <1>1
  <1>3. /\ \A j \in 1 .. Len(kept) : kept[j] \in ids /\ kept[j] \in Nat
        /\ \A j, k \in 1 .. Len(kept) : j < k => kept[j] < kept[k]
        /\ \A id \in ids : \/ \E j \in 1 .. Len(kept) : kept[j] = id
                           \/ Len(kept) = MaxRecent /\ \A j \in 1 .. Len(kept) : id < kept[j]
    BY <1>0 DEF Latest
  <1>4. CASE Len(kept) < MaxRecent
    <2>1. Capped(a) = a
      BY <1>0, <1>2, <1>4 DEF Capped
    <2>2. Len(a) <= MaxRecent
      BY <1>0, <1>2, <1>4
    <2>3. \A j \in DOMAIN a : a[j] \in ids \cup {n}
      <3> SUFFICES ASSUME NEW j \in 1 .. Len(kept) + 1 PROVE a[j] \in ids \cup {n}
        BY <1>2
      <3>1. j = Len(kept) + 1 \/ j \in 1 .. Len(kept)
        BY <1>0
      <3> QED BY <1>2, <1>3, <3>1
    <2>4. \A j, k \in DOMAIN a : j < k => a[j] < a[k]
      <3> SUFFICES ASSUME NEW j \in 1 .. Len(kept) + 1, NEW k \in 1 .. Len(kept) + 1, j < k PROVE a[j] < a[k]
        BY <1>2
      <3>1. j \in 1 .. Len(kept) /\ (k = Len(kept) + 1 \/ k \in 1 .. Len(kept))
        BY <1>0
      <3> QED BY <1>2, <1>3, <3>1
    <2>5. ASSUME NEW id \in ids \cup {n} PROVE \E j \in DOMAIN a : a[j] = id
      <3>1. CASE id = n
        BY <1>0, <1>2, <3>1
      <3>2. CASE id \in ids
        <4>1. PICK j \in 1 .. Len(kept) : kept[j] = id
          BY <1>3, <1>4, <3>2
        <4> QED BY SMTT(30), <1>0, <1>2, <4>1
      <3> QED BY <3>1, <3>2
    <2> QED BY SMTT(30), <1>1, <2>1, <2>2, <2>3, <2>4, <2>5 DEF Latest
  <1>5. CASE Len(kept) = MaxRecent
    <2>1. PICK c \in Seq(Nat) : c = SubSeq(a, 2, MaxRecent + 1) /\ c = Capped(a)
      <3>1. Capped(a) = SubSeq(a, 2, MaxRecent + 1)
        BY <1>0, <1>2, <1>5 DEF Capped
      <3>2. SubSeq(a, 2, MaxRecent + 1) \in Seq(Nat)
        BY <1>0, <1>2, <1>5, SubSeqProperties
      <3> QED BY <3>1, <3>2
    <2>2. Len(c) = MaxRecent /\ DOMAIN c = 1 .. MaxRecent /\ \A j \in 1 .. MaxRecent : c[j] = a[j + 1]
      BY <1>0, <1>2, <1>5, <2>1, SubSeqProperties
    <2>3. c[MaxRecent] = n /\ \A j \in 1 .. MaxRecent - 1 : c[j] = kept[j + 1]
      BY <1>0, <1>2, <1>5, <2>2
    <2>4. \A j \in DOMAIN c : c[j] \in ids \cup {n}
      <3> SUFFICES ASSUME NEW j \in 1 .. MaxRecent PROVE c[j] \in ids \cup {n}
        BY <2>2
      <3>1. j = MaxRecent \/ (j \in 1 .. MaxRecent - 1 /\ j + 1 \in 1 .. Len(kept))
        BY <1>0, <1>5
      <3> QED BY <1>3, <2>3, <3>1
    <2>5. \A j, k \in DOMAIN c : j < k => c[j] < c[k]
      <3> SUFFICES ASSUME NEW j \in 1 .. MaxRecent, NEW k \in 1 .. MaxRecent, j < k PROVE c[j] < c[k]
        BY <2>2
      <3>1. /\ j \in 1 .. MaxRecent - 1 /\ j + 1 \in 1 .. Len(kept)
            /\ k = MaxRecent \/ (k \in 1 .. MaxRecent - 1 /\ k + 1 \in 1 .. Len(kept) /\ j + 1 < k + 1)
        BY <1>0, <1>5
      <3> QED BY <1>3, <2>3, <3>1
    <2>6. ASSUME NEW id \in ids \cup {n}
          PROVE  (\E j \in DOMAIN c : c[j] = id) \/ (\A j \in DOMAIN c : id < c[j])
      <3>1. CASE id = n
        <4>1. MaxRecent \in DOMAIN c
          BY <1>0, <2>2
        <4> QED BY <2>3, <3>1, <4>1
      <3>2. ASSUME id \in ids, \A j \in 2 .. Len(kept) : id < kept[j] PROVE \A j \in DOMAIN c : id < c[j]
        <4> SUFFICES ASSUME NEW j \in 1 .. MaxRecent PROVE id < c[j]
          BY <2>2
        <4>1. j = MaxRecent \/ (j \in 1 .. MaxRecent - 1 /\ j + 1 \in 2 .. Len(kept))
          BY <1>0, <1>5
        <4> QED BY <2>3, <3>2, <4>1
      <3>3. ASSUME id \in ids, NEW j \in 1 .. Len(kept), kept[j] = id
            PROVE  (\E k \in DOMAIN c : c[k] = id) \/ (\A k \in DOMAIN c : id < c[k])
        <4>1. CASE j = 1
          <5>1. \A k \in 2 .. Len(kept) : k \in 1 .. Len(kept) /\ 1 < k
            BY <1>0
          <5>2. \A k \in 2 .. Len(kept) : id < kept[k]
            BY <1>3, <3>3, <4>1, <5>1
          <5> QED BY <3>2, <3>3, <5>2
        <4>2. CASE j # 1
          <5>1. j - 1 \in 1 .. MaxRecent - 1 /\ (j - 1) + 1 = j
            BY <1>0, <1>5, <4>2
          <5>2. c[j - 1] = id
            BY <2>3, <3>3, <5>1
          <5>3. j - 1 \in DOMAIN c
            BY <1>0, <2>2, <5>1
          <5> QED BY <5>2, <5>3
        <4> QED BY <4>1, <4>2
      <3>4. ASSUME id \in ids, \A j \in 1 .. Len(kept) : id < kept[j] PROVE \A j \in DOMAIN c : id < c[j]
        BY <1>0, <3>2, <3>4
      <3> QED BY <1>3, <3>1, <3>3, <3>4
    <2>7. Latest(ids \cup {n}, c)
      <3>1. Len(c) <= MaxRecent
        BY <1>0, <2>2
      <3> QED BY <2>2, <2>4, <2>5, <2>6, <3>1 DEF Latest
    <2> QED BY <1>1, <2>1, <2>7
  <1>6. Len(kept) < MaxRecent \/ Len(kept) = MaxRecent
    <2>1. \A l, m \in Nat : l <= m => l < m \/ l = m
      OBVIOUS
    <2>2. MaxRecent \in Nat /\ Len(kept) \in Nat /\ Len(kept) <= MaxRecent
      BY <1>0, Zenon
    <2> QED BY <2>1, <2>2, Zenon
  <1> QED BY <1>4, <1>5, <1>6

-----------------------------------------------------------------------------
(* The one replica at work. *)
LEMMA OnlyWorks ==
    ASSUME BaseInv, Unhindered, OnlyLoop, NEW r \in Replica, NEW i \in Worker, thread[r][i].at # "off"
    PROVE  /\ i = 1 /\ deployment.replicas = {r} /\ loop[r].up /\ ~loop[r].stop /\ seen.since[r] # None
           /\ loop[r].stopping = "no"
           /\ key # None => HoldsLease(r)
           /\ \A q \in Replica \ {r} : thread[q][1].at = "off"
  <1>1. i = 1
    BY DEF OnlyLoop, OnlyThread, Worker
  <1>2. r \in deployment.replicas /\ loop[r].up /\ ~loop[r].stop /\ seen.since[r] # None /\ loop[r].stopping = "no"
    BY <1>1 DEF OnlyLoop, OnlyThread
  <1>3. deployment.replicas = {r}
    BY <1>2 DEF Unhindered
  <1> QED BY <1>1, <1>2, <1>3 DEF OnlyLoop, OnlyThread, OnlyHolder, HoldsLease

(* Between two ticks it wakes in time and never misses its tick.           *)
Readies(r, x) ==
    /\ Moves(r, 1, x) /\ x.at \in Before /\ x.batch = << >>
    /\ thread[r][1].at \in Before \/ (thread[r][1].at = "asleep" /\ now = thread[r][1].wake)
    /\ x.at = "acquire" => key' = None
    /\ x.at = "renew" => key' # None
    /\ key' # None => key'.holder = r
    /\ \A q \in Replica : loop'[q].up = loop[q].up /\ loop'[q].stop = loop[q].stop
                          /\ loop'[q].stopping = loop[q].stopping
    /\ seen'.since = seen.since
    /\ UNCHANGED <<deployment, now, store, fires, stops>>

LEMMA OnlyReadies ==
    ASSUME BaseInv, Unhindered, OnlyLoop, NEW r \in Replica, NEW i \in Worker, Between(r, i)
    PROVE  \E x \in ThreadRecord : Readies(r, x)
  <1>0. TypeOK /\ loop \in LoopTypes
    BY DEF BaseInv, TypeOK, LoopTypes
  <1>a. \A ok : Reaches(ok) => ok
    BY DEF Reaches, Unhindered
  <1>b. /\ thread[r][i].at \in {"asleep", "ensure", "acquire", "renew", "set"}
        /\ UNCHANGED <<deployment, now, store, fires, stops>>
    BY DEF Between, Wake, Ensure, RenewRead, RenewSet, TryAcquire
  <1>c. /\ i = 1 /\ loop[r].up /\ ~loop[r].stop /\ seen.since[r] # None
        /\ key # None => HoldsLease(r)
    <2>1. thread[r][i].at # "off"
      BY <1>b
    <2> QED BY <2>1, OnlyWorks
  <1>d. thread[r][1].batch = << >>
    BY <1>b, <1>c DEF BaseInv, BatchesFit
  <1>1. CASE Wake(r, i)
    <2>1. Goto(r, i, "ensure") /\ now >= thread[r][1].wake /\ UNCHANGED <<key, loop, seen>> /\ thread[r][1].at = "asleep"
      BY <1>1, <1>c DEF Wake
    <2>2. now = thread[r][1].wake
      <3>1. now <= thread[r][1].wake
        BY <2>1 DEF OnlyLoop, OnTime
      <3>2. thread[r][1].wake \in Nat /\ now \in Nat
        BY <1>0, Settings DEF TypeOK, ThreadRecord, Worker
      <3> QED BY <2>1, <3>1, <3>2
    <2>3. PICK x \in ThreadRecord : Moves(r, i, x) /\ x.at = "ensure" /\ x.batch = thread[r][i].batch
      BY <1>0, <2>1, GotoMoves DEF At
    <2> QED BY <1>b, <1>c, <1>d, <2>1, <2>2, <2>3 DEF Readies, Before, HoldsLease
  <1>2. CASE Ensure(r, i)
    <2>0. thread[r][1].at = "ensure" /\ key' = key
      BY <1>2, <1>c DEF Ensure
    <2>1. \A q \in Replica : loop'[q].up = loop[q].up /\ loop'[q].stop = loop[q].stop
                             /\ loop'[q].stopping = loop[q].stopping
      <3>1. CASE UNCHANGED loop
        BY <3>1
      <3>2. ASSUME NEW t \in 0 .. RenewEvery - 1, loop' = [loop EXCEPT ![r].ticks = t]
            PROVE  \A q \in Replica : loop'[q].up = loop[q].up /\ loop'[q].stop = loop[q].stop
                                      /\ loop'[q].stopping = loop[q].stopping
        BY <1>0, <3>2 DEF LoopTypes, LoopRecord
      <3>3. (loop[r].ticks + 1) % RenewEvery \in 0 .. RenewEvery - 1
        BY <1>0 DEF LoopTypes, LoopRecord, RenewEvery
      <3> QED BY <1>2, <3>1, <3>2, <3>3 DEF Ensure
    <2>2. \/ MayTick(r, i)
          \/ seen' = seen /\ ((Goto(r, i, "acquire") /\ key = None) \/ (Goto(r, i, "renew") /\ key # None))
      BY <1>2, <1>a, <1>c DEF Ensure, HoldsLease
    <2>3. seen'.since = seen.since
      BY <1>0, <2>2, TickTimes
    <2>4. PICK at \in {"tick", "acquire", "renew"} :
              Goto(r, i, at) /\ (at = "acquire" => key = None) /\ (at = "renew" => key # None)
      BY <2>2 DEF MayTick
    <2>5. PICK x \in ThreadRecord : Moves(r, i, x) /\ x.at = at /\ x.batch = thread[r][i].batch
      BY <1>0, <2>4, GotoMoves DEF At
    <2> QED BY <1>b, <1>c, <1>d, <2>0, <2>1, <2>3, <2>4, <2>5 DEF Readies, Before, HoldsLease
  <1>3. CASE RenewRead(r, i)
    <2>1. thread[r][1].at = "renew" /\ UNCHANGED <<key, loop, seen>>
      BY <1>3, <1>c DEF RenewRead
    <2>2. key # None
      BY <2>1 DEF OnlyLoop, OnlyHolder
    <2>3. Goto(r, i, "set")
      BY <1>3, <1>a, <1>c, <2>2 DEF RenewRead
    <2>4. PICK x \in ThreadRecord : Moves(r, i, x) /\ x.at = "set" /\ x.batch = thread[r][i].batch
      BY <1>0, <2>3, GotoMoves DEF At
    <2> QED BY <1>b, <1>c, <1>d, <2>1, <2>4 DEF Readies, Before, HoldsLease
  <1>4. CASE RenewSet(r, i) \/ TryAcquire(r, i)
    <2>1. thread[r][1].at \in {"set", "acquire"} /\ UNCHANGED loop
      BY <1>4, <1>c DEF RenewSet, TryAcquire
    <2>2. thread[r][1].at = "acquire" => key = None
      BY DEF OnlyLoop, OnlyHolder
    <2>3. key' = Lease(r) /\ MayTick(r, i)
      BY <1>4, <1>a, <1>c, <2>2 DEF RenewSet, TryAcquire
    <2>4. PICK x \in ThreadRecord : Moves(r, i, x) /\ x.at = "tick" /\ x.batch = thread[r][i].batch
      BY <1>0, <2>3, MayTickMoves
    <2>5. seen'.since = seen.since
      BY <1>0, <2>3, TickTimes
    <2>6. key'.holder = r
      BY <2>3 DEF Lease
    <2> QED BY <1>b, <1>c, <1>d, <2>1, <2>4, <2>5, <2>6 DEF Readies, Before
  <1> QED BY <1>1, <1>2, <1>3, <1>4 DEF Between

(* A step of the one thread, to work or to sleep.                          *)
LEMMA WorkKeepsLoop ==
    ASSUME BaseInv, Unhindered, OnlyLoop, NEW r \in Replica, NEW x \in ThreadRecord,
           Moves(r, 1, x), thread[r][1].at # "off", x.at \notin {"off", "acquire", "renew"}, Sleeps(x),
           UNCHANGED <<deployment, now, key, loop, seen>>
    PROVE  OnlyLoop'
  <1>1. 1 \in Worker /\ 2 \in Worker /\ TypeOK
    BY DEF Worker, BaseInv
  <1>2. r \in deployment.replicas /\ loop[r].up /\ seen.since[r] # None
    BY DEF OnlyLoop, OnlyThread
  <1>3. /\ thread'[r][1] = x /\ thread'[r][2] = thread[r][2]
        /\ \A q \in Replica \ {r} : thread'[q] = thread[q]
    BY <1>1 DEF Moves
  <1>4. OnlyThread'
    BY <1>2, <1>3 DEF OnlyLoop, OnlyThread
  <1>5. OnlyHolder'
    BY <1>3 DEF OnlyLoop, OnlyHolder
  <1>6. OnTime'
    BY <1>1, <1>3, Settings DEF OnlyLoop, OnTime, Sleeps
  <1> QED BY <1>4, <1>5, <1>6 DEF OnlyLoop

LEMMA ReadyKeepsLoop ==
    ASSUME BaseInv, Unhindered, OnlyLoop, NEW r \in Replica, NEW x \in ThreadRecord, Readies(r, x)
    PROVE  OnlyLoop'
  <1>1. 1 \in Worker /\ 2 \in Worker /\ thread[r][1].at # "off"
    BY DEF Worker, Readies, Before
  <1>2. /\ r \in deployment.replicas /\ loop[r].up /\ seen.since[r] # None
        /\ \A q \in Replica \ {r} : thread[q][1].at = "off"
    BY <1>1, OnlyWorks DEF OnlyLoop, OnlyThread
  <1>3. /\ thread'[r][1] = x /\ thread'[r][2] = thread[r][2]
        /\ \A q \in Replica \ {r} : thread'[q] = thread[q]
    BY <1>1 DEF Readies, Moves
  <1>4. OnlyThread'
    <2>1. x.at # "off" /\ seen'.since = seen.since /\ deployment' = deployment
          /\ \A q \in Replica : loop'[q].up = loop[q].up /\ loop'[q].stop = loop[q].stop
                                /\ loop'[q].stopping = loop[q].stopping
      BY DEF Readies, Before
    <2>2. \A q \in Replica : /\ thread'[q][2] = thread[q][2]
                             /\ (thread'[q][1].at = "off") <=> (thread[q][1].at = "off")
      BY <1>1, <1>3, <2>1
    <2> QED BY <2>1, <2>2 DEF OnlyLoop, OnlyThread
  <1>5. OnlyHolder'
    BY <1>2, <1>3 DEF OnlyHolder, Readies
  <1>6. OnTime'
    BY <1>3 DEF OnlyLoop, OnTime, Readies, Before
  <1> QED BY <1>4, <1>5, <1>6 DEF OnlyLoop

LEMMA StartKeepsLoop ==
    ASSUME BaseInv, Unhindered, OnlyLoop, NEW r \in Replica, Start(r)
    PROVE  /\ OnlyLoop' /\ thread[r][1].at = "off" /\ thread'[r][1].at = "ensure"
           /\ seen.since[r] = None /\ seen'.since[r] = now
           /\ \A q \in Replica \ {r} : seen'.since[q] = seen.since[q] /\ thread'[q] = thread[q]
  <1>0. TypeOK
    BY DEF BaseInv
  <1>1. /\ r \in deployment.replicas /\ ~loop[r].up /\ UNCHANGED <<deployment, now, key, store, fires, stops>>
    BY DEF Start
  <1>2. thread[r][1].at = "off" /\ seen.since[r] = None
    BY <1>1 DEF OnlyLoop, OnlyThread
  <1>3. /\ \A q \in Replica \ {r} : loop'[q] = loop[q] /\ thread'[q] = thread[q]
        /\ thread'[r][2] = thread[r][1] /\ thread'[r][1].at = "ensure"
        /\ loop'[r].up /\ loop'[r].stopping = "no"
    BY <1>0, StartDoes
  <1>4. ~loop'[r].stop
    BY <1>0 DEF Start, TypeOK, LoopRecord
  <1>5. seen'.since[r] = now /\ \A q \in Replica \ {r} : seen'.since[q] = seen.since[q]
    BY <1>0 DEF Start, TypeOK
  <1>6. now # None
    BY <1>0, Settings, NoneAssumption
  <1>7. OnlyThread'
    BY <1>1, <1>2, <1>3, <1>4, <1>5, <1>6 DEF OnlyLoop, OnlyThread
  <1>8. OnlyHolder'
    BY <1>1, <1>3 DEF OnlyLoop, OnlyHolder
  <1>9. OnTime'
    BY <1>1, <1>3 DEF OnlyLoop, OnTime
  <1> QED BY <1>2, <1>3, <1>5, <1>7, <1>8, <1>9 DEF OnlyLoop

LEMMA PassKeepsLoop ==
    ASSUME BaseInv, Unhindered, OnlyLoop, Pass
    PROVE  OnlyLoop' /\ \A r \in Replica : thread[r][1].at \in {"off", "asleep"}
  <1>0. TypeOK
    BY DEF BaseInv
  <1>1. now' = now + 1 /\ UNCHANGED <<deployment, loop, thread, seen>> /\ (key' = key \/ key' = None)
    BY <1>0, PassDoes
  <1>2. \A r \in Replica : /\ thread[r][1].at \in {"off", "asleep"}
                           /\ thread[r][1].at = "asleep" => thread[r][1].wake > now
    BY DEF Pass, Pace, Unhindered, Busy, Worker
  <1>3. OnlyThread'
    BY <1>1 DEF OnlyLoop, OnlyThread
  <1>4. OnlyHolder'
    BY <1>1, <1>2 DEF OnlyLoop, OnlyHolder
  <1>5. OnTime'
    <2> SUFFICES ASSUME NEW q \in Replica, thread[q][1].at = "asleep"
                 PROVE  now + 1 <= thread[q][1].wake /\ thread[q][1].wake <= now + 1 + deployment.interval
      BY <1>1 DEF OnTime
    <2>1. thread[q][1].wake \in Nat /\ now \in Nat /\ deployment.interval \in Nat
      BY <1>0, Settings DEF TypeOK, ThreadRecord, Worker
    <2>2. thread[q][1].wake > now /\ thread[q][1].wake <= now + deployment.interval
      BY <1>2 DEF OnlyLoop, OnTime
    <2> QED BY <2>1, <2>2
  <1> QED BY <1>2, <1>3, <1>4, <1>5 DEF OnlyLoop

(* A loop that is neither stopped nor dies never winds down.               *)
LEMMA NeverWindsDown ==
    ASSUME BaseInv, Unhindered, OnlyLoop, stops' = 0, NEW r \in Replica
    PROVE  ~WindsDown(r) /\ ~Crash(r)
  <1>1. loop[r].stopping = "no" /\ stops = 0
    BY DEF OnlyLoop, OnlyThread, Unhindered
  <1>2. ~Stop(r) /\ ~Crash(r)
    BY <1>1 DEF Stop, Crash
  <1> QED BY <1>1, <1>2 DEF WindsDown, StopJoined, ReleaseRead, ReleaseDelete

-----------------------------------------------------------------------------
(* The schedules of a replica. *)
LEMMA KeptTypes ==
    ASSUME BaseInv, NEW r \in Replica
    PROVE  /\ thread[r][1] \in ThreadRecord /\ thread[r][1].batch \in Seq(Entry) /\ 1 \in Worker
           /\ thread[r][1].wake \in Nat /\ now \in Nat /\ deployment.interval \in Nat
           /\ thread[r][1].batch = << >> <=> thread[r][1].at \notin {"fire", "record"}
           /\ seen.since[r] \in Nat \cup {None}
  BY Settings DEF BaseInv, TypeOK, BatchesFit, ThreadRecord, Worker

LEMMA ScheduleTypes ==
    ASSUME BaseInv, NEW r \in Replica, NEW s \in Schedule
    PROVE  /\ fires[r][s] \in Seq(Firing) /\ Told(r, s) \in SUBSET Nat
           /\ Live(r, s) => /\ store[r][s] \in ScheduleRecord /\ store[r][s].next \in Nat
                            /\ store[r][s].recent \in Seq(Nat) /\ store[r][s].created \in Nat
                            /\ store[r][s].minutes \in (SUBSET (0 .. Cycle - 1)) \ {{}}
  <1>1. fires[r][s] \in Seq(Firing)
    BY DEF BaseInv, TypeOK
  <1>2. Told(r, s) \in SUBSET Nat
    BY <1>1 DEF Told
  <1>3. Live(r, s) => store[r][s] \in ScheduleRecord
    BY LiveSchedule DEF BaseInv
  <1>4. Time \subseteq Nat
    BY Settings DEF BaseInv
  <1> QED BY <1>1, <1>2, <1>3, <1>4 DEF ScheduleRecord

(* A replica that nothing of happens to. *)
LEMMA Untouched ==
    ASSUME NEW q \in Replica, KeptAt(q), thread'[q] = thread[q], store'[q] = store[q], fires'[q] = fires[q],
           seen'.since[q] = seen.since[q], UNCHANGED <<deployment, now>>
    PROVE  KeptAt(q)'
  <1>1. BatchIsFresh(q)' /\ HeadIsLast(q)'
    BY DEF KeptAt, BatchIsFresh, HeadIsLast, Recording
  <1>2. ASSUME NEW s \in Schedule PROVE KeptOne(q, s)'
    <2>1. Live(q, s)' <=> Live(q, s)
      BY DEF Live
    <2>2. KeptOne(q, s)
      BY DEF KeptAt
    <2>3. Covered(q, s)' <=> Covered(q, s)
      BY DEF Covered, AfterStart, Fired, Awaits, IsBehind, Pending
    <2>4. NextIsFresh(q, s)' <=> NextIsFresh(q, s)
      BY DEF NextIsFresh
    <2>5. Told(q, s)' = Told(q, s)
      BY DEF Told, Recording
    <2> QED BY <2>1, <2>2, <2>3, <2>4, <2>5 DEF KeptOne, Latest
  <1> QED BY <1>1, <1>2 DEF KeptAt

(* A replica between two ticks. *)
LEMMA Idle ==
    ASSUME BaseInv, BaseInv', NEW r \in Replica, KeptAt(r),
           thread[r][1].at \notin {"fire", "record"}, thread'[r][1].at \notin {"fire", "record"},
           store'[r] = store[r], fires'[r] = fires[r],
           \A t \in Nat : AfterStart(r, t)' => AfterStart(r, t),
           \A s \in Schedule : Live(r, s) => NextIsFresh(r, s)'
    PROVE  KeptAt(r)'
  <1>1. thread[r][1].batch = << >> /\ thread'[r][1].batch = << >>
    BY DEF BaseInv, BatchesFit, Worker
  <1>2. BatchIsFresh(r)' /\ HeadIsLast(r)'
    BY <1>1 DEF BatchIsFresh, HeadIsLast, Recording
  <1>3. ASSUME NEW s \in Schedule, Live(r, s)'
        PROVE  Covered(r, s)' /\ NextIsFresh(r, s)' /\ Latest(Told(r, s), store[r][s].recent)'
    <2>1. Live(r, s) /\ KeptOne(r, s)
      BY <1>3 DEF Live, KeptAt
    <2>2. Covered(r, s)'
      <3> SUFFICES ASSUME NEW t \in Nat, IsBehind(store[r][s], t), AfterStart(r, t) PROVE Fired(r, s, t)'
        BY DEF Covered, IsBehind
      <3>1. ~Awaits(thread[r][1], s, t)
        BY <1>1 DEF Awaits, Pending
      <3>2. Fired(r, s, t)
        BY <2>1, <3>1 DEF KeptOne, Covered
      <3> QED BY <3>2 DEF Fired
    <2>3. Told(r, s)' = Told(r, s)
      BY DEF Told, Recording
    <2> QED BY <1>3, <2>1, <2>2, <2>3 DEF KeptOne, Latest
  <1> QED BY <1>2, <1>3 DEF KeptAt, KeptOne

LEMMA PassKeeps ==
    ASSUME BaseInv, BaseInv', Pass, NEW r \in Replica, KeptAt(r), thread[r][1].at \in {"off", "asleep"}
    PROVE  KeptAt(r)'
  <1>1. UNCHANGED <<deployment, thread, store, fires, seen>>
    BY DEF Pass
  <1>2. \A t \in Nat : AfterStart(r, t)' => AfterStart(r, t)
    BY <1>1 DEF AfterStart
  <1>3. ASSUME NEW s \in Schedule, Live(r, s) PROVE NextIsFresh(r, s)'
    BY <1>1, <1>3 DEF KeptAt, KeptOne, NextIsFresh, Before
  <1> QED BY <1>1, <1>2, <1>3, Idle

LEMMA StartKeeps ==
    ASSUME BaseInv, BaseInv', NEW r \in Replica, Start(r), KeptAt(r), thread[r][1].at = "off",
           thread'[r][1].at = "ensure", seen.since[r] = None, seen'.since[r] = now
    PROVE  KeptAt(r)'
  <1>1. UNCHANGED <<deployment, now, store, fires>>
    BY DEF Start
  <1>2. \A t \in Nat : AfterStart(r, t)
    BY DEF AfterStart
  <1>3. ASSUME NEW s \in Schedule, Live(r, s) PROVE NextIsFresh(r, s)'
    BY <1>1, <1>3 DEF KeptAt, KeptOne, NextIsFresh
  <1> QED BY <1>1, <1>2, <1>3, Idle

LEMMA ReadyKeeps ==
    ASSUME BaseInv, BaseInv', NEW r \in Replica, NEW x \in ThreadRecord, Readies(r, x), KeptAt(r)
    PROVE  KeptAt(r)'
  <1>1. UNCHANGED <<deployment, now, store, fires>> /\ seen'.since = seen.since /\ thread'[r][1] = x
    BY DEF Readies, Moves, Worker
  <1>2. \A t \in Nat : AfterStart(r, t)' => AfterStart(r, t)
    BY <1>1 DEF AfterStart
  <1>3. ASSUME NEW s \in Schedule, Live(r, s) PROVE NextIsFresh(r, s)'
    <2>1. NextIsFresh(r, s)
      BY <1>3 DEF KeptAt, KeptOne
    <2>2. store[r][s].next % Minute = 0 /\ (seen.since[r] = now \/ now < store[r][s].next + deployment.interval)
      BY <2>1 DEF NextIsFresh, Readies
    <2> QED BY <1>1, <2>2 DEF NextIsFresh, Readies, Before
  <1>4. thread[r][1].at \notin {"fire", "record"} /\ thread'[r][1].at \notin {"fire", "record"}
    BY <1>1 DEF Readies, Before
  <1> QED BY <1>1, <1>2, <1>3, <1>4, Idle

(* What a thread that goes to sleep, or goes on, knows of the next times.  *)
LEMMA StaysFresh ==
    ASSUME BaseInv, NEW r \in Replica, NEW s \in Schedule, NEW x \in ThreadRecord, NEW n \in Nat,
           thread'[r][1] = x, x.at \in {"asleep", "fire", "record"}, Sleeps(x), UNCHANGED <<deployment, now>>,
           store'[r][s].next = n, n % Minute = 0, now < n
    PROVE  NextIsFresh(r, s)'
  <1>1. now \in Nat /\ deployment.interval \in Nat
    BY KeptTypes
  <1> QED BY <1>1 DEF NextIsFresh, Before, Sleeps

LEMMA TickKeeps ==
    ASSUME BaseInv, BaseInv', Unhindered, NEW r \in Replica, TickDue(r, 1), ~seen'.raised, KeptAt(r)
    PROVE  KeptAt(r)' /\ \E x \in ThreadRecord : Moves(r, 1, x) /\ x.at \in {"asleep", "fire"} /\ Sleeps(x)
  <1>0. TypeOK /\ 1 \in Worker /\ now \in Nat /\ deployment.interval \in Nat /\ deployment.interval <= Minute
        /\ Minute \in Nat
    BY KeptTypes, BoundsAssumption DEF BaseInv, Unhindered
  <1>2. PICK x \in ThreadRecord : /\ Moves(r, 1, x) /\ x.at = (IF x.batch = << >> THEN "asleep" ELSE "fire")
                                  /\ Sleeps(x) /\ Sweeps(r, x) /\ SweepsAll(r, x)
    BY <1>0, TickDoes
  <1>1. /\ thread[r][1].at = "tick" /\ UNCHANGED <<deployment, now, key, loop, fires, seen, stops>>
        /\ \A s \in Schedule \ Due(r, now) : store'[r][s] = store[r][s]
        /\ \A s \in Due(r, now) : store'[r][s] = Advance(store[r][s]) /\ s \in Advanced(r)
    BY <1>0, <1>2, TickDoes DEF SweepsAll
  <1>3. thread'[r][1] = x /\ x.at \in {"asleep", "fire"} /\ x.batch \in Seq(Entry)
    BY <1>2 DEF Moves, ThreadRecord
  <1>4. thread[r][1].batch = << >>
    BY <1>1, KeptTypes
  <1>5. ASSUME NEW s \in Schedule, Live(r, s)
        PROVE  /\ KeptOne(r, s) /\ Covered(r, s) /\ NextIsFresh(r, s)
               /\ store[r][s].next \in Nat /\ store[r][s].next % Minute = 0
               /\ seen.since[r] = now \/ now < store[r][s].next + deployment.interval
               /\ \A t \in Nat : IsBehind(store[r][s], t) /\ AfterStart(r, t) => Fired(r, s, t)
    <2>1. KeptOne(r, s) /\ Covered(r, s) /\ NextIsFresh(r, s)
      BY <1>5 DEF KeptAt, KeptOne
    <2>2. \A t : ~Awaits(thread[r][1], s, t)
      BY <1>4 DEF Awaits, Pending
    <2> QED BY <1>1, <1>5, <2>1, <2>2, ScheduleTypes DEF Covered, NextIsFresh, Before
  <1>6. ASSUME NEW s \in Due(r, now)
        PROVE  /\ s \in Schedule /\ Live(r, s) /\ store[r][s].next <= now
               /\ \E n \in Nat : /\ n = NextFireAfter(store[r][s].minutes, now) /\ n > now /\ n % Minute = 0
                                 /\ \A u \in Nat : now < u /\ u < n => ~Matches(store[r][s].minutes, u)
                                 /\ store'[r][s].next = n
               /\ store'[r][s].minutes = store[r][s].minutes /\ store'[r][s].created = store[r][s].created
               /\ store'[r][s].recent = store[r][s].recent
    <2>1. s \in Schedule /\ Live(r, s) /\ store[r][s].next <= now
      BY DEF Due
    <2>2. store[r][s] \in ScheduleRecord
      BY <2>1, ScheduleTypes
    <2>3. PICK n \in Nat : n = NextFireAfter(store[r][s].minutes, now) /\ n > now /\ n % Minute = 0
                           /\ \A u \in Nat : now < u /\ u < n => ~Matches(store[r][s].minutes, u)
      BY <1>0, <1>1, AdvancedDoes, NextFires
    <2>4. store'[r][s] = [store[r][s] EXCEPT !.next = n]
      BY <1>1, <2>3 DEF Advance
    <2>5. /\ store'[r][s].next = n /\ store'[r][s].minutes = store[r][s].minutes
          /\ store'[r][s].created = store[r][s].created /\ store'[r][s].recent = store[r][s].recent
      BY <2>2, <2>4 DEF ScheduleRecord
    <2> QED BY <2>1, <2>3, <2>5
  <1>7. BatchIsFresh(r)'
    <2> SUFFICES ASSUME NEW j \in DOMAIN x.batch
                 PROVE  \/ now < x.batch[j].slot + deployment.interval
                        \/ seen.since[r] = now /\ x.batch[j].slot <= now
      BY <1>1, <1>3 DEF BatchIsFresh
    <2>1. PICK s \in Due(r, now) : x.batch[j].slot = store[r][s].next
      BY <1>2 DEF Sweeps, SweepsAll
    <2> QED BY <1>5, <1>6, <2>1
  <1>8. HeadIsLast(r)'
    BY <1>3 DEF HeadIsLast, Recording
  <1>9. ASSUME NEW s \in Schedule, Live(r, s)' PROVE KeptOne(r, s)'
    <2>1. Live(r, s)
      BY <1>1, <1>6, <1>9 DEF Live
    <2>2. Told(r, s)' = Told(r, s)
      BY <1>1, <1>3 DEF Told, Recording
    <2>3. CASE s \in Due(r, now)
      <3>1. PICK n \in Nat : /\ n > now /\ n % Minute = 0 /\ store'[r][s].next = n
                             /\ \A u \in Nat : now < u /\ u < n => ~Matches(store[r][s].minutes, u)
        BY <1>6, <2>3
      <3>2. NextIsFresh(r, s)'
        BY <1>1, <1>2, <1>3, <3>1, StaysFresh
      <3>3. Covered(r, s)'
        <4> SUFFICES ASSUME NEW t \in Nat, Matches(store[r][s].minutes, t), store[r][s].created < t, t < n,
                            AfterStart(r, t), ~Fired(r, s, t)
                     PROVE  Awaits(x, s, t)
          BY <1>1, <1>3, <1>6, <2>3, <3>1 DEF Covered, IsBehind, AfterStart, Fired
        <4>1. t <= now
          BY <1>0, <3>1
        <4>2. ~(t < store[r][s].next)
          BY <1>5, <2>1 DEF IsBehind
        <4>3. t % Minute = 0
          BY DEF Matches
        <4>4. CASE t = store[r][s].next
          <5>1. PICK j \in DOMAIN x.batch : x.batch[j].s = s /\ x.batch[j].slot = t
            BY <1>2, <2>3, <4>4 DEF Sweeps, SweepsAll
          <5>2. x.batch # << >>
            BY <5>1
          <5>3. x.at = "fire"
            BY <1>2, <5>2
          <5> QED BY <5>1, <5>3 DEF Awaits, Pending
        <4>5. CASE t > store[r][s].next
          <5>1. store[r][s].next + Minute <= t
            BY <1>5, <2>1, <4>3, <4>5, MultiplesApart
          <5>2. seen.since[r] = now
            BY <1>0, <1>5, <2>1, <4>1, <5>1
          <5>3. now < t
            BY <1>0, <5>2, NoneAssumption DEF AfterStart
          <5> QED BY <1>0, <4>1, <5>3
        <4> QED BY <1>5, <2>1, <4>2, <4>4, <4>5
      <3>4. Latest(Told(r, s)', store'[r][s].recent)
        BY <1>5, <1>6, <2>1, <2>2, <2>3 DEF KeptOne
      <3> QED BY <3>2, <3>3, <3>4 DEF KeptOne, Latest
    <2>4. CASE s \notin Due(r, now)
      <3>1. store'[r][s] = store[r][s] /\ store[r][s].next \in Nat
        BY <1>1, <1>5, <2>1, <2>4
      <3>2. now < store[r][s].next
        BY <1>0, <2>1, <2>4, <3>1 DEF Due
      <3>3. NextIsFresh(r, s)'
        BY <1>1, <1>2, <1>3, <1>5, <2>1, <3>1, <3>2, StaysFresh
      <3>4. Covered(r, s)'
        <4> SUFFICES ASSUME NEW t \in Nat, IsBehind(store[r][s], t), AfterStart(r, t) PROVE Fired(r, s, t)'
          BY <1>1, <3>1 DEF Covered, AfterStart
        <4>1. Fired(r, s, t)
          BY <1>5, <2>1
        <4> QED BY <1>1, <4>1 DEF Fired
      <3>5. Latest(Told(r, s)', store'[r][s].recent)
        BY <1>5, <2>1, <2>2, <3>1 DEF KeptOne
      <3> QED BY <3>3, <3>4, <3>5 DEF KeptOne, Latest
    <2> QED BY <2>3, <2>4
  <1>10. \A s \in Schedule : KeptOne(r, s)'
    BY <1>9 DEF KeptOne
  <1> QED BY <1>2, <1>3, <1>7, <1>8, <1>10 DEF KeptAt

(* The rest of a batch awaits what it awaited, but for its first entry.    *)
LEMMA TailAwaits ==
    ASSUME NEW x \in ThreadRecord, NEW y \in ThreadRecord, x.batch # << >>, y.batch = Tail(x.batch),
           y.at = IF y.batch = << >> THEN "asleep" ELSE "fire",
           NEW j \in DOMAIN x.batch, j > 1
    PROVE  Awaits(y, x.batch[j].s, x.batch[j].slot)
  <1>1. x.batch \in Seq(Entry)
    BY DEF ThreadRecord
  <1>2. j - 1 \in 1 .. Len(x.batch) - 1 /\ Len(x.batch) \in Nat
    BY <1>1
  <1>3. y.batch \in Seq(Entry) /\ Len(y.batch) = Len(x.batch) - 1 /\ y.batch[j - 1] = x.batch[j]
    BY <1>1, <1>2
  <1>4. j - 1 \in DOMAIN y.batch /\ y.batch # << >>
    BY <1>2, <1>3
  <1>5. j - 1 \in Pending(y)
    BY <1>4 DEF Pending
  <1> QED BY <1>3, <1>5 DEF Awaits

LEMMA TailFresh ==
    ASSUME BaseInv, NEW r \in Replica, NEW x \in ThreadRecord, thread'[r][1] = x, thread[r][1].batch # << >>,
           x.batch = Tail(thread[r][1].batch), BatchIsFresh(r), UNCHANGED <<deployment, now, seen>>
    PROVE  BatchIsFresh(r)'
  <1>1. thread[r][1].batch \in Seq(Entry)
    BY KeptTypes
  <1>2. ASSUME NEW j \in DOMAIN x.batch PROVE j + 1 \in DOMAIN thread[r][1].batch /\ x.batch[j] = thread[r][1].batch[j + 1]
    BY <1>1
  <1> QED BY <1>2 DEF BatchIsFresh

LEMMA FireKeeps ==
    ASSUME BaseInv, BaseInv', Unhindered, NEW r \in Replica, Fire(r, 1), KeptAt(r)
    PROVE  KeptAt(r)' /\ \E x \in ThreadRecord : Moves(r, 1, x) /\ x.at \in {"asleep", "fire", "record"} /\ Sleeps(x)
  <1>0. 1 \in Worker
    BY DEF Worker
  <1>1. /\ thread[r][1].at = "fire" /\ thread[r][1].batch # << >>
        /\ UNCHANGED <<deployment, now, key, loop, store, seen, stops>>
    BY <1>0, FireDoes
  <1>2. PICK e \in Entry, f \in Firing :
                 /\ e = thread[r][1].batch[1] /\ f.slot = e.slot
                 /\ fires'[r][e.s] = Append(fires[r][e.s], f)
                 /\ \A s \in Schedule \ {e.s} : fires'[r][s] = fires[r][s]
    BY <1>0, FireDoes
  <1>3. PICK x \in ThreadRecord : Moves(r, 1, x) /\ Sleeps(x) /\ (Skips(r, 1, x) \/ Creates(r, 1, x))
    BY <1>0, FireDoes
  <1>4. thread'[r][1] = x /\ x.at \in {"asleep", "fire", "record"}
    BY <1>3 DEF Moves, Skips, Creates
  <1>5. PICK b \in Seq(Entry) : b = thread[r][1].batch
    BY KeptTypes
  <1>6. b # << >> /\ 1 \in DOMAIN b /\ e = b[1] /\ e.s \in Schedule
    <2>1. b # << >> /\ e = b[1]
      BY <1>1, <1>2, <1>5
    <2>2. 1 \in DOMAIN b
      BY <2>1
    <2> QED BY <2>1, <2>2 DEF Entry
  <1>7. PICK l \in Seq(Firing) : l = fires[r][e.s]
    BY <1>6, ScheduleTypes
  <1>8. /\ fires'[r][e.s] = Append(l, f) /\ Len(Append(l, f)) = Len(l) + 1 /\ Len(l) \in Nat
        /\ DOMAIN Append(l, f) = 1 .. Len(l) + 1 /\ DOMAIN l = 1 .. Len(l)
        /\ Append(l, f)[Len(l) + 1] = f /\ \A k \in 1 .. Len(l) : Append(l, f)[k] = l[k]
    <2>1. /\ Len(Append(l, f)) = Len(l) + 1 /\ Len(l) \in Nat
          /\ DOMAIN Append(l, f) = 1 .. Len(l) + 1 /\ DOMAIN l = 1 .. Len(l)
      OBVIOUS
    <2>2. Append(l, f)[Len(l) + 1] = f /\ \A k \in 1 .. Len(l) : Append(l, f)[k] = l[k]
      OBVIOUS
    <2> QED BY <1>2, <1>7, <2>1, <2>2
  <1>a. BatchIsFresh(r) /\ \A s \in Schedule : KeptOne(r, s)
    BY DEF KeptAt
  <1>b. (Skips(r, 1, x) /\ f.ok = FALSE) \/ (Creates(r, 1, x) /\ f.ok = TRUE /\ x.batch[1].s = e.s /\ x.at = "record")
    <2>1. fires'[r][e.s][Len(fires'[r][e.s])] = f
      BY <1>8
    <2>2. Creates(r, 1, x) => x.batch[1].s = e.s
      BY <1>5, <1>6 DEF Creates
    <2> QED BY <1>2, <1>3, <2>1, <2>2 DEF Skips, Creates, Logs
  <1>9. BatchIsFresh(r)'
    <2>1. CASE Skips(r, 1, x)
      BY <1>1, <1>4, <1>a, <2>1, TailFresh DEF Skips
    <2>2. CASE Creates(r, 1, x)
      BY <1>1, <1>4, <1>a, <2>2 DEF Creates, BatchIsFresh
    <2> QED BY <1>3, <2>1, <2>2
  <1>10. HeadIsLast(r)'
    <2>1. CASE Skips(r, 1, x)
      <3>1. x.at # "record"
        BY <2>1 DEF Skips
      <3> QED BY <1>4, <3>1 DEF HeadIsLast, Recording
    <2>2. CASE Creates(r, 1, x)
      <3>1. x.batch[1].s = e.s /\ x.batch[1].id = Len(fires'[r][e.s]) /\ f.ok = TRUE
        BY <1>b, <2>2 DEF Creates, Skips
      <3>2. Len(fires'[r][e.s]) > 0 /\ fires'[r][e.s][Len(fires'[r][e.s])] = f
        BY <1>8
      <3> QED BY <1>4, <3>1, <3>2 DEF HeadIsLast, Recording
    <2> QED BY <1>3, <2>1, <2>2
  <1>11. ASSUME NEW s \in Schedule, Live(r, s)' PROVE KeptOne(r, s)'
    <2>1. Live(r, s) /\ Covered(r, s) /\ NextIsFresh(r, s) /\ Latest(Told(r, s), store[r][s].recent)
      BY <1>1, <1>11, <1>a DEF Live, KeptOne
    <2>2. NextIsFresh(r, s)'
      <3>1. store[r][s].next \in Nat /\ store[r][s].next % Minute = 0 /\ now < store[r][s].next
        BY <1>1, <2>1, ScheduleTypes DEF NextIsFresh
      <3> QED BY <1>1, <1>3, <1>4, <3>1, StaysFresh
    <2>3. Covered(r, s)'
      <3> SUFFICES ASSUME NEW t \in Nat, IsBehind(store[r][s], t), AfterStart(r, t)
                   PROVE  Fired(r, s, t)' \/ Awaits(x, s, t)
        BY <1>1, <1>4 DEF Covered, AfterStart
      <3>1. CASE Fired(r, s, t)
        <4>1. PICK k \in DOMAIN fires[r][s] : fires[r][s][k].slot = t
          BY <3>1 DEF Fired
        <4>2. k \in DOMAIN fires'[r][s] /\ fires'[r][s][k] = fires[r][s][k]
          <5>1. CASE s = e.s
            BY SMTT(30), <1>7, <1>8, <4>1, <5>1
          <5>2. CASE s # e.s
            BY <1>2, <4>1, <5>2
          <5> QED BY <5>1, <5>2
        <4> QED BY <4>1, <4>2 DEF Fired
      <3>2. CASE Awaits(thread[r][1], s, t)
        <4>1. PICK j \in DOMAIN b : b[j].s = s /\ b[j].slot = t
          BY <1>5, <3>2 DEF Awaits, Pending
        <4>2. CASE j = 1
          <5>1. s = e.s /\ f.slot = t
            BY <1>2, <1>6, <4>1, <4>2
          <5>2. Len(l) + 1 \in DOMAIN fires'[r][s] /\ fires'[r][s][Len(l) + 1] = f
            BY <1>8, <5>1
          <5> QED BY <5>1, <5>2 DEF Fired
        <4>3. CASE j # 1
          <5>1. j > 1
            BY <4>1, <4>3
          <5>2. CASE Skips(r, 1, x)
            <6>1. thread[r][1] \in ThreadRecord
              BY KeptTypes
            <6>2. Awaits(x, thread[r][1].batch[j].s, thread[r][1].batch[j].slot)
              BY <1>1, <1>5, <5>1, <5>2, <6>1, TailAwaits DEF Skips
            <6> QED BY <1>5, <4>1, <6>2
          <5>3. CASE Creates(r, 1, x)
            <6>1. j \in DOMAIN x.batch /\ x.batch[j].s = s /\ x.batch[j].slot = t
              BY <1>5, <4>1, <5>3 DEF Creates
            <6> QED BY <5>1, <6>1 DEF Awaits, Pending
          <5> QED BY <1>3, <5>2, <5>3
        <4> QED BY <4>2, <4>3
      <3> QED BY <2>1, <3>1, <3>2 DEF Covered
    <2>4. Told(r, s)' = Told(r, s)
      <3>1. CASE s # e.s
        <4>1. ~Recording(thread[r][1], s) /\ ~Recording(x, s)
          BY <1>1, <1>b, <3>1 DEF Recording, Skips
        <4> QED BY <1>2, <1>4, <3>1, <4>1 DEF Told
      <3>2. CASE s = e.s
        <4>1. ~Recording(thread[r][1], s)
          BY <1>1 DEF Recording
        <4>2. Told(r, s) = {k \in 1 .. Len(l) : l[k].ok}
          BY <1>7, <1>8, <3>2, <4>1 DEF Told
        <4>3. Told(r, s)' = {k \in 1 .. Len(l) + 1 : Append(l, f)[k].ok /\ ~(Recording(x, s) /\ k = Len(l) + 1)}
          BY <1>4, <1>8, <3>2 DEF Told
        <4>4. f.ok => Recording(x, s)
          BY <1>b, <3>2 DEF Recording
        <4>5. ASSUME NEW k \in 1 .. Len(l) + 1
              PROVE  (Append(l, f)[k].ok /\ ~(Recording(x, s) /\ k = Len(l) + 1)) <=> (k \in 1 .. Len(l) /\ l[k].ok)
          <5>1. CASE k = Len(l) + 1
            BY <1>8, <4>4, <5>1
          <5>2. CASE k \in 1 .. Len(l)
            BY <1>8, <5>2
          <5> QED BY <1>8, <5>1, <5>2
        <4>6. 1 .. Len(l) \subseteq 1 .. Len(l) + 1
          BY <1>8
        <4> QED BY <4>2, <4>3, <4>5, <4>6
      <3> QED BY <3>1, <3>2
    <2> QED BY <1>1, <2>1, <2>2, <2>3, <2>4 DEF KeptOne, Latest
  <1>12. \A s \in Schedule : KeptOne(r, s)'
    BY <1>11 DEF KeptOne
  <1> QED BY <1>3, <1>4, <1>9, <1>10, <1>12 DEF KeptAt

LEMMA RecordKeeps ==
    ASSUME BaseInv, BaseInv', Unhindered, NEW r \in Replica, RecordRun(r, 1), KeptAt(r)
    PROVE  KeptAt(r)' /\ \E x \in ThreadRecord : Moves(r, 1, x) /\ x.at \in {"asleep", "fire"} /\ Sleeps(x)
  <1>0. 1 \in Worker
    BY DEF Worker
  <1>1. /\ thread[r][1].at = "record" /\ thread[r][1].batch # << >>
        /\ UNCHANGED <<deployment, now, key, loop, fires, seen, stops>>
        /\ \A s \in Schedule : IF Live(r, s) /\ s = thread[r][1].batch[1].s
                               THEN Remembers(store'[r][s], store[r][s], thread[r][1].batch[1].id)
                               ELSE store'[r][s] = store[r][s]
    BY <1>0, RecordDoes
  <1>2. PICK x \in ThreadRecord : /\ Moves(r, 1, x) /\ x.batch = Tail(thread[r][1].batch)
                                  /\ x.at = (IF x.batch = << >> THEN "asleep" ELSE "fire") /\ Sleeps(x)
    BY <1>0, RecordDoes
  <1>3. thread'[r][1] = x /\ x.at \in {"asleep", "fire"}
    BY <1>2 DEF Moves
  <1>4. BatchIsFresh(r)'
    BY <1>1, <1>2, <1>3, TailFresh DEF KeptAt
  <1>5. HeadIsLast(r)'
    BY <1>3 DEF HeadIsLast, Recording
  <1>6. ASSUME NEW s \in Schedule, Live(r, s)' PROVE KeptOne(r, s)'
    <2>0. Live(r, s) /\ store[r][s] \in ScheduleRecord
      <3>1. Live(r, s)
        BY <1>1, <1>6 DEF Live
      <3> QED BY <3>1, ScheduleTypes
    <2>1. Covered(r, s) /\ NextIsFresh(r, s) /\ Latest(Told(r, s), store[r][s].recent)
      BY <2>0 DEF KeptAt, KeptOne
    <2>2. /\ store'[r][s].minutes = store[r][s].minutes /\ store'[r][s].created = store[r][s].created
          /\ store'[r][s].next = store[r][s].next
      BY <1>1 DEF Remembers
    <2>3. NextIsFresh(r, s)'
      <3>1. store[r][s].next \in Nat /\ store[r][s].next % Minute = 0 /\ now < store[r][s].next
        BY <1>1, <2>0, <2>1, ScheduleTypes DEF NextIsFresh
      <3> QED BY <1>1, <1>2, <1>3, <2>2, <3>1, StaysFresh
    <2>4. Covered(r, s)'
      <3> SUFFICES ASSUME NEW t \in Nat, IsBehind(store[r][s], t), AfterStart(r, t)
                   PROVE  Fired(r, s, t) \/ Awaits(x, s, t)
        BY <1>1, <1>3, <2>2 DEF Covered, AfterStart, IsBehind, Fired
      <3>1. CASE Awaits(thread[r][1], s, t)
        <4>1. PICK j \in DOMAIN thread[r][1].batch :
                  j > 1 /\ thread[r][1].batch[j].s = s /\ thread[r][1].batch[j].slot = t
          BY <1>1, <3>1 DEF Awaits, Pending
        <4>2. thread[r][1] \in ThreadRecord
          BY KeptTypes
        <4>3. Awaits(x, thread[r][1].batch[j].s, thread[r][1].batch[j].slot)
          BY <1>1, <1>2, <4>1, <4>2, TailAwaits
        <4> QED BY <4>1, <4>3
      <3> QED BY <2>1, <3>1 DEF Covered
    <2>5. Latest(Told(r, s)', store'[r][s].recent)
      <3>1. Told(r, s)' = {j \in DOMAIN fires[r][s] : fires[r][s][j].ok}
        BY <1>1, <1>3 DEF Told, Recording
      <3>2. CASE s # thread[r][1].batch[1].s
        <4>1. Told(r, s)' = Told(r, s) /\ store'[r][s] = store[r][s]
          BY <1>1, <3>1, <3>2 DEF Told, Recording
        <4> QED BY <2>1, <4>1
      <3>3. CASE s = thread[r][1].batch[1].s
        <4>1. PICK l \in Seq(Firing) : l = fires[r][s]
          BY ScheduleTypes
        <4>2. Len(l) > 0 /\ l[Len(l)].ok /\ thread[r][1].batch[1].id = Len(l)
          BY <1>1, <3>3, <4>1 DEF KeptAt, HeadIsLast, Recording
        <4>a. DOMAIN l = 1 .. Len(l) /\ Len(l) \in Nat
          OBVIOUS
        <4>b. Recording(thread[r][1], s)
          BY <1>1, <3>3 DEF Recording
        <4>c. Told(r, s) = {j \in DOMAIN l : l[j].ok /\ j # Len(l)}
          BY <4>1, <4>b DEF Told
        <4>3. Told(r, s) = {j \in DOMAIN l : l[j].ok /\ j # Len(l)} /\ DOMAIN l = 1 .. Len(l) /\ Len(l) \in Nat
          BY <4>a, <4>c
        <4>4. Told(r, s)' = Told(r, s) \cup {Len(l)}
          BY <3>1, <4>1, <4>2, <4>3
        <4>5. \A id \in Told(r, s) : id < Len(l)
          BY <4>3
        <4>6. store[r][s].recent \in Seq(Nat) /\ Told(r, s) \in SUBSET Nat
          BY <2>0, ScheduleTypes
        <4>7. store'[r][s].recent = Capped(Append(store[r][s].recent, Len(l)))
          BY <1>1, <2>0, <3>3, <4>2 DEF Remembers
        <4> QED BY <2>1, <4>3, <4>4, <4>5, <4>6, <4>7, LatestAppends
      <3> QED BY <3>2, <3>3
    <2> QED BY <2>3, <2>4, <2>5 DEF KeptOne, Latest
  <1>7. \A s \in Schedule : KeptOne(r, s)'
    BY <1>6 DEF KeptOne
  <1> QED BY <1>2, <1>3, <1>4, <1>5, <1>7 DEF KeptAt

(* A schedule that comes or goes; the others stay. *)
LEMMA StoreKeeps ==
    ASSUME BaseInv, BaseInv', NEW r \in Replica, NEW s \in Schedule, KeptAt(r), KeptOne(r, s)',
           \A u \in Schedule \ {s} : store'[r][u] = store[r][u],
           UNCHANGED <<deployment, now, key, loop, thread, fires, seen, stops>>
    PROVE  KeptAt(r)'
  <1>1. BatchIsFresh(r)' /\ HeadIsLast(r)'
    BY DEF KeptAt, BatchIsFresh, HeadIsLast, Recording
  <1>2. ASSUME NEW u \in Schedule, u # s PROVE KeptOne(r, u)'
    <2>1. store'[r][u] = store[r][u] /\ KeptOne(r, u)
      BY <1>2 DEF KeptAt
    <2>2. (Live(r, u)' <=> Live(r, u)) /\ Told(r, u)' = Told(r, u)
      BY <2>1 DEF Live, Told, Recording
    <2>3. Covered(r, u)' <=> Covered(r, u)
      BY <2>1 DEF Covered, AfterStart, Fired, Awaits, IsBehind, Pending
    <2>4. NextIsFresh(r, u)' <=> NextIsFresh(r, u)
      BY <2>1 DEF NextIsFresh
    <2> QED BY <2>1, <2>2, <2>3, <2>4 DEF KeptOne, Latest
  <1>3. \A u \in Schedule : KeptOne(r, u)'
    BY <1>2
  <1> QED BY <1>1, <1>3 DEF KeptAt

LEMMA CreateKeeps ==
    ASSUME SlotInv, BaseInv', OnlyLoop, NEW r \in Replica, NEW s \in Schedule, NEW c \in Crons, Create(r, s, c),
           KeptAt(r)
    PROVE  KeptAt(r)'
  <1>0. BaseInv /\ TypeOK
    BY DEF SlotInv, BaseInv
  <1>1. /\ store[r][s] = None /\ store'[r][s] \in ScheduleRecord
        /\ \A u \in Schedule \ {s} : store'[r][u] = store[r][u]
        /\ store'[r][s].recent = << >> /\ store'[r][s].created = now
        /\ store'[r][s].next = NextFireAfter(store'[r][s].minutes, now)
        /\ NextFireAfter(store'[r][s].minutes, now) # None
        /\ UNCHANGED <<deployment, now, key, loop, thread, fires, seen, stops>>
    BY <1>0, CreateDoes
  <1>2. fires[r][s] = << >>
    BY <1>1 DEF SlotInv, SlotsArePast
  <1>3. now \in Nat /\ deployment.interval \in Nat /\ thread[r][1].wake \in Nat
    BY <1>0, KeptTypes
  <1>4. PICK n \in Nat : /\ store'[r][s].next = n /\ now < n /\ n % Minute = 0
                         /\ \A u \in Nat : now < u /\ u < n => ~Matches(store'[r][s].minutes, u)
    <2>1. PICK m \in (SUBSET (0 .. Cycle - 1)) \ {{}} : m = store'[r][s].minutes
      BY <1>1 DEF ScheduleRecord
    <2>2. store'[r][s].next = NextFireAfter(m, now) /\ NextFireAfter(m, now) # None
      BY <1>1, <2>1
    <2>3. /\ NextFireAfter(m, now) \in Nat /\ now < NextFireAfter(m, now)
          /\ NextFireAfter(m, now) % Minute = 0
          /\ \A u \in Nat : now < u /\ u < NextFireAfter(m, now) => ~Matches(m, u)
      BY <1>3, <2>2, NextFires
    <2> QED BY <2>1, <2>2, <2>3
  <1>5. NextIsFresh(r, s)'
    <2>1. thread[r][1].at = "asleep" => thread[r][1].wake <= now + deployment.interval
      BY DEF OnlyLoop, OnTime
    <2> QED BY <1>1, <1>3, <1>4, <2>1 DEF NextIsFresh
  <1>6. Covered(r, s)'
    BY <1>1, <1>4 DEF Covered, IsBehind
  <1>7. Latest(Told(r, s)', store'[r][s].recent)
    <2>1. Told(r, s)' = {}
      BY <1>1, <1>2 DEF Told
    <2>2. Len(<< >>) <= MaxRecent /\ DOMAIN << >> = {}
      BY BoundsAssumption
    <2>3. Latest({}, << >>)
      BY <2>2 DEF Latest
    <2> QED BY <1>1, <2>1, <2>3
  <1>8. KeptOne(r, s)'
    BY <1>5, <1>6, <1>7 DEF KeptOne, Latest
  <1> QED BY <1>0, <1>1, <1>8, StoreKeeps

LEMMA DeleteKeeps ==
    ASSUME BaseInv, BaseInv', NEW r \in Replica, NEW s \in Schedule, Delete(r, s), KeptAt(r)
    PROVE  KeptAt(r)'
  <1>1. /\ store'[r][s] = Gone /\ \A u \in Schedule \ {s} : store'[r][u] = store[r][u]
        /\ UNCHANGED <<deployment, now, key, loop, thread, fires, seen, stops>>
    BY DeleteDoes DEF BaseInv
  <1>2. KeptOne(r, s)'
    BY <1>1 DEF KeptOne, Live
  <1> QED BY <1>1, <1>2, StoreKeeps

LEMMA InitUnhindered == Init => UnhinderedInv
  <1> SUFFICES ASSUME Init PROVE OnlyLoop /\ \A r \in Replica : KeptAt(r)
    BY InitSlots DEF UnhinderedInv
  <1>1. /\ \A r \in Replica, i \in Worker : thread[r][i].at = "off" /\ thread[r][i].batch = << >>
        /\ \A r \in Replica : loop[r] = Stopped /\ seen.since[r] = None
        /\ \A r \in Replica, s \in Schedule : ~Live(r, s)
        /\ 1 \in Worker /\ 2 \in Worker /\ key = None
    BY DEF Init, Off, Live, Worker
  <1>2. OnlyLoop
    BY <1>1 DEF OnlyLoop, OnlyThread, OnlyHolder, OnTime, Stopped
  <1>3. ASSUME NEW r \in Replica PROVE KeptAt(r)
    BY <1>1 DEF KeptAt, KeptOne, BatchIsFresh, HeadIsLast, Recording
  <1> QED BY <1>2, <1>3

(* Only a stop and a crash count, and they count up. *)
LEMMA StopsCount ==
    ASSUME BaseInv, [Next]_vars
    PROVE  stops' = 0 => stops = 0
  <1>0. TypeOK /\ stops \in Nat
    BY DEF BaseInv, TypeOK
  <1>1. ASSUME NEW r \in Replica, Start(r) \/ WindsDown(r) \/ Crash(r) PROVE stops' = stops \/ stops' = stops + 1
    BY <1>1 DEF Start, WindsDown, Stop, StopJoined, ReleaseRead, ReleaseDelete, Crash
  <1>2. ASSUME NEW r \in Replica, NEW i \in Worker,
               Between(r, i) \/ TickDue(r, i) \/ Fire(r, i) \/ RecordRun(r, i)
        PROVE  stops' = stops
    <2>1. CASE Between(r, i)
      BY <1>0, <2>1, BetweenDoes
    <2> QED BY <1>2, <2>1 DEF TickDue, Fire, RecordRun
  <1>3. ASSUME NEW r \in Replica, NEW s \in Schedule, Delete(r, s) \/ \E c \in Crons : Create(r, s, c)
        PROVE  stops' = stops
    BY <1>3 DEF Delete, Create
  <1>4. Pass \/ UNCHANGED vars => stops' = stops
    BY DEF Pass, vars
  <1> QED BY <1>0, <1>1, <1>2, <1>3, <1>4, NextCases

(* A tick that raised is not forgotten. *)
LEMMA RaisedStays ==
    ASSUME BaseInv, [Next]_vars, ~seen'.raised
    PROVE  ~seen.raised
  <1>0. TypeOK /\ seen \in SeenTypes
    BY DEF BaseInv, TypeOK, SeenTypes
  <1>a. ASSUME seen' = seen PROVE ~seen.raised
    BY <1>a
  <1>b. ASSUME NEW r \in Replica, NEW i \in Worker, MayTick(r, i) PROVE ~seen.raised
    BY <1>0, <1>b DEF MayTick, SeenTypes
  <1>c. ASSUME NEW r \in Replica, NEW t, seen' = [seen EXCEPT !.since[r] = t] PROVE ~seen.raised
    BY <1>0, <1>c DEF SeenTypes
  <1>1. ASSUME NEW r \in Replica, Start(r) \/ WindsDown(r) \/ Crash(r) PROVE ~seen.raised
    BY <1>1, <1>a, <1>c DEF Start, WindsDown, Stop, StopJoined, ReleaseRead, ReleaseDelete, Crash
  <1>2. ASSUME NEW r \in Replica, NEW i \in Worker,
               Between(r, i) \/ TickDue(r, i) \/ Fire(r, i) \/ RecordRun(r, i)
        PROVE  ~seen.raised
    <2>1. CASE Between(r, i)
      BY <2>1, <1>a, <1>b DEF Between, Wake, Ensure, RenewRead, RenewSet, TryAcquire
    <2>2. CASE TickDue(r, i)
      <3>1. PICK x \in ThreadRecord : SweepsAll(r, x)
        BY <1>0, <2>2, TickDoes
      <3> QED BY <1>a, <3>1 DEF SweepsAll
    <2> QED BY <1>2, <1>a, <2>1, <2>2 DEF Fire, RecordRun
  <1>3. ASSUME NEW r \in Replica, NEW s \in Schedule, Delete(r, s) \/ \E c \in Crons : Create(r, s, c)
        PROVE  ~seen.raised
    BY <1>3, <1>a DEF Delete, Create
  <1>4. Pass \/ UNCHANGED vars => ~seen.raised
    BY <1>a DEF Pass, vars
  <1> QED BY <1>1, <1>2, <1>3, <1>4, NextCases

LEMMA UnhinderedStep == UnhinderedInv /\ [Next]_vars => UnhinderedInv'
  <1> SUFFICES ASSUME UnhinderedInv, [Next]_vars PROVE UnhinderedInv'
    OBVIOUS
  <1>0. SlotInv /\ BaseInv /\ TypeOK /\ SlotInv' /\ BaseInv' /\ deployment' = deployment
    BY SlotStep, SameDeployment DEF UnhinderedInv, SlotInv, BaseInv
  <1> SUFFICES ASSUME Unhindered', ~seen'.raised PROVE OnlyLoop' /\ \A r \in Replica : KeptAt(r)'
    BY <1>0 DEF UnhinderedInv
  <1>a. stops' = 0 /\ Unhindered /\ OnlyLoop /\ \A r \in Replica : KeptAt(r)
    <2>1. stops' = 0 => stops = 0
      BY <1>0, StopsCount DEF Unhindered
    <2>2. Unhindered
      BY <1>0, <2>1 DEF Unhindered
    <2>3. ~seen.raised
      BY <1>0, RaisedStays
    <2> QED BY <2>2, <2>3 DEF UnhinderedInv, Unhindered
  <1>1. CASE Pass
    <2>1. OnlyLoop' /\ \A r \in Replica : thread[r][1].at \in {"off", "asleep"}
      BY <1>0, <1>1, <1>a, PassKeepsLoop
    <2> QED BY <1>0, <1>1, <1>a, <2>1, PassKeeps
  <1>2. ASSUME NEW r \in Replica, Start(r) PROVE OnlyLoop' /\ \A q \in Replica : KeptAt(q)'
    <2>1. /\ OnlyLoop' /\ thread[r][1].at = "off" /\ thread'[r][1].at = "ensure"
          /\ seen.since[r] = None /\ seen'.since[r] = now
          /\ \A q \in Replica \ {r} : seen'.since[q] = seen.since[q] /\ thread'[q] = thread[q]
      BY <1>0, <1>2, <1>a, StartKeepsLoop
    <2>2. KeptAt(r)'
      BY <1>0, <1>2, <1>a, <2>1, StartKeeps
    <2>3. ASSUME NEW q \in Replica, q # r PROVE KeptAt(q)'
      <3>1. UNCHANGED <<deployment, now, store, fires>>
        BY <1>2 DEF Start
      <3> QED BY <1>a, <2>1, <2>3, <3>1, Untouched
    <2> QED BY <2>1, <2>2, <2>3
  <1>3. ASSUME NEW r \in Replica, WindsDown(r) \/ Crash(r) PROVE FALSE
    BY <1>0, <1>3, <1>a, NeverWindsDown
  <1>4. ASSUME NEW r \in Replica, NEW i \in Worker, Between(r, i)
        PROVE  OnlyLoop' /\ \A q \in Replica : KeptAt(q)'
    <2>1. PICK x \in ThreadRecord : Readies(r, x)
      BY <1>0, <1>4, <1>a, OnlyReadies
    <2>2. OnlyLoop' /\ KeptAt(r)'
      BY <1>0, <1>a, <2>1, ReadyKeepsLoop, ReadyKeeps
    <2>3. ASSUME NEW q \in Replica, q # r PROVE KeptAt(q)'
      <3>1. /\ UNCHANGED <<deployment, now, store, fires>> /\ seen'.since = seen.since
            /\ thread'[q] = thread[q]
        BY <2>1, <2>3 DEF Readies, Moves
      <3> QED BY <1>a, <3>1, Untouched
    <2> QED BY <2>2, <2>3
  <1>5. ASSUME NEW r \in Replica, NEW i \in Worker, TickDue(r, i) \/ Fire(r, i) \/ RecordRun(r, i)
        PROVE  OnlyLoop' /\ \A q \in Replica : KeptAt(q)'
    <2>1. /\ thread[r][i].at # "off" /\ UNCHANGED <<deployment, now, key, loop, seen>>
      <3>1. ASSUME TickDue(r, i) PROVE seen' = seen
        <4>1. PICK x \in ThreadRecord : SweepsAll(r, x)
          BY <1>0, <3>1, TickDoes
        <4> QED BY <4>1 DEF SweepsAll
      <3> QED BY <1>5, <3>1 DEF TickDue, Fire, RecordRun
    <2>2. i = 1
      BY <1>0, <1>a, <2>1, OnlyWorks
    <2>3. /\ \A q \in Replica \ {r} : store'[q] = store[q] /\ fires'[q] = fires[q]
      <3>1. CASE TickDue(r, i)
        BY <1>0, <3>1, TickDoes
      <3>2. CASE Fire(r, i)
        BY <1>0, <3>2, FireDoes
      <3>3. CASE RecordRun(r, i)
        BY <1>0, <3>3, RecordDoes
      <3> QED BY <1>5, <3>1, <3>2, <3>3
    <2>4. KeptAt(r)' /\ \E x \in ThreadRecord : Moves(r, 1, x) /\ x.at \in {"asleep", "fire", "record"} /\ Sleeps(x)
      <3>1. CASE TickDue(r, i)
        BY <1>0, <1>a, <2>2, <3>1, TickKeeps
      <3>2. CASE Fire(r, i)
        BY <1>0, <1>a, <2>2, <3>2, FireKeeps
      <3>3. CASE RecordRun(r, i)
        BY <1>0, <1>a, <2>2, <3>3, RecordKeeps
      <3> QED BY <1>5, <3>1, <3>2, <3>3
    <2>5. PICK x \in ThreadRecord : Moves(r, 1, x) /\ x.at \in {"asleep", "fire", "record"} /\ Sleeps(x)
      BY <2>4
    <2>6. OnlyLoop'
      BY <1>0, <1>a, <2>1, <2>2, <2>5, WorkKeepsLoop
    <2>7. ASSUME NEW q \in Replica, q # r PROVE KeptAt(q)'
      BY <1>a, <2>1, <2>3, <2>5, <2>7, Untouched DEF Moves
    <2> QED BY <2>4, <2>6, <2>7
  <1>6. ASSUME UNCHANGED <<deployment, now, key, loop, thread, seen>> PROVE OnlyLoop'
    BY <1>6, <1>a DEF OnlyLoop, OnlyThread, OnlyHolder, OnTime
  <1>7. ASSUME NEW r \in Replica, NEW s \in Schedule, Delete(r, s) \/ \E c \in Crons : Create(r, s, c)
        PROVE  OnlyLoop' /\ \A q \in Replica : KeptAt(q)'
    <2>1. UNCHANGED <<deployment, now, key, loop, thread, fires, seen, stops>>
      BY <1>7 DEF Delete, Create
    <2>2. KeptAt(r)'
      BY <1>0, <1>7, <1>a, CreateKeeps, DeleteKeeps
    <2>3. ASSUME NEW q \in Replica, q # r PROVE KeptAt(q)'
      <3>1. store'[q] = store[q]
        BY <1>0, <1>7, <2>3, CreateDoes, DeleteDoes
      <3> QED BY <1>a, <2>1, <3>1, Untouched
    <2> QED BY <1>6, <2>1, <2>2, <2>3
  <1>8. CASE UNCHANGED vars
    <2>1. UNCHANGED <<deployment, now, key, loop, thread, store, fires, seen, stops>>
      BY <1>8 DEF vars
    <2> QED BY <1>6, <1>a, <2>1, Untouched
  <1> QED BY <1>1, <1>2, <1>3, <1>4, <1>5, <1>7, <1>8, NextCases

(* A loop on its own that is not held up and ticks at least once a minute  *)
(* fires every slot of a live schedule before another interval is over,    *)
(* and record_run keeps the last runs it created (registry.py, loop.py),   *)
(* for any cron strings, any interval and any number of runs kept.         *)
THEOREM NoSlotIsMissed == Spec => []NoSlotMissed
  <1>1. UnhinderedInv => NoSlotMissed
    <2> SUFFICES ASSUME UnhinderedInv, Unhindered, ~seen.raised,
                        NEW r \in deployment.replicas, NEW s \in Schedule,
                        Live(r, s), seen.since[r] # None
                 PROVE  /\ \A t \in Time :
                               Matches(store[r][s].minutes, t) /\ store[r][s].created < t /\ seen.since[r] < t
                                   /\ t + deployment.interval < now => t \in {fires[r][s][j].slot : j \in DOMAIN fires[r][s]}
                        /\ ~Ticking(r) => Latest({j \in DOMAIN fires[r][s] : fires[r][s][j].ok}, store[r][s].recent)
      BY DEF NoSlotMissed, Served
    <2>0. SlotInv /\ BaseInv /\ OnlyLoop /\ KeptAt(r) /\ r \in Replica
      <3>1. r \in Replica
        BY DEF Unhindered
      <3> QED BY <3>1 DEF UnhinderedInv, SlotInv
    <2>1. Covered(r, s) /\ NextIsFresh(r, s) /\ BatchIsFresh(r) /\ Latest(Told(r, s), store[r][s].recent)
      BY <2>0 DEF KeptAt, KeptOne
    <2>2. /\ now \in Nat /\ deployment.interval \in Nat /\ thread[r][1].wake \in Nat /\ Time \subseteq Nat
          /\ thread[r][1] \in ThreadRecord /\ store[r][s].next \in Nat /\ seen.since[r] \in Nat
      BY <2>0, KeptTypes, ScheduleTypes, Settings DEF BaseInv
    <2>3. ASSUME NEW t \in Nat, Matches(store[r][s].minutes, t), store[r][s].created < t, seen.since[r] < t,
                 t + deployment.interval < now
          PROVE  Fired(r, s, t)
      <3>1. thread[r][1].at # "off"
        <4>1. loop[r].up
          BY <2>0 DEF OnlyLoop, OnlyThread
        <4> QED BY <2>0, <4>1 DEF OnlyLoop, OnlyThread
      <3>2. t < store[r][s].next
        <4>1. CASE thread[r][1].at \in Before
          BY <2>1, <2>2, <2>3, <4>1 DEF NextIsFresh
        <4>2. CASE thread[r][1].at = "asleep"
          <5>1. now <= thread[r][1].wake /\ thread[r][1].wake < store[r][s].next + deployment.interval
            BY <2>0, <2>1, <4>2 DEF OnlyLoop, OnTime, NextIsFresh
          <5> QED BY <2>2, <2>3, <5>1
        <4>3. CASE thread[r][1].at \in {"fire", "record"}
          BY <2>1, <2>2, <2>3, <4>3 DEF NextIsFresh
        <4> QED BY <2>2, <3>1, <4>1, <4>2, <4>3 DEF ThreadRecord, Before
      <3>3. Fired(r, s, t) \/ Awaits(thread[r][1], s, t)
        BY <2>1, <2>3, <3>2 DEF Covered, IsBehind, AfterStart
      <3>4. ~Awaits(thread[r][1], s, t)
        BY <2>1, <2>2, <2>3 DEF Awaits, Pending, BatchIsFresh
      <3> QED BY <3>3, <3>4
    <2>4. ASSUME ~Ticking(r) PROVE Told(r, s) = {j \in DOMAIN fires[r][s] : fires[r][s][j].ok}
      BY <2>4 DEF Ticking, Told, Recording, Worker
    <2>5. ASSUME NEW t \in Time, Matches(store[r][s].minutes, t), store[r][s].created < t, seen.since[r] < t,
                 t + deployment.interval < now
          PROVE  t \in {fires[r][s][j].slot : j \in DOMAIN fires[r][s]}
      <3>1. t \in Nat
        BY <2>2
      <3>2. Fired(r, s, t)
        BY <2>3, <2>5, <3>1
      <3> QED BY <3>2 DEF Fired
    <2>6. ASSUME ~Ticking(r)
          PROVE  Latest({j \in DOMAIN fires[r][s] : fires[r][s][j].ok}, store[r][s].recent)
      BY <2>1, <2>4, <2>6
    <2> QED BY <2>5, <2>6
  <1>2. Spec => []UnhinderedInv
    BY InitUnhindered, UnhinderedStep, PTL DEF Spec
  <1> QED BY <1>1, <1>2, PTL

=============================================================================
