----------------------- MODULE ApprovalDelegationProofs -----------------------
(***************************************************************************)
(* Proofs about ApprovalDelegation, for any number of runs, handlers,      *)
(* restarts and ways the platform is set up.  First the invariants; then   *)
(* what each action does, fact by fact; then the invariants' steps, by     *)
(* those facts alone.                                                      *)
(***************************************************************************)
EXTENDS ApprovalDelegation, FiniteSetTheorems, TLAPS

(* What a handler may have left to do.                                     *)
Creating == <<"post", "persist_new">>
Storing == <<"persist_new">>
Deciding == DecideTodo
Mirroring == <<"mirror", "persist">>
Persisting == <<"persist">>
Governing == <<"mirror">>
Writing == <<"write">>
Expiring == <<"write", "expire">>
Failing == <<"expire">>
Todos == {Creating, Storing, Deciding, Mirroring, Persisting, Governing, Writing, Expiring, Failing}

AnyJob == [todo : Todos, task : TaskId \cup {None}, row : Row]
AnySweep == [left : SUBSET TaskId, task : TaskId \cup {None}, row : Row \cup {None}]
JobOK(j) ==
    /\ j.todo \notin {Storing, Persisting, Failing} => j.task # None
    /\ j.todo = Deciding => j.row.status \in Decided
    /\ j.todo \in {Creating, Governing, Writing, Expiring} => j.row.status \notin Decided

TypeOK == /\ deployment \in Deployments
          /\ service \in [TaskId -> Row \cup {None}]
          /\ shadow \in [TaskId -> Row \cup {None}]
          /\ run \in [RunId -> RunRecord \cup {None}]
          /\ db \in [RunId -> RunRecord \cup {None}]
          /\ count \in [runs : Nat, tasks : Nat]
          /\ job \in [Worker -> AnyJob \cup {Idle}]
          /\ sweep \in AnySweep
          /\ life \in Nat

Counted == count.tasks <= count.runs /\ count.runs <= deployment.runs
JobsOK == /\ \A w \in Worker : job[w] # Idle => JobOK(job[w])
          /\ sweep.task # None => sweep.row # None /\ sweep.row.status \notin Decided

(* One handler thread: the first, or the sweep.                            *)
Turn == deployment.threads = 1 => /\ \A w \in Worker \ {1} : job[w] = Idle
                                  /\ job[1] = Idle \/ sweep = Asleep

(* Ids are not used before their number comes up, unless by a process that *)
(* was restarted.                                                          *)
FreshIds == deployment.restarts = 0 =>
    /\ \A t \in TaskId : t > count.tasks => service[t] = None /\ shadow[t] = None
    /\ \A w \in Worker : job[w].task # None => job[w].task <= count.tasks
    /\ sweep.task # None => sweep.task <= count.tasks

BaseInv == TypeOK /\ Counted /\ JobsOK /\ Turn /\ FreshIds

-----------------------------------------------------------------------------
(* A verdict on a run is one the service has recorded; so is the one a     *)
(* handler is about to apply.                                              *)
Recordings == {<<service[t].run, service[t].status>> : t \in {u \in TaskId : service[u] # None}}
VerdictsInv ==
    /\ \A r \in RunId :
           /\ run[r] # None /\ run[r].approval \in Decided => <<r, run[r].approval>> \in Recordings
           /\ db[r] # None /\ db[r].approval \in Decided => <<r, db[r].approval>> \in Recordings
    /\ \A w \in Worker : job[w].todo = Deciding => <<job[w].row.run, job[w].row.status>> \in Recordings

(* In turn: what the shadow of a decided task may still expect.            *)
UndecidedStill == {Deciding, Mirroring, Governing, Writing, Expiring}
ShadowInv == deployment.threads = 1 /\ deployment.restarts = 0 =>
    /\ \A t \in TaskId : IsDecided(shadow[t]) => IsDecided(service[t])
    /\ job[1].todo \in UndecidedStill => ~IsDecided(shadow[job[1].task])
    /\ job[1].todo \in {Deciding, Mirroring} => IsDecided(service[job[1].task])
    /\ sweep.task # None => ~IsDecided(shadow[sweep.task])

(* In turn, when calls are answered: where a copy is not yet what it will  *)
(* be, a handler is about to write it.                                     *)
About(t, todos) == job[1].todo \in todos /\ job[1].task = t
CopyFollows(t) ==
    /\ About(t, {Creating}) => service[t] = None /\ shadow[t] = job[1].row
    /\ About(t, {Deciding, Mirroring, Governing}) => service[t] = job[1].row
    /\ ~About(t, {Creating, Deciding, Mirroring, Governing}) => shadow[t] = service[t]
RowFollows(r) ==
    LET mine == job[1].todo # << >> /\ job[1].row.run = r
    IN  /\ mine /\ job[1].todo \in {Creating, Storing} =>
               run[r] = NewRun(job[1].task # None) /\ r <= count.runs
        /\ mine /\ job[1].todo \in {Deciding, Mirroring, Persisting} => run[r] # None
        /\ ~(mine /\ job[1].todo \in {Creating, Storing, Deciding, Mirroring, Persisting}) => db[r] = run[r]
TaskHasRun(t) ==
    service[t] # None =>
        /\ service[t].run <= count.runs /\ run[service[t].run] # None
        /\ job[1].todo = Creating => service[t].run # job[1].row.run
        /\ \A u \in TaskId : service[u] # None /\ service[u].run = service[t].run => u = t
        /\ IsDecided(service[t]) /\ ~About(t, {Deciding}) =>
               run[service[t].run] = Outcome(service[t].status)
InTurn == Reliable /\ deployment.threads = 1
Copies == /\ sweep = Asleep
          /\ job[1].todo \notin {Writing, Expiring, Failing}
          /\ \A t \in TaskId : CopyFollows(t) /\ TaskHasRun(t)
          /\ \A r \in RunId : RowFollows(r)
CopiesInv == InTurn => Copies

-----------------------------------------------------------------------------
(* Nine ways to go on, and what the first step leaves of each.             *)
LEMMA TodoFacts ==
    /\ Head(Creating) = "post" /\ Len(Creating) = 2 /\ Tail(Creating) = Storing
    /\ Head(Storing) = "persist_new" /\ Len(Storing) = 1
    /\ Head(Deciding) = "apply" /\ Len(Deciding) = 3 /\ Tail(Deciding) = Mirroring
    /\ Head(Mirroring) = "mirror" /\ Len(Mirroring) = 2 /\ Tail(Mirroring) = Persisting
    /\ Head(Persisting) = "persist" /\ Len(Persisting) = 1
    /\ Head(Governing) = "mirror" /\ Len(Governing) = 1
    /\ Head(Writing) = "write" /\ Len(Writing) = 1
    /\ Head(Expiring) = "write" /\ Len(Expiring) = 2 /\ Tail(Expiring) = Failing
    /\ Head(Failing) = "expire" /\ Len(Failing) = 1
  BY DEF Creating, Storing, Deciding, DecideTodo, Mirroring, Persisting, Governing, Writing, Expiring, Failing

LEMMA TodosDiffer ==
    /\ Mirroring # Creating /\ Mirroring # Expiring /\ Creating # Expiring
    /\ \A t \in Todos : t # << >>
  <1>1. Mirroring # Creating /\ Mirroring # Expiring /\ Creating # Expiring
    BY TodoFacts
  <1>2. ASSUME NEW t \in Todos PROVE t # << >>
    <2>1. Len(t) # 0
      BY TodoFacts DEF Todos
    <2>2. Len(<< >>) = 0
      OBVIOUS
    <2> QED BY <2>1, <2>2
  <1> QED BY <1>1, <1>2

LEMMA IdleFacts ==
    Idle.todo = << >> /\ Idle.task = None /\ \A j \in AnyJob : j # Idle /\ j.todo # << >>
  <1>1. \A j \in AnyJob : j.todo # << >>
    BY TodosDiffer DEF AnyJob
  <1> QED BY <1>1 DEF Idle

LEMMA JobFacts ==
    ASSUME TypeOK, NEW w \in Worker
    PROVE  \/ job[w] = Idle /\ job[w].todo = << >> /\ job[w].task = None
           \/ /\ job[w] # Idle /\ job[w] \in AnyJob /\ job[w].todo \in Todos /\ job[w].todo # << >>
              /\ job[w].task \in TaskId \cup {None} /\ job[w].row \in Row /\ job[w].row.run \in RunId
              /\ job[w].row.status \in Status
  BY IdleFacts DEF TypeOK, AnyJob, Row

-----------------------------------------------------------------------------
(* Where a handler goes: nothing but the handler's own state changes.      *)
Others(w) == /\ job' \in [Worker -> AnyJob \cup {Idle}]
             /\ \A v \in Worker \ {w} : job'[v] = job[v]
Holds(w, todo, t, row) == /\ job'[w] # Idle /\ job'[w] \in AnyJob
                          /\ job'[w].todo = todo /\ job'[w].task = t /\ job'[w].row = row
GoesOn(w, todo) == Others(w) /\ Holds(w, todo, job[w].task, job[w].row)
Ends(w) == Others(w) /\ job'[w] = Idle

LEMMA BeginDoes ==
    ASSUME TypeOK, NEW w \in Worker, NEW todo \in Todos, NEW t \in TaskId \cup {None}, NEW row \in Row,
           Begin(w, todo, t, row)
    PROVE  Others(w) /\ Holds(w, todo, t, row)
  <1>1. PICK j : j = [todo |-> todo, task |-> t, row |-> row]
    OBVIOUS
  <1>2. j \in AnyJob /\ j.todo = todo /\ j.task = t /\ j.row = row
    BY <1>1 DEF AnyJob
  <1>3. job' = [job EXCEPT ![w] = j]
    BY <1>1 DEF Begin
  <1> QED BY <1>2, <1>3, IdleFacts DEF Others, Holds, TypeOK

LEMMA EndDoes == ASSUME TypeOK, NEW w \in Worker, job' = [job EXCEPT ![w] = Idle] PROVE Ends(w)
  BY DEF Ends, Others, TypeOK

LEMMA ContinueDoes ==
    ASSUME TypeOK, NEW w \in Worker, job[w] # Idle, Continue(w), NEW todo \in Todos
    PROVE  /\ Len(job[w].todo) = 1 => Ends(w)
           /\ Len(job[w].todo) # 1 /\ Tail(job[w].todo) = todo => GoesOn(w, todo)
  <1>1. ASSUME Len(job[w].todo) = 1 PROVE Ends(w)
    <2>1. job' = [job EXCEPT ![w] = Idle]
      BY <1>1 DEF Continue
    <2> QED BY <2>1, EndDoes
  <1>2. ASSUME Len(job[w].todo) # 1, Tail(job[w].todo) = todo PROVE GoesOn(w, todo)
    <2>2. PICK j \in AnyJob : j = job[w]
      BY JobFacts
    <2>3. PICK k \in AnyJob : k = [j EXCEPT !.todo = todo]
      BY <2>2 DEF AnyJob
    <2>4. k.todo = todo /\ k.task = j.task /\ k.row = j.row
      BY <2>3 DEF AnyJob
    <2>5. job' = [job EXCEPT ![w] = k]
      <3>1. job' = [job EXCEPT ![w] = [job[w] EXCEPT !.todo = Tail(job[w].todo)]]
        BY <1>2 DEF Continue
      <3> QED BY <1>2, <2>2, <2>3, <3>1
    <2> QED BY <2>2, <2>4, <2>5, IdleFacts DEF GoesOn, Others, Holds, TypeOK
  <1> QED BY <1>1, <1>2

(* The steps, and what they leave to do.                                   *)
LEMMA StepGoes ==
    ASSUME TypeOK, NEW w \in Worker, Continue(w)
    PROVE  /\ At(w, "post") => job[w].todo = Creating /\ GoesOn(w, Storing)
           /\ At(w, "persist_new") => job[w].todo = Storing /\ Ends(w)
           /\ At(w, "apply") => job[w].todo = Deciding /\ GoesOn(w, Mirroring)
           /\ At(w, "mirror") \/ At(w, "write") =>
                  \/ job[w].todo = Mirroring /\ GoesOn(w, Persisting)
                  \/ job[w].todo \in {Governing, Writing} /\ Ends(w)
                  \/ job[w].todo = Expiring /\ GoesOn(w, Failing)
           /\ At(w, "persist") => job[w].todo = Persisting /\ Ends(w)
           /\ At(w, "expire") => job[w].todo = Failing /\ Ends(w)
  <1> SUFFICES ASSUME job[w] # Idle
               PROVE  /\ Head(job[w].todo) = "post" => job[w].todo = Creating /\ GoesOn(w, Storing)
                      /\ Head(job[w].todo) = "persist_new" => job[w].todo = Storing /\ Ends(w)
                      /\ Head(job[w].todo) = "apply" => job[w].todo = Deciding /\ GoesOn(w, Mirroring)
                      /\ Head(job[w].todo) \in {"mirror", "write"} =>
                             \/ job[w].todo = Mirroring /\ GoesOn(w, Persisting)
                             \/ job[w].todo \in {Governing, Writing} /\ Ends(w)
                             \/ job[w].todo = Expiring /\ GoesOn(w, Failing)
                      /\ Head(job[w].todo) = "persist" => job[w].todo = Persisting /\ Ends(w)
                      /\ Head(job[w].todo) = "expire" => job[w].todo = Failing /\ Ends(w)
    BY DEF At
  <1>1. job[w].todo \in Todos
    BY JobFacts
  <1>2. Storing \in Todos /\ Mirroring \in Todos /\ Persisting \in Todos /\ Failing \in Todos
    BY DEF Todos
  <1>4. job[w].todo = Creating => GoesOn(w, Storing)
    <2>1. job[w].todo = Creating => Len(job[w].todo) # 1 /\ Tail(job[w].todo) = Storing
      BY TodoFacts
    <2> QED BY <1>2, <2>1, ContinueDoes
  <1>5. job[w].todo = Deciding => GoesOn(w, Mirroring)
    <2>1. job[w].todo = Deciding => Len(job[w].todo) # 1 /\ Tail(job[w].todo) = Mirroring
      BY TodoFacts
    <2> QED BY <1>2, <2>1, ContinueDoes
  <1>6. job[w].todo = Mirroring => GoesOn(w, Persisting)
    <2>1. job[w].todo = Mirroring => Len(job[w].todo) # 1 /\ Tail(job[w].todo) = Persisting
      BY TodoFacts
    <2> QED BY <1>2, <2>1, ContinueDoes
  <1>7. job[w].todo = Expiring => GoesOn(w, Failing)
    <2>1. job[w].todo = Expiring => Len(job[w].todo) # 1 /\ Tail(job[w].todo) = Failing
      BY TodoFacts
    <2> QED BY <1>2, <2>1, ContinueDoes
  <1>3. job[w].todo \in {Storing, Persisting, Governing, Writing, Failing} => Ends(w)
    BY <1>2, TodoFacts, ContinueDoes
  <1> QED BY <1>1, <1>3, <1>4, <1>5, <1>6, <1>7, TodoFacts DEF Todos

-----------------------------------------------------------------------------
(* What each action does.                                                  *)
Bounds == MaxThreads \in Nat /\ Worker = 1 .. MaxThreads /\ TaskId = 1 .. MaxRuns /\ RunId = 1 .. MaxRuns
LEMMA Settings ==
    ASSUME TypeOK
    PROVE  /\ deployment.threads \in 1 .. MaxThreads /\ deployment.runs \in 0 .. MaxRuns
           /\ deployment.restarts \in Nat /\ count.runs \in Nat /\ count.tasks \in Nat /\ Bounds
  BY DeploymentsAssumption, BoundsAssumption DEF TypeOK, Bounds, Worker, TaskId, RunId

LEMMA CreateDoes ==
    ASSUME BaseInv, NEW w \in Worker, NEW approval \in BOOLEAN, CreateRun(w, approval)
    PROVE  /\ CanStart(w) /\ UNCHANGED <<deployment, service, db, sweep, life>>
           /\ count'.runs = count.runs + 1 /\ count'.runs \in RunId /\ count'.runs <= deployment.runs
           /\ run' = [run EXCEPT ![count'.runs] = NewRun(approval)]
           /\ Others(w)
           /\ count' \in [runs : Nat, tasks : Nat]
           /\ \E row \in Row :
                  /\ row.run = count'.runs /\ row.status = "pending"
                  /\ \/ /\ approval /\ count'.tasks = count.tasks + 1 /\ count'.tasks \in TaskId
                        /\ shadow' = [shadow EXCEPT ![count'.tasks] = row]
                        /\ Holds(w, Creating, count'.tasks, row)
                     \/ /\ ~approval /\ count'.tasks = count.tasks /\ shadow' = shadow
                        /\ Holds(w, Storing, None, row)
  <1>0. TypeOK /\ Counted
    BY DEF BaseInv
  <1> DEFINE r == count.runs + 1
             t == count.tasks + 1
  <1>1. /\ CanStart(w) /\ count.runs < deployment.runs
        /\ run' = [run EXCEPT ![r] = NewRun(approval)]
        /\ UNCHANGED <<deployment, service, db, sweep, life>>
    BY DEF CreateRun
  <1>2. r \in RunId /\ r \in Nat /\ r <= deployment.runs /\ t \in TaskId /\ t \in Nat /\ count.tasks \in Nat
    BY <1>0, <1>1, Settings, BoundsAssumption DEF Counted, Bounds
  <1>3. PICK row \in Row : row = [run |-> r, status |-> "pending"] /\ row.run = r /\ row.status = "pending"
    <2>1. [run |-> r, status |-> "pending"] \in Row
      BY <1>2 DEF Row, Status, Decidable
    <2> QED BY <2>1
  <1>4. Creating \in Todos /\ Storing \in Todos
    BY DEF Todos
  <1>5. CASE approval
    <2>1. /\ count' = [runs |-> r, tasks |-> t] /\ shadow' = [shadow EXCEPT ![t] = row]
          /\ Begin(w, Creating, t, row)
      BY <1>3, <1>5 DEF CreateRun, Creating
    <2>2. Others(w) /\ Holds(w, Creating, t, row)
      BY <1>0, <1>2, <1>4, <2>1, BeginDoes
    <2>3. count'.runs = r /\ count'.tasks = t /\ count' \in [runs : Nat, tasks : Nat]
      BY <1>2, <2>1
    <2>4. Holds(w, Creating, count'.tasks, row)
      BY <2>2, <2>3 DEF Holds
    <2> HIDE DEF r, t
    <2> QED BY <1>1, <1>2, <1>3, <1>5, <2>1, <2>2, <2>3, <2>4 DEF r, t
  <1>6. CASE ~approval
    <2>1. /\ count' = [count EXCEPT !.runs = r] /\ shadow' = shadow
          /\ Begin(w, Storing, None, row)
      BY <1>3, <1>6 DEF CreateRun, Storing
    <2>2. Others(w) /\ Holds(w, Storing, None, row)
      BY <1>0, <1>4, <2>1, BeginDoes
    <2>3. count'.runs = r /\ count'.tasks = count.tasks /\ count' \in [runs : Nat, tasks : Nat]
      BY <1>0, <1>2, <2>1 DEF TypeOK
    <2> HIDE DEF r, t
    <2> QED BY <1>1, <1>2, <1>3, <1>6, <2>1, <2>2, <2>3 DEF r, t
  <1> QED BY <1>5, <1>6

(* A request the service accepts: a decision or a governance call.         *)
Asks(w) == \E t \in TaskId : \/ \E decision \in Decided : Decide(w, t, decision)
                             \/ SupplementGovernance(w, t) \/ SupplementResolve(w, t)
                             \/ TransferGovernance(w, t) \/ EscalateGovernance(w, t)

LEMMA AsksDoes ==
    ASSUME TypeOK, NEW w \in Worker, Asks(w)
    PROVE  /\ CanStart(w) /\ UNCHANGED <<deployment, shadow, run, db, count, sweep, life>>
           /\ Others(w)
           /\ \E t \in TaskId, row \in Row :
                  /\ service[t] # None /\ service[t] \in Row /\ service[t].status \notin Terminal
                  /\ row.run = service[t].run
                  /\ service' = [service EXCEPT ![t] = row]
                  /\ \/ row.status \in Decided /\ Holds(w, Deciding, t, row)
                     \/ row.status \notin Decided /\ Holds(w, Governing, t, row)
  <1>1. PICK t \in TaskId, status \in Status, todo \in {Deciding, Governing} :
             /\ CanStart(w) /\ service[t] # None /\ service[t].status \notin Terminal
             /\ todo = Deciding <=> status \in Decided
             /\ Call(w, t, status, todo)
    <2>1. ASSUME NEW t \in TaskId, NEW decision \in Decided, Decide(w, t, decision)
          PROVE  /\ CanStart(w) /\ service[t] # None /\ service[t].status \notin Terminal
                 /\ decision \in Status /\ Call(w, t, decision, Deciding)
      BY <2>1 DEF Decide, Deciding, Decidable, Terminal, Decided, Status
    <2>2. ASSUME NEW t \in TaskId, SupplementGovernance(w, t)
          PROVE  /\ CanStart(w) /\ service[t] # None /\ service[t].status \notin Terminal
                 /\ Call(w, t, "supplement_pending", Governing)
      BY <2>2 DEF SupplementGovernance, Governing, Terminal, Decided
    <2>3. ASSUME NEW t \in TaskId, SupplementResolve(w, t)
          PROVE  /\ CanStart(w) /\ service[t] # None /\ service[t].status \notin Terminal
                 /\ Call(w, t, "pending", Governing)
      BY <2>3 DEF SupplementResolve, Governing, Terminal, Decided
    <2>4. ASSUME NEW t \in TaskId, TransferGovernance(w, t)
          PROVE  /\ CanStart(w) /\ service[t] # None /\ service[t].status \notin Terminal
                 /\ Call(w, t, "transferred", Governing)
      BY <2>4 DEF TransferGovernance, Governing
    <2>5. ASSUME NEW t \in TaskId, EscalateGovernance(w, t)
          PROVE  /\ CanStart(w) /\ service[t] # None /\ service[t].status \notin Terminal
                 /\ Call(w, t, "escalated", Governing)
      BY <2>5 DEF EscalateGovernance, Governing
    <2>6. {"supplement_pending", "pending", "transferred", "escalated"} \subseteq Status \ Decided
      BY DEF Status, Decided, Decidable, Terminal
    <2>7. Deciding # Governing
      BY TodoFacts
    <2> QED BY <2>1, <2>2, <2>3, <2>4, <2>5, <2>6, <2>7 DEF Asks
  <1>2. PICK old \in Row : old = service[t]
    BY <1>1 DEF TypeOK
  <1>3. PICK row \in Row : row = [old EXCEPT !.status = status]
    BY DEF Row
  <1>4. row.run = old.run /\ row.status = status
    BY <1>3 DEF Row
  <1>5. /\ service' = [service EXCEPT ![t] = row] /\ Begin(w, todo, t, row)
        /\ UNCHANGED <<deployment, shadow, run, db, count, sweep, life>>
    BY <1>1, <1>2, <1>3 DEF Call
  <1>6. todo \in Todos
    BY DEF Todos
  <1>7. Others(w) /\ Holds(w, todo, t, row)
    BY <1>5, <1>6, BeginDoes
  <1>8. \/ row.status \in Decided /\ Holds(w, Deciding, t, row)
        \/ row.status \notin Decided /\ Holds(w, Governing, t, row)
    <2>1. CASE todo = Deciding
      <3>1. row.status \in Decided
        BY <1>1, <1>4, <2>1
      <3>2. Holds(w, Deciding, t, row)
        BY <1>7, <2>1 DEF Holds
      <3> QED BY <3>1, <3>2
    <2>2. CASE todo = Governing /\ todo # Deciding
      BY <1>1, <1>4, <1>7, <2>2 DEF Holds
    <2> QED BY <1>1, <2>1, <2>2
  <1> QED BY <1>1, <1>2, <1>4, <1>5, <1>7, <1>8

(* A request to a legacy endpoint: of the shadow alone.                    *)
AsksLocally(w) == \E t \in TaskId : \/ SupplementRequest(w, t) \/ SupplementAnswer(w, t)
                                    \/ RouteOrDelegate(w, t) \/ TimeoutTask(w, t)

LEMMA LocalDoes ==
    ASSUME TypeOK, NEW w \in Worker, AsksLocally(w)
    PROVE  /\ CanStart(w) /\ deployment.local
           /\ UNCHANGED <<deployment, service, shadow, run, db, count, sweep, life>>
           /\ Others(w)
           /\ \E t \in TaskId, row \in Row :
                  /\ Open(t) /\ row.run = shadow[t].run /\ row.status \notin Decided
                  /\ Holds(w, Writing, t, row) \/ Holds(w, Expiring, t, row)
  <1>1. PICK t \in TaskId, status \in Status \ Decided, todo \in {Writing, Expiring} :
             CanStart(w) /\ Open(t) /\ Local(w, t, status, todo)
    <2>1. ASSUME NEW t \in TaskId, SupplementRequest(w, t)
          PROVE  CanStart(w) /\ Open(t) /\ Local(w, t, "pending_supplement", Writing)
      BY <2>1 DEF SupplementRequest, Writing
    <2>2. ASSUME NEW t \in TaskId, SupplementAnswer(w, t)
          PROVE  CanStart(w) /\ Open(t) /\ Local(w, t, "pending", Writing)
      BY <2>2 DEF SupplementAnswer, Writing
    <2>3. ASSUME NEW t \in TaskId, RouteOrDelegate(w, t)
          PROVE  /\ CanStart(w) /\ Open(t) /\ Local(w, t, shadow[t].status, Writing)
                 /\ shadow[t].status \in Status \ Decided
      <3>1. CanStart(w) /\ Open(t) /\ Local(w, t, shadow[t].status, Writing)
        BY <2>3 DEF RouteOrDelegate, Writing
      <3>2. shadow[t] \in Row /\ shadow[t].status \notin Terminal
        BY <3>1 DEF Open, TypeOK
      <3> QED BY <3>1, <3>2 DEF Row, Terminal
    <2>4. ASSUME NEW t \in TaskId, TimeoutTask(w, t)
          PROVE  CanStart(w) /\ Open(t) /\ Local(w, t, "expired", Expiring)
      BY <2>4 DEF TimeoutTask, Expiring
    <2>5. {"pending_supplement", "pending", "expired"} \subseteq Status \ Decided
      BY DEF Status, Decided, Decidable, Terminal
    <2> QED BY <2>1, <2>2, <2>3, <2>4, <2>5 DEF AsksLocally
  <1>2. PICK old \in Row : old = shadow[t]
    BY <1>1 DEF TypeOK, Open
  <1>3. PICK row \in Row : row = [old EXCEPT !.status = status]
    BY DEF Row
  <1>4. row.run = old.run /\ row.status = status
    BY <1>3 DEF Row
  <1>5. /\ deployment.local /\ Begin(w, todo, t, row)
        /\ UNCHANGED <<deployment, service, shadow, run, db, count, sweep, life>>
    BY <1>1, <1>2, <1>3 DEF Local
  <1>6. todo \in Todos
    BY DEF Todos
  <1>7. Others(w) /\ Holds(w, todo, t, row)
    BY <1>5, <1>6, BeginDoes
  <1>8. Holds(w, Writing, t, row) \/ Holds(w, Expiring, t, row)
    BY <1>7 DEF Holds
  <1> QED BY <1>1, <1>2, <1>4, <1>5, <1>7, <1>8

LEMMA ResumeDoes ==
    ASSUME TypeOK, NEW w \in Worker, NEW r \in RunId, ResumeRun(w, r)
    PROVE  /\ deployment.local /\ UNCHANGED <<deployment, service, shadow, count, job, sweep, life>>
           /\ \E rec \in RunRecord : /\ run[r] # None /\ rec.approval = run[r].approval
                                     /\ run' = [run EXCEPT ![r] = rec] /\ db' = [db EXCEPT ![r] = rec]
  <1>1. PICK old \in RunRecord : old = run[r]
    BY DEF ResumeRun, TypeOK
  <1>2. PICK rec \in RunRecord : rec = [old EXCEPT !.status = "waiting_approval"]
    BY DEF RunRecord
  <1>3. rec.approval = old.approval
    BY <1>2 DEF RunRecord
  <1>4. run' = [run EXCEPT ![r] = rec]
    BY <1>1, <1>2 DEF ResumeRun
  <1>5. run'[r] = rec
    BY <1>4 DEF TypeOK
  <1> QED BY <1>1, <1>3, <1>4, <1>5 DEF ResumeRun

(* The steps of a handler under way.                                       *)
LEMMA Working ==
    ASSUME BaseInv, NEW w \in Worker, job[w] # Idle
    PROVE  /\ job[w] \in AnyJob /\ job[w].todo \in Todos /\ job[w].row \in Row /\ job[w].row.run \in RunId
           /\ JobOK(job[w])
           /\ job[w].todo \notin {Storing, Persisting, Failing} => job[w].task \in TaskId
  BY JobFacts DEF BaseInv, JobsOK, JobOK

LEMMA PostDoes ==
    ASSUME BaseInv, NEW w \in Worker, PostTask(w)
    PROVE  /\ job[w].todo = Creating /\ GoesOn(w, Storing) /\ job[w].task \in TaskId /\ job[w] # Idle
           /\ UNCHANGED <<deployment, shadow, run, db, count, sweep, life>>
           /\ service' = [service EXCEPT ![job[w].task] =
                              IF service[job[w].task] = None THEN job[w].row ELSE service[job[w].task]]
  <1>1. job[w] # Idle /\ At(w, "post") /\ Continue(w)
    BY DEF PostTask, At
  <1>2. job[w].todo = Creating /\ GoesOn(w, Storing)
    BY <1>1, StepGoes DEF BaseInv
  <1>3. job[w].task \in TaskId
    BY <1>1, <1>2, Working, TodoFacts
  <1> QED BY <1>1, <1>2, <1>3 DEF PostTask

LEMMA PersistNewDoes ==
    ASSUME BaseInv, NEW w \in Worker, PersistNew(w)
    PROVE  /\ job[w].todo = Storing /\ Ends(w) /\ job[w] # Idle
           /\ UNCHANGED <<deployment, service, shadow, run, count, sweep, life>>
           /\ db' = [db EXCEPT ![job[w].row.run] = NewRun(job[w].task # None)]
  <1>1. job[w] # Idle /\ At(w, "persist_new") /\ Continue(w)
    BY DEF PersistNew, At
  <1>2. job[w].todo = Storing /\ Ends(w)
    BY <1>1, StepGoes DEF BaseInv
  <1> QED BY <1>1, <1>2 DEF PersistNew

LEMMA ApplyDoes ==
    ASSUME BaseInv, NEW w \in Worker, ApplyDecision(w)
    PROVE  /\ job[w].todo = Deciding /\ GoesOn(w, Mirroring) /\ job[w].task \in TaskId /\ job[w] # Idle
           /\ UNCHANGED <<deployment, service, shadow, db, count, sweep, life>>
           /\ run' = [run EXCEPT ![job[w].row.run] =
                          IF run[job[w].row.run] = None THEN None ELSE Outcome(job[w].row.status)]
  <1>1. job[w] # Idle /\ At(w, "apply") /\ Continue(w)
    BY DEF ApplyDecision, At
  <1>2. job[w].todo = Deciding /\ GoesOn(w, Mirroring)
    BY <1>1, StepGoes DEF BaseInv
  <1>3. job[w].task \in TaskId
    BY <1>1, <1>2, Working, TodoFacts
  <1> QED BY <1>1, <1>2, <1>3 DEF ApplyDecision

LEMMA SyncDoes ==
    ASSUME BaseInv, NEW w \in Worker, SyncTask(w)
    PROVE  /\ \/ job[w].todo = Mirroring /\ GoesOn(w, Persisting)
              \/ job[w].todo \in {Governing, Writing} /\ Ends(w)
              \/ job[w].todo = Expiring /\ GoesOn(w, Failing)
           /\ job[w].task \in TaskId /\ job[w] # Idle
           /\ UNCHANGED <<deployment, service, run, db, count, sweep, life>>
           /\ shadow' = [shadow EXCEPT ![job[w].task] = job[w].row]
  <1>1. job[w] # Idle /\ (At(w, "mirror") \/ At(w, "write")) /\ Continue(w)
    BY DEF SyncTask, At
  <1>2. \/ job[w].todo = Mirroring /\ GoesOn(w, Persisting)
        \/ job[w].todo \in {Governing, Writing} /\ Ends(w)
        \/ job[w].todo = Expiring /\ GoesOn(w, Failing)
    BY <1>1, StepGoes DEF BaseInv
  <1>3. job[w].task \in TaskId
    BY <1>1, <1>2, Working, TodoFacts
  <1> QED BY <1>1, <1>2, <1>3 DEF SyncTask

LEMMA PersistDoes ==
    ASSUME BaseInv, NEW w \in Worker, PersistRun(w)
    PROVE  /\ job[w].todo = Persisting /\ Ends(w) /\ job[w] # Idle
           /\ UNCHANGED <<deployment, service, shadow, run, count, sweep, life>>
           /\ db' = [db EXCEPT ![job[w].row.run] =
                         IF run[job[w].row.run] = None THEN db[job[w].row.run] ELSE run[job[w].row.run]]
  <1>1. job[w] # Idle /\ At(w, "persist") /\ Continue(w)
    BY DEF PersistRun, At
  <1>2. job[w].todo = Persisting /\ Ends(w)
    BY <1>1, StepGoes DEF BaseInv
  <1> QED BY <1>1, <1>2 DEF PersistRun

Expired == [status |-> "failed", approval |-> "expired"]
LEMMA ExpireDoes ==
    ASSUME BaseInv, NEW w \in Worker, ExpireRun(w)
    PROVE  /\ job[w].todo = Failing /\ Ends(w) /\ job[w] # Idle
           /\ UNCHANGED <<deployment, service, shadow, db, count, sweep, life>>
           /\ run' = [run EXCEPT ![job[w].row.run] = IF run[job[w].row.run] = None THEN None ELSE Expired]
  <1>1. job[w] # Idle /\ At(w, "expire") /\ Continue(w)
    BY DEF ExpireRun, At
  <1>2. job[w].todo = Failing /\ Ends(w)
    BY <1>1, StepGoes DEF BaseInv
  <1> QED BY <1>1, <1>2 DEF ExpireRun, Expired

LEMMA TimeoutDoes ==
    ASSUME BaseInv, NEW w \in Worker, CallTimesOut(w)
    PROVE  /\ deployment.timeouts /\ Ends(w) /\ job[w] # Idle
           /\ UNCHANGED <<deployment, service, shadow, run, db, count, sweep, life>>
  <1>1. job[w] # Idle
    BY IdleFacts DEF CallTimesOut, At
  <1>2. Ends(w)
    BY EndDoes DEF CallTimesOut, BaseInv
  <1> QED BY <1>1, <1>2 DEF CallTimesOut

-----------------------------------------------------------------------------
(* The sweep.                                                              *)
LEMMA StartSweepDoes ==
    ASSUME TypeOK, StartSweep
    PROVE  /\ deployment.local /\ InProgress < deployment.threads
           /\ UNCHANGED <<deployment, service, shadow, run, db, count, job, life>>
           /\ sweep' \in AnySweep /\ sweep'.task = None
  <1>1. PICK overdue \in SUBSET TaskId : sweep' = [Asleep EXCEPT !.left = overdue]
    BY DEF StartSweep
  <1>2. sweep' \in AnySweep /\ sweep'.task = None
    BY <1>1 DEF Asleep, AnySweep
  <1> QED BY <1>2 DEF StartSweep

LEMMA SweepReadDoes ==
    ASSUME TypeOK, NEW t \in TaskId, SweepRead(t)
    PROVE  /\ sweep # Asleep /\ UNCHANGED <<deployment, service, shadow, run, db, count, job, life>>
           /\ sweep' \in AnySweep
           /\ \/ sweep'.task = None
              \/ Open(t) /\ sweep'.task = t /\ sweep'.row \in Row /\ sweep'.row.status \notin Decided
  <1>1. sweep \in AnySweep /\ sweep # Asleep
    BY DEF TypeOK, SweepRead, Asleep
  <1>2. CASE Open(t)
    <2>1. PICK old \in Row : old = shadow[t]
      BY <1>2 DEF TypeOK, Open
    <2>2. PICK row \in Row : row = [old EXCEPT !.status = "escalated"] /\ row.status = "escalated"
      <3>1. [old EXCEPT !.status = "escalated"] \in Row
        BY DEF Row, Status, Decidable
      <3>2. [old EXCEPT !.status = "escalated"].status = "escalated"
        BY DEF Row
      <3> QED BY <3>1, <3>2
    <2>3. PICK s : s = [left |-> sweep.left \ {t}, task |-> t, row |-> row]
      OBVIOUS
    <2>4. s \in AnySweep /\ s.task = t /\ s.row = row
      BY <1>1, <2>3 DEF AnySweep
    <2>5. sweep' = s
      BY <1>2, <2>1, <2>2, <2>3 DEF SweepRead, Escalated
    <2>6. "escalated" \notin Decided
      BY DEF Decided
    <2> QED BY <1>1, <1>2, <2>2, <2>4, <2>5, <2>6 DEF SweepRead
  <1>3. CASE ~Open(t)
    <2>1. sweep' = [sweep EXCEPT !.left = sweep.left \ {t}] /\ sweep.task = None
      BY <1>3 DEF SweepRead
    <2>2. sweep' \in AnySweep /\ sweep'.task = None
      BY <1>1, <2>1 DEF AnySweep
    <2> QED BY <1>1, <2>2 DEF SweepRead
  <1> QED BY <1>2, <1>3

LEMMA SweepWriteDoes ==
    ASSUME BaseInv, SweepWrite
    PROVE  /\ sweep # Asleep /\ UNCHANGED <<deployment, service, run, db, count, job, life>>
           /\ sweep' \in AnySweep /\ sweep'.task = None
           /\ sweep.task \in TaskId /\ sweep.row \in Row /\ sweep.row.status \notin Decided
           /\ shadow' = [shadow EXCEPT ![sweep.task] = sweep.row]
  <1>1. sweep \in AnySweep /\ sweep.task # None
    BY DEF BaseInv, TypeOK, SweepWrite
  <1>2. sweep.task \in TaskId /\ sweep.row \in Row /\ sweep.row.status \notin Decided /\ sweep # Asleep
    BY <1>1 DEF AnySweep, BaseInv, JobsOK, Asleep
  <1>3. sweep' = [sweep EXCEPT !.task = None, !.row = None]
    BY DEF SweepWrite
  <1>4. sweep' \in AnySweep /\ sweep'.task = None
    BY <1>1, <1>3 DEF AnySweep
  <1> QED BY <1>2, <1>4 DEF SweepWrite

LEMMA RestartDoes ==
    ASSUME TypeOK, Restart
    PROVE  /\ deployment.restarts # 0 /\ UNCHANGED <<deployment, service, db>>
           /\ \A r \in RunId : run'[r] = None
           /\ \A t \in TaskId : shadow'[t] = None
           /\ count'.runs = 0 /\ count'.tasks = 0
           /\ \A w \in Worker : job'[w] = Idle
           /\ sweep' = Asleep /\ sweep'.task = None
           /\ run' \in [RunId -> RunRecord \cup {None}] /\ shadow' \in [TaskId -> Row \cup {None}]
           /\ count' \in [runs : Nat, tasks : Nat] /\ job' \in [Worker -> AnyJob \cup {Idle}]
           /\ sweep' \in AnySweep /\ life' \in Nat
  <1>1. deployment.restarts \in Nat /\ life \in Nat
    BY Settings DEF TypeOK
  <1>2. Asleep \in AnySweep /\ Asleep.task = None
    BY DEF Asleep, AnySweep
  <1>3. /\ run' = [r \in RunId |-> None] /\ shadow' = [t \in TaskId |-> None]
        /\ count' = [runs |-> 0, tasks |-> 0] /\ job' = [w \in Worker |-> Idle]
        /\ sweep' = Asleep /\ life' = life + 1 /\ life < deployment.restarts
        /\ UNCHANGED <<deployment, service, db>>
    BY DEF Restart
  <1> QED BY <1>1, <1>2, <1>3

LEMMA NextCases ==
    ASSUME [Next]_vars
    PROVE  \/ \E w \in Worker : \/ \E approval \in BOOLEAN : CreateRun(w, approval)
                                \/ Asks(w) \/ AsksLocally(w)
                                \/ \E r \in RunId : ResumeRun(w, r)
                                \/ PostTask(w) \/ PersistNew(w) \/ ApplyDecision(w) \/ SyncTask(w)
                                \/ PersistRun(w) \/ ExpireRun(w) \/ CallTimesOut(w)
           \/ StartSweep \/ (\E t \in TaskId : SweepRead(t)) \/ SweepWrite
           \/ Restart
           \/ UNCHANGED vars
  BY DEF Next, Request, Serve, Sweep, Asks, AsksLocally

-----------------------------------------------------------------------------
(* The base of the invariants: types, numbers, and whose turn it is.       *)
LEMMA JobKinds ==
    ASSUME NEW j \in AnyJob
    PROVE  /\ j.todo \in {Storing, Persisting, Failing} => JobOK(j)
           /\ j.todo = Mirroring /\ j.task # None => JobOK(j)
           /\ j.todo = Deciding /\ j.task # None /\ j.row.status \in Decided => JobOK(j)
           /\ j.todo \in {Creating, Governing, Writing, Expiring} /\ j.task # None /\ j.row.status \notin Decided
                  => JobOK(j)
  BY TodoFacts DEF JobOK

LEMMA RecordTypes ==
    /\ \A approval \in BOOLEAN : NewRun(approval) \in RunRecord /\ NewRun(approval).approval \notin Decided
    /\ \A verdict \in Decided : Outcome(verdict) \in RunRecord /\ Outcome(verdict).approval = verdict
    /\ Expired \in RunRecord /\ Expired.approval \notin Decided
  BY DEF NewRun, RunRecord, Decided, Outcome, Expired

LEMMA NobodyElse ==
    ASSUME BaseInv, deployment.threads = 1, InProgress < deployment.threads
    PROVE  sweep = Asleep /\ \A w \in Worker : job[w] = Idle
  <1> DEFINE busy == {w \in Worker : job[w] # Idle}
  <1>1. IsFiniteSet(Worker)
    BY Settings, FS_Interval DEF BaseInv, Bounds
  <1>2. IsFiniteSet(busy) /\ Cardinality(busy) \in Nat /\ (Cardinality(busy) = 0 <=> busy = {})
    BY <1>1, FS_Subset, FS_CardinalityType, FS_EmptySet
  <1>3. Cardinality(busy) + (IF sweep = Asleep THEN 0 ELSE 1) < 1
    BY DEF InProgress
  <1> HIDE DEF busy
  <1>4. Cardinality(busy) = 0 /\ sweep = Asleep
    BY <1>2, <1>3
  <1> QED BY <1>2, <1>4 DEF busy

LEMMA FirstOnly ==
    ASSUME BaseInv, deployment.threads = 1, NEW w \in Worker, CanStart(w)
    PROVE  w = 1 /\ sweep = Asleep /\ \A v \in Worker : job[v] = Idle
  <1>1. w = 1
    BY Settings DEF CanStart, BaseInv, Bounds
  <1> QED BY <1>1, NobodyElse DEF CanStart

LEMMA SameDeployment == ASSUME BaseInv, [Next]_vars PROVE deployment' = deployment
  <1>0. TypeOK
    BY DEF BaseInv
  <1> QED BY <1>0, NextCases, CreateDoes, AsksDoes, LocalDoes, ResumeDoes, PostDoes, PersistNewDoes, ApplyDoes,
             SyncDoes, PersistDoes, ExpireDoes, TimeoutDoes, StartSweepDoes, SweepReadDoes, SweepWriteDoes,
             RestartDoes DEF vars

LEMMA TypeStep == ASSUME BaseInv, [Next]_vars PROVE TypeOK'
  <1>0. TypeOK /\ deployment' = deployment
    BY SameDeployment DEF BaseInv
  <1> USE DEF TypeOK, Others, GoesOn, Ends
  <1>1. ASSUME NEW w \in Worker, NEW approval \in BOOLEAN, CreateRun(w, approval) PROVE TypeOK'
    <2>1. run' \in [RunId -> RunRecord \cup {None}]
      BY <1>0, <1>1, CreateDoes, RecordTypes
    <2>2. shadow' \in [TaskId -> Row \cup {None}]
      BY <1>0, <1>1, CreateDoes
    <2> QED BY <1>0, <1>1, <2>1, <2>2, CreateDoes
  <1>2. ASSUME NEW w \in Worker, Asks(w) PROVE TypeOK'
    BY <1>0, <1>2, AsksDoes
  <1>3. ASSUME NEW w \in Worker, AsksLocally(w) PROVE TypeOK'
    BY <1>0, <1>3, LocalDoes
  <1>4. ASSUME NEW w \in Worker, NEW r \in RunId, ResumeRun(w, r) PROVE TypeOK'
    BY <1>0, <1>4, ResumeDoes
  <1>5. ASSUME NEW w \in Worker, PostTask(w) PROVE TypeOK'
    BY <1>0, <1>5, PostDoes, Working
  <1>6. ASSUME NEW w \in Worker, PersistNew(w) PROVE TypeOK'
    <2>1. NewRun(job[w].task # None) \in RunRecord
      BY RecordTypes
    <2> QED BY <1>0, <1>6, <2>1, PersistNewDoes, Working
  <1>7. ASSUME NEW w \in Worker, ApplyDecision(w) PROVE TypeOK'
    <2>1. Outcome(job[w].row.status) \in RunRecord
      BY <1>7, ApplyDoes, Working, RecordTypes DEF JobOK
    <2> QED BY <1>0, <1>7, <2>1, ApplyDoes, Working
  <1>8. ASSUME NEW w \in Worker, SyncTask(w) PROVE TypeOK'
    BY <1>0, <1>8, SyncDoes, Working
  <1>9. ASSUME NEW w \in Worker, PersistRun(w) PROVE TypeOK'
    BY <1>0, <1>9, PersistDoes, Working
  <1>10. ASSUME NEW w \in Worker, ExpireRun(w) PROVE TypeOK'
    BY <1>0, <1>10, ExpireDoes, Working, RecordTypes
  <1>11. ASSUME NEW w \in Worker, CallTimesOut(w) PROVE TypeOK'
    BY <1>0, <1>11, TimeoutDoes
  <1>12. ASSUME StartSweep \/ \E t \in TaskId : SweepRead(t) PROVE TypeOK'
    BY <1>0, <1>12, StartSweepDoes, SweepReadDoes
  <1>13. ASSUME SweepWrite PROVE TypeOK'
    BY <1>0, <1>13, SweepWriteDoes
  <1>14. ASSUME Restart PROVE TypeOK'
    BY <1>0, <1>14, RestartDoes
  <1>15. ASSUME UNCHANGED vars PROVE TypeOK'
    BY <1>0, <1>15 DEF vars
  <1> QED BY <1>1, <1>2, <1>3, <1>4, <1>5, <1>6, <1>7, <1>8, <1>9, <1>10, <1>11, <1>12, <1>13, <1>14, <1>15, NextCases

LEMMA CountedStep == ASSUME BaseInv, [Next]_vars PROVE Counted'
  <1>0. TypeOK /\ Counted /\ deployment' = deployment
    BY SameDeployment DEF BaseInv
  <1>1. CASE count' = count
    BY <1>0, <1>1 DEF Counted
  <1>2. ASSUME NEW w \in Worker, NEW approval \in BOOLEAN, CreateRun(w, approval) PROVE Counted'
    BY <1>0, <1>2, CreateDoes, Settings DEF Counted
  <1>3. CASE Restart
    BY <1>0, <1>3, RestartDoes, Settings DEF Counted
  <1> QED BY <1>0, <1>1, <1>2, <1>3, NextCases, AsksDoes, LocalDoes, ResumeDoes, PostDoes, PersistNewDoes, ApplyDoes,
             SyncDoes, PersistDoes, ExpireDoes, TimeoutDoes, StartSweepDoes, SweepReadDoes, SweepWriteDoes DEF vars

LEMMA JobsStep == ASSUME BaseInv, [Next]_vars PROVE JobsOK'
  <1>0. TypeOK /\ JobsOK
    BY DEF BaseInv
  <1>1. ASSUME NEW w \in Worker, Others(w), sweep' = sweep, job'[w] # Idle => JobOK(job'[w]) PROVE JobsOK'
    BY <1>0, <1>1 DEF JobsOK, Others
  <1>2. ASSUME NEW w \in Worker, NEW approval \in BOOLEAN, CreateRun(w, approval) PROVE JobsOK'
    <2>1. Others(w) /\ sweep' = sweep
      BY <1>2, CreateDoes
    <2>2. PICK row \in Row : /\ row.status = "pending"
                             /\ \/ count'.tasks \in TaskId /\ Holds(w, Creating, count'.tasks, row)
                                \/ Holds(w, Storing, None, row)
      BY <1>2, CreateDoes
    <2>3. "pending" \notin Decided
      BY DEF Decided
    <2>4. JobOK(job'[w])
      BY <2>2, <2>3, JobKinds, NoneAssumption DEF Holds
    <2> QED BY <1>1, <2>1, <2>4
  <1>3. ASSUME NEW w \in Worker, Asks(w) PROVE JobsOK'
    <2>1. Others(w) /\ sweep' = sweep
      BY <1>0, <1>3, AsksDoes
    <2>2. PICK t \in TaskId, row \in Row : \/ row.status \in Decided /\ Holds(w, Deciding, t, row)
                                           \/ row.status \notin Decided /\ Holds(w, Governing, t, row)
      BY <1>0, <1>3, AsksDoes
    <2>3. JobOK(job'[w])
      BY <2>2, JobKinds, NoneAssumption DEF Holds
    <2> QED BY <1>1, <2>1, <2>3
  <1>4. ASSUME NEW w \in Worker, AsksLocally(w) PROVE JobsOK'
    <2>1. Others(w) /\ sweep' = sweep
      BY <1>0, <1>4, LocalDoes
    <2>2. PICK t \in TaskId, row \in Row : /\ row.status \notin Decided
                                           /\ Holds(w, Writing, t, row) \/ Holds(w, Expiring, t, row)
      BY <1>0, <1>4, LocalDoes
    <2>3. JobOK(job'[w])
      BY <2>2, JobKinds, NoneAssumption DEF Holds
    <2> QED BY <1>1, <2>1, <2>3
  <1>5. ASSUME NEW w \in Worker, sweep' = sweep,
               \/ Ends(w)
               \/ GoesOn(w, Storing) \/ GoesOn(w, Persisting) \/ GoesOn(w, Failing)
               \/ GoesOn(w, Mirroring) /\ job[w].task \in TaskId
        PROVE  JobsOK'
    <2>1. Others(w)
      BY <1>5 DEF GoesOn, Ends
    <2>2. job'[w] # Idle => JobOK(job'[w])
      BY <1>5, JobKinds, NoneAssumption DEF GoesOn, Ends, Holds
    <2> QED BY <1>1, <1>5, <2>1, <2>2
  <1>6. ASSUME NEW w \in Worker,
               \/ PostTask(w) \/ PersistNew(w) \/ ApplyDecision(w) \/ SyncTask(w)
               \/ PersistRun(w) \/ ExpireRun(w) \/ CallTimesOut(w)
        PROVE  JobsOK'
    BY <1>5, <1>6, PostDoes, PersistNewDoes, ApplyDoes, SyncDoes, PersistDoes, ExpireDoes, TimeoutDoes
  <1>7. ASSUME job' = job, \/ sweep'.task = None
                           \/ sweep'.row \in Row /\ sweep'.row.status \notin Decided
        PROVE  JobsOK'
    BY <1>0, <1>7, NoneAssumption DEF JobsOK
  <1>8. CASE StartSweep \/ SweepWrite \/ \E t \in TaskId : SweepRead(t)
    BY <1>0, <1>7, <1>8, StartSweepDoes, SweepWriteDoes, SweepReadDoes
  <1>9. CASE Restart
    BY <1>0, <1>9, RestartDoes DEF JobsOK
  <1>10. CASE UNCHANGED vars \/ \E w \in Worker, r \in RunId : ResumeRun(w, r)
    BY <1>0, <1>10, ResumeDoes DEF JobsOK, vars
  <1> QED BY <1>2, <1>3, <1>4, <1>6, <1>8, <1>9, <1>10, NextCases

LEMMA TurnStep == ASSUME BaseInv, [Next]_vars PROVE Turn'
  <1>0. TypeOK /\ Turn /\ deployment' = deployment
    BY SameDeployment DEF BaseInv
  <1> SUFFICES ASSUME deployment.threads = 1
               PROVE  /\ \A w \in Worker \ {1} : job'[w] = Idle
                      /\ job'[1] = Idle \/ sweep' = Asleep
    BY <1>0 DEF Turn
  <1>1. /\ \A w \in Worker \ {1} : job[w] = Idle
        /\ job[1] = Idle \/ sweep = Asleep
    BY <1>0 DEF Turn
  <1>2. ASSUME NEW w \in Worker, Others(w), sweep' = sweep, CanStart(w) \/ job[w] # Idle
        PROVE  /\ \A v \in Worker \ {1} : job'[v] = Idle
               /\ job'[1] = Idle \/ sweep' = Asleep
    <2>1. w = 1 /\ sweep = Asleep
      BY <1>1, <1>2, FirstOnly
    <2> QED BY <1>1, <1>2, <2>1 DEF Others
  <1>3. ASSUME NEW w \in Worker,
               (\E approval \in BOOLEAN : CreateRun(w, approval)) \/ Asks(w) \/ AsksLocally(w)
        PROVE  CanStart(w) /\ Others(w) /\ sweep' = sweep
    BY <1>0, <1>3, CreateDoes, AsksDoes, LocalDoes
  <1>4. ASSUME NEW w \in Worker,
               \/ PostTask(w) \/ PersistNew(w) \/ ApplyDecision(w) \/ SyncTask(w)
               \/ PersistRun(w) \/ ExpireRun(w) \/ CallTimesOut(w)
        PROVE  job[w] # Idle /\ Others(w) /\ sweep' = sweep
    BY <1>4, PostDoes, PersistNewDoes, ApplyDoes, SyncDoes, PersistDoes, ExpireDoes, TimeoutDoes DEF GoesOn, Ends
  <1>5. ASSUME job' = job, \A w \in Worker : job[w] = Idle
        PROVE  /\ \A v \in Worker \ {1} : job'[v] = Idle
               /\ job'[1] = Idle \/ sweep' = Asleep
    <2>1. 1 \in Worker
      BY <1>0, Settings DEF Bounds
    <2> QED BY <1>5, <2>1
  <1>6. CASE StartSweep
    BY <1>0, <1>5, <1>6, StartSweepDoes, NobodyElse
  <1>7. CASE SweepWrite \/ \E t \in TaskId : SweepRead(t)
    BY <1>0, <1>1, <1>7, SweepWriteDoes, SweepReadDoes
  <1>8. CASE Restart
    BY <1>0, <1>8, RestartDoes
  <1>9. CASE UNCHANGED vars \/ \E w \in Worker, r \in RunId : ResumeRun(w, r)
    BY <1>0, <1>1, <1>9, ResumeDoes DEF vars
  <1> QED BY <1>2, <1>3, <1>4, <1>6, <1>7, <1>8, <1>9, NextCases

LEMMA FreshStep == ASSUME BaseInv, [Next]_vars PROVE FreshIds'
  <1>0. TypeOK /\ FreshIds /\ deployment' = deployment
    BY SameDeployment DEF BaseInv
  <1> SUFFICES ASSUME deployment.restarts = 0
               PROVE  /\ \A t \in TaskId : t > count'.tasks => service'[t] = None /\ shadow'[t] = None
                      /\ \A w \in Worker : job'[w].task # None => job'[w].task <= count'.tasks
                      /\ sweep'.task # None => sweep'.task <= count'.tasks
    BY <1>0 DEF FreshIds
  <1>1. /\ \A t \in TaskId : t > count.tasks => service[t] = None /\ shadow[t] = None
        /\ \A w \in Worker : job[w].task # None => job[w].task <= count.tasks
        /\ sweep.task # None => sweep.task <= count.tasks
        /\ count.tasks \in Nat /\ TaskId \subseteq Nat
    BY <1>0, Settings DEF FreshIds, Bounds
  <1> DEFINE Goal == /\ \A t \in TaskId : t > count'.tasks => service'[t] = None /\ shadow'[t] = None
                     /\ \A w \in Worker : job'[w].task # None => job'[w].task <= count'.tasks
                     /\ sweep'.task # None => sweep'.task <= count'.tasks
  (* Rows are written under ids that were used before.                     *)
  <1>2. ASSUME count' = count, sweep'.task \in {None, sweep.task},
               NEW t \in TaskId, t <= count.tasks,
               \A u \in TaskId \ {t} : service'[u] = service[u] /\ shadow'[u] = shadow[u],
               \A w \in Worker : job'[w].task \in {None, job[w].task, t}
        PROVE  Goal
    BY <1>1, <1>2
  <1>3. ASSUME count' = count, sweep'.task \in {None, sweep.task}, UNCHANGED <<service, shadow>>,
               \A w \in Worker : job'[w].task \in {None, job[w].task}
        PROVE  Goal
    BY <1>1, <1>3
  <1>4. ASSUME NEW w \in Worker, NEW approval \in BOOLEAN, CreateRun(w, approval) PROVE Goal
    <2>1. /\ Others(w) /\ UNCHANGED <<service, sweep>>
          /\ \E row \in Row :
                 \/ /\ count'.tasks = count.tasks + 1 /\ count'.tasks \in TaskId
                    /\ shadow' = [shadow EXCEPT ![count'.tasks] = row]
                    /\ job'[w].task = count'.tasks
                 \/ /\ count'.tasks = count.tasks /\ shadow' = shadow /\ job'[w].task = None
      BY <1>4, CreateDoes DEF Holds
    <2>2. count'.tasks >= count.tasks /\ \A t \in TaskId : t > count'.tasks => shadow'[t] = shadow[t]
      BY <1>0, <1>1, <2>1 DEF TypeOK
    <2>3. job'[w].task # None => job'[w].task <= count'.tasks
      BY <1>1, <2>1
    <2>4. count'.tasks \in Nat
      BY <1>1, <2>1
    <2>5. ASSUME NEW v \in Worker, v # w, job'[v].task # None PROVE job'[v].task <= count'.tasks
      <3>1. job[v].task \in TaskId /\ job[v].task = job'[v].task
        BY <1>0, <2>1, <2>5, JobFacts DEF Others
      <3>2. PICK n \in Nat : n = job[v].task
        BY <1>1, <3>1
      <3>3. n <= count.tasks
        BY <1>1, <2>5, <3>1, <3>2
      <3> QED BY <1>1, <2>2, <2>4, <3>1, <3>2, <3>3
    <2>6. sweep'.task # None => sweep'.task <= count'.tasks
      <3>1. sweep.task \in TaskId \cup {None} /\ sweep'.task = sweep.task
        BY <1>0, <2>1 DEF TypeOK, AnySweep
      <3>2. CASE sweep.task # None
        <4>1. PICK n \in Nat : n = sweep.task
          BY <1>1, <3>1, <3>2
        <4> QED BY <1>1, <2>2, <2>4, <3>1, <3>2, <4>1
      <3> QED BY <3>1, <3>2
    <2> QED BY <1>1, <2>1, <2>2, <2>3, <2>4, <2>5, <2>6
  <1>5. ASSUME NEW w \in Worker, Asks(w) PROVE Goal
    <2>1. PICK t \in TaskId, row \in Row :
               service[t] # None /\ service' = [service EXCEPT ![t] = row] /\ job'[w].task = t
      BY <1>0, <1>5, AsksDoes DEF Holds
    <2>2. t <= count.tasks
      BY <1>1, <2>1
    <2>3. Others(w) /\ UNCHANGED <<shadow, count, sweep>>
      BY <1>0, <1>5, AsksDoes
    <2> HIDE DEF Goal
    <2> QED BY <1>0, <1>2, <2>1, <2>2, <2>3 DEF Others, TypeOK
  <1>6. ASSUME NEW w \in Worker, AsksLocally(w) PROVE Goal
    <2>1. PICK t \in TaskId : shadow[t] # None /\ job'[w].task = t
      BY <1>0, <1>6, LocalDoes DEF Holds, Open
    <2>2. t <= count.tasks
      BY <1>1, <2>1
    <2>3. Others(w) /\ UNCHANGED <<service, shadow, count, sweep>>
      BY <1>0, <1>6, LocalDoes
    <2> HIDE DEF Goal
    <2> QED BY <1>0, <1>2, <2>1, <2>2, <2>3 DEF Others, TypeOK
  <1>7. ASSUME NEW w \in Worker, GoesOn(w, Storing) \/ GoesOn(w, Mirroring) \/ GoesOn(w, Persisting)
                                 \/ GoesOn(w, Failing) \/ Ends(w)
        PROVE  \A v \in Worker : job'[v].task \in {None, job[v].task}
    BY <1>7, IdleFacts DEF GoesOn, Ends, Others, Holds
  <1>8. ASSUME NEW w \in Worker, PostTask(w) \/ SyncTask(w) PROVE Goal
    <2>1. /\ job[w].task \in TaskId /\ job[w].task <= count.tasks
          /\ \A u \in TaskId \ {job[w].task} : service'[u] = service[u] /\ shadow'[u] = shadow[u]
          /\ count' = count /\ sweep' = sweep
      BY <1>0, <1>1, <1>8, PostDoes, SyncDoes, NoneAssumption DEF TypeOK
    <2>2. \A v \in Worker : job'[v].task \in {None, job[v].task}
      BY <1>7, <1>8, PostDoes, SyncDoes
    <2> HIDE DEF Goal
    <2> QED BY <1>2, <2>1, <2>2
  <1>9. ASSUME NEW w \in Worker,
               PersistNew(w) \/ ApplyDecision(w) \/ PersistRun(w) \/ ExpireRun(w) \/ CallTimesOut(w)
        PROVE  Goal
    <2>1. \A v \in Worker : job'[v].task \in {None, job[v].task}
      BY <1>7, <1>9, PersistNewDoes, ApplyDoes, PersistDoes, ExpireDoes, TimeoutDoes
    <2>2. UNCHANGED <<service, shadow, count, sweep>>
      BY <1>9, PersistNewDoes, ApplyDoes, PersistDoes, ExpireDoes, TimeoutDoes
    <2> HIDE DEF Goal
    <2> QED BY <1>3, <2>1, <2>2
  <1>10. ASSUME StartSweep \/ UNCHANGED vars \/ \E w \in Worker, r \in RunId : ResumeRun(w, r)
         PROVE  Goal
    <2>1. UNCHANGED <<service, shadow, count, job>> /\ sweep'.task \in {None, sweep.task}
      BY <1>0, <1>10, StartSweepDoes, ResumeDoes DEF vars
    <2>2. \A w \in Worker : job'[w].task \in {None, job[w].task}
      BY <2>1
    <2> HIDE DEF Goal
    <2> QED BY <1>3, <2>1, <2>2
  <1>11. ASSUME NEW t \in TaskId, SweepRead(t) PROVE Goal
    <2>1. /\ UNCHANGED <<service, shadow, count, job>>
          /\ sweep'.task = None \/ (shadow[t] # None /\ sweep'.task = t)
      BY <1>0, <1>11, SweepReadDoes DEF Open
    <2>2. sweep'.task # None => sweep'.task <= count.tasks
      BY <1>1, <2>1
    <2> QED BY <1>1, <2>1, <2>2
  <1>12. ASSUME SweepWrite PROVE Goal
    <2>1. /\ UNCHANGED <<service, count, job>> /\ sweep'.task = None /\ sweep.task \in TaskId
          /\ sweep.task <= count.tasks
          /\ \A u \in TaskId \ {sweep.task} : shadow'[u] = shadow[u]
      BY <1>0, <1>1, <1>12, SweepWriteDoes, NoneAssumption DEF TypeOK
    <2>2. \A w \in Worker : job'[w].task \in {None, job[w].task}
      BY <2>1
    <2>3. \A u \in TaskId \ {sweep.task} : service'[u] = service[u] /\ shadow'[u] = shadow[u]
      BY <2>1
    <2> HIDE DEF Goal
    <2> QED BY <1>2, <2>1, <2>2, <2>3
  <1>13. ~Restart
    BY <1>0, RestartDoes
  <1> HIDE DEF Goal
  <1>14. Goal
    BY <1>4, <1>5, <1>6, <1>8, <1>9, <1>10, <1>11, <1>12, <1>13, NextCases
  <1> QED BY <1>14 DEF Goal

LEMMA InitBase == Init => BaseInv
  <1> SUFFICES ASSUME Init PROVE BaseInv
    OBVIOUS
  <1>1. Asleep \in AnySweep /\ Asleep.task = None
    BY DEF Asleep, AnySweep
  <1>2. TypeOK
    BY <1>1 DEF Init, TypeOK
  <1>3. /\ count.runs = 0 /\ count.tasks = 0 /\ sweep.task = None
        /\ \A w \in Worker : job[w] = Idle /\ job[w].task = None
        /\ \A t \in TaskId : service[t] = None /\ shadow[t] = None
    BY <1>1, IdleFacts DEF Init
  <1>4. Counted
    BY <1>2, <1>3, Settings DEF Counted
  <1>5. Turn
    BY <1>3 DEF Turn, Init
  <1> QED BY <1>2, <1>3, <1>4, <1>5 DEF BaseInv, JobsOK, FreshIds

LEMMA BaseStep == BaseInv /\ [Next]_vars => BaseInv'
  BY TypeStep, CountedStep, JobsStep, TurnStep, FreshStep DEF BaseInv

(* Service, shadow, runs, table, handlers and sweep keep their types, with *)
(* any timeouts, restarts and overlap of the platform's handlers.          *)
THEOREM TypeCorrect == Spec => []TypeOK
  <1>1. BaseInv => TypeOK
    BY DEF BaseInv
  <1> QED BY <1>1, InitBase, BaseStep, PTL DEF Spec

-----------------------------------------------------------------------------
(* The service does not take back what is terminal.                        *)
LEMMA ServiceKeeps ==
    ASSUME BaseInv, [Next]_vars, NEW t \in TaskId, service[t] # None, service[t].status \in Terminal
    PROVE  service'[t] = service[t]
  <1>0. TypeOK
    BY DEF BaseInv
  <1>1. ASSUME NEW w \in Worker, Asks(w) PROVE service'[t] = service[t]
    <2>1. PICK u \in TaskId, row \in Row : service[u].status \notin Terminal /\ service' = [service EXCEPT ![u] = row]
      BY <1>0, <1>1, AsksDoes
    <2> QED BY <1>0, <2>1 DEF TypeOK
  <1>2. ASSUME NEW w \in Worker, PostTask(w) PROVE service'[t] = service[t]
    BY <1>0, <1>2, PostDoes DEF TypeOK
  <1>3. CASE service' = service
    BY <1>3
  <1> QED BY <1>0, <1>1, <1>2, <1>3, NextCases, CreateDoes, LocalDoes, ResumeDoes, PersistNewDoes, ApplyDoes, SyncDoes,
             PersistDoes, ExpireDoes, TimeoutDoes, StartSweepDoes, SweepReadDoes, SweepWriteDoes, RestartDoes DEF vars

(* What a step leaves in a run or its row: what was there, in the run or   *)
(* in the row, at least as far as the approval is concerned; no verdict;   *)
(* or the verdict of a handler that was about to apply it.                 *)
Keeps(old, new) == new = None \/ (old # None /\ new # None /\ new.approval = old.approval)
NoVerdict(new) == new = None \/ new.approval \notin Decided
Verdict(r, new) == \E w \in Worker : /\ job[w].todo = Deciding /\ job[w].row.run = r
                                     /\ new # None /\ new.approval = job[w].row.status

LEMMA WhatRunsShow ==
    ASSUME BaseInv, [Next]_vars, NEW r \in RunId
    PROVE  /\ Keeps(run[r], run'[r]) \/ NoVerdict(run'[r]) \/ Verdict(r, run'[r])
           /\ Keeps(db[r], db'[r]) \/ Keeps(run[r], db'[r]) \/ NoVerdict(db'[r])
  <1> DEFINE Goal == /\ Keeps(run[r], run'[r]) \/ NoVerdict(run'[r]) \/ Verdict(r, run'[r])
                     /\ Keeps(db[r], db'[r]) \/ Keeps(run[r], db'[r]) \/ NoVerdict(db'[r])
  <1>0. TypeOK
    BY DEF BaseInv
  <1> USE DEF Keeps, NoVerdict
  <1>1. ASSUME UNCHANGED <<run, db>> PROVE Goal
    BY <1>1
  <1>2. ASSUME NEW w \in Worker, NEW approval \in BOOLEAN, CreateRun(w, approval) PROVE Goal
    BY <1>0, <1>2, CreateDoes, RecordTypes DEF TypeOK
  <1>3. ASSUME NEW w \in Worker, NEW q \in RunId, ResumeRun(w, q) PROVE Goal
    BY <1>0, <1>3, ResumeDoes, NoneAssumption DEF TypeOK
  <1>4. ASSUME NEW w \in Worker, PersistNew(w) PROVE Goal
    <2>1. NewRun(job[w].task # None) \in RunRecord /\ NewRun(job[w].task # None).approval \notin Decided
      BY RecordTypes
    <2> QED BY <1>0, <1>4, <2>1, PersistNewDoes, Working DEF TypeOK
  <1>5. ASSUME NEW w \in Worker, ApplyDecision(w) PROVE Goal
    <2>1. Outcome(job[w].row.status) \in RunRecord /\ Outcome(job[w].row.status).approval = job[w].row.status
      BY <1>5, ApplyDoes, Working, RecordTypes DEF JobOK
    <2>2. CASE r = job[w].row.run
      <3>1. run'[r] = IF run[r] = None THEN None ELSE Outcome(job[w].row.status)
        BY <1>0, <1>5, <2>2, ApplyDoes DEF TypeOK
      <3>2. db' = db /\ job[w].todo = Deciding
        BY <1>5, ApplyDoes
      <3> QED BY <2>1, <2>2, <3>1, <3>2, NoneAssumption DEF Verdict
    <2>3. CASE r # job[w].row.run
      BY <1>0, <1>5, <2>3, ApplyDoes DEF TypeOK
    <2> QED BY <2>2, <2>3
  <1>6. ASSUME NEW w \in Worker, PersistRun(w) PROVE Goal
    BY <1>0, <1>6, PersistDoes, Working DEF TypeOK
  <1>7. ASSUME NEW w \in Worker, ExpireRun(w) PROVE Goal
    BY <1>0, <1>7, ExpireDoes, Working, RecordTypes DEF TypeOK
  <1>8. ASSUME Restart PROVE Goal
    BY <1>0, <1>8, RestartDoes
  <1> HIDE DEF Goal
  <1>9. Goal
    BY <1>0, <1>1, <1>2, <1>3, <1>4, <1>5, <1>6, <1>7, <1>8, NextCases, AsksDoes, LocalDoes, PostDoes, SyncDoes,
       TimeoutDoes, StartSweepDoes, SweepReadDoes, SweepWriteDoes DEF vars
  <1> QED BY <1>9 DEF Goal

(* A handler that has a verdict to apply had it from the service.          *)
LEMMA WhereVerdictsComeFrom ==
    ASSUME BaseInv, [Next]_vars, NEW w \in Worker, job'[w].todo = Deciding
    PROVE  \/ job[w].todo = Deciding /\ job'[w].row = job[w].row
           \/ \E t \in TaskId : service'[t] \in Row /\ job'[w].row = service'[t]
  <1> DEFINE Goal == \/ job[w].todo = Deciding /\ job'[w].row = job[w].row
                     \/ \E t \in TaskId : service'[t] \in Row /\ job'[w].row = service'[t]
  <1>0. TypeOK
    BY DEF BaseInv
  <1>1. ASSUME job'[w] = job[w] PROVE Goal
    BY <1>1
  <1>2. ASSUME NEW v \in Worker, Others(v), v = w => job'[w].todo # Deciding PROVE Goal
    BY <1>2 DEF Others
  <1>3. /\ \A todo \in {Creating, Storing, Mirroring, Persisting, Governing, Writing, Expiring, Failing} :
               todo # Deciding
        /\ Idle.todo # Deciding
    BY TodoFacts, TodosDiffer, IdleFacts DEF Todos
  <1>4. ASSUME NEW v \in Worker, Asks(v) PROVE Goal
    <2>1. Others(v)
      BY <1>0, <1>4, AsksDoes
    <2>2. PICK t \in TaskId, row \in Row : /\ service' = [service EXCEPT ![t] = row]
                                           /\ job'[v].row = row
      BY <1>0, <1>4, AsksDoes DEF Holds
    <2>3. service'[t] = row
      BY <1>0, <2>2 DEF TypeOK
    <2>4. CASE v = w
      BY <2>2, <2>3, <2>4
    <2>5. CASE v # w
      BY <1>2, <2>1, <2>5
    <2> QED BY <2>4, <2>5
  <1>5. ASSUME NEW v \in Worker,
               \/ \E approval \in BOOLEAN : CreateRun(v, approval)
               \/ AsksLocally(v)
        PROVE  Others(v) /\ job'[v].todo # Deciding
    BY <1>0, <1>3, <1>5, CreateDoes, LocalDoes DEF Holds
  <1>6. ASSUME NEW v \in Worker,
               \/ PostTask(v) \/ PersistNew(v) \/ ApplyDecision(v) \/ SyncTask(v)
               \/ PersistRun(v) \/ ExpireRun(v) \/ CallTimesOut(v)
        PROVE  Others(v) /\ job'[v].todo # Deciding
    <2>1. \/ Ends(v) \/ GoesOn(v, Storing) \/ GoesOn(v, Mirroring) \/ GoesOn(v, Persisting) \/ GoesOn(v, Failing)
      BY <1>6, PostDoes, PersistNewDoes, ApplyDoes, SyncDoes, PersistDoes, ExpireDoes, TimeoutDoes
    <2> QED BY <1>3, <2>1 DEF Ends, GoesOn, Holds
  <1>7. ASSUME Restart PROVE Goal
    BY <1>0, <1>3, <1>7, RestartDoes
  <1> HIDE DEF Goal
  <1>8. Goal
    BY <1>0, <1>1, <1>2, <1>4, <1>5, <1>6, <1>7, NextCases, ResumeDoes, StartSweepDoes, SweepReadDoes,
       SweepWriteDoes DEF vars
  <1> QED BY <1>8 DEF Goal

LEMMA VerdictsStep == ASSUME BaseInv, VerdictsInv, [Next]_vars PROVE VerdictsInv'
  <1>0. TypeOK
    BY DEF BaseInv
  <1>1. ASSUME NEW r, NEW verdict \in Decided, <<r, verdict>> \in Recordings PROVE <<r, verdict>> \in Recordings'
    <2>1. PICK t \in TaskId : service[t] # None /\ service[t].run = r /\ service[t].status = verdict
      BY <1>1 DEF Recordings
    <2>2. service'[t] = service[t]
      BY <2>1, ServiceKeeps DEF Terminal
    <2> QED BY <2>1, <2>2 DEF Recordings
  <1>2. ASSUME NEW w \in Worker, job[w].todo = Deciding
        PROVE  /\ job[w].row.status \in Decided /\ job[w].row.run \in RunId
               /\ <<job[w].row.run, job[w].row.status>> \in Recordings'
    <2>1. job[w] # Idle
      BY <1>2, IdleFacts, TodosDiffer DEF Todos
    <2>2. job[w].row.status \in Decided /\ job[w].row.run \in RunId
      BY <1>2, <2>1, Working DEF JobOK
    <2>3. <<job[w].row.run, job[w].row.status>> \in Recordings
      BY <1>2 DEF VerdictsInv
    <2> QED BY <1>1, <2>2, <2>3
  <1>3. ASSUME NEW r \in RunId, run'[r] # None, run'[r].approval \in Decided
        PROVE  <<r, run'[r].approval>> \in Recordings'
    <2>1. CASE Keeps(run[r], run'[r])
      BY <1>1, <1>3, <2>1 DEF Keeps, VerdictsInv
    <2>2. CASE Verdict(r, run'[r])
      BY <1>2, <2>2 DEF Verdict
    <2> QED BY <1>3, <2>1, <2>2, WhatRunsShow DEF NoVerdict
  <1>4. ASSUME NEW r \in RunId, db'[r] # None, db'[r].approval \in Decided
        PROVE  <<r, db'[r].approval>> \in Recordings'
    <2>1. CASE Keeps(run[r], db'[r])
      BY <1>1, <1>4, <2>1 DEF Keeps, VerdictsInv
    <2>2. CASE Keeps(db[r], db'[r])
      BY <1>1, <1>4, <2>2 DEF Keeps, VerdictsInv
    <2> QED BY <1>4, <2>1, <2>2, WhatRunsShow DEF NoVerdict
  <1>5. ASSUME NEW w \in Worker, job'[w].todo = Deciding
        PROVE  <<job'[w].row.run, job'[w].row.status>> \in Recordings'
    <2>1. CASE job[w].todo = Deciding /\ job'[w].row = job[w].row
      BY <1>2, <2>1
    <2>2. ASSUME NEW t \in TaskId, service'[t] \in Row, job'[w].row = service'[t]
          PROVE  <<job'[w].row.run, job'[w].row.status>> \in Recordings'
      BY <2>2, NoneAssumption DEF Recordings
    <2> QED BY <1>5, <2>1, <2>2, WhereVerdictsComeFrom
  <1> QED BY <1>3, <1>4, <1>5 DEF VerdictsInv

LEMMA InitVerdicts == Init => VerdictsInv
  <1>1. Init => \A w \in Worker : job[w].todo # Deciding
    BY IdleFacts, TodosDiffer DEF Init, Todos
  <1> QED BY <1>1 DEF Init, VerdictsInv

(* "The service owns the state machine": for any number of runs, handlers  *)
(* and restarts, whatever times out or is expired behind the service's     *)
(* back (clients.py, runtime.py's apply_decision_run_effect).              *)
THEOREM OutcomesAreTheServices == Spec => []OutcomeNeedsServiceDecision
  <1>1. Init => BaseInv /\ VerdictsInv
    BY InitBase, InitVerdicts
  <1>2. BaseInv /\ VerdictsInv /\ [Next]_vars => (BaseInv /\ VerdictsInv)'
    BY BaseStep, VerdictsStep
  <1>3. VerdictsInv => OutcomeNeedsServiceDecision
    <2>1. ASSUME NEW pair \in Recordings
          PROVE  \E t \in TaskId : service[t] # None /\ service[t].run = pair[1] /\ service[t].status = pair[2]
      BY DEF Recordings
    <2>2. ASSUME VerdictsInv, NEW r \in RunId, NEW rec \in {run[r], db[r]}, rec # None, rec.approval \in Decided
          PROVE  \E t \in TaskId : service[t] # None /\ service[t].run = r /\ service[t].status = rec.approval
      <3>1. PICK pair \in Recordings : pair = <<r, rec.approval>>
        BY <2>2 DEF VerdictsInv
      <3> QED BY <2>1, <3>1
    <2> QED BY <2>2 DEF OutcomeNeedsServiceDecision
  <1> QED BY <1>1, <1>2, <1>3, PTL DEF Spec

-----------------------------------------------------------------------------
(* In turn, what a step does to one handler and one task.                  *)
LEMMA StillFacts ==
    /\ \A todo \in {Creating, Storing, Persisting, Failing, << >>} : todo \notin UndecidedStill
    /\ \A todo \in {Creating, Storing, Persisting, Governing, Writing, Expiring, Failing, << >>} :
           todo \notin {Deciding, Mirroring}
  BY TodoFacts, TodosDiffer DEF UndecidedStill, Todos

LEMMA OneWorker == ASSUME BaseInv, deployment.threads = 1
                   PROVE  /\ 1 \in Worker
                          /\ \A w \in Worker : job[w] # Idle => w = 1 /\ sweep = Asleep
                          /\ sweep.task # None => job[1] = Idle
                          /\ Asleep.task = None /\ Idle.todo = << >>
  <1>1. 1 \in Worker
    BY Settings DEF BaseInv, Bounds
  <1> QED BY <1>1 DEF BaseInv, Turn, Asleep, Idle

LEMMA ShadowStep == ASSUME BaseInv, ShadowInv, [Next]_vars PROVE ShadowInv'
  <1>0. TypeOK /\ deployment' = deployment
    BY SameDeployment DEF BaseInv
  <1> DEFINE Goal == /\ \A t \in TaskId : IsDecided(shadow[t])' => IsDecided(service[t])'
                     /\ job'[1].todo \in UndecidedStill => ~IsDecided(shadow[job[1].task])'
                     /\ job'[1].todo \in {Deciding, Mirroring} => IsDecided(service[job[1].task])'
                     /\ sweep'.task # None => ~IsDecided(shadow[sweep.task])'
  <1> SUFFICES ASSUME deployment.threads = 1, deployment.restarts = 0 PROVE Goal
    BY <1>0 DEF ShadowInv
  <1>1. /\ \A t \in TaskId : IsDecided(shadow[t]) => IsDecided(service[t])
        /\ job[1].todo \in UndecidedStill => ~IsDecided(shadow[job[1].task])
        /\ job[1].todo \in {Deciding, Mirroring} => IsDecided(service[job[1].task])
        /\ sweep.task # None => ~IsDecided(shadow[sweep.task])
    BY DEF ShadowInv
  <1>2. /\ 1 \in Worker /\ Asleep.task = None /\ Idle.todo = << >>
        /\ \A w \in Worker : (CanStart(w) \/ job[w] # Idle) => w = 1 /\ sweep = Asleep
        /\ sweep.task # None => job[1] = Idle
    BY OneWorker, FirstOnly
  <1> USE DEF IsDecided
  <1>3. ASSUME UNCHANGED <<service, shadow>>, sweep'.task = None, job'[1] = Idle PROVE Goal
    BY <1>1, <1>2, <1>3, StillFacts
  <1>4. ASSUME NEW w \in Worker, NEW approval \in BOOLEAN, CreateRun(w, approval) PROVE Goal
    <2>1. PICK row \in Row :
              /\ row.status = "pending"
              /\ \/ count'.tasks \in TaskId /\ shadow' = [shadow EXCEPT ![count'.tasks] = row]
                 \/ shadow' = shadow
              /\ job'[1].todo \in {Creating, Storing} /\ service' = service /\ sweep'.task = None
      BY <1>2, <1>4, CreateDoes DEF Holds
    <2>2. "pending" \notin Decided
      BY DEF Decided
    <2>3. \A t \in TaskId : IsDecided(shadow[t])' => IsDecided(service[t])'
      BY <1>0, <1>1, <2>1, <2>2 DEF TypeOK
    <2> QED BY <2>1, <2>3, StillFacts
  <1>5. ASSUME NEW w \in Worker, Asks(w) PROVE Goal
    <2>1. PICK t \in TaskId, row \in Row :
              /\ service[t] # None /\ service[t].status \notin Terminal
              /\ service' = [service EXCEPT ![t] = row]
              /\ \/ row.status \in Decided /\ job'[1].todo = Deciding /\ job'[1].task = t
                 \/ row.status \notin Decided /\ job'[1].todo = Governing /\ job'[1].task = t
              /\ shadow' = shadow /\ sweep'.task = None
      BY <1>0, <1>2, <1>5, AsksDoes DEF Holds
    <2>2. ~IsDecided(shadow[t]) /\ service'[t] = row /\ row # None
      BY <1>0, <1>1, <2>1, NoneAssumption DEF Terminal, TypeOK
    <2>3. \A u \in TaskId : u # t => service'[u] = service[u]
      BY <1>0, <2>1 DEF TypeOK
    <2> QED BY <1>1, <2>1, <2>2, <2>3, StillFacts
  <1>6. ASSUME NEW w \in Worker, AsksLocally(w) PROVE Goal
    <2>1. PICK t \in TaskId : /\ Open(t) /\ job'[1].task = t /\ job'[1].todo \in {Writing, Expiring}
                              /\ UNCHANGED <<service, shadow>> /\ sweep'.task = None
      BY <1>0, <1>2, <1>6, LocalDoes DEF Holds
    <2>2. ~IsDecided(shadow[t])
      BY <2>1 DEF Open, Terminal
    <2> QED BY <1>1, <2>1, <2>2, StillFacts
  <1>7. ASSUME NEW w \in Worker, PostTask(w) PROVE Goal
    <2>1. /\ job'[1].todo = Storing /\ shadow' = shadow /\ sweep'.task = None
          /\ \A t \in TaskId : service[t] # None => service'[t] = service[t]
      BY <1>0, <1>2, <1>7, PostDoes DEF TypeOK, GoesOn, Holds
    <2> QED BY <1>1, <2>1, StillFacts
  <1>8. ASSUME NEW w \in Worker, ApplyDecision(w) PROVE Goal
    <2>1. /\ job[1].todo = Deciding /\ job'[1].task = job[1].task
          /\ UNCHANGED <<service, shadow>> /\ sweep'.task = None
      BY <1>2, <1>8, ApplyDoes DEF GoesOn, Holds
    <2> QED BY <1>1, <2>1 DEF UndecidedStill
  <1>9. ASSUME NEW w \in Worker, SyncTask(w) PROVE Goal
    <2>1. /\ shadow' = [shadow EXCEPT ![job[1].task] = job[1].row] /\ job[1].task \in TaskId
          /\ service' = service /\ sweep'.task = None /\ job[1] # Idle
      BY <1>2, <1>9, SyncDoes
    <2>2. job[1].todo = Mirroring \/ job[1].row.status \notin Decided
      BY <1>2, <1>9, <2>1, SyncDoes, Working DEF JobOK
    <2>3. job'[1].todo \in {Persisting, Failing, << >>}
      BY <1>2, <1>9, SyncDoes DEF GoesOn, Holds, Ends
    <2>4. \A t \in TaskId : IsDecided(shadow[t])' => IsDecided(service[t])'
      BY <1>0, <1>1, <2>1, <2>2 DEF TypeOK
    <2> QED BY <2>1, <2>3, <2>4, StillFacts
  <1>10. ASSUME NEW w \in Worker, PersistNew(w) \/ PersistRun(w) \/ ExpireRun(w) \/ CallTimesOut(w) PROVE Goal
    <2>1. job[w] # Idle /\ Ends(w) /\ UNCHANGED <<service, shadow, sweep>>
      BY <1>10, PersistNewDoes, PersistDoes, ExpireDoes, TimeoutDoes
    <2> QED BY <1>2, <1>3, <2>1 DEF Ends
  <1>11. ASSUME StartSweep \/ \E t \in TaskId : SweepRead(t) PROVE Goal
    <2>1. /\ UNCHANGED <<service, shadow, job>>
          /\ sweep'.task = None \/ Open(sweep'.task)
      BY <1>0, <1>11, StartSweepDoes, SweepReadDoes
    <2>2. sweep'.task # None => ~IsDecided(shadow[sweep'.task])
      BY <2>1 DEF Open, Terminal
    <2> QED BY <1>1, <2>1, <2>2
  <1>12. ASSUME SweepWrite PROVE Goal
    <2>1. /\ shadow' = [shadow EXCEPT ![sweep.task] = sweep.row] /\ sweep.row.status \notin Decided
          /\ service' = service /\ sweep'.task = None
          /\ job[1] = Idle /\ job' = job
      BY <1>2, <1>12, SweepWriteDoes, NoneAssumption
    <2>2. \A t \in TaskId : IsDecided(shadow[t])' => IsDecided(service[t])'
      BY <1>0, <1>1, <2>1 DEF TypeOK
    <2> QED BY <1>2, <2>1, <2>2, StillFacts
  <1>13. ASSUME UNCHANGED vars \/ \E w \in Worker, r \in RunId : ResumeRun(w, r) PROVE Goal
    <2>1. UNCHANGED <<service, shadow, job, sweep>>
      BY <1>0, <1>13, ResumeDoes DEF vars
    <2> QED BY <1>1, <2>1
  <1>14. ~Restart
    BY <1>0, RestartDoes
  <1> HIDE DEF Goal
  <1> QED BY <1>4, <1>5, <1>6, <1>7, <1>8, <1>9, <1>10, <1>11, <1>12, <1>13, <1>14, NextCases

LEMMA InitShadow == Init => ShadowInv
  <1> SUFFICES ASSUME Init, deployment.threads = 1 PROVE ShadowInv
    BY DEF ShadowInv
  <1>1. 1 \in Worker
    BY InitBase, OneWorker
  <1>2. /\ \A t \in TaskId : shadow[t] = None
        /\ job[1].todo = << >> /\ sweep.task = None
    BY <1>1, IdleFacts DEF Init, Asleep
  <1> QED BY <1>2, StillFacts DEF ShadowInv, IsDecided

(* "A decision is terminal": with one handler or sweep at a time a decided *)
(* shadow is never written again - not by the sweep, by a legacy endpoint  *)
(* or by _sync_task_locally (app.py, automation.py).                       *)
THEOREM DecidedShadowsStay == Spec => DecidedShadowStays
  <1> DEFINE Stays == \A t \in TaskId :
                          /\ deployment.threads = 1 /\ deployment.restarts = 0 /\ IsDecided(shadow[t])
                          => shadow'[t] = shadow[t]
  <1>1. ASSUME BaseInv, ShadowInv, [Next]_vars PROVE Stays
    <2>0. TypeOK
      BY <1>1 DEF BaseInv
    <2> SUFFICES ASSUME NEW t \in TaskId, deployment.threads = 1, deployment.restarts = 0, IsDecided(shadow[t])
                 PROVE  shadow'[t] = shadow[t]
      OBVIOUS
    <2>1. \A w \in Worker : job[w] # Idle => w = 1
      BY <1>1, OneWorker
    <2>2. ASSUME NEW w \in Worker, NEW approval \in BOOLEAN, CreateRun(w, approval) PROVE shadow'[t] = shadow[t]
      <3>1. PICK n \in TaskId, row \in Row : shadow' = shadow \/ (n = count.tasks + 1 /\ shadow' = [shadow EXCEPT ![n] = row])
        <4>1. CASE count'.tasks \in TaskId /\ count'.tasks = count.tasks + 1
          BY <1>1, <2>2, <4>1, CreateDoes
        <4>2. CASE shadow' = shadow
          BY <1>1, <2>2, <4>2, CreateDoes
        <4> QED BY <1>1, <2>2, <4>1, <4>2, CreateDoes
      <3>2. t # count.tasks + 1
        BY <1>1, <2>0, Settings DEF BaseInv, FreshIds, IsDecided, Bounds
      <3> QED BY <2>0, <3>1, <3>2 DEF TypeOK
    <2>3. ASSUME NEW w \in Worker, SyncTask(w) PROVE shadow'[t] = shadow[t]
      <3>1. /\ shadow' = [shadow EXCEPT ![job[1].task] = job[1].row]
            /\ job[1].todo \in {Mirroring, Governing, Writing, Expiring}
        BY <1>1, <2>1, <2>3, SyncDoes
      <3>2. t # job[1].task
        BY <1>1, <3>1 DEF ShadowInv, UndecidedStill
      <3> QED BY <2>0, <3>1, <3>2 DEF TypeOK
    <2>4. ASSUME SweepWrite PROVE shadow'[t] = shadow[t]
      <3>1. shadow' = [shadow EXCEPT ![sweep.task] = sweep.row] /\ sweep.task # None
        BY <1>1, <2>4, SweepWriteDoes, NoneAssumption
      <3>2. t # sweep.task
        BY <1>1, <3>1 DEF ShadowInv
      <3> QED BY <2>0, <3>1, <3>2 DEF TypeOK
    <2>5. ~Restart
      BY <2>0, RestartDoes
    <2> QED BY <1>1, <2>0, <2>2, <2>3, <2>4, <2>5, NextCases, AsksDoes, LocalDoes, ResumeDoes, PostDoes, PersistNewDoes,
               ApplyDoes, PersistDoes, ExpireDoes, TimeoutDoes, StartSweepDoes, SweepReadDoes DEF vars
  <1>2. Init => BaseInv /\ ShadowInv
    BY InitBase, InitShadow
  <1>3. BaseInv /\ ShadowInv /\ [Next]_vars => (BaseInv /\ ShadowInv)'
    BY BaseStep, ShadowStep
  <1>4. BaseInv /\ ShadowInv /\ [Next]_vars => [Stays]_vars
    BY <1>1
  <1>5. [][Stays]_vars => DecidedShadowStays
    BY PTL DEF DecidedShadowStays
  <1> QED BY <1>2, <1>3, <1>4, <1>5, PTL DEF Spec

-----------------------------------------------------------------------------
(* The copies, in turn and when every call is answered.                    *)
LEMMA TodosApart ==
    /\ << >> \notin {Creating, Storing, Deciding, Mirroring, Persisting, Governing, Writing, Expiring, Failing}
    /\ Creating \notin {Storing, Deciding, Mirroring, Persisting, Governing, Writing, Expiring, Failing}
    /\ Storing \notin {Deciding, Mirroring, Persisting, Governing, Writing, Expiring, Failing}
    /\ Deciding \notin {Mirroring, Persisting, Governing, Writing, Expiring, Failing}
    /\ Mirroring \notin {Persisting, Governing, Writing, Expiring, Failing}
    /\ Persisting \notin {Governing, Writing, Expiring, Failing}
    /\ Governing \notin {Writing, Expiring, Failing}
  BY TodoFacts, TodosDiffer DEF Todos

(* A handler that is to create leaves service and table to follow.         *)
LEMMA CopiesCreate ==
    ASSUME BaseInv, InTurn, Copies, NEW w \in Worker, NEW approval \in BOOLEAN, CreateRun(w, approval)
    PROVE  Copies'
  <1>0. TypeOK /\ Counted /\ FreshIds /\ deployment.restarts = 0 /\ deployment.threads = 1
    BY DEF BaseInv, InTurn, Reliable
  <1>1. w = 1 /\ job[1].todo = << >>
    BY <1>0, FirstOnly, CreateDoes, IdleFacts
  <1>2. PICK r \in RunId, row \in Row :
            /\ r = count.runs + 1 /\ row.run = r /\ row.status = "pending" /\ count'.runs = r
            /\ run' = [run EXCEPT ![r] = NewRun(approval)]
            /\ job'[1].row = row
            /\ UNCHANGED <<service, db, sweep>>
            /\ \/ /\ approval /\ count.tasks + 1 \in TaskId
                  /\ shadow' = [shadow EXCEPT ![count.tasks + 1] = row]
                  /\ job'[1].todo = Creating /\ job'[1].task = count.tasks + 1
               \/ ~approval /\ shadow' = shadow /\ job'[1].todo = Storing /\ job'[1].task = None
    BY <1>0, <1>1, CreateDoes DEF Holds
  <1>3. /\ \A t \in TaskId : shadow[t] = service[t]
        /\ \A q \in RunId : db[q] = run[q]
    BY <1>1, TodosApart DEF Copies, CopyFollows, RowFollows, About
  <1>4. \A t \in TaskId : CopyFollows(t)'
    <2>1. CASE shadow' = shadow /\ job'[1].todo = Storing
      BY <1>2, <1>3, <2>1, TodosApart DEF CopyFollows, About
    <2>2. ASSUME NEW n \in TaskId, n = count.tasks + 1, shadow' = [shadow EXCEPT ![n] = row],
                 job'[1].todo = Creating, job'[1].task = n
          PROVE  \A t \in TaskId : CopyFollows(t)'
      <3>1. service[n] = None
        BY <1>0, <2>2, Settings DEF FreshIds, Bounds
      <3>2. shadow'[n] = row /\ \A t \in TaskId \ {n} : shadow'[t] = shadow[t]
        BY <1>0, <2>2 DEF TypeOK
      <3> QED BY <1>2, <1>3, <2>2, <3>1, <3>2, TodosApart DEF CopyFollows, About
    <2> QED BY <1>2, <2>1, <2>2
  <1>5. run'[r] = NewRun(approval) /\ \A q \in RunId \ {r} : run'[q] = run[q]
    BY <1>0, <1>2 DEF TypeOK
  <1>6. ASSUME NEW t \in TaskId PROVE TaskHasRun(t)'
    <2>1. SUFFICES ASSUME service[t] # None PROVE TaskHasRun(t)'
      BY <1>2 DEF TaskHasRun
    <2>2. service[t] \in Row /\ service[t].run \in RunId /\ service[t].run <= count.runs
      BY <1>0, <2>1 DEF TypeOK, Row, Copies, TaskHasRun
    <2>3. service[t].run # r /\ service[t].run <= count'.runs
      BY <1>0, <1>2, <2>2, Settings DEF Bounds
    <2>4. run'[service[t].run] = run[service[t].run]
      BY <1>5, <2>2, <2>3
    <2>5. ~About(t, {Deciding})
      BY <1>1, TodosApart DEF About
    <2> QED BY <1>2, <2>1, <2>3, <2>4, <2>5 DEF Copies, TaskHasRun, IsDecided
  <1>7. ASSUME NEW q \in RunId PROVE RowFollows(q)'
    <2>1. CASE q # r
      BY <1>2, <1>3, <1>5, <2>1, TodosApart DEF RowFollows
    <2>2. CASE q = r
      <3>1. (job'[1].task # None) = approval
        BY <1>2, NoneAssumption
      <3>2. q <= count'.runs
        BY <1>0, <1>2, <2>2, Settings DEF Bounds
      <3> QED BY <1>2, <1>5, <2>2, <3>1, <3>2, TodosApart DEF RowFollows
    <2> QED BY <2>1, <2>2
  <1>8. job'[1].todo \notin {Writing, Expiring, Failing}
    BY <1>2, TodosApart
  <1> QED BY <1>2, <1>4, <1>6, <1>7, <1>8 DEF Copies

LEMMA CopiesAsk ==
    ASSUME BaseInv, InTurn, Copies, NEW w \in Worker, Asks(w)
    PROVE  Copies'
  <1>0. TypeOK /\ deployment.threads = 1
    BY DEF BaseInv, InTurn, Reliable
  <1>1. w = 1 /\ job[1].todo = << >>
    BY <1>0, FirstOnly, AsksDoes, IdleFacts
  <1>2. PICK t \in TaskId, row \in Row :
            /\ service[t] # None /\ row.run = service[t].run
            /\ service' = [service EXCEPT ![t] = row]
            /\ job'[1].task = t /\ job'[1].row = row
            /\ \/ row.status \in Decided /\ job'[1].todo = Deciding
               \/ row.status \notin Decided /\ job'[1].todo = Governing
            /\ UNCHANGED <<shadow, run, db, count, sweep>>
    BY <1>0, <1>1, AsksDoes DEF Holds
  <1>3. /\ \A u \in TaskId : shadow[u] = service[u]
        /\ \A q \in RunId : db[q] = run[q]
    BY <1>1, TodosApart DEF Copies, CopyFollows, RowFollows, About
  <1>4. service'[t] = row /\ row # None /\ \A u \in TaskId \ {t} : service'[u] = service[u]
    BY <1>0, <1>2, NoneAssumption DEF TypeOK
  <1>5. \A u \in TaskId : CopyFollows(u)'
    BY <1>2, <1>3, <1>4, TodosApart DEF CopyFollows, About
  <1>6. ASSUME NEW u \in TaskId PROVE TaskHasRun(u)'
    <2>1. SUFFICES ASSUME service'[u] # None PROVE TaskHasRun(u)'
      BY DEF TaskHasRun
    <2>3. ASSUME NEW v \in TaskId, service'[v] # None
          PROVE  service[v] # None /\ service'[v].run = service[v].run
      <3>1. CASE v = t
        BY <1>2, <1>4, <3>1
      <3>2. CASE v # t
        BY <1>4, <2>3, <3>2
      <3> QED BY <3>1, <3>2
    <2>2. service[u] # None /\ service'[u].run = service[u].run
      BY <2>1, <2>3
    <2>4. job'[1].todo # Creating
      BY <1>2, TodosApart
    <2>5. ASSUME IsDecided(service[u])', ~About(u, {Deciding})'
          PROVE  run[service[u].run] = Outcome(service'[u].status)
      <3>1. u # t
        BY <1>2, <1>4, <2>5 DEF About, IsDecided
      <3>2. service'[u] = service[u] /\ ~About(u, {Deciding})
        BY <1>1, <1>4, <3>1, TodosApart DEF About
      <3> QED BY <2>5, <3>2 DEF Copies, TaskHasRun, IsDecided
    <2>6. /\ service[u].run <= count.runs /\ run[service[u].run] # None
          /\ \A v \in TaskId : service[v] # None /\ service[v].run = service[u].run => v = u
      BY <2>2 DEF Copies, TaskHasRun
    <2> QED BY <1>2, <2>2, <2>3, <2>4, <2>5, <2>6 DEF TaskHasRun
  <1>7. ASSUME NEW q \in RunId PROVE RowFollows(q)'
    <2>1. run[row.run] # None
      BY <1>2 DEF Copies, TaskHasRun
    <2> QED BY <1>2, <1>3, <2>1, TodosApart DEF RowFollows
  <1>8. job'[1].todo \notin {Writing, Expiring, Failing}
    BY <1>2, TodosApart
  <1> QED BY <1>2, <1>5, <1>6, <1>7, <1>8 DEF Copies

LEMMA CopiesPost ==
    ASSUME BaseInv, InTurn, Copies, NEW w \in Worker, PostTask(w)
    PROVE  Copies'
  <1>0. TypeOK /\ deployment.threads = 1
    BY DEF BaseInv, InTurn, Reliable
  <1>1. w = 1
    BY <1>0, PostDoes, OneWorker
  <1> DEFINE t == job[1].task
             row == job[1].row
  <1>2. /\ job[1].todo = Creating /\ t \in TaskId /\ row \in Row /\ row # None /\ row.status \notin Decided
        /\ job'[1].todo = Storing /\ job'[1].task = t /\ job'[1].row = row
        /\ service' = [service EXCEPT ![t] = IF service[t] = None THEN row ELSE service[t]]
        /\ UNCHANGED <<shadow, run, db, count, sweep>>
    BY <1>0, <1>1, PostDoes, Working, NoneAssumption, TodosApart DEF JobOK, GoesOn, Holds
  <1>3. service[t] = None /\ shadow[t] = row
    BY <1>2 DEF Copies, CopyFollows, About
  <1>4. service'[t] = row /\ \A u \in TaskId \ {t} : service'[u] = service[u]
    BY <1>0, <1>2, <1>3 DEF TypeOK
  <1> HIDE DEF t, row
  <1>5. ASSUME NEW u \in TaskId PROVE CopyFollows(u)'
    <2>1. CASE u = t
      BY <1>2, <1>3, <1>4, <2>1, TodosApart DEF CopyFollows, About
    <2>2. CASE u # t
      <3>1. shadow[u] = service[u]
        BY <1>2, <2>2, TodosApart DEF Copies, CopyFollows, About, t
      <3> QED BY <1>2, <1>4, <2>2, <3>1, TodosApart DEF CopyFollows, About
    <2> QED BY <2>1, <2>2
  <1>6. /\ row.run <= count.runs /\ run[row.run] # None /\ row.run \in RunId
        /\ \A u \in TaskId : service[u] # None => service[u].run # row.run
    <2>1. row.run \in RunId
      BY <1>2 DEF Row
    <2>2. run[row.run] = NewRun(job[1].task # None) /\ row.run <= count.runs
      BY <1>2, <2>1, TodosApart DEF Copies, RowFollows, row
    <2>3. NewRun(job[1].task # None) # None
      BY RecordTypes, NoneAssumption
    <2>4. ASSUME NEW u \in TaskId, service[u] # None PROVE service[u].run # row.run
      BY <1>2, <2>4 DEF Copies, TaskHasRun, row
    <2> QED BY <2>1, <2>2, <2>3, <2>4
  <1>7. ASSUME NEW u \in TaskId PROVE TaskHasRun(u)'
    <2>1. CASE u = t
      <3>1. \A v \in TaskId : service'[v] # None /\ service'[v].run = row.run => v = t
        BY <1>4, <1>6
      <3> QED BY <1>2, <1>4, <1>6, <2>1, <3>1, TodosApart DEF TaskHasRun, IsDecided
    <2>2. CASE u # t
      <3>1. SUFFICES ASSUME service[u] # None PROVE TaskHasRun(u)'
        BY <1>4, <2>2 DEF TaskHasRun
      <3>2. service'[u] = service[u] /\ service[u].run # row.run
        BY <1>4, <1>6, <2>2, <3>1
      <3>3. \A v \in TaskId : service'[v] # None /\ service'[v].run = service[u].run => v = u
        <4>1. ASSUME NEW v \in TaskId, service'[v] # None, service'[v].run = service[u].run PROVE v = u
          <5>1. v # t
            BY <1>4, <3>2, <4>1
          <5> QED BY <1>4, <3>1, <4>1, <5>1 DEF Copies, TaskHasRun
        <4> QED BY <4>1
      <3>4. ~About(u, {Deciding})
        BY <1>2, TodosApart DEF About
      <3> QED BY <1>2, <3>1, <3>2, <3>3, <3>4, TodosApart DEF Copies, TaskHasRun, IsDecided
    <2> QED BY <2>1, <2>2
  <1>8. ASSUME NEW q \in RunId PROVE RowFollows(q)'
    BY <1>2, TodosApart DEF Copies, RowFollows, t, row
  <1>9. job'[1].todo \notin {Writing, Expiring, Failing}
    BY <1>2, TodosApart
  <1> QED BY <1>2, <1>5, <1>7, <1>8, <1>9 DEF Copies

LEMMA CopiesApply ==
    ASSUME BaseInv, InTurn, Copies, NEW w \in Worker, ApplyDecision(w)
    PROVE  Copies'
  <1>0. TypeOK /\ deployment.threads = 1
    BY DEF BaseInv, InTurn, Reliable
  <1>1. w = 1
    BY <1>0, ApplyDoes, OneWorker
  <1> DEFINE t == job[1].task
             row == job[1].row
  <1>2. /\ job[1].todo = Deciding /\ t \in TaskId /\ row \in Row /\ row.run \in RunId /\ row.status \in Decided
        /\ job'[1].todo = Mirroring /\ job'[1].task = t /\ job'[1].row = row
        /\ run' = [run EXCEPT ![row.run] = IF run[row.run] = None THEN None ELSE Outcome(row.status)]
        /\ UNCHANGED <<service, shadow, db, count, sweep>>
    BY <1>0, <1>1, ApplyDoes, Working DEF JobOK, GoesOn, Holds
  <1>3. service[t] = row /\ run[row.run] # None /\ row # None
    BY <1>2, NoneAssumption, TodosApart DEF Copies, CopyFollows, RowFollows, About
  <1>4. run'[row.run] = Outcome(row.status) /\ \A q \in RunId \ {row.run} : run'[q] = run[q]
    BY <1>0, <1>2, <1>3 DEF TypeOK
  <1>5. Outcome(row.status) # None
    BY <1>2, RecordTypes, NoneAssumption
  <1> HIDE DEF t, row
  <1>6. ASSUME NEW u \in TaskId PROVE CopyFollows(u)'
    BY <1>2, TodosApart DEF Copies, CopyFollows, About, t, row
  <1>7. ASSUME NEW u \in TaskId PROVE TaskHasRun(u)'
    <2>1. SUFFICES ASSUME service[u] # None PROVE TaskHasRun(u)'
      BY <1>2 DEF TaskHasRun
    <2>2. /\ service[u].run <= count.runs /\ run[service[u].run] # None
          /\ \A v \in TaskId : service[v] # None /\ service[v].run = service[u].run => v = u
      BY <2>1 DEF Copies, TaskHasRun
    <2>3. service[u].run \in RunId
      BY <1>0, <2>1 DEF TypeOK, Row
    <2>4. CASE u = t
      BY <1>2, <1>3, <1>4, <1>5, <2>2, <2>4, TodosApart DEF TaskHasRun
    <2>5. CASE u # t
      <3>1. service[u].run # row.run
        BY <1>2, <1>3, <2>2, <2>5
      <3>2. run'[service[u].run] = run[service[u].run]
        BY <1>4, <2>3, <3>1
      <3>3. ~About(u, {Deciding})
        BY <2>5 DEF About, t
      <3>4. IsDecided(service[u]) => run[service[u].run] = Outcome(service[u].status)
        BY <2>1, <3>3 DEF Copies, TaskHasRun
      <3> QED BY <1>2, <2>2, <3>2, <3>4, TodosApart DEF TaskHasRun, IsDecided
    <2> QED BY <2>4, <2>5
  <1>8. ASSUME NEW q \in RunId PROVE RowFollows(q)'
    <2>1. CASE q = row.run
      BY <1>2, <1>4, <1>5, <2>1, TodosApart DEF RowFollows
    <2>2. CASE q # row.run
      <3>1. db[q] = run[q]
        BY <1>2, <2>2, TodosApart DEF Copies, RowFollows, row
      <3> QED BY <1>2, <1>4, <2>2, <3>1, TodosApart DEF RowFollows
    <2> QED BY <2>1, <2>2
  <1>9. job'[1].todo \notin {Writing, Expiring, Failing}
    BY <1>2, TodosApart
  <1> QED BY <1>2, <1>6, <1>7, <1>8, <1>9 DEF Copies

LEMMA CopiesSync ==
    ASSUME BaseInv, InTurn, Copies, NEW w \in Worker, SyncTask(w)
    PROVE  Copies'
  <1>0. TypeOK /\ deployment.threads = 1
    BY DEF BaseInv, InTurn, Reliable
  <1>1. w = 1
    BY <1>0, SyncDoes, OneWorker
  <1> DEFINE t == job[1].task
             row == job[1].row
  <1>2. /\ t \in TaskId /\ row \in Row
        /\ \/ job[1].todo = Mirroring /\ job'[1].todo = Persisting /\ job'[1].row = row
           \/ job[1].todo = Governing /\ job'[1].todo = << >>
        /\ shadow' = [shadow EXCEPT ![t] = row]
        /\ UNCHANGED <<service, run, db, count, sweep>>
    BY <1>0, <1>1, SyncDoes, Working, IdleFacts DEF GoesOn, Holds, Ends, Copies
  <1>3. service[t] = row
    BY <1>2 DEF Copies, CopyFollows, About
  <1>4. shadow'[t] = row /\ \A u \in TaskId \ {t} : shadow'[u] = shadow[u]
    BY <1>0, <1>2 DEF TypeOK
  <1> HIDE DEF t, row
  <1>5. ASSUME NEW u \in TaskId PROVE CopyFollows(u)'
    <2>1. shadow'[u] = service[u]
      <3>1. CASE u = t
        BY <1>3, <1>4, <3>1
      <3>2. CASE u # t
        BY <1>2, <1>4, <3>2 DEF Copies, CopyFollows, About, t
      <3> QED BY <3>1, <3>2
    <2> QED BY <1>2, <2>1, TodosApart DEF CopyFollows, About
  <1>6. ASSUME NEW u \in TaskId PROVE TaskHasRun(u)'
    <2>1. ~About(u, {Deciding})
      BY <1>2, TodosApart DEF About
    <2> QED BY <1>2, <2>1, TodosApart DEF Copies, TaskHasRun, IsDecided
  <1>7. ASSUME NEW q \in RunId PROVE RowFollows(q)'
    BY <1>2, TodosApart DEF Copies, RowFollows, row
  <1>8. job'[1].todo \notin {Writing, Expiring, Failing}
    BY <1>2, TodosApart
  <1> QED BY <1>2, <1>5, <1>6, <1>7, <1>8 DEF Copies

(* The last step of a handler writes the run's row.                        *)
LEMMA CopiesPersist ==
    ASSUME BaseInv, InTurn, Copies, NEW w \in Worker, PersistNew(w) \/ PersistRun(w)
    PROVE  Copies'
  <1>0. TypeOK /\ deployment.threads = 1
    BY DEF BaseInv, InTurn, Reliable
  <1>1. w = 1
    BY <1>0, PersistNewDoes, PersistDoes, OneWorker
  <1> DEFINE row == job[1].row
  <1>2. /\ job[1].todo \in {Storing, Persisting} /\ row.run \in RunId /\ job'[1].todo = << >>
        /\ UNCHANGED <<service, shadow, run, count, sweep>>
    BY <1>1, PersistNewDoes, PersistDoes, Working, IdleFacts DEF Ends
  <1>3. db' = [db EXCEPT ![row.run] = run[row.run]]
    <2>1. CASE PersistNew(w)
      <3>1. job[1].todo = Storing /\ db' = [db EXCEPT ![row.run] = NewRun(job[1].task # None)]
        BY <1>1, <2>1, PersistNewDoes
      <3>2. run[row.run] = NewRun(job[1].task # None)
        BY <1>2, <3>1, TodosApart DEF Copies, RowFollows
      <3> QED BY <3>1, <3>2
    <2>2. CASE PersistRun(w)
      <3>1. /\ job[1].todo = Persisting
            /\ db' = [db EXCEPT ![row.run] = IF run[row.run] = None THEN db[row.run] ELSE run[row.run]]
        BY <1>1, <2>2, PersistDoes
      <3>2. run[row.run] # None
        BY <1>2, <3>1, TodosApart DEF Copies, RowFollows
      <3> QED BY <3>1, <3>2
    <2> QED BY <2>1, <2>2
  <1> HIDE DEF row
  <1>4. ASSUME NEW q \in RunId PROVE RowFollows(q)'
    <2>1. db'[q] = run[q]
      <3>1. CASE q = row.run
        BY <1>0, <1>3, <3>1 DEF TypeOK
      <3>2. CASE q # row.run
        <4>1. db[q] = run[q]
          BY <1>2, <3>2, TodosApart DEF Copies, RowFollows, row
        <4> QED BY <1>0, <1>3, <3>2, <4>1 DEF TypeOK
      <3> QED BY <3>1, <3>2
    <2> QED BY <1>2, <2>1, TodosApart DEF RowFollows
  <1>5. ASSUME NEW u \in TaskId PROVE CopyFollows(u)' /\ TaskHasRun(u)'
    <2>1. ~About(u, {Deciding}) /\ ~About(u, {Creating, Deciding, Mirroring, Governing})
      BY <1>2, TodosApart DEF About
    <2>2. CopyFollows(u)'
      BY <1>2, <2>1, TodosApart DEF Copies, CopyFollows, About
    <2> QED BY <1>2, <2>1, <2>2, TodosApart DEF Copies, TaskHasRun, IsDecided
  <1>6. job'[1].todo \notin {Writing, Expiring, Failing}
    BY <1>2, TodosApart
  <1> QED BY <1>2, <1>4, <1>5, <1>6 DEF Copies

LEMMA CopiesStep == ASSUME BaseInv, CopiesInv, [Next]_vars PROVE CopiesInv'
  <1>0. TypeOK /\ deployment' = deployment
    BY SameDeployment DEF BaseInv
  <1> SUFFICES ASSUME InTurn PROVE Copies'
    BY <1>0 DEF CopiesInv, InTurn, Copies, Reliable
  <1>1. Copies /\ ~deployment.timeouts /\ deployment.restarts = 0 /\ ~deployment.local /\ deployment.threads = 1
    BY DEF CopiesInv, InTurn, Copies, Reliable
  <1>2. ~Restart /\ ~StartSweep /\ ~SweepWrite /\ ~(\E t \in TaskId : SweepRead(t))
    BY <1>0, <1>1, RestartDoes, StartSweepDoes, SweepWriteDoes, SweepReadDoes DEF Copies
  <1>3. ASSUME NEW w \in Worker PROVE ~AsksLocally(w) /\ ~CallTimesOut(w) /\ ~(\E r \in RunId : ResumeRun(w, r))
    BY <1>0, <1>1, LocalDoes, TimeoutDoes, ResumeDoes
  <1>4. ASSUME NEW w \in Worker PROVE ~ExpireRun(w)
    BY <1>0, <1>1, ExpireDoes, OneWorker DEF Copies
  <1>5. CASE UNCHANGED vars
    BY <1>1, <1>5 DEF vars, Copies, CopyFollows, RowFollows, TaskHasRun, About, IsDecided
  <1> QED BY <1>1, <1>2, <1>3, <1>4, <1>5, NextCases, CopiesCreate, CopiesAsk, CopiesPost, CopiesApply, CopiesSync,
             CopiesPersist

LEMMA InitCopies == Init => CopiesInv
  <1> SUFFICES ASSUME Init, deployment.threads = 1 PROVE Copies
    BY DEF CopiesInv, InTurn
  <1>1. 1 \in Worker
    BY InitBase, OneWorker
  <1>2. /\ \A t \in TaskId : shadow[t] = None /\ service[t] = None
        /\ \A r \in RunId : run[r] = None /\ db[r] = None
        /\ job[1].todo = << >> /\ sweep = Asleep
    BY <1>1, IdleFacts DEF Init
  <1> QED BY <1>2, TodosApart DEF Copies, CopyFollows, RowFollows, TaskHasRun, About

(* One request after the other through the governance endpoints, and every *)
(* call answered: between requests shadow and service, table and run, and  *)
(* run and decision agree, for any number of runs (clients.py, app.py).    *)
THEOREM CopiesAgreeInTurn == Spec => []CopiesAgree
  <1>1. ASSUME BaseInv, CopiesInv PROVE CopiesAgree
    <2> SUFFICES ASSUME InTurn, Quiet
                 PROVE  /\ shadow = service /\ db = run
                        /\ \A t \in TaskId : IsDecided(service[t]) => run[service[t].run] = Outcome(service[t].status)
      BY DEF CopiesAgree, InTurn
    <2>1. Copies /\ TypeOK
      BY <1>1 DEF CopiesInv, Copies, InTurn, BaseInv
    <2>2. job[1].todo = << >>
      BY <1>1, NobodyElse, OneWorker DEF Quiet, InTurn
    <2>3. \A t \in TaskId : shadow[t] = service[t]
      BY <2>1, <2>2, TodosApart DEF Copies, CopyFollows, About
    <2>4. \A r \in RunId : db[r] = run[r]
      BY <2>1, <2>2, TodosApart DEF Copies, RowFollows
    <2>5. shadow = service
      BY <2>1, <2>3 DEF TypeOK
    <2>6. db = run
      BY <2>1, <2>4 DEF TypeOK
    <2>7. \A t \in TaskId : IsDecided(service[t]) => run[service[t].run] = Outcome(service[t].status)
      BY <2>1, <2>2, TodosApart DEF Copies, TaskHasRun, About, IsDecided
    <2> QED BY <2>5, <2>6, <2>7
  <1>2. Init => BaseInv /\ CopiesInv
    BY InitBase, InitCopies
  <1>3. BaseInv /\ CopiesInv /\ [Next]_vars => (BaseInv /\ CopiesInv)'
    BY BaseStep, CopiesStep
  <1> QED BY <1>1, <1>2, <1>3, PTL DEF Spec

=============================================================================
