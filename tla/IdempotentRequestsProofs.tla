----------------------- MODULE IdempotentRequestsProofs -----------------------
(***************************************************************************)
(* Proofs about IdempotentRequests, for any keys, requests, faults and     *)
(* number of handlers in progress.                                         *)
(***************************************************************************)
EXTENDS IdempotentRequests, FiniteSetTheorems, TLAPS

ResultOrNone == Nat \cup {None}
AnyRecord == [status : {"in_flight", "success"}, result : ResultOrNone]
AnyJob == [ step : Steps \cup {"done"}, key : Key,
            seen : AnyRecord \cup {None}, result : ResultOrNone ]

TypeOK == /\ deployment \in Deployments
          /\ record \in [Key -> AnyRecord \cup {None}]
          /\ effects \in Seq(Key)
          /\ job \in [Request -> AnyJob \cup {NotSent}]
          /\ answer \in [Request -> ResultOrNone]
          /\ late \in SUBSET Request
          /\ faults \in [Key -> Nat]

Sent(q) == job[q] # NotSent
ClaimSteps == {"claim_status", "claim_result"}
CompleteSteps == {"complete_status", "complete_result"}
Finished(q) == job[q].step \in {"answer", "done"} /\ job[q].result # None

(* What a handler holds at each of its steps; only the Redis store lets a  *)
(* handler claim, and only there is what it read a copy.                   *)
JobOK(q) ==
    /\ answer[q] # None => At(q, "done") /\ answer[q] = job[q].result
    /\ Sent(q) =>
        /\ job[q].step \in ClaimSteps \cup {"check", "execute"} => job[q].result = None
        /\ job[q].step \in CompleteSteps \cup {"answer"} => job[q].result # None
        /\ Backend = "memory" => job[q].step \notin ClaimSteps
        /\ Backend # "memory" /\ job[q].step \in ClaimSteps \cup {"check"} => job[q].seen # None
        /\ job[q].step \in ClaimSteps => ~Replayable(job[q].seen)
        /\ Backend = "memory" /\ At(q, "check") => record[job[q].key] # None
JobsOK == \A q \in Request : JobOK(q)

(* A result is an execution of the key it is kept for.                     *)
Own(e, k, n) == n \in 1 .. Len(e) /\ e[n] = k
RecordOwn(k) == record[k] # None /\ record[k].result # None => Own(effects, k, record[k].result)
JobOwn(q) ==
    Sent(q) =>
        /\ job[q].seen # None /\ job[q].seen.result # None => Own(effects, job[q].key, job[q].seen.result)
        /\ job[q].result # None => Own(effects, job[q].key, job[q].result)
OwnResults == (\A k \in Key : RecordOwn(k)) /\ (\A q \in Request : JobOwn(q))

Alone == OneAtATime => \A p, q \in InProgress : p = q

BaseInv == TypeOK /\ JobsOK /\ OwnResults /\ Alone

-----------------------------------------------------------------------------
InTurn == OneAtATime /\ DecodesNames

(* A handler that will execute, unless the check finds something.          *)
Unserved(q) ==
    \/ job[q].step \in ClaimSteps \cup {"execute"}
    \/ At(q, "check") /\ Backend # "memory" /\ ~Replayable(job[q].seen)

(* Every execution of a key but the last is excused by a fault, and so is  *)
(* the last unless it can be replayed or is about to be recorded.          *)
Excused(k) == Executions(k) <= faults[k]
Completing(q, k) ==
    /\ Sent(q) /\ job[q].key = k
    /\ \/ At(q, "complete_status") /\ (Backend = "memory" => record[k] # None)
       \/ At(q, "complete_result") /\ record[k] # None /\ record[k].status = "success"
Accounted(k) ==
    /\ Executions(k) <= 1 + faults[k]
    /\ Excused(k) \/ Replayable(record[k]) \/ \E q \in Request : Completing(q, k)
Owed(q) ==
    Sent(q) =>
        /\ Unserved(q) => Excused(job[q].key)
        /\ At(q, "execute") /\ Backend = "memory" /\ record[job[q].key] = None =>
               Executions(job[q].key) < faults[job[q].key]
Budget == InTurn => (\A k \in Key : Accounted(k)) /\ (\A q \in Request : Owed(q))

-----------------------------------------------------------------------------
(* While no fault strikes a key, what was finished can be replayed ...     *)
Kept(q) ==
    faults[job[q].key] = 0 =>
        /\ Finished(q) => Replayable(record[job[q].key])
        /\ Backend = "memory" => record[job[q].key] # None
        /\ At(q, "complete_result") =>
               record[job[q].key] # None /\ record[job[q].key].status = "success"
FinishedIsKept == InTurn \/ Backend = "memory" => \A q \in Request : Sent(q) => Kept(q)

(* ... and in turn it is one result, for which nobody is still at work.    *)
NoneFinished(k) == \A p \in Request : Sent(p) /\ job[p].key = k => ~Finished(p)
OneResultOf(q) ==
    Sent(q) /\ faults[job[q].key] = 0 =>
        /\ Finished(q) => record[job[q].key].result = job[q].result
        /\ At(q, "check") /\ Backend # "memory" /\ Replayable(job[q].seen) =>
               job[q].seen = record[job[q].key]
        /\ Unserved(q) \/ job[q].step \in CompleteSteps => NoneFinished(job[q].key)
OneResult == InTurn => \A q \in Request : OneResultOf(q)

LateFollows ==
    \A q \in late :
        /\ Sent(q)
        /\ \E p \in Request : Sent(p) /\ job[p].key = job[q].key /\ At(p, "done") /\ job[p].result # None
        /\ Backend = "memory" /\ faults[job[q].key] = 0 =>
               job[q].step \notin {"execute", "complete_status", "complete_result"}

-----------------------------------------------------------------------------
LEMMA StepNames ==
    /\ "not_sent" \notin Steps /\ "done" \notin Steps
    /\ NotSent.step = "not_sent" /\ NotSent.key = None
    /\ \A x \in AnyJob : x # NotSent /\ x.key # None
  <1>1. \A x \in AnyJob : x.key \in Key /\ x.step # "not_sent"
    BY DEF AnyJob, Steps
  <1> QED BY <1>1, NoneAssumption DEF NotSent, Steps

(* A handler that is at a step was sent a request with a key.              *)
LEMMA JobType ==
    ASSUME TypeOK, NEW q \in Request, job[q].step # "not_sent"
    PROVE  job[q] \in AnyJob /\ Sent(q) /\ job[q].key \in Key
  <1>1. job[q] # NotSent
    BY DEF NotSent
  <1> QED BY <1>1 DEF TypeOK, Sent, AnyJob

LEMMA RecordType ==
    ASSUME TypeOK, NEW k \in Key, record[k] # None
    PROVE  record[k] \in AnyRecord
  BY DEF TypeOK

LEMMA InFlightType == InFlight \in AnyRecord /\ ~Replayable(InFlight) /\ ~Replayable(None)
  BY DEF InFlight, AnyRecord, ResultOrNone, Replayable

(* What an action does to one job and to one record, field by field.       *)
Moves(q, step, seen, result) ==
    /\ job' \in [Request -> AnyJob \cup {NotSent}]
    /\ job'[q] \in AnyJob /\ job'[q] # NotSent /\ job'[q].key = job[q].key
    /\ job'[q].step = step /\ job'[q].seen = seen /\ job'[q].result = result
    /\ \A p \in Request \ {q} : job'[p] = job[p]
Writes(k, status, result) ==
    /\ record' \in [Key -> AnyRecord \cup {None}]
    /\ record'[k] # None /\ record'[k].status = status /\ record'[k].result = result
    /\ \A l \in Key \ {k} : record'[l] = record[l]
Strikes(k) ==
    /\ faults' \in [Key -> Nat]
    /\ faults'[k] = faults[k] + 1
    /\ \A l \in Key \ {k} : faults'[l] = faults[l]

LEMMA Moved ==
    ASSUME TypeOK, NEW q \in Request, NEW x \in AnyJob, x.key = job[q].key, job' = [job EXCEPT ![q] = x]
    PROVE  Moves(q, x.step, x.seen, x.result)
  BY StepNames DEF TypeOK, Moves

LEMMA Written ==
    ASSUME TypeOK, NEW k \in Key, NEW r \in AnyRecord, record' = [record EXCEPT ![k] = r]
    PROVE  Writes(k, r.status, r.result)
  <1>1. r # None
    BY NoneAssumption DEF AnyRecord, ResultOrNone
  <1> QED BY <1>1 DEF TypeOK, Writes

LEMMA Struck ==
    ASSUME TypeOK, NEW k \in Key, Fault(k) PROVE Strikes(k)
  BY DEF TypeOK, Fault, Strikes

LEMMA Went ==
    ASSUME TypeOK, NEW q \in Request, job[q].step # "not_sent",
           NEW s \in Steps \cup {"done"}, GoTo(q, s)
    PROVE  Moves(q, s, job[q].seen, job[q].result)
  <1> DEFINE x == [job[q] EXCEPT !.step = s]
  <1>1. job[q] \in AnyJob
    BY JobType
  <1>2. x \in AnyJob /\ x.key = job[q].key /\ x.step = s /\ x.seen = job[q].seen /\ x.result = job[q].result
    BY <1>1 DEF AnyJob
  <1>3. job' = [job EXCEPT ![q] = x]
    BY DEF GoTo
  <1> HIDE DEF x
  <1> QED BY <1>2, <1>3, Moved

-----------------------------------------------------------------------------
(* Each action in these terms.                                             *)
LEMMA SendDoes ==
    ASSUME TypeOK, NEW q \in Request, NEW k \in Key, Send(q, k)
    PROVE  /\ job[q] = NotSent /\ ~Locked
           /\ job' \in [Request -> AnyJob \cup {NotSent}] /\ job'[q] \in AnyJob /\ job'[q].key = k
           /\ \A p \in Request \ {q} : job'[p] = job[p]
           /\ job'[q].result = None
           /\ record' \in [Key -> AnyRecord \cup {None}]
           /\ \A l \in Key \ {k} : record'[l] = record[l]
           /\ \/ /\ Backend = "memory" /\ job'[q].step = "check" /\ job'[q].seen = None
                 /\ record'[k] = IF record[k] = None THEN InFlight ELSE record[k]
              \/ /\ Backend # "memory" /\ job'[q].step = "claim_status" /\ job'[q].seen = InFlight
                 /\ record[k] = None /\ record' = record
              \/ /\ Backend # "memory" /\ job'[q].step = "check" /\ job'[q].seen = Seen(k)
                 /\ record[k] # None /\ record' = record
  <1>0. Seen(k) \in AnyRecord \cup {None}
    BY InFlightType DEF Seen, TypeOK
  <1>1. CASE Backend = "memory"
    <2> DEFINE x == [step |-> "check", key |-> k, seen |-> None, result |-> None]
    <2>1. x \in AnyJob /\ x.step = "check" /\ x.key = k /\ x.seen = None /\ x.result = None
      BY DEF AnyJob, Steps, ResultOrNone
    <2>2. job' = [job EXCEPT ![q] = x] /\ record' = [record EXCEPT ![k] = IF @ = None THEN InFlight ELSE @]
      BY <1>1 DEF Send, Begin
    <2> HIDE DEF x
    <2>3. /\ record' \in [Key -> AnyRecord \cup {None}]
          /\ record'[k] = IF record[k] = None THEN InFlight ELSE record[k]
          /\ \A l \in Key \ {k} : record'[l] = record[l]
      BY <2>2, InFlightType DEF TypeOK
    <2>4. /\ job' \in [Request -> AnyJob \cup {NotSent}] /\ job'[q] = x
          /\ \A p \in Request \ {q} : job'[p] = job[p]
      BY <2>1, <2>2 DEF TypeOK
    <2> QED BY <1>1, <2>1, <2>3, <2>4 DEF Send
  <1>2. CASE Backend # "memory" /\ record[k] = None
    <2> DEFINE x == [step |-> "claim_status", key |-> k, seen |-> InFlight, result |-> None]
    <2>1. x \in AnyJob /\ x.step = "claim_status" /\ x.key = k /\ x.seen = InFlight /\ x.result = None
      BY InFlightType DEF AnyJob, Steps, ResultOrNone
    <2>2. job' = [job EXCEPT ![q] = x] /\ record' = record
      BY <1>2 DEF Send, Begin
    <2> HIDE DEF x
    <2>4. /\ job' \in [Request -> AnyJob \cup {NotSent}] /\ job'[q] = x
          /\ \A p \in Request \ {q} : job'[p] = job[p]
      BY <2>1, <2>2 DEF TypeOK
    <2> QED BY <1>2, <2>1, <2>2, <2>4 DEF Send, TypeOK
  <1>3. CASE Backend # "memory" /\ record[k] # None
    <2> DEFINE x == [step |-> "check", key |-> k, seen |-> Seen(k), result |-> None]
    <2>1. x \in AnyJob /\ x.step = "check" /\ x.key = k /\ x.seen = Seen(k) /\ x.result = None
      BY <1>0 DEF AnyJob, Steps, ResultOrNone
    <2>2. job' = [job EXCEPT ![q] = x] /\ record' = record
      BY <1>3 DEF Send, Begin
    <2> HIDE DEF x
    <2>4. /\ job' \in [Request -> AnyJob \cup {NotSent}] /\ job'[q] = x
          /\ \A p \in Request \ {q} : job'[p] = job[p]
      BY <2>1, <2>2 DEF TypeOK
    <2> QED BY <1>3, <2>1, <2>2, <2>4 DEF Send, TypeOK
  <1> QED BY <1>1, <1>2, <1>3

LEMMA ClaimStatusDoes ==
    ASSUME TypeOK, NEW q \in Request, ClaimStatus(q)
    PROVE  /\ At(q, "claim_status") /\ job[q] \in AnyJob /\ job[q].key \in Key
           /\ Moves(q, "claim_result", job[q].seen, job[q].result)
           /\ Writes(job[q].key, "in_flight",
                     IF record[job[q].key] = None THEN None ELSE record[job[q].key].result)
  <1> DEFINE k == job[q].key
             r == IF record[k] = None THEN InFlight ELSE [record[k] EXCEPT !.status = "in_flight"]
  <1>1. At(q, "claim_status") /\ job[q].step # "not_sent"
    BY DEF ClaimStatus, At
  <1>2. job[q] \in AnyJob /\ k \in Key
    BY <1>1, JobType
  <1>3. r \in AnyRecord /\ r.status = "in_flight" /\ r.result = IF record[k] = None THEN None ELSE record[k].result
    BY <1>2, RecordType, InFlightType DEF AnyRecord, InFlight
  <1>4. record' = [record EXCEPT ![k] = r]
    BY DEF ClaimStatus, KeyOf
  <1>5. Moves(q, "claim_result", job[q].seen, job[q].result)
    BY <1>1, Went DEF ClaimStatus, Steps
  <1> HIDE DEF r
  <1>6. Writes(k, r.status, r.result)
    BY <1>2, <1>3, <1>4, Written
  <1> QED BY <1>1, <1>2, <1>3, <1>5, <1>6

LEMMA ClaimResultDoes ==
    ASSUME TypeOK, NEW q \in Request, ClaimResult(q)
    PROVE  /\ At(q, "claim_result") /\ job[q] \in AnyJob /\ job[q].key \in Key
           /\ Moves(q, "check", job[q].seen, job[q].result)
           /\ Writes(job[q].key,
                     IF record[job[q].key] = None THEN "in_flight" ELSE record[job[q].key].status, None)
  <1> DEFINE k == job[q].key
             r == IF record[k] = None THEN InFlight ELSE [record[k] EXCEPT !.result = None]
  <1>1. At(q, "claim_result") /\ job[q].step # "not_sent"
    BY DEF ClaimResult, At
  <1>2. job[q] \in AnyJob /\ k \in Key
    BY <1>1, JobType
  <1>3. /\ r \in AnyRecord /\ r.result = None
        /\ r.status = IF record[k] = None THEN "in_flight" ELSE record[k].status
    BY <1>2, RecordType, InFlightType DEF AnyRecord, InFlight, ResultOrNone
  <1>4. record' = [record EXCEPT ![k] = r]
    BY DEF ClaimResult, KeyOf
  <1>5. Moves(q, "check", job[q].seen, job[q].result)
    BY <1>1, Went DEF ClaimResult, Steps
  <1> HIDE DEF r
  <1>6. Writes(k, r.status, r.result)
    BY <1>2, <1>3, <1>4, Written
  <1> QED BY <1>1, <1>2, <1>3, <1>5, <1>6

LEMMA CheckDoes ==
    ASSUME TypeOK, NEW q \in Request, Check(q)
    PROVE  /\ At(q, "check") /\ job[q] \in AnyJob /\ job[q].key \in Key
           /\ \/ Replayable(Held(q)) /\ Moves(q, "answer", None, Held(q).result)
              \/ ~Replayable(Held(q)) /\ Moves(q, "execute", None, None)
  <1> DEFINE y == Replayable(Held(q))
             res == IF y THEN Held(q).result ELSE None
             step == IF y THEN "answer" ELSE "execute"
             x == [job[q] EXCEPT !.seen = None, !.result = res, !.step = step]
  <1>1. At(q, "check") /\ job[q].step # "not_sent"
    BY DEF Check, At
  <1>2. job[q] \in AnyJob /\ job[q].key \in Key
    BY <1>1, JobType
  <1>3. res \in ResultOrNone /\ step \in {"answer", "execute"}
    <2>1. Held(q) \in AnyRecord \cup {None}
      BY <1>2 DEF Held, TypeOK, AnyJob, KeyOf
    <2> QED BY <2>1 DEF Replayable, AnyRecord, ResultOrNone
  <1>4. job' = [job EXCEPT ![q] = x]
    BY DEF Check, TypeOK
  <1>5. /\ x \in AnyJob /\ x.key = job[q].key
        /\ x.step = step /\ x.seen = None /\ x.result = res
    <2> HIDE DEF y, res, step
    <2> QED BY <1>2, <1>3 DEF AnyJob, Steps
  <1> HIDE DEF x
  <1>6. Moves(q, x.step, x.seen, x.result)
    BY <1>4, <1>5, Moved
  <1> QED BY <1>1, <1>2, <1>5, <1>6

LEMMA RejectDoes ==
    ASSUME TypeOK, NEW q \in Request, Reject(q)
    PROVE  /\ At(q, "execute") /\ job[q] \in AnyJob /\ job[q].key \in Key
           /\ Moves(q, "done", job[q].seen, job[q].result)
  <1>1. At(q, "execute") /\ job[q].step # "not_sent"
    BY DEF Reject, At
  <1> QED BY <1>1, JobType, Went DEF Reject

LEMMA ExecuteDoes ==
    ASSUME TypeOK, NEW q \in Request, Execute(q)
    PROVE  /\ At(q, "execute") /\ job[q] \in AnyJob /\ job[q].key \in Key
           /\ Moves(q, "complete_status", job[q].seen, Len(effects) + 1)
           /\ effects' = Append(effects, job[q].key)
  <1> DEFINE x == [job[q] EXCEPT !.step = "complete_status", !.result = Len(effects) + 1]
  <1>1. At(q, "execute") /\ job[q].step # "not_sent"
    BY DEF Execute, At
  <1>2. job[q] \in AnyJob /\ job[q].key \in Key
    BY <1>1, JobType
  <1>3. Len(effects) + 1 \in ResultOrNone
    BY DEF TypeOK, ResultOrNone
  <1>4. /\ x \in AnyJob /\ x.key = job[q].key /\ x.step = "complete_status"
        /\ x.seen = job[q].seen /\ x.result = Len(effects) + 1
    BY <1>2, <1>3 DEF AnyJob, Steps
  <1>5. job' = [job EXCEPT ![q] = x] /\ effects' = Append(effects, job[q].key)
    BY DEF Execute, TypeOK, KeyOf
  <1> HIDE DEF x
  <1>6. Moves(q, x.step, x.seen, x.result)
    BY <1>4, <1>5, Moved
  <1> QED BY <1>1, <1>2, <1>4, <1>5, <1>6

LEMMA CompleteStatusDoes ==
    ASSUME TypeOK, NEW q \in Request, CompleteStatus(q)
    PROVE  /\ At(q, "complete_status") /\ job[q] \in AnyJob /\ job[q].key \in Key
           /\ Moves(q, "complete_result", job[q].seen, job[q].result)
           /\ \/ Refused(job[q].key) /\ record' = record
              \/ /\ ~Refused(job[q].key)
                 /\ Writes(job[q].key, "success",
                           IF record[job[q].key] = None THEN None ELSE record[job[q].key].result)
  <1> DEFINE k == job[q].key
             r == IF record[k] = None THEN [status |-> "success", result |-> None]
                  ELSE [record[k] EXCEPT !.status = "success"]
  <1>1. At(q, "complete_status") /\ job[q].step # "not_sent"
    BY DEF CompleteStatus, At
  <1>2. job[q] \in AnyJob /\ k \in Key
    BY <1>1, JobType
  <1>3. r \in AnyRecord /\ r.status = "success" /\ r.result = IF record[k] = None THEN None ELSE record[k].result
    BY <1>2, RecordType DEF AnyRecord, ResultOrNone
  <1>4. record' = [record EXCEPT ![k] = IF Refused(k) THEN None ELSE r]
    BY DEF CompleteStatus, KeyOf
  <1>5. Moves(q, "complete_result", job[q].seen, job[q].result)
    BY <1>1, Went DEF CompleteStatus, Steps
  <1> HIDE DEF r
  <1>6. CASE Refused(k)
    <2>1. record' = record
      BY <1>2, <1>4, <1>6 DEF Refused, TypeOK
    <2> QED BY <1>1, <1>2, <1>5, <1>6, <2>1
  <1>7. CASE ~Refused(k)
    <2>1. Writes(k, r.status, r.result)
      BY <1>2, <1>3, <1>4, <1>7, Written
    <2> QED BY <1>1, <1>2, <1>3, <1>5, <1>7, <2>1
  <1> QED BY <1>6, <1>7

LEMMA CompleteResultDoes ==
    ASSUME TypeOK, NEW q \in Request, CompleteResult(q)
    PROVE  /\ At(q, "complete_result") /\ job[q] \in AnyJob /\ job[q].key \in Key
           /\ Moves(q, "answer", job[q].seen, job[q].result)
           /\ \/ Refused(job[q].key) /\ record' = record
              \/ /\ ~Refused(job[q].key)
                 /\ Writes(job[q].key,
                           IF record[job[q].key] = None THEN "in_flight" ELSE record[job[q].key].status,
                           job[q].result)
  <1> DEFINE k == job[q].key
             r == IF record[k] = None THEN [status |-> "in_flight", result |-> job[q].result]
                  ELSE [record[k] EXCEPT !.result = job[q].result]
  <1>1. At(q, "complete_result") /\ job[q].step # "not_sent"
    BY DEF CompleteResult, At
  <1>2. job[q] \in AnyJob /\ k \in Key /\ job[q].result \in ResultOrNone
    BY <1>1, JobType DEF AnyJob
  <1>3. /\ r \in AnyRecord /\ r.result = job[q].result
        /\ r.status = IF record[k] = None THEN "in_flight" ELSE record[k].status
    BY <1>2, RecordType DEF AnyRecord
  <1>4. record' = [record EXCEPT ![k] = IF Refused(k) THEN None ELSE r]
    BY DEF CompleteResult, KeyOf
  <1>5. Moves(q, "answer", job[q].seen, job[q].result)
    BY <1>1, Went DEF CompleteResult, Steps
  <1> HIDE DEF r
  <1>6. CASE Refused(k)
    <2>1. record' = record
      BY <1>2, <1>4, <1>6 DEF Refused, TypeOK
    <2> QED BY <1>1, <1>2, <1>5, <1>6, <2>1
  <1>7. CASE ~Refused(k)
    <2>1. Writes(k, r.status, r.result)
      BY <1>2, <1>3, <1>4, <1>7, Written
    <2> QED BY <1>1, <1>2, <1>3, <1>5, <1>7, <2>1
  <1> QED BY <1>6, <1>7

LEMMA AnswerDoes ==
    ASSUME TypeOK, NEW q \in Request, Answer(q)
    PROVE  /\ At(q, "answer") /\ job[q] \in AnyJob /\ job[q].key \in Key
           /\ Moves(q, "done", job[q].seen, job[q].result)
           /\ answer' \in [Request -> ResultOrNone] /\ answer'[q] = job[q].result
           /\ \A p \in Request \ {q} : answer'[p] = answer[p]
  <1>1. At(q, "answer") /\ job[q].step # "not_sent"
    BY DEF Answer, At
  <1>2. job[q] \in AnyJob /\ job[q].key \in Key /\ job[q].result \in ResultOrNone
    BY <1>1, JobType DEF AnyJob
  <1>3. Moves(q, "done", job[q].seen, job[q].result)
    BY <1>1, Went DEF Answer
  <1>4. answer' = [answer EXCEPT ![q] = job[q].result]
    BY DEF Answer
  <1> QED BY <1>1, <1>2, <1>3, <1>4 DEF TypeOK

LEMMA LoseAnswerDoes ==
    ASSUME TypeOK, NEW q \in Request, LoseAnswer(q)
    PROVE  /\ At(q, "answer") /\ job[q] \in AnyJob /\ job[q].key \in Key
           /\ Moves(q, "done", job[q].seen, job[q].result)
  <1>1. At(q, "answer") /\ job[q].step # "not_sent"
    BY DEF LoseAnswer, At
  <1> QED BY <1>1, JobType, Went DEF LoseAnswer

LEMMA ExpireDoes ==
    ASSUME TypeOK, NEW k \in Key, Expire(k)
    PROVE  /\ record' \in [Key -> AnyRecord \cup {None}] /\ record'[k] = None
           /\ \A l \in Key \ {k} : record'[l] = record[l]
           /\ Strikes(k)
  BY Struck DEF TypeOK, Expire

LEMMA RedisRefusesDoes ==
    ASSUME TypeOK, NEW q \in Request, RedisRefuses(q)
    PROVE  /\ Backend # "memory" /\ q \in InProgress /\ job[q] \in AnyJob /\ job[q].key \in Key
           /\ Strikes(job[q].key)
           /\ \/ /\ job[q].step \in ClaimSteps \cup {"check"}
                 /\ Moves(q, "check", InFlight, job[q].result)
              \/ job[q].step \in CompleteSteps /\ Moves(q, "answer", job[q].seen, job[q].result)
  <1>1. q \in InProgress /\ job[q].step # "not_sent" /\ Backend # "memory"
    BY DEF RedisRefuses, InProgress, Steps
  <1>2. job[q] \in AnyJob /\ job[q].key \in Key
    BY <1>1, JobType
  <1>3. Strikes(job[q].key)
    BY <1>2, Struck DEF RedisRefuses, KeyOf
  <1>4. CASE job[q].step \in ClaimSteps \cup {"check"}
    <2> DEFINE x == [job[q] EXCEPT !.step = "check", !.seen = InFlight]
    <2>1. /\ x \in AnyJob /\ x.key = job[q].key /\ x.step = "check"
          /\ x.seen = InFlight /\ x.result = job[q].result
      BY <1>2, InFlightType DEF AnyJob, Steps
    <2>2. job' = [job EXCEPT ![q] = x]
      <3>1. CASE job[q].step \in ClaimSteps
        BY <3>1 DEF RedisRefuses, ClaimSteps, At, TypeOK
      <3>2. CASE At(q, "check")
        <4>1. job' = [job EXCEPT ![q] = [@ EXCEPT !.seen = InFlight]]
          BY <3>2 DEF RedisRefuses, At
        <4> QED BY <1>2, <3>2, <4>1 DEF At, AnyJob
      <3> QED BY <1>4, <3>1, <3>2 DEF At
    <2> HIDE DEF x
    <2>3. Moves(q, x.step, x.seen, x.result)
      BY <2>1, <2>2, Moved
    <2> QED BY <1>1, <1>2, <1>3, <1>4, <2>1, <2>3
  <1>5. CASE job[q].step \in CompleteSteps
    <2>1. GoTo(q, "answer")
      BY <1>5 DEF RedisRefuses, CompleteSteps, At
    <2>2. Moves(q, "answer", job[q].seen, job[q].result)
      BY <1>1, <2>1, Went DEF Steps
    <2> QED BY <1>1, <1>2, <1>3, <1>5, <2>2
  <1> QED BY <1>4, <1>5 DEF RedisRefuses, ClaimSteps, CompleteSteps, At

LEMMA HandlerFailsDoes ==
    ASSUME TypeOK, NEW q \in Request, HandlerFails(q)
    PROVE  /\ At(q, "complete_status") /\ job[q] \in AnyJob /\ job[q].key \in Key
           /\ Strikes(job[q].key) /\ Moves(q, "done", job[q].seen, None)
  <1> DEFINE x == [job[q] EXCEPT !.step = "done", !.result = None]
  <1>1. At(q, "complete_status") /\ job[q].step # "not_sent"
    BY DEF HandlerFails, At
  <1>2. job[q] \in AnyJob /\ job[q].key \in Key
    BY <1>1, JobType
  <1>3. /\ x \in AnyJob /\ x.key = job[q].key /\ x.step = "done"
        /\ x.seen = job[q].seen /\ x.result = None
    BY <1>2 DEF AnyJob, ResultOrNone
  <1>4. job' = [job EXCEPT ![q] = x]
    BY DEF HandlerFails, TypeOK
  <1>5. Strikes(job[q].key)
    BY <1>2, Struck DEF HandlerFails, KeyOf
  <1> HIDE DEF x
  <1>6. Moves(q, x.step, x.seen, x.result)
    BY <1>3, <1>4, Moved
  <1> QED BY <1>1, <1>2, <1>3, <1>5, <1>6

LEMMA CrashDoes ==
    ASSUME TypeOK, Crash
    PROVE  /\ job' \in [Request -> AnyJob \cup {NotSent}]
           /\ \A q \in Request : q \notin InProgress => job'[q] = job[q]
           /\ \A q \in InProgress :
                  /\ job'[q] \in AnyJob /\ job'[q].key = job[q].key
                  /\ job'[q].step = "done" /\ job'[q].result = None /\ job'[q].seen = job[q].seen
           /\ faults' \in [Key -> Nat]
           /\ \A k \in Key : faults'[k] >= faults[k]
           /\ Backend = "memory" => /\ record' = [k \in Key |-> None]
                                    /\ \A k \in Key : record[k] # None => faults'[k] = faults[k] + 1
           /\ Backend # "memory" => /\ record' = record
                                    /\ \A q \in InProgress : faults'[job[q].key] = faults[job[q].key] + 1
  <1> DEFINE lost == IF Backend = "memory" THEN {k \in Key : record[k] # None}
                     ELSE {KeyOf(q) : q \in InProgress}
  <1>1. \A q \in InProgress : q \in Request /\ job[q] \in AnyJob /\ job[q].key \in Key
    BY JobType DEF InProgress, Steps
  <1>2. \A q \in InProgress :
            LET x == [job[q] EXCEPT !.step = "done", !.result = None]
            IN  /\ x \in AnyJob /\ x.key = job[q].key /\ x.step = "done"
                /\ x.result = None /\ x.seen = job[q].seen
    BY <1>1 DEF AnyJob, ResultOrNone
  <1>3. job' = [q \in Request |-> IF q \in InProgress THEN [job[q] EXCEPT !.step = "done", !.result = None]
                                  ELSE job[q]]
    BY DEF Crash
  <1>4. faults' = [k \in Key |-> faults[k] + IF k \in lost THEN 1 ELSE 0]
    BY DEF Crash
  <1>5. /\ job' \in [Request -> AnyJob \cup {NotSent}]
        /\ \A q \in Request : q \notin InProgress => job'[q] = job[q]
        /\ \A q \in InProgress :
               /\ job'[q] \in AnyJob /\ job'[q].key = job[q].key
               /\ job'[q].step = "done" /\ job'[q].result = None /\ job'[q].seen = job[q].seen
    BY <1>1, <1>2, <1>3 DEF TypeOK
  <1>6. faults' \in [Key -> Nat] /\ \A k \in Key : faults'[k] = faults[k] + IF k \in lost THEN 1 ELSE 0
    BY <1>4 DEF TypeOK
  <1>7. \A k \in Key : faults[k] \in Nat
    BY DEF TypeOK
  <1>8. Backend = "memory" => \A k \in Key : record[k] # None => k \in lost
    OBVIOUS
  <1>9. Backend # "memory" => \A q \in InProgress : job[q].key \in lost
    BY DEF KeyOf
  <1>10. record' = IF Backend = "memory" THEN [k \in Key |-> None] ELSE record
    BY DEF Crash
  <1> HIDE DEF lost
  <1> QED BY <1>1, <1>5, <1>6, <1>7, <1>8, <1>9, <1>10

-----------------------------------------------------------------------------
LEMMA InitBase == Init => BaseInv
  <1> SUFFICES ASSUME Init PROVE BaseInv
    OBVIOUS
  <1>1. TypeOK
    BY DEF Init, TypeOK, ResultOrNone
  <1>2. \A q \in Request : ~Sent(q) /\ answer[q] = None /\ q \notin InProgress
    BY StepNames DEF Init, Sent, InProgress
  <1>3. \A k \in Key : record[k] = None
    BY DEF Init
  <1> QED BY <1>1, <1>2, <1>3 DEF BaseInv, JobsOK, JobOK, OwnResults, RecordOwn, JobOwn, Alone, InProgress

(* No action changes the deployment.                                       *)
LEMMA SameDeployment == ASSUME [Next]_vars PROVE deployment' = deployment
  BY DEF Next, Serve, vars, Send, ClaimStatus, ClaimResult, Check, Reject, Execute, CompleteStatus,
         CompleteResult, Answer, LoseAnswer, Expire, RedisRefuses, HandlerFails, Crash

LEMMA TypeStep == ASSUME BaseInv, [Next]_vars PROVE TypeOK'
  <1> USE DEF BaseInv
  <1>0. deployment' = deployment
    BY SameDeployment
  <1>1. ASSUME NEW q \in Request, NEW k \in Key, Send(q, k) PROVE TypeOK'
    <2>1. late' \in SUBSET Request
      BY <1>1 DEF Send, TypeOK
    <2> QED BY <1>0, <1>1, <2>1, SendDoes DEF TypeOK, Send
  <1>2. ASSUME NEW q \in Request, ClaimStatus(q) PROVE TypeOK'
    BY <1>0, <1>2, ClaimStatusDoes DEF TypeOK, ClaimStatus, Moves, Writes
  <1>3. ASSUME NEW q \in Request, ClaimResult(q) PROVE TypeOK'
    BY <1>0, <1>3, ClaimResultDoes DEF TypeOK, ClaimResult, Moves, Writes
  <1>4. ASSUME NEW q \in Request, Check(q) PROVE TypeOK'
    BY <1>0, <1>4, CheckDoes DEF TypeOK, Check, Moves
  <1>5. ASSUME NEW q \in Request, Reject(q) PROVE TypeOK'
    BY <1>0, <1>5, RejectDoes DEF TypeOK, Reject, Moves
  <1>6. ASSUME NEW q \in Request, Execute(q) PROVE TypeOK'
    <2>1. effects' \in Seq(Key)
      <3>1. effects' = Append(effects, job[q].key) /\ job[q].key \in Key
        BY <1>6, ExecuteDoes
      <3>2. effects \in Seq(Key)
        BY DEF TypeOK
      <3> QED BY <3>1, <3>2
    <2> QED BY <1>0, <1>6, <2>1, ExecuteDoes DEF TypeOK, Execute, Moves
  <1>7. ASSUME NEW q \in Request, CompleteStatus(q) PROVE TypeOK'
    BY <1>0, <1>7, CompleteStatusDoes DEF TypeOK, CompleteStatus, Moves, Writes
  <1>8. ASSUME NEW q \in Request, CompleteResult(q) PROVE TypeOK'
    BY <1>0, <1>8, CompleteResultDoes DEF TypeOK, CompleteResult, Moves, Writes
  <1>9. ASSUME NEW q \in Request, Answer(q) PROVE TypeOK'
    BY <1>0, <1>9, AnswerDoes DEF TypeOK, Answer, Moves
  <1>10. ASSUME NEW q \in Request, LoseAnswer(q) PROVE TypeOK'
    BY <1>0, <1>10, LoseAnswerDoes DEF TypeOK, LoseAnswer, Moves
  <1>11. ASSUME NEW q \in Request, RedisRefuses(q) PROVE TypeOK'
    BY <1>0, <1>11, RedisRefusesDoes DEF TypeOK, RedisRefuses, Moves, Strikes
  <1>12. ASSUME NEW q \in Request, HandlerFails(q) PROVE TypeOK'
    BY <1>0, <1>12, HandlerFailsDoes DEF TypeOK, HandlerFails, Moves, Strikes
  <1>13. ASSUME NEW k \in Key, Expire(k) PROVE TypeOK'
    BY <1>0, <1>13, ExpireDoes DEF TypeOK, Expire, Strikes
  <1>14. ASSUME Crash PROVE TypeOK'
    <2>1. record' \in [Key -> AnyRecord \cup {None}]
      BY <1>14, CrashDoes DEF TypeOK
    <2> QED BY <1>0, <1>14, <2>1, CrashDoes DEF TypeOK, Crash
  <1>15. ASSUME UNCHANGED vars PROVE TypeOK'
    BY <1>15 DEF TypeOK, vars
  <1> QED BY <1>1, <1>2, <1>3, <1>4, <1>5, <1>6, <1>7, <1>8, <1>9, <1>10, <1>11, <1>12, <1>13, <1>14, <1>15
          DEF Next, Serve

-----------------------------------------------------------------------------
(* A job no action touches stays as it should be while its record lasts.   *)
LEMMA JobStaysOK ==
    ASSUME TypeOK, JobsOK, NEW p \in Request, deployment' = deployment,
           job'[p] = job[p], answer'[p] = answer[p],
           At(p, "check") /\ Backend = "memory" /\ record[job[p].key] # None => record'[job[p].key] # None
    PROVE  JobOK(p)'
  BY DEF JobsOK, JobOK, Sent, At, Backend

(* A handler that has just been put at a step.                             *)
LEMMA JobMadeOK ==
    ASSUME TypeOK, JobsOK, NEW q \in Request, deployment' = deployment,
           job[q].step \in Steps, answer'[q] = answer[q], NEW s, NEW seen, NEW res, Moves(q, s, seen, res),
           s \in ClaimSteps \cup {"check", "execute"} => res = None,
           s \in CompleteSteps \cup {"answer"} => res # None,
           Backend = "memory" => s \notin ClaimSteps,
           Backend # "memory" /\ s \in ClaimSteps \cup {"check"} => seen # None,
           s \in ClaimSteps => ~Replayable(seen),
           Backend = "memory" => s # "check"
    PROVE  JobOK(q)'
  <1>1. answer[q] = None
    BY DEF JobsOK, JobOK, At, Steps
  <1> QED BY <1>1 DEF JobOK, Sent, At, Backend, Moves

LEMMA JobsStep == ASSUME BaseInv, [Next]_vars PROVE JobsOK'
  <1> USE DEF BaseInv
  <1>0. deployment' = deployment
    BY SameDeployment
  <1> SUFFICES ASSUME NEW p \in Request PROVE JobOK(p)'
    BY DEF JobsOK
  <1>1. ASSUME NEW q \in Request, NEW k \in Key, Send(q, k) PROVE JobOK(p)'
    <2>1. answer' = answer
      BY <1>1 DEF Send
    <2>2. CASE p = q
      <3>1. answer[q] = None
        BY <1>1, SendDoes, StepNames DEF JobsOK, JobOK, At
      <3>2. ~Replayable(InFlight) /\ InFlight # None
        BY InFlightType, NoneAssumption DEF AnyRecord, ResultOrNone
      <3>3. Seen(k) # None \/ record[k] = None
        BY <3>2 DEF Seen
      <3>4. job'[q].key = k /\ job'[q].result = None
        BY <1>1, SendDoes
      <3>5. CASE /\ Backend = "memory" /\ job'[q].step = "check"
                 /\ record'[k] = IF record[k] = None THEN InFlight ELSE record[k]
        BY <1>0, <2>1, <2>2, <3>1, <3>2, <3>4, <3>5 DEF JobOK, Sent, At, Backend, ClaimSteps, CompleteSteps
      <3>6. CASE Backend # "memory" /\ job'[q].step = "claim_status" /\ job'[q].seen = InFlight
        BY <1>0, <2>1, <2>2, <3>1, <3>2, <3>4, <3>6 DEF JobOK, Sent, At, Backend, ClaimSteps, CompleteSteps
      <3>7. CASE /\ Backend # "memory" /\ job'[q].step = "check" /\ job'[q].seen = Seen(k)
                 /\ record[k] # None
        BY <1>0, <2>1, <2>2, <3>1, <3>3, <3>4, <3>7 DEF JobOK, Sent, At, Backend, ClaimSteps, CompleteSteps
      <3> QED BY <1>1, <3>5, <3>6, <3>7, SendDoes
    <2>3. CASE p # q
      <3>1. job'[p] = job[p]
        BY <1>1, <2>3, SendDoes
      <3>2. \A l \in Key : record[l] # None => record'[l] # None
        BY <1>1, SendDoes, InFlightType, NoneAssumption DEF AnyRecord, ResultOrNone
      <3>3. At(p, "check") => job[p].key \in Key
        BY JobType DEF At
      <3> QED BY <1>0, <2>1, <3>1, <3>2, <3>3, JobStaysOK
    <2> QED BY <2>2, <2>3
  <1>2. ASSUME NEW q \in Request, ClaimStatus(q) PROVE JobOK(p)'
    <2>1. /\ At(q, "claim_status") /\ job[q].key \in Key
          /\ Moves(q, "claim_result", job[q].seen, job[q].result)
          /\ \A l \in Key : record[l] # None => record'[l] # None
      BY <1>2, ClaimStatusDoes DEF Writes
    <2>2. answer' = answer
      BY <1>2 DEF ClaimStatus
    <2>3. CASE p = q
      BY <1>0, <2>1, <2>2, <2>3, JobMadeOK DEF At, Steps, ClaimSteps, CompleteSteps, JobsOK, JobOK, Sent, NotSent
    <2>4. CASE p # q
      BY <1>0, <2>1, <2>2, <2>4, JobStaysOK, JobType DEF Moves, At
    <2> QED BY <2>3, <2>4
  <1>3. ASSUME NEW q \in Request, ClaimResult(q) PROVE JobOK(p)'
    <2>1. /\ At(q, "claim_result") /\ job[q].key \in Key
          /\ Moves(q, "check", job[q].seen, job[q].result)
          /\ \A l \in Key : record[l] # None => record'[l] # None
      BY <1>3, ClaimResultDoes DEF Writes
    <2>2. answer' = answer
      BY <1>3 DEF ClaimResult
    <2>3. CASE p = q
      <3>1. Backend # "memory" /\ job[q].seen # None /\ job[q].result = None
        BY <2>1 DEF JobsOK, JobOK, Sent, NotSent, At, ClaimSteps
      <3> QED BY <1>0, <2>1, <2>2, <2>3, <3>1, JobMadeOK DEF At, Steps, ClaimSteps, CompleteSteps
    <2>4. CASE p # q
      BY <1>0, <2>1, <2>2, <2>4, JobStaysOK, JobType DEF Moves, At
    <2> QED BY <2>3, <2>4
  <1>4. ASSUME NEW q \in Request, Check(q) PROVE JobOK(p)'
    <2>1. At(q, "check") /\ answer' = answer /\ record' = record
      BY <1>4, CheckDoes DEF Check
    <2>2. CASE p = q /\ Replayable(Held(q)) /\ Moves(q, "answer", None, Held(q).result)
      BY <1>0, <2>1, <2>2, JobMadeOK DEF At, Steps, ClaimSteps, CompleteSteps, Replayable
    <2>3. CASE p = q /\ Moves(q, "execute", None, None)
      BY <1>0, <2>1, <2>3, JobMadeOK DEF At, Steps, ClaimSteps, CompleteSteps
    <2>4. CASE p # q
      BY <1>0, <1>4, <2>1, <2>4, CheckDoes, JobStaysOK DEF Moves
    <2> QED BY <1>4, <2>2, <2>3, <2>4, CheckDoes
  <1>5. ASSUME NEW q \in Request, Reject(q) PROVE JobOK(p)'
    <2>1. At(q, "execute") /\ answer' = answer /\ record' = record /\ Moves(q, "done", job[q].seen, job[q].result)
      BY <1>5, RejectDoes DEF Reject
    <2>2. CASE p = q
      BY <1>0, <2>1, <2>2, JobMadeOK DEF At, Steps, ClaimSteps, CompleteSteps
    <2>3. CASE p # q
      BY <1>0, <2>1, <2>3, JobStaysOK DEF Moves
    <2> QED BY <2>2, <2>3
  <1>6. ASSUME NEW q \in Request, Execute(q) PROVE JobOK(p)'
    <2>1. /\ At(q, "execute") /\ answer' = answer /\ record' = record
          /\ Moves(q, "complete_status", job[q].seen, Len(effects) + 1)
      BY <1>6, ExecuteDoes DEF Execute
    <2>2. Len(effects) + 1 # None
      BY NoneAssumption DEF TypeOK
    <2>3. CASE p = q
      BY <1>0, <2>1, <2>2, <2>3, JobMadeOK DEF At, Steps, ClaimSteps, CompleteSteps
    <2>4. CASE p # q
      BY <1>0, <2>1, <2>4, JobStaysOK DEF Moves
    <2> QED BY <2>3, <2>4
  <1>7. ASSUME NEW q \in Request, CompleteStatus(q) PROVE JobOK(p)'
    <2>1. /\ At(q, "complete_status") /\ job[q].key \in Key /\ Moves(q, "complete_result", job[q].seen, job[q].result)
          /\ \A l \in Key : record[l] # None => record'[l] # None
      BY <1>7, CompleteStatusDoes DEF Writes
    <2>2. answer' = answer
      BY <1>7 DEF CompleteStatus
    <2>3. CASE p = q
      BY <1>0, <2>1, <2>2, <2>3, JobMadeOK DEF At, Steps, ClaimSteps, CompleteSteps, JobsOK, JobOK, Sent, NotSent
    <2>4. CASE p # q
      BY <1>0, <2>1, <2>2, <2>4, JobStaysOK, JobType DEF Moves, At
    <2> QED BY <2>3, <2>4
  <1>8. ASSUME NEW q \in Request, CompleteResult(q) PROVE JobOK(p)'
    <2>1. /\ At(q, "complete_result") /\ job[q].key \in Key /\ Moves(q, "answer", job[q].seen, job[q].result)
          /\ \A l \in Key : record[l] # None => record'[l] # None
      BY <1>8, CompleteResultDoes DEF Writes
    <2>2. answer' = answer
      BY <1>8 DEF CompleteResult
    <2>3. CASE p = q
      BY <1>0, <2>1, <2>2, <2>3, JobMadeOK DEF At, Steps, ClaimSteps, CompleteSteps, JobsOK, JobOK, Sent, NotSent
    <2>4. CASE p # q
      BY <1>0, <2>1, <2>2, <2>4, JobStaysOK, JobType DEF Moves, At
    <2> QED BY <2>3, <2>4
  <1>9. ASSUME NEW q \in Request, Answer(q) PROVE JobOK(p)'
    <2>1. /\ At(q, "answer") /\ record' = record /\ Moves(q, "done", job[q].seen, job[q].result)
          /\ answer'[q] = job[q].result /\ \A r \in Request \ {q} : answer'[r] = answer[r]
      BY <1>9, AnswerDoes DEF Answer
    <2>2. CASE p = q
      BY <1>0, <2>1, <2>2 DEF JobOK, Moves, At, Steps, ClaimSteps, CompleteSteps
    <2>3. CASE p # q
      BY <1>0, <2>1, <2>3, JobStaysOK DEF Moves
    <2> QED BY <2>2, <2>3
  <1>10. ASSUME NEW q \in Request, LoseAnswer(q) PROVE JobOK(p)'
    <2>1. At(q, "answer") /\ answer' = answer /\ record' = record /\ Moves(q, "done", job[q].seen, job[q].result)
      BY <1>10, LoseAnswerDoes DEF LoseAnswer
    <2>2. CASE p = q
      BY <1>0, <2>1, <2>2, JobMadeOK DEF At, Steps, ClaimSteps, CompleteSteps
    <2>3. CASE p # q
      BY <1>0, <2>1, <2>3, JobStaysOK DEF Moves
    <2> QED BY <2>2, <2>3
  <1>11. ASSUME NEW q \in Request, RedisRefuses(q) PROVE JobOK(p)'
    <2>1. Backend # "memory" /\ job[q].step \in Steps /\ answer' = answer /\ record' = record
      BY <1>11, RedisRefusesDoes DEF RedisRefuses, InProgress
    <2>2. InFlight # None /\ ~Replayable(InFlight)
      BY InFlightType, NoneAssumption DEF AnyRecord, ResultOrNone
    <2>3. CASE job[q].step \in ClaimSteps \cup {"check"} /\ Moves(q, "check", InFlight, job[q].result)
      <3>1. job[q].result = None
        BY <2>3, StepNames DEF JobsOK, JobOK, Sent, ClaimSteps
      <3>2. CASE p = q
        BY <1>0, <2>1, <2>2, <2>3, <3>1, <3>2, JobMadeOK DEF ClaimSteps, CompleteSteps
      <3>3. CASE p # q
        BY <1>0, <2>1, <2>3, <3>3, JobStaysOK DEF Moves
      <3> QED BY <3>2, <3>3
    <2>4. CASE job[q].step \in CompleteSteps /\ Moves(q, "answer", job[q].seen, job[q].result)
      <3>1. job[q].result # None
        BY <2>4, StepNames DEF JobsOK, JobOK, Sent, CompleteSteps
      <3>2. CASE p = q
        BY <1>0, <2>1, <2>4, <3>1, <3>2, JobMadeOK DEF ClaimSteps, CompleteSteps
      <3>3. CASE p # q
        BY <1>0, <2>1, <2>4, <3>3, JobStaysOK DEF Moves
      <3> QED BY <3>2, <3>3
    <2> QED BY <1>11, <2>3, <2>4, RedisRefusesDoes
  <1>12. ASSUME NEW q \in Request, HandlerFails(q) PROVE JobOK(p)'
    <2>1. At(q, "complete_status") /\ answer' = answer /\ record' = record /\ Moves(q, "done", job[q].seen, None)
      BY <1>12, HandlerFailsDoes DEF HandlerFails
    <2>2. CASE p = q
      BY <1>0, <2>1, <2>2, JobMadeOK DEF At, Steps, ClaimSteps, CompleteSteps
    <2>3. CASE p # q
      BY <1>0, <2>1, <2>3, JobStaysOK DEF Moves
    <2> QED BY <2>2, <2>3
  <1>13. ASSUME NEW k \in Key, Expire(k) PROVE JobOK(p)'
    <2>1. job' = job /\ answer' = answer /\ \A l \in Key \ {k} : record'[l] = record[l]
      BY <1>13, ExpireDoes DEF Expire
    <2>2. Backend = "memory" => ~(At(p, "check") /\ job[p].key = k)
      BY <1>13 DEF Expire, KeyOf
    <2> QED BY <1>0, <2>1, <2>2, JobStaysOK, JobType DEF At
  <1>14. ASSUME Crash PROVE JobOK(p)'
    <2>1. answer' = answer
      BY <1>14 DEF Crash
    <2>2. CASE p \in InProgress
      <3>1. answer[p] = None
        BY <2>2 DEF JobsOK, JobOK, InProgress, At, Steps
      <3>2. job'[p].step = "done"
        BY <1>14, <2>2, CrashDoes
      <3> QED BY <2>1, <3>1, <3>2 DEF JobOK, At, ClaimSteps, CompleteSteps
    <2>3. CASE p \notin InProgress
      <3>1. job'[p] = job[p] /\ ~At(p, "check")
        BY <1>14, <2>3, CrashDoes DEF InProgress, At, Steps
      <3> QED BY <1>0, <2>1, <3>1, JobStaysOK
    <2> QED BY <2>2, <2>3
  <1>15. ASSUME UNCHANGED vars PROVE JobOK(p)'
    BY <1>0, <1>15, JobStaysOK DEF vars
  <1> QED BY <1>1, <1>2, <1>3, <1>4, <1>5, <1>6, <1>7, <1>8, <1>9, <1>10, <1>11, <1>12, <1>13, <1>14, <1>15
          DEF Next, Serve

-----------------------------------------------------------------------------
(* Executions are only ever appended.                                      *)
LEMMA OwnGrows ==
    ASSUME TypeOK, NEW k \in Key,
           effects' = effects \/ \E l \in Key : effects' = Append(effects, l)
    PROVE  \A n : Own(effects, k, n) => Own(effects', k, n)
  BY DEF TypeOK, Own

LEMMA OwnNew ==
    ASSUME TypeOK, NEW k \in Key, effects' = Append(effects, k)
    PROVE  Own(effects', k, Len(effects) + 1)
  BY DEF TypeOK, Own

(* What was somebody's own stays so: records and jobs that only hold what  *)
(* one of the same key held before.                                        *)
LEMMA RecordStaysOwn ==
    ASSUME TypeOK, OwnResults, NEW k \in Key, \A n : Own(effects, k, n) => Own(effects', k, n),
           record'[k] # None /\ record'[k].result # None =>
               record[k] # None /\ record[k].result = record'[k].result
    PROVE  RecordOwn(k)'
  BY DEF OwnResults, RecordOwn

LEMMA JobStaysOwn ==
    ASSUME TypeOK, OwnResults, NEW q \in Request, job'[q] = job[q],
           \A k \in Key : \A n : Own(effects, k, n) => Own(effects', k, n)
    PROVE  JobOwn(q)'
  <1>1. Sent(q) => job[q].key \in Key
    BY DEF TypeOK, Sent, AnyJob
  <1> QED BY <1>1 DEF OwnResults, JobOwn, Sent

LEMMA OwnStep == ASSUME BaseInv, [Next]_vars PROVE OwnResults'
  <1> USE DEF BaseInv
  <1> DEFINE Grows == \A k \in Key : \A n : Own(effects, k, n) => Own(effects', k, n)
  <1>0. Grows
    <2>1. effects' = effects \/ \E q \in Request : Execute(q)
      BY DEF Next, Serve, vars, Send, ClaimStatus, ClaimResult, Check, Reject, CompleteStatus,
             CompleteResult, Answer, LoseAnswer, Expire, RedisRefuses, HandlerFails, Crash
    <2> QED BY <2>1, ExecuteDoes, OwnGrows
  <1> HIDE DEF Grows
  <1>both. ASSUME \A k \in Key : RecordOwn(k)', \A q \in Request : JobOwn(q)' PROVE OwnResults'
    BY <1>both DEF OwnResults
  <1>same. ASSUME record' = record, NEW k \in Key PROVE RecordOwn(k)'
    BY <1>0, <1>same, RecordStaysOwn DEF Grows
  (* A record that is written gets no result, keeps its own, or one of its key. *)
  <1>write. ASSUME NEW k \in Key, NEW status, NEW result, Writes(k, status, result),
               result # None => Own(effects, k, result), NEW l \in Key
        PROVE  RecordOwn(l)'
    <2>1. CASE l = k
      BY <1>0, <1>write, <2>1 DEF RecordOwn, Writes, Grows
    <2>2. CASE l # k
      BY <1>0, <1>write, <2>2, RecordStaysOwn DEF Writes, Grows
    <2> QED BY <2>1, <2>2
  (* A job that moves keeps what it holds or gets something of its key.    *)
  <1>move. ASSUME NEW q \in Request, job[q].key \in Key, NEW s, NEW seen, NEW res, Moves(q, s, seen, res),
               seen # None /\ seen.result # None => Own(effects', job[q].key, seen.result),
               res # None => Own(effects', job[q].key, res), NEW p \in Request
        PROVE  JobOwn(p)'
    <2>1. CASE p = q
      BY <1>move, <2>1 DEF JobOwn, Moves
    <2>2. CASE p # q
      BY <1>0, <1>move, <2>2, JobStaysOwn DEF Moves, Grows
    <2> QED BY <2>1, <2>2
  <1>keep. ASSUME NEW q \in Request, job[q].key \in Key, Sent(q)
        PROVE  /\ job[q].seen # None /\ job[q].seen.result # None => Own(effects', job[q].key, job[q].seen.result)
               /\ job[q].result # None => Own(effects', job[q].key, job[q].result)
    BY <1>0, <1>keep DEF OwnResults, JobOwn, Grows
  <1>1. ASSUME NEW q \in Request, NEW k \in Key, Send(q, k) PROVE OwnResults'
    <2>1. \A l \in Key : RecordOwn(l)'
      <3>1. InFlight.result = None
        BY DEF InFlight
      <3>2. \A l \in Key : record'[l] # None /\ record'[l].result # None =>
               record[l] # None /\ record[l].result = record'[l].result
        BY <1>1, <3>1, SendDoes
      <3> QED BY <1>0, <3>2, RecordStaysOwn DEF Grows
    <2>2. JobOwn(q)'
      <3>1. job'[q].key = k /\ job'[q].result = None
        BY <1>1, SendDoes
      <3>2. CASE job'[q].seen \in {None, InFlight}
        BY <3>1, <3>2 DEF JobOwn, InFlight
      <3>3. CASE job'[q].seen = record[k]
        BY <1>0, <3>1, <3>3 DEF JobOwn, OwnResults, RecordOwn, Grows
      <3> QED BY <1>1, <3>2, <3>3, SendDoes DEF Seen
    <2>3. \A p \in Request \ {q} : JobOwn(p)'
      BY <1>0, <1>1, SendDoes, JobStaysOwn DEF Grows
    <2> QED BY <1>both, <2>1, <2>2, <2>3
  <1>2. ASSUME NEW q \in Request, ClaimStatus(q) PROVE OwnResults'
    <2>1. Sent(q)
      BY <1>2, ClaimStatusDoes, StepNames DEF Sent
    <2>2. \A l \in Key : RecordOwn(l)'
      BY <1>2, <1>write, ClaimStatusDoes DEF OwnResults, RecordOwn
    <2>3. \A p \in Request : JobOwn(p)'
      BY <1>2, <1>move, <1>keep, <2>1, ClaimStatusDoes
    <2> QED BY <1>both, <2>2, <2>3
  <1>3. ASSUME NEW q \in Request, ClaimResult(q) PROVE OwnResults'
    <2>1. Sent(q)
      BY <1>3, ClaimResultDoes, StepNames DEF Sent
    <2>2. \A l \in Key : RecordOwn(l)'
      BY <1>3, <1>write, ClaimResultDoes
    <2>3. \A p \in Request : JobOwn(p)'
      BY <1>3, <1>move, <1>keep, <2>1, ClaimResultDoes
    <2> QED BY <1>both, <2>2, <2>3
  <1>4. ASSUME NEW q \in Request, Check(q) PROVE OwnResults'
    <2>1. Sent(q) /\ record' = record
      BY <1>4, CheckDoes, StepNames DEF Sent, Check
    <2>2. Replayable(Held(q)) => Own(effects, job[q].key, Held(q).result)
      BY <1>4, <2>1, CheckDoes DEF Replayable, Held, KeyOf, OwnResults, RecordOwn, JobOwn
    <2>3. \A p \in Request : JobOwn(p)'
      <3>1. CASE Replayable(Held(q)) /\ Moves(q, "answer", None, Held(q).result)
        BY <1>0, <1>4, <1>move, <2>2, <3>1, CheckDoes DEF Grows
      <3>2. CASE Moves(q, "execute", None, None)
        BY <1>4, <1>move, <3>2, CheckDoes
      <3> QED BY <1>4, <3>1, <3>2, CheckDoes
    <2> QED BY <1>both, <1>same, <2>1, <2>3
  <1>5. ASSUME NEW q \in Request, Reject(q) PROVE OwnResults'
    <2>1. Sent(q) /\ record' = record
      BY <1>5, RejectDoes, StepNames DEF Sent, Reject
    <2>2. \A p \in Request : JobOwn(p)'
      BY <1>5, <1>move, <1>keep, <2>1, RejectDoes
    <2> QED BY <1>both, <1>same, <2>1, <2>2
  <1>6. ASSUME NEW q \in Request, Execute(q) PROVE OwnResults'
    <2>1. Sent(q) /\ record' = record
      BY <1>6, ExecuteDoes, StepNames DEF Sent, Execute
    <2>2. Own(effects', job[q].key, Len(effects) + 1)
      BY <1>6, ExecuteDoes, OwnNew
    <2>3. \A p \in Request : JobOwn(p)'
      BY <1>6, <1>move, <1>keep, <2>1, <2>2, ExecuteDoes
    <2> QED BY <1>both, <1>same, <2>1, <2>3
  <1>7. ASSUME NEW q \in Request, CompleteStatus(q) PROVE OwnResults'
    <2>1. Sent(q)
      BY <1>7, CompleteStatusDoes, StepNames DEF Sent
    <2>2. \A l \in Key : RecordOwn(l)'
      BY <1>7, <1>same, <1>write, CompleteStatusDoes DEF OwnResults, RecordOwn
    <2>3. \A p \in Request : JobOwn(p)'
      BY <1>7, <1>move, <1>keep, <2>1, CompleteStatusDoes
    <2> QED BY <1>both, <2>2, <2>3
  <1>8. ASSUME NEW q \in Request, CompleteResult(q) PROVE OwnResults'
    <2>1. Sent(q)
      BY <1>8, CompleteResultDoes, StepNames DEF Sent
    <2>2. \A l \in Key : RecordOwn(l)'
      <3>1. job[q].result # None => Own(effects, job[q].key, job[q].result)
        BY <2>1 DEF OwnResults, JobOwn
      <3> QED BY <1>8, <1>same, <1>write, <3>1, CompleteResultDoes
    <2>3. \A p \in Request : JobOwn(p)'
      BY <1>8, <1>move, <1>keep, <2>1, CompleteResultDoes
    <2> QED BY <1>both, <2>2, <2>3
  <1>9. ASSUME NEW q \in Request, Answer(q) PROVE OwnResults'
    <2>1. Sent(q) /\ record' = record
      BY <1>9, AnswerDoes, StepNames DEF Sent, Answer
    <2>2. \A p \in Request : JobOwn(p)'
      BY <1>9, <1>move, <1>keep, <2>1, AnswerDoes
    <2> QED BY <1>both, <1>same, <2>1, <2>2
  <1>10. ASSUME NEW q \in Request, LoseAnswer(q) PROVE OwnResults'
    <2>1. Sent(q) /\ record' = record
      BY <1>10, LoseAnswerDoes, StepNames DEF Sent, LoseAnswer
    <2>2. \A p \in Request : JobOwn(p)'
      BY <1>10, <1>move, <1>keep, <2>1, LoseAnswerDoes
    <2> QED BY <1>both, <1>same, <2>1, <2>2
  <1>11. ASSUME NEW q \in Request, RedisRefuses(q) PROVE OwnResults'
    <2>1. Sent(q) /\ record' = record
      BY <1>11, RedisRefusesDoes, StepNames DEF Sent, RedisRefuses
    <2>2. \A p \in Request : JobOwn(p)'
      <3>1. InFlight.result = None
        BY DEF InFlight
      <3>2. CASE Moves(q, "check", InFlight, job[q].result)
        BY <1>11, <1>move, <1>keep, <2>1, <3>1, <3>2, RedisRefusesDoes
      <3>3. CASE Moves(q, "answer", job[q].seen, job[q].result)
        BY <1>11, <1>move, <1>keep, <2>1, <3>3, RedisRefusesDoes
      <3> QED BY <1>11, <3>2, <3>3, RedisRefusesDoes
    <2> QED BY <1>both, <1>same, <2>1, <2>2
  <1>12. ASSUME NEW q \in Request, HandlerFails(q) PROVE OwnResults'
    <2>1. Sent(q) /\ record' = record
      BY <1>12, HandlerFailsDoes, StepNames DEF Sent, HandlerFails
    <2>2. \A p \in Request : JobOwn(p)'
      BY <1>12, <1>move, <1>keep, <2>1, HandlerFailsDoes
    <2> QED BY <1>both, <1>same, <2>1, <2>2
  <1>13. ASSUME NEW k \in Key, Expire(k) PROVE OwnResults'
    <2>1. job' = job
      BY <1>13 DEF Expire
    <2>2. \A l \in Key : RecordOwn(l)'
      BY <1>0, <1>13, ExpireDoes, RecordStaysOwn DEF Grows
    <2> QED BY <1>0, <1>both, <2>1, <2>2, JobStaysOwn DEF Grows
  <1>14. ASSUME Crash PROVE OwnResults'
    <2>1. \A l \in Key : RecordOwn(l)'
      BY <1>0, <1>14, CrashDoes, RecordStaysOwn DEF Grows
    <2>2. ASSUME NEW p \in Request PROVE JobOwn(p)'
      <3>1. CASE p \in InProgress
        <4>1. Sent(p) /\ job[p].key \in Key
          BY <3>1, JobType, StepNames DEF InProgress
        <4> QED BY <1>14, <1>keep, <3>1, <4>1, CrashDoes DEF JobOwn
      <3>2. CASE p \notin InProgress
        BY <1>0, <1>14, <3>2, CrashDoes, JobStaysOwn DEF Grows
      <3> QED BY <3>1, <3>2
    <2> QED BY <1>both, <2>1, <2>2
  <1>15. ASSUME UNCHANGED vars PROVE OwnResults'
    BY <1>0, <1>both, <1>same, <1>15, JobStaysOwn DEF vars, Grows
  <1> QED BY <1>1, <1>2, <1>3, <1>4, <1>5, <1>6, <1>7, <1>8, <1>9, <1>10, <1>11, <1>12, <1>13, <1>14, <1>15
          DEF Next, Serve

-----------------------------------------------------------------------------
(* In turn a request is only let in when nobody is in progress.            *)
LEMMA NobodyElse ==
    ASSUME BaseInv, OneAtATime, Cardinality(InProgress) < deployment.threads
    PROVE  InProgress = {}
  <1> SUFFICES ASSUME NEW q \in InProgress PROVE FALSE
    OBVIOUS
  <1>1. InProgress = {q}
    BY DEF BaseInv, Alone
  <1>2. Cardinality(InProgress) = 1
    BY <1>1, FS_Singleton
  <1> QED BY <1>2 DEF OneAtATime

LEMMA AloneStep == ASSUME BaseInv, [Next]_vars PROVE Alone'
  <1> USE DEF BaseInv
  <1> SUFFICES ASSUME OneAtATime, NEW p \in InProgress', NEW r \in InProgress' PROVE p = r
    BY SameDeployment DEF Alone, OneAtATime
  <1>1. ASSUME NEW q \in Request, NEW k \in Key, Send(q, k) PROVE p = r
    <2>1. InProgress = {}
      BY <1>1, NobodyElse DEF Send
    <2>2. \A x \in Request \ {q} : job'[x] = job[x]
      BY <1>1, SendDoes
    <2> QED BY <2>1, <2>2 DEF InProgress
  <1>2. ASSUME \A x \in Request : job'[x] # job[x] => x \in InProgress PROVE p = r
    BY <1>2 DEF InProgress, Alone
  <1>3. ASSUME ~\E q \in Request, k \in Key : Send(q, k)
        PROVE  \A x \in Request : job'[x] # job[x] => x \in InProgress
    <2>1. ASSUME NEW q \in Request, NEW s, NEW seen, NEW res, Moves(q, s, seen, res), q \in InProgress
          PROVE  \A x \in Request : job'[x] # job[x] => x \in InProgress
      BY <2>1 DEF Moves
    <2>2. ASSUME NEW q \in Request, Serve(q) PROVE \A x \in Request : job'[x] # job[x] => x \in InProgress
      <3>1. q \in InProgress
        BY <2>2 DEF Serve, InProgress, At, Steps, ClaimStatus, ClaimResult, Check, Reject, Execute,
                    CompleteStatus, CompleteResult, Answer, LoseAnswer
      <3> QED BY <2>1, <2>2, <3>1, ClaimStatusDoes, ClaimResultDoes, CheckDoes, RejectDoes, ExecuteDoes,
                 CompleteStatusDoes, CompleteResultDoes, AnswerDoes, LoseAnswerDoes DEF Serve
    <2>3. ASSUME NEW q \in Request, RedisRefuses(q) PROVE \A x \in Request : job'[x] # job[x] => x \in InProgress
      BY <2>1, <2>3, RedisRefusesDoes
    <2>4. ASSUME NEW q \in Request, HandlerFails(q) PROVE \A x \in Request : job'[x] # job[x] => x \in InProgress
      BY <2>1, <2>4, HandlerFailsDoes DEF InProgress, At, Steps
    <2>5. ASSUME NEW k \in Key, Expire(k) PROVE \A x \in Request : job'[x] # job[x] => x \in InProgress
      BY <2>5 DEF Expire
    <2>6. ASSUME Crash PROVE \A x \in Request : job'[x] # job[x] => x \in InProgress
      BY <2>6, CrashDoes
    <2>7. CASE UNCHANGED vars
      BY <2>7 DEF vars
    <2> QED BY <1>3, <2>2, <2>3, <2>4, <2>5, <2>6, <2>7 DEF Next
  <1> QED BY <1>1, <1>2, <1>3

LEMMA BaseStep == BaseInv /\ [Next]_vars => BaseInv'
  BY TypeStep, JobsStep, OwnStep, AloneStep DEF BaseInv

(* The types of the state hold always.                                     *)
THEOREM TypeCorrect == Spec => []TypeOK
  <1>1. BaseInv => TypeOK
    BY DEF BaseInv
  <1> QED BY <1>1, InitBase, BaseStep, PTL DEF Spec

(* Whatever a replay answers was executed, and for the key it was sent     *)
(* with: get_or_begin and complete never mix up two keys, with either      *)
(* store, any overlap and any fault.                                       *)
AnswersAreOwn == \A q \in Request : answer[q] # None => Own(effects, KeyOf(q), answer[q])

THEOREM AnswersBelong == Spec => []AnswersAreOwn
  <1>1. BaseInv => AnswersAreOwn
    BY StepNames DEF BaseInv, JobsOK, JobOK, OwnResults, JobOwn, AnswersAreOwn, Sent, At, KeyOf
  <1> QED BY <1>1, InitBase, BaseStep, PTL DEF Spec

-----------------------------------------------------------------------------
(* How the count of a key's executions grows.                              *)
LEMMA ExecutionsType == ASSUME TypeOK, NEW k \in Key PROVE Executions(k) \in Nat
  <1>1. IsFiniteSet(1 .. Len(effects))
    BY FS_Interval DEF TypeOK
  <1>2. IsFiniteSet({i \in Execution : effects[i] = k})
    BY <1>1, FS_Subset DEF Execution
  <1> QED BY <1>2, FS_CardinalityType DEF Executions

LEMMA ExecutionsSame ==
    ASSUME NEW k \in Key, effects' = effects
    PROVE  Executions(k)' = Executions(k)
  BY DEF Executions, Execution

LEMMA ExecutionsGrow ==
    ASSUME TypeOK, NEW k \in Key, effects' = Append(effects, k)
    PROVE  /\ Executions(k)' = Executions(k) + 1
           /\ \A l \in Key \ {k} : Executions(l)' = Executions(l)
  <1> DEFINE Of(l) == {i \in Execution : effects[i] = l}
             n == Len(effects) + 1
  <1>1. /\ n \in Nat /\ n \notin Execution
        /\ Len(effects') = n /\ effects'[n] = k /\ Execution' = Execution \cup {n}
        /\ \A i \in Execution : effects'[i] = effects[i]
    BY DEF TypeOK, Execution
  <1>2. IsFiniteSet(Of(k))
    <2>1. IsFiniteSet(1 .. Len(effects))
      BY FS_Interval DEF TypeOK
    <2> QED BY <2>1, FS_Subset DEF Execution
  <1>3. Of(k)' = Of(k) \cup {n} /\ n \notin Of(k)
    BY <1>1
  <1>4. \A l \in Key \ {k} : Of(l)' = Of(l)
    BY <1>1
  <1>5. Cardinality(Of(k) \cup {n}) = Cardinality(Of(k)) + 1
    BY <1>2, <1>3, FS_AddElement
  <1> QED BY <1>3, <1>4, <1>5 DEF Executions

-----------------------------------------------------------------------------
(* In turn, the steps of the one handler in progress.                      *)
LEMMA OthersAtRest ==
    ASSUME BaseInv, InTurn, NEW q \in InProgress, NEW p \in Request, p # q
    PROVE  /\ p \notin InProgress /\ ~Unserved(p) /\ ~At(p, "execute")
           /\ \A k \in Key : ~Completing(p, k)
           /\ job[p].step \notin CompleteSteps
  <1>1. p \notin InProgress
    BY DEF BaseInv, Alone, InTurn, InProgress
  <1> QED BY <1>1 DEF InProgress, Unserved, Completing, At, Steps, ClaimSteps, CompleteSteps

LEMMA BudgetOfOne ==
    ASSUME BaseInv, Budget, InTurn, NEW q \in InProgress, deployment' = deployment,
           NEW k \in Key, k = job[q].key, NEW s, NEW seen, NEW res, Moves(q, s, seen, res),
           \A l \in Key \ {k} : record'[l] = record[l] /\ faults'[l] = faults[l] /\ Executions(l)' = Executions(l),
           Accounted(k)', Owed(q)'
    PROVE  Budget'
  <1>1. ASSUME NEW l \in Key \ {k} PROVE Accounted(l)'
    <2>1. Accounted(l) /\ \A p \in Request : ~Completing(p, l)
      BY OthersAtRest DEF Budget, Completing
    <2> QED BY <2>1 DEF Accounted, Excused, Replayable
  <1>2. ASSUME NEW p \in Request, p # q PROVE Owed(p)'
    <2>1. ~Unserved(p) /\ ~At(p, "execute") /\ job'[p] = job[p]
      BY <1>2, OthersAtRest DEF Moves
    <2> QED BY <2>1 DEF Owed, Unserved, At, Backend, Replayable
  <1> QED BY <1>1, <1>2 DEF Budget

(* Steps that execute nothing and leave the records alone.                 *)
LEMMA QuietBudget ==
    ASSUME BaseInv, Budget, InTurn, NEW q \in InProgress, UNCHANGED <<deployment, record, effects, faults>>,
           job[q].key \in Key, NEW s, NEW seen, NEW res, Moves(q, s, seen, res),
           job[q].step \notin CompleteSteps, Owed(q)'
    PROVE  Budget'
  <1>0. PICK k \in Key : k = job[q].key
    OBVIOUS
  <1> USE <1>0
  <1>1. \A l \in Key : Executions(l)' = Executions(l)
    BY ExecutionsSame
  <1>2. Excused(k) \/ Replayable(record[k])
    BY OthersAtRest DEF Budget, Accounted, Completing, At, CompleteSteps
  <1>3. Accounted(k)'
    BY <1>1, <1>2 DEF Budget, Accounted, Excused, Replayable
  <1> QED BY <1>1, <1>3, BudgetOfOne

LEMMA InitBudget == Init => Budget
  <1> SUFFICES ASSUME Init PROVE Budget
    OBVIOUS
  <1>1. \A k \in Key : Executions(k) = 0
    BY FS_EmptySet DEF Init, Executions, Execution
  <1>2. \A k \in Key : faults[k] = 0
    BY DEF Init
  <1>3. \A q \in Request : ~Sent(q)
    BY DEF Init, Sent
  <1> QED BY <1>1, <1>2, <1>3 DEF Budget, Accounted, Excused, Owed

LEMMA BudgetStep == ASSUME BaseInv, Budget, [Next]_vars PROVE Budget'
  <1>0. deployment' = deployment
    BY SameDeployment
  <1> SUFFICES ASSUME InTurn PROVE Budget'
    BY <1>0 DEF Budget, InTurn, OneAtATime, DecodesNames
  <1> USE DEF BaseInv
  <1>t. \A k \in Key : Executions(k) \in Nat /\ faults[k] \in Nat
    BY ExecutionsType DEF TypeOK
  <1>1. ASSUME NEW q \in Request, NEW k \in Key, Send(q, k) PROVE Budget'
    <2>1. InProgress = {}
      BY <1>1, NobodyElse DEF Send, InTurn
    <2>2. faults' = faults /\ \A l \in Key : Executions(l)' = Executions(l)
      BY <1>1, ExecutionsSame DEF Send
    <2>3. \A l \in Key : Excused(l) \/ Replayable(record[l])
      <3>1. \A p \in Request, l \in Key : ~Completing(p, l)
        BY <2>1 DEF Completing, At, InProgress, Steps
      <3> QED BY <3>1 DEF Budget, Accounted
    <2>4. ASSUME NEW l \in Key PROVE Accounted(l)'
      <3>1. Replayable(record[l]) => record'[l] = record[l]
        BY <1>1, SendDoes DEF Replayable
      <3> QED BY <2>2, <2>3, <3>1 DEF Budget, Accounted, Excused, Replayable
    <2>5. Owed(q)'
      <3>1. CASE Backend = "memory" /\ job'[q].step = "check"
        BY <1>0, <3>1 DEF Owed, Unserved, At, Backend, ClaimSteps
      <3>2. CASE Backend # "memory" /\ job'[q].step = "claim_status" /\ record[k] = None
        <4>1. Excused(k) /\ job'[q].key = k
          BY <1>1, <2>3, <3>2, SendDoes DEF Replayable
        <4> QED BY <1>0, <2>2, <3>2, <4>1 DEF Owed, Unserved, At, Backend, Excused
      <3>3. CASE Backend # "memory" /\ job'[q].step = "check" /\ job'[q].seen = Seen(k)
        <4>1. (Excused(k) \/ Replayable(job'[q].seen)) /\ job'[q].key = k
          BY <1>1, <2>3, <3>3, SendDoes DEF Seen, InTurn
        <4> QED BY <1>0, <2>2, <3>3, <4>1 DEF Owed, Unserved, At, Backend, Excused, ClaimSteps, Replayable
      <3> QED BY <1>1, <3>1, <3>2, <3>3, SendDoes
    <2>6. ASSUME NEW p \in Request, p # q PROVE Owed(p)'
      <3>1. job'[p] = job[p] /\ p \notin InProgress
        BY <1>1, <2>1, <2>6, SendDoes
      <3> QED BY <3>1 DEF Owed, Unserved, At, InProgress, Steps, ClaimSteps
    <2> QED BY <2>4, <2>5, <2>6 DEF Budget
  <1>2. ASSUME NEW q \in Request, ClaimStatus(q) PROVE Budget'
    <2>0. PICK k \in Key : k = job[q].key
      BY <1>2, ClaimStatusDoes
    <2> USE <2>0
    <2>1. /\ q \in InProgress /\ k \in Key /\ Moves(q, "claim_result", job[q].seen, job[q].result)
          /\ \A l \in Key \ {k} : record'[l] = record[l]
      BY <1>2, ClaimStatusDoes DEF Writes, InProgress, At, Steps
    <2>2. faults' = faults /\ \A l \in Key : Executions(l)' = Executions(l)
      BY <1>2, ExecutionsSame DEF ClaimStatus
    <2>3. Excused(k)
      BY <1>2, ClaimStatusDoes, StepNames DEF Budget, Owed, Unserved, At, Sent, ClaimSteps
    <2>4. Accounted(k)' /\ Owed(q)'
      BY <1>t, <2>1, <2>2, <2>3 DEF Budget, Accounted, Excused, Owed, At, Moves
    <2> QED BY <1>0, <2>1, <2>2, <2>4, BudgetOfOne
  <1>3. ASSUME NEW q \in Request, ClaimResult(q) PROVE Budget'
    <2>0. PICK k \in Key : k = job[q].key
      BY <1>3, ClaimResultDoes
    <2> USE <2>0
    <2>1. /\ q \in InProgress /\ k \in Key /\ Moves(q, "check", job[q].seen, job[q].result)
          /\ \A l \in Key \ {k} : record'[l] = record[l]
      BY <1>3, ClaimResultDoes DEF Writes, InProgress, At, Steps
    <2>2. faults' = faults /\ \A l \in Key : Executions(l)' = Executions(l)
      BY <1>3, ExecutionsSame DEF ClaimResult
    <2>3. Excused(k)
      BY <1>3, ClaimResultDoes, StepNames DEF Budget, Owed, Unserved, At, Sent, ClaimSteps
    <2>4. Accounted(k)' /\ Owed(q)'
      BY <1>t, <2>1, <2>2, <2>3 DEF Budget, Accounted, Excused, Owed, At, Moves
    <2> QED BY <1>0, <2>1, <2>2, <2>4, BudgetOfOne
  <1>4. ASSUME NEW q \in Request, Check(q) PROVE Budget'
    <2>0. PICK k \in Key : k = job[q].key
      BY <1>4, CheckDoes
    <2> USE <2>0
    <2>1. q \in InProgress /\ k \in Key /\ Sent(q) /\ At(q, "check") /\ ~At(q, "execute")
      BY <1>4, CheckDoes, StepNames DEF InProgress, At, Steps, Sent
    <2>2. UNCHANGED <<deployment, record, effects, faults>>
      BY <1>4 DEF Check
    <2>3. CASE Moves(q, "answer", None, Held(q).result)
      <3>1. Owed(q)'
        BY <2>3 DEF Owed, Unserved, At, Moves, ClaimSteps
      <3> QED BY <2>1, <2>2, <2>3, <3>1, QuietBudget DEF At, CompleteSteps
    <2>4. CASE ~Replayable(Held(q)) /\ Moves(q, "execute", None, None)
      <3>1. Excused(k)
        <4>1. CASE Backend = "memory"
          BY <2>1, <2>4, <4>1, OthersAtRest DEF Budget, Accounted, Held, Completing, At, KeyOf
        <4>2. CASE Backend # "memory"
          BY <2>1, <2>4, <4>2 DEF Budget, Owed, Unserved, Held
        <4> QED BY <4>1, <4>2
      <3>2. Backend = "memory" => record[k] # None
        BY <2>1 DEF JobsOK, JobOK
      <3>3. Excused(k)' /\ (Backend = "memory" => record[k] # None)'
        BY <2>2, <2>4, <3>1, <3>2, <2>1, ExecutionsSame DEF Excused, Backend, Moves
      <3>4. Owed(q)'
        BY <2>4, <3>3 DEF Owed, Moves
      <3> QED BY <2>1, <2>2, <2>4, <3>4, QuietBudget DEF At, CompleteSteps
    <2> QED BY <1>4, <2>3, <2>4, CheckDoes
  <1>5. ASSUME NEW q \in Request, Reject(q) PROVE Budget'
    <2>1. /\ q \in InProgress /\ job[q].key \in Key /\ At(q, "execute")
          /\ Moves(q, "done", job[q].seen, job[q].result)
      BY <1>5, RejectDoes DEF InProgress, At, Steps
    <2>2. UNCHANGED <<deployment, record, effects, faults>>
      BY <1>5 DEF Reject
    <2>3. Owed(q)'
      BY <2>1 DEF Owed, Unserved, At, Moves, ClaimSteps
    <2> QED BY <2>1, <2>2, <2>3, QuietBudget DEF At, CompleteSteps
  <1>6. ASSUME NEW q \in Request, Execute(q) PROVE Budget'
    <2>0. PICK k \in Key : k = job[q].key
      BY <1>6, ExecuteDoes
    <2> USE <2>0
    <2>1. /\ q \in InProgress /\ Sent(q) /\ k \in Key /\ At(q, "execute")
          /\ Moves(q, "complete_status", job[q].seen, Len(effects) + 1)
      BY <1>6, ExecuteDoes, StepNames DEF InProgress, At, Steps, Sent
    <2>2. record' = record /\ faults' = faults
      BY <1>6 DEF Execute
    <2>3. Executions(k)' = Executions(k) + 1 /\ \A l \in Key \ {k} : Executions(l)' = Executions(l)
      BY <1>6, ExecuteDoes, ExecutionsGrow
    <2>4. Excused(k) /\ (Backend = "memory" /\ record[k] = None => Executions(k) < faults[k])
      BY <2>1 DEF Budget, Owed, Unserved, At
    <2>5. Executions(k) \in Nat /\ faults[k] \in Nat
      BY <1>t, <2>1
    <2>6. Executions(k)' <= 1 + faults[k]
      BY <2>3, <2>4, <2>5 DEF Excused
    <2>7. job'[q].key = k /\ job'[q].step = "complete_status" /\ job'[q] # NotSent
      BY <2>1 DEF Moves
    <2>8. Accounted(k)'
      <3>1. CASE Backend = "memory" /\ record[k] = None
        <4>1. Executions(k)' <= faults[k]
          BY <2>3, <2>4, <2>5, <3>1
        <4> QED BY <2>2, <2>6, <4>1 DEF Accounted, Excused
      <3>2. CASE ~(Backend = "memory" /\ record[k] = None)
        <4>1. Completing(q, k)'
          BY <1>0, <2>2, <2>7, <3>2 DEF Completing, Sent, At, Backend
        <4> QED BY <2>1, <2>2, <2>6, <4>1 DEF Accounted
      <3> QED BY <3>1, <3>2
    <2>9. Owed(q)'
      BY <2>7 DEF Owed, Unserved, At, ClaimSteps
    <2> QED BY <1>0, <2>1, <2>2, <2>3, <2>8, <2>9, BudgetOfOne
  <1>7. ASSUME NEW q \in Request, CompleteStatus(q) PROVE Budget'
    <2>0. PICK k \in Key : k = job[q].key
      BY <1>7, CompleteStatusDoes
    <2> USE <2>0
    <2>1. /\ q \in InProgress /\ Sent(q) /\ k \in Key /\ At(q, "complete_status")
          /\ Moves(q, "complete_result", job[q].seen, job[q].result)
      BY <1>7, CompleteStatusDoes, StepNames DEF InProgress, At, Steps, Sent
    <2>2. faults' = faults /\ \A l \in Key : Executions(l)' = Executions(l)
      BY <1>7, ExecutionsSame DEF CompleteStatus
    <2>3. job'[q].key = k /\ job'[q].step = "complete_result" /\ job'[q] # NotSent
      BY <2>1 DEF Moves
    <2>4. Accounted(k)'
      <3>1. CASE Refused(k) /\ record' = record
        <4>1. \A p \in Request : ~Completing(p, k)
          BY <2>1, <3>1, OthersAtRest DEF Completing, Refused, At
        <4>2. Excused(k)
          BY <2>1, <3>1, <4>1 DEF Budget, Accounted, Replayable, Refused
        <4> QED BY <2>1, <2>2, <4>2 DEF Budget, Accounted, Excused
      <3>2. CASE record'[k] # None /\ record'[k].status = "success"
        <4>1. Completing(q, k)'
          BY <2>3, <3>2 DEF Completing, Sent, At
        <4> QED BY <2>1, <2>2, <4>1 DEF Budget, Accounted
      <3> QED BY <1>7, <3>1, <3>2, CompleteStatusDoes DEF Writes
    <2>5. Owed(q)'
      BY <2>3 DEF Owed, Unserved, At, ClaimSteps
    <2>6. \A l \in Key \ {k} : record'[l] = record[l]
      BY <1>7, CompleteStatusDoes DEF Writes
    <2> QED BY <1>0, <2>1, <2>2, <2>4, <2>5, <2>6, BudgetOfOne
  <1>8. ASSUME NEW q \in Request, CompleteResult(q) PROVE Budget'
    <2>0. PICK k \in Key : k = job[q].key
      BY <1>8, CompleteResultDoes
    <2> USE <2>0
    <2>1. /\ q \in InProgress /\ Sent(q) /\ k \in Key /\ At(q, "complete_result")
          /\ Moves(q, "answer", job[q].seen, job[q].result)
      BY <1>8, CompleteResultDoes, StepNames DEF InProgress, At, Steps, Sent
    <2>2. faults' = faults /\ \A l \in Key : Executions(l)' = Executions(l)
      BY <1>8, ExecutionsSame DEF CompleteResult
    <2>3. job[q].result # None
      BY <2>1 DEF JobsOK, JobOK, At, CompleteSteps
    <2>4. Accounted(k)'
      <3>1. CASE Excused(k)
        BY <2>1, <2>2, <3>1 DEF Budget, Accounted, Excused
      <3>2. CASE record[k] # None /\ record[k].status = "success"
        <4>1. Writes(k, "success", job[q].result)
          BY <1>8, <3>2, CompleteResultDoes DEF Refused
        <4>2. Replayable(record'[k])
          BY <2>3, <4>1 DEF Writes, Replayable
        <4> QED BY <2>1, <2>2, <4>2 DEF Budget, Accounted, Replayable
      <3>3. Excused(k) \/ (record[k] # None /\ record[k].status = "success")
        <4>1. \A p \in Request : Completing(p, k) => record[k] # None /\ record[k].status = "success"
          BY <2>1, OthersAtRest DEF Completing, At
        <4> QED BY <2>1, <4>1 DEF Budget, Accounted, Replayable
      <3> QED BY <3>1, <3>2, <3>3
    <2>5. Owed(q)'
      BY <2>1 DEF Owed, Unserved, At, ClaimSteps, Moves
    <2>6. \A l \in Key \ {k} : record'[l] = record[l]
      BY <1>8, CompleteResultDoes DEF Writes
    <2> QED BY <1>0, <2>1, <2>2, <2>4, <2>5, <2>6, BudgetOfOne
  <1>9. ASSUME NEW q \in Request, Answer(q) PROVE Budget'
    <2>1. /\ q \in InProgress /\ job[q].key \in Key /\ At(q, "answer")
          /\ Moves(q, "done", job[q].seen, job[q].result)
      BY <1>9, AnswerDoes DEF InProgress, At, Steps
    <2>2. UNCHANGED <<deployment, record, effects, faults>>
      BY <1>9 DEF Answer
    <2>3. Owed(q)'
      BY <2>1 DEF Owed, Unserved, At, Moves, ClaimSteps
    <2> QED BY <2>1, <2>2, <2>3, QuietBudget DEF At, CompleteSteps
  <1>10. ASSUME NEW q \in Request, LoseAnswer(q) PROVE Budget'
    <2>1. /\ q \in InProgress /\ job[q].key \in Key /\ At(q, "answer")
          /\ Moves(q, "done", job[q].seen, job[q].result)
      BY <1>10, LoseAnswerDoes DEF InProgress, At, Steps
    <2>2. UNCHANGED <<deployment, record, effects, faults>>
      BY <1>10 DEF LoseAnswer
    <2>3. Owed(q)'
      BY <2>1 DEF Owed, Unserved, At, Moves, ClaimSteps
    <2> QED BY <2>1, <2>2, <2>3, QuietBudget DEF At, CompleteSteps
  (* A fault excuses what it may lead to.                                  *)
  <1>f. ASSUME NEW k \in Key, Strikes(k), effects' = effects PROVE Excused(k)' /\ Executions(k)' <= 1 + faults'[k]
    <2>1. Executions(k) <= 1 + faults[k] /\ faults'[k] = faults[k] + 1 /\ Executions(k)' = Executions(k)
      BY <1>f, ExecutionsSame DEF Budget, Accounted, Strikes
    <2> QED BY <1>t, <2>1 DEF Excused
  <1>11. ASSUME NEW q \in Request, RedisRefuses(q) PROVE Budget'
    <2>0. PICK k \in Key : k = job[q].key
      BY <1>11, RedisRefusesDoes
    <2> USE <2>0
    <2>1. /\ q \in InProgress /\ k \in Key /\ Backend # "memory" /\ Strikes(k)
          /\ record' = record /\ effects' = effects
      BY <1>11, RedisRefusesDoes DEF RedisRefuses
    <2>2. Excused(k)' /\ Accounted(k)'
      BY <1>f, <2>1 DEF Accounted
    <2>3. \A l \in Key \ {k} : faults'[l] = faults[l] /\ Executions(l)' = Executions(l)
      BY <2>1, ExecutionsSame DEF Strikes
    <2>4. ASSUME NEW s, NEW seen, NEW res, Moves(q, s, seen, res) PROVE Budget'
      <3>1. job'[q].key = k
        BY <2>4 DEF Moves
      <3>2. Owed(q)'
        BY <1>0, <2>1, <2>2, <3>1 DEF Owed, Backend
      <3> QED BY <1>0, <2>1, <2>2, <2>3, <2>4, <3>2, BudgetOfOne
    <2> QED BY <1>11, <2>4, RedisRefusesDoes
  <1>12. ASSUME NEW q \in Request, HandlerFails(q) PROVE Budget'
    <2>0. PICK k \in Key : k = job[q].key
      BY <1>12, HandlerFailsDoes
    <2> USE <2>0
    <2>1. /\ q \in InProgress /\ k \in Key /\ Strikes(k) /\ Moves(q, "done", job[q].seen, None)
          /\ record' = record /\ effects' = effects
      BY <1>12, HandlerFailsDoes DEF HandlerFails, InProgress, At, Steps
    <2>2. Accounted(k)'
      BY <1>f, <2>1 DEF Accounted
    <2>3. \A l \in Key \ {k} : faults'[l] = faults[l] /\ Executions(l)' = Executions(l)
      BY <2>1, ExecutionsSame DEF Strikes
    <2>4. Owed(q)'
      BY <2>1 DEF Owed, Unserved, At, Moves, ClaimSteps
    <2> QED BY <1>0, <2>1, <2>2, <2>3, <2>4, BudgetOfOne
  <1>13. ASSUME NEW k \in Key, Expire(k) PROVE Budget'
    <2>1. /\ Strikes(k) /\ effects' = effects /\ job' = job
          /\ \A l \in Key \ {k} : record'[l] = record[l]
      BY <1>13, ExpireDoes DEF Expire
    <2>2. \A l \in Key \ {k} : faults'[l] = faults[l] /\ Executions(l)' = Executions(l)
      BY <2>1, ExecutionsSame DEF Strikes
    <2>3. ASSUME NEW l \in Key PROVE Accounted(l)'
      <3>1. CASE l = k
        BY <1>f, <2>1, <3>1 DEF Accounted
      <3>2. CASE l # k
        <4>1. \A p \in Request : Completing(p, l) => Completing(p, l)'
          BY <1>0, <2>1, <3>2 DEF Completing, Sent, At, Backend
        <4> QED BY <2>1, <2>2, <3>2, <4>1 DEF Budget, Accounted, Excused, Replayable
      <3> QED BY <3>1, <3>2
    <2>4. ASSUME NEW p \in Request PROVE Owed(p)'
      <3>1. CASE Sent(p) /\ job[p].key = k
        <4>1. At(p, "execute") => Executions(k)' < faults'[k]
          <5>1. At(p, "execute") => Executions(k) <= faults[k]
            BY <3>1 DEF Budget, Owed, Unserved, Excused, At
          <5>2. faults'[k] = faults[k] + 1 /\ Executions(k)' = Executions(k)
            BY <2>1, ExecutionsSame DEF Strikes
          <5> QED BY <1>t, <5>1, <5>2
        <4>2. Excused(k)'
          BY <1>f, <2>1
        <4> QED BY <2>1, <3>1, <4>1, <4>2 DEF Owed, At
      <3>2. CASE Sent(p) /\ job[p].key # k
        <4>1. job[p].key \in Key
          BY <3>2 DEF TypeOK, Sent, AnyJob
        <4> QED BY <1>0, <2>1, <2>2, <3>2, <4>1 DEF Budget, Owed, Unserved, Excused, At, Backend
      <3>3. CASE ~Sent(p)
        BY <2>1, <3>3 DEF Owed, Sent
      <3> QED BY <3>1, <3>2, <3>3
    <2> QED BY <2>3, <2>4 DEF Budget
  <1>14. ASSUME Crash PROVE Budget'
    <2>1. \A l \in Key : Executions(l)' = Executions(l)
      BY <1>14, ExecutionsSame DEF Crash
    <2>2. ASSUME NEW l \in Key PROVE Accounted(l)'
      <3>1. faults'[l] \in Nat /\ faults'[l] >= faults[l]
        BY <1>14, CrashDoes
      <3>2. CASE faults'[l] = faults[l] + 1
        <4>1. Executions(l)' <= faults'[l]
          BY <1>t, <2>1, <3>2 DEF Budget, Accounted
        <4> QED BY <1>t, <2>1, <3>1, <4>1 DEF Accounted, Excused
      <3>3. CASE Backend = "memory" /\ record[l] = None
        <4>1. \A p \in Request : ~Completing(p, l)
          BY <3>3 DEF Completing
        <4>2. Executions(l)' <= faults'[l]
          BY <1>t, <2>1, <3>1, <3>3, <4>1 DEF Budget, Accounted, Excused, Replayable
        <4> QED BY <1>t, <2>1, <3>1, <4>2 DEF Accounted, Excused
      <3>4. CASE Backend # "memory" /\ record' = record /\ \A p \in InProgress : job[p].key # l
        <4>1. \A p \in Request : ~Completing(p, l)
          BY <3>4 DEF Completing, InProgress, At, Steps
        <4>2. Executions(l)' <= 1 + faults'[l] /\ (Executions(l)' <= faults'[l] \/ Replayable(record[l]))
          BY <1>t, <2>1, <3>1, <4>1 DEF Budget, Accounted, Excused
        <4> QED BY <3>4, <4>2 DEF Accounted, Excused, Replayable
      <3> QED BY <1>14, <3>2, <3>3, <3>4, CrashDoes
    <2>3. ASSUME NEW p \in Request PROVE Owed(p)'
      <3>1. ~Unserved(p)' /\ ~At(p, "execute")'
        <4>1. CASE p \in InProgress
          BY <1>14, <4>1, CrashDoes DEF Unserved, At, ClaimSteps
        <4>2. CASE p \notin InProgress
          BY <1>14, <4>2, CrashDoes DEF Unserved, At, ClaimSteps, InProgress, Steps
        <4> QED BY <4>1, <4>2
      <3> QED BY <3>1 DEF Owed
    <2> QED BY <2>2, <2>3 DEF Budget
  <1>15. ASSUME UNCHANGED vars PROVE Budget'
    <2>1. \A l \in Key : Executions(l)' = Executions(l)
      BY <1>15, ExecutionsSame DEF vars
    <2>2. \A l \in Key : Accounted(l)'
      <3>1. \A p \in Request, l \in Key : Completing(p, l)' = Completing(p, l)
        BY <1>0, <1>15 DEF Completing, Sent, At, Backend, vars
      <3> QED BY <1>15, <2>1, <3>1 DEF Budget, Accounted, Excused, Replayable, vars
    <2>3. ASSUME NEW p \in Request PROVE Owed(p)'
      <3>1. Sent(p) => job[p].key \in Key
        BY DEF TypeOK, Sent, AnyJob
      <3> QED BY <1>0, <1>15, <2>1, <3>1 DEF Budget, Owed, Unserved, Excused, At, Sent, Backend, Replayable, vars
    <2> QED BY <2>2, <2>3 DEF Budget
  <1> QED BY <1>1, <1>2, <1>3, <1>4, <1>5, <1>6, <1>7, <1>8, <1>9, <1>10, <1>11, <1>12, <1>13, <1>14, <1>15
          DEF Next, Serve

(* Requests that do not overlap are executed once for each key, and once   *)
(* more for each fault that struck it, whatever those faults are and       *)
(* wherever in a handler they strike: create_agent_run, create_eval_run    *)
(* and create_document.                                                    *)
THEOREM OnceInTurn == Spec => []ExecutedOnceInTurn
  <1>1. BaseInv /\ Budget /\ [Next]_vars => (BaseInv /\ Budget)'
    BY BaseStep, BudgetStep
  <1>2. Budget => ExecutedOnceInTurn
    BY DEF Budget, Accounted, InTurn, ExecutedOnceInTurn, ExecutedOnce
  <1> QED BY <1>1, <1>2, InitBase, InitBudget, PTL DEF Spec

-----------------------------------------------------------------------------
ServedInv == BaseInv /\ FinishedIsKept /\ OneResult /\ LateFollows

(* A record that still serves whoever finished or is about to.             *)
Keeps(k) ==
    /\ record[k] # None => record'[k] # None
    /\ record[k] # None /\ record[k].status = "success" => record'[k].status = "success"
    /\ Replayable(record[k]) => Replayable(record'[k])

LEMMA KeepsSame == ASSUME NEW k \in Key, record'[k] = record[k] PROVE Keeps(k)
  BY DEF Keeps, Replayable

LEMMA KeptOther ==
    ASSUME FinishedIsKept, InTurn \/ Backend = "memory", deployment' = deployment,
           NEW p \in Request, Sent(p), job'[p] = job[p], NEW l \in Key, l = job[p].key,
           faults'[l] = 0 => faults[l] = 0 /\ Keeps(l)
    PROVE  Kept(p)'
  BY DEF FinishedIsKept, Kept, Keeps, Finished, At, Backend

LEMMA KeptMade ==
    ASSUME deployment' = deployment, NEW q \in Request, NEW k \in Key, job'[q].key = k,
           faults'[k] = 0 =>
               /\ job'[q].step \in {"answer", "done"} /\ job'[q].result # None => Replayable(record'[k])
               /\ Backend = "memory" => record'[k] # None
               /\ job'[q].step = "complete_result" => record'[k] # None /\ record'[k].status = "success"
    PROVE  Kept(q)'
  BY DEF Kept, Finished, At, Backend, Replayable

LEMMA KeptStep == ASSUME ServedInv, [Next]_vars PROVE FinishedIsKept'
  <1>0. deployment' = deployment
    BY SameDeployment
  <1> SUFFICES ASSUME InTurn \/ Backend = "memory", NEW p \in Request, Sent(p)' PROVE Kept(p)'
    BY <1>0 DEF FinishedIsKept, InTurn, OneAtATime, DecodesNames, Backend
  <1> USE DEF ServedInv, BaseInv
  <1>t. \A x \in Request : Sent(x) => job[x].key \in Key
    BY DEF TypeOK, Sent, AnyJob
  (* Those who do not move, when their record stays as it is or better.    *)
  <1>same. ASSUME job'[p] = job[p], \A l \in Key : faults'[l] = 0 => faults[l] = 0 /\ Keeps(l) PROVE Kept(p)'
    BY <1>0, <1>t, <1>same, KeptOther DEF Sent
  <1>1. ASSUME NEW q \in Request, NEW k \in Key, Send(q, k) PROVE Kept(p)'
    <2>1. faults' = faults
      BY <1>1 DEF Send
    <2>2. InFlight # None
      BY InFlightType, NoneAssumption DEF AnyRecord, ResultOrNone
    <2>3. CASE p = q
      <3>1. job'[q].key = k /\ job'[q].result = None /\ (Backend = "memory" => record'[k] # None)
            /\ job'[q].step # "complete_result"
        BY <1>1, <2>2, SendDoes
      <3> QED BY <1>0, <2>3, <3>1, KeptMade
    <2>4. CASE p # q
      <3>1. job'[p] = job[p]
        BY <1>1, <2>4, SendDoes
      <3>2. ASSUME NEW l \in Key PROVE Keeps(l)
        <4>1. CASE record'[l] = record[l]
          BY <4>1, KeepsSame
        <4>2. CASE record[l] = None
          BY <4>2 DEF Keeps, Replayable
        <4> QED BY <1>1, <4>1, <4>2, SendDoes
      <3> QED BY <1>same, <2>1, <3>1, <3>2
    <2> QED BY <2>3, <2>4
  (* In turn nobody relies on a record that is being claimed.              *)
  <1>claim. ASSUME NEW q \in Request, job[q].step \in ClaimSteps, NEW k \in Key, k = job[q].key,
                   faults' = faults, NEW s \in {"claim_result", "check"}, NEW seen, Moves(q, s, seen, None),
                   \A l \in Key \ {k} : record'[l] = record[l]
            PROVE  Kept(p)'
    <2>1. Backend # "memory" /\ InTurn /\ q \in InProgress /\ Sent(q)
      BY <1>claim, StepNames DEF JobsOK, JobOK, Sent, ClaimSteps, InProgress, Steps
    <2>2. CASE p = q
      <3>1. job'[q].key = k /\ job'[q].result = None /\ job'[q].step # "complete_result"
        BY <1>claim DEF Moves
      <3> QED BY <1>0, <2>1, <2>2, <3>1, KeptMade
    <2>3. CASE p # q /\ job[p].key = k
      <3>1. job'[p] = job[p] /\ ~At(p, "complete_result")
        BY <1>claim, <2>1, <2>3, OthersAtRest DEF Moves, At, CompleteSteps
      <3>2. faults[k] = 0 => ~Finished(p)
        BY <1>claim, <2>1, <2>3, <3>1 DEF OneResult, OneResultOf, NoneFinished, Unserved, Sent
      <3> QED BY <1>0, <1>claim, <2>1, <2>3, <3>1, <3>2 DEF Kept, Finished, At, Backend
    <2>4. CASE p # q /\ job[p].key # k
      <3>1. job'[p] = job[p]
        BY <1>claim, <2>4 DEF Moves
      <3>2. Sent(p) /\ job[p].key \in Key /\ Keeps(job[p].key)
        BY <1>t, <1>claim, <2>4, <3>1, KeepsSame DEF Sent
      <3> QED BY <1>0, <1>claim, <3>1, <3>2, KeptOther
    <2> QED BY <2>2, <2>3, <2>4
  <1>2. ASSUME NEW q \in Request, ClaimStatus(q) PROVE Kept(p)'
    <2>1. job[q].step \in ClaimSteps /\ job[q].result = None
      BY <1>2, ClaimStatusDoes, StepNames DEF At, ClaimSteps, JobsOK, JobOK, Sent
    <2> QED BY <1>2, <1>claim, <2>1, ClaimStatusDoes DEF ClaimStatus, Writes
  <1>3. ASSUME NEW q \in Request, ClaimResult(q) PROVE Kept(p)'
    <2>1. job[q].step \in ClaimSteps /\ job[q].result = None
      BY <1>3, ClaimResultDoes, StepNames DEF At, ClaimSteps, JobsOK, JobOK, Sent
    <2> QED BY <1>3, <1>claim, <2>1, ClaimResultDoes DEF ClaimResult, Writes
  (* Steps that leave the records alone.                                   *)
  <1>quiet. ASSUME NEW q \in Request, Sent(q), record' = record, faults' = faults,
                   NEW s, NEW seen, NEW res, Moves(q, s, seen, res), s # "complete_result",
                   faults[job[q].key] = 0 /\ s \in {"answer", "done"} /\ res # None => Replayable(record[job[q].key])
            PROVE  Kept(p)'
    <2>1. CASE p = q
      <3>1. PICK k \in Key : k = job[q].key
        BY <1>t, <1>quiet
      <3>2. faults[k] = 0 /\ Backend = "memory" => record[k] # None
        BY <1>quiet, <3>1 DEF FinishedIsKept, Kept
      <3> QED BY <1>0, <1>quiet, <2>1, <3>1, <3>2, KeptMade DEF Moves
    <2>2. CASE p # q
      BY <1>same, <1>quiet, <2>2, KeepsSame DEF Moves
    <2> QED BY <2>1, <2>2
  <1>4. ASSUME NEW q \in Request, Check(q) PROVE Kept(p)'
    <2>1. Sent(q) /\ At(q, "check") /\ record' = record /\ faults' = faults
      BY <1>4, CheckDoes, StepNames DEF Sent, Check
    <2>2. CASE Moves(q, "execute", None, None)
      BY <1>quiet, <2>1, <2>2
    <2>3. CASE Replayable(Held(q)) /\ Moves(q, "answer", None, Held(q).result)
      <3>1. faults[job[q].key] = 0 => Replayable(record[job[q].key])
        BY <2>1, <2>3 DEF Held, KeyOf, OneResult, OneResultOf, Replayable
      <3> QED BY <1>quiet, <2>1, <2>3, <3>1
    <2> QED BY <1>4, <2>2, <2>3, CheckDoes
  <1>5. ASSUME NEW q \in Request, Reject(q) PROVE Kept(p)'
    <2>1. Sent(q) /\ job[q].result = None /\ record' = record /\ faults' = faults
      BY <1>5, RejectDoes, StepNames DEF Sent, Reject, JobsOK, JobOK, At
    <2> QED BY <1>5, <1>quiet, <2>1, RejectDoes
  <1>6. ASSUME NEW q \in Request, Execute(q) PROVE Kept(p)'
    <2>1. Sent(q) /\ record' = record /\ faults' = faults
      BY <1>6, ExecuteDoes, StepNames DEF Sent, Execute
    <2> QED BY <1>6, <1>quiet, <2>1, ExecuteDoes
  <1>7. ASSUME NEW q \in Request, CompleteStatus(q) PROVE Kept(p)'
    <2>0. PICK k \in Key : k = job[q].key
      BY <1>7, CompleteStatusDoes
    <2>1. Sent(q) /\ faults' = faults /\ Moves(q, "complete_result", job[q].seen, job[q].result)
      BY <1>7, CompleteStatusDoes, StepNames DEF Sent, CompleteStatus
    <2>2. ~Refused(k) => Writes(k, "success", IF record[k] = None THEN None ELSE record[k].result)
      BY <1>7, <2>0, CompleteStatusDoes
    <2>3. \A l \in Key : Keeps(l)
      <3>1. Keeps(k)
        BY <1>7, <2>0, <2>2, CompleteStatusDoes, KeepsSame DEF Writes, Keeps, Replayable
      <3>2. \A l \in Key \ {k} : record'[l] = record[l]
        BY <1>7, <2>0, CompleteStatusDoes DEF Writes
      <3> QED BY <3>1, <3>2, KeepsSame
    <2>4. CASE p = q
      <3>1. faults[k] = 0 => ~Refused(k)
        BY <2>0, <2>1 DEF FinishedIsKept, Kept, Refused
      <3> QED BY <1>0, <2>0, <2>1, <2>2, <2>4, <3>1, KeptMade DEF Moves, Writes
    <2>5. CASE p # q
      BY <1>same, <2>1, <2>3, <2>5 DEF Moves
    <2> QED BY <2>4, <2>5
  <1>8. ASSUME NEW q \in Request, CompleteResult(q) PROVE Kept(p)'
    <2>0. PICK k \in Key : k = job[q].key
      BY <1>8, CompleteResultDoes
    <2>1. /\ Sent(q) /\ faults' = faults /\ Moves(q, "answer", job[q].seen, job[q].result)
          /\ At(q, "complete_result")
      BY <1>8, CompleteResultDoes, StepNames DEF Sent, CompleteResult
    <2>2. job[q].result # None
      BY <2>1 DEF JobsOK, JobOK, At, CompleteSteps
    <2>3. ~Refused(k) => Writes(k, IF record[k] = None THEN "in_flight" ELSE record[k].status, job[q].result)
      BY <1>8, <2>0, CompleteResultDoes
    <2>4. \A l \in Key : Keeps(l)
      <3>1. Keeps(k)
        BY <1>8, <2>0, <2>2, <2>3, CompleteResultDoes, KeepsSame DEF Writes, Keeps, Replayable
      <3>2. \A l \in Key \ {k} : record'[l] = record[l]
        BY <1>8, <2>0, CompleteResultDoes DEF Writes
      <3> QED BY <3>1, <3>2, KeepsSame
    <2>5. CASE p = q
      <3>1. faults[k] = 0 => ~Refused(k) /\ record[k] # None /\ record[k].status = "success"
        BY <2>0, <2>1 DEF FinishedIsKept, Kept, Refused
      <3>2. faults[k] = 0 => record'[k] # None /\ Replayable(record'[k])
        BY <2>2, <2>3, <3>1 DEF Writes, Replayable
      <3> QED BY <1>0, <2>0, <2>1, <2>5, <3>2, KeptMade DEF Moves
    <2>6. CASE p # q
      BY <1>same, <2>1, <2>4, <2>6 DEF Moves
    <2> QED BY <2>5, <2>6
  <1>answered. ASSUME NEW q \in Request, At(q, "answer"), Sent(q), record' = record, faults' = faults,
                      Moves(q, "done", job[q].seen, job[q].result)
               PROVE  Kept(p)'
    <2>1. faults[job[q].key] = 0 => Replayable(record[job[q].key])
      BY <1>answered DEF JobsOK, JobOK, FinishedIsKept, Kept, Finished, At
    <2> QED BY <1>answered, <1>quiet, <2>1
  <1>9. ASSUME NEW q \in Request, Answer(q) PROVE Kept(p)'
    BY <1>9, <1>answered, AnswerDoes, StepNames DEF Answer, Sent
  <1>10. ASSUME NEW q \in Request, LoseAnswer(q) PROVE Kept(p)'
    BY <1>10, <1>answered, LoseAnswerDoes, StepNames DEF LoseAnswer, Sent
  (* A fault at the key of the handler it strikes.                         *)
  <1>struck. ASSUME NEW q \in Request, NEW k \in Key, k = job[q].key, Strikes(k), record' = record,
                    NEW s, NEW seen, NEW res, Moves(q, s, seen, res)
             PROVE  Kept(p)'
    <2>1. faults'[k] # 0
      BY <1>struck DEF Strikes, TypeOK
    <2>2. CASE p = q
      BY <1>struck, <2>1, <2>2 DEF Kept, Moves
    <2>3. CASE p # q
      BY <1>same, <1>struck, <2>1, <2>3, KeepsSame DEF Moves, Strikes
    <2> QED BY <2>2, <2>3
  <1>11. ASSUME NEW q \in Request, RedisRefuses(q) PROVE Kept(p)'
    BY <1>11, <1>struck, RedisRefusesDoes DEF RedisRefuses
  <1>12. ASSUME NEW q \in Request, HandlerFails(q) PROVE Kept(p)'
    BY <1>12, <1>struck, HandlerFailsDoes DEF HandlerFails
  <1>13. ASSUME NEW k \in Key, Expire(k) PROVE Kept(p)'
    <2>1. /\ Strikes(k) /\ job' = job /\ \A l \in Key \ {k} : record'[l] = record[l]
      BY <1>13, ExpireDoes DEF Expire
    <2>2. faults'[k] # 0
      BY <2>1 DEF Strikes, TypeOK
    <2> QED BY <1>same, <2>1, <2>2, KeepsSame DEF Strikes
  <1>14. ASSUME Crash PROVE Kept(p)'
    <2>1. \A l \in Key : faults[l] \in Nat /\ faults'[l] \in Nat /\ faults'[l] >= faults[l]
      BY <1>14, CrashDoes DEF TypeOK
    <2>2. Sent(p) /\ job[p].key \in Key /\ job'[p].key = job[p].key
      <3>1. CASE p \in InProgress
        BY <1>14, <1>t, <3>1, CrashDoes, StepNames DEF Sent, InProgress
      <3>2. CASE p \notin InProgress
        BY <1>14, <1>t, <3>2, CrashDoes DEF Sent
      <3> QED BY <3>1, <3>2
    <2>3. PICK l \in Key : l = job[p].key
      BY <2>2
    <2>4. CASE Backend = "memory"
      <3>1. faults'[l] # 0
        <4>1. record[l] # None => faults'[l] = faults[l] + 1
          BY <1>14, <2>4, CrashDoes
        <4>2. record[l] = None => faults[l] # 0
          BY <2>2, <2>3, <2>4 DEF FinishedIsKept, Kept
        <4> QED BY <2>1, <4>1, <4>2
      <3> QED BY <2>2, <2>3, <3>1 DEF Kept
    <2>5. CASE Backend # "memory"
      <3>1. CASE p \in InProgress
        <4>1. faults'[l] # 0
          BY <1>14, <2>1, <2>3, <2>5, <3>1, CrashDoes
        <4> QED BY <2>2, <2>3, <4>1 DEF Kept
      <3>2. CASE p \notin InProgress
        <4>1. job'[p] = job[p] /\ record' = record
          BY <1>14, <2>5, <3>2, CrashDoes
        <4> QED BY <1>same, <2>1, <4>1, KeepsSame
      <3> QED BY <3>1, <3>2
    <2> QED BY <2>4, <2>5
  <1>15. ASSUME UNCHANGED vars PROVE Kept(p)'
    BY <1>same, <1>15, KeepsSame DEF vars
  <1> QED BY <1>1, <1>2, <1>3, <1>4, <1>5, <1>6, <1>7, <1>8, <1>9, <1>10, <1>11, <1>12, <1>13, <1>14, <1>15
          DEF Next, Serve

-----------------------------------------------------------------------------
(* In turn, a handler that is not the one at work: all that can change is  *)
(* the record, and what it finished must be there still.                   *)
LEMMA OneOther ==
    ASSUME ServedInv, InTurn, deployment' = deployment, NEW p \in Request, p \notin InProgress, job'[p] = job[p],
           Finished(p) /\ Sent(p) /\ faults'[job[p].key] = 0 =>
               faults[job[p].key] = 0 /\ record'[job[p].key].result = record[job[p].key].result
    PROVE  OneResultOf(p)'
  <1>1. ~Unserved(p)' /\ ~At(p, "check")' /\ job'[p].step \notin CompleteSteps
    BY DEF InProgress, Unserved, At, Steps, ClaimSteps, CompleteSteps
  <1> QED BY <1>1 DEF ServedInv, OneResult, OneResultOf, Finished, Sent

LEMMA NoneFinishedStays ==
    ASSUME NEW q \in Request, NEW k, NoneFinished(k), \A p \in Request \ {q} : job'[p] = job[p],
           ~Finished(q)'
    PROVE  NoneFinished(k)'
  BY DEF NoneFinished, Finished, Sent

LEMMA OneStep == ASSUME ServedInv, [Next]_vars PROVE OneResult'
  <1>0. deployment' = deployment
    BY SameDeployment
  <1> SUFFICES ASSUME InTurn, NEW p \in Request PROVE OneResultOf(p)'
    BY <1>0 DEF OneResult, InTurn, OneAtATime, DecodesNames
  <1> USE DEF ServedInv, BaseInv
  <1>t. \A x \in Request : Sent(x) => job[x].key \in Key
    BY DEF TypeOK, Sent, AnyJob
  <1>kept. \A x \in Request : Sent(x) /\ Finished(x) /\ faults[job[x].key] = 0 => Replayable(record[job[x].key])
    BY DEF FinishedIsKept, Kept
  <1>1. ASSUME NEW q \in Request, NEW k \in Key, Send(q, k) PROVE OneResultOf(p)'
    <2>1. InProgress = {} /\ faults' = faults
      BY <1>1, NobodyElse DEF Send, InTurn
    <2>2. CASE p # q
      <3>1. job'[p] = job[p]
        BY <1>1, <2>2, SendDoes
      <3>2. Finished(p) /\ Sent(p) /\ faults[job[p].key] = 0 => record'[job[p].key] = record[job[p].key]
        BY <1>1, <1>t, <1>kept, SendDoes DEF Replayable
      <3> QED BY <1>0, <2>1, <3>1, <3>2, OneOther
    <2>3. CASE p = q
      <3>1. job'[q].key = k /\ job'[q].result = None /\ job'[q].step \notin CompleteSteps
        BY <1>1, SendDoes DEF CompleteSteps
      <3>2. \A x \in Request \ {q} : job'[x] = job[x]
        BY <1>1, SendDoes
      <3>3. ~Finished(q)'
        BY <3>1 DEF Finished
      <3>4. faults[k] = 0 /\ ~Replayable(record[k]) => NoneFinished(k)
        BY <1>kept DEF NoneFinished
      <3>5. CASE Backend = "memory" /\ job'[q].step = "check"
        BY <1>0, <2>3, <3>1, <3>3, <3>5 DEF OneResultOf, Unserved, At, Backend, ClaimSteps
      <3>6. CASE Backend # "memory" /\ job'[q].step = "claim_status" /\ record[k] = None
        <4>1. faults[k] = 0 => NoneFinished(k)'
          BY <3>2, <3>3, <3>4, <3>6, NoneFinishedStays DEF Replayable
        <4> QED BY <2>1, <2>3, <3>1, <3>3, <3>6, <4>1 DEF OneResultOf, At
      <3>7. CASE Backend # "memory" /\ job'[q].step = "check" /\ job'[q].seen = Seen(k) /\ record' = record
        <4>1. job'[q].seen = record'[k]
          BY <3>7 DEF Seen, InTurn
        <4>2. faults[k] = 0 /\ ~Replayable(job'[q].seen) => NoneFinished(k)'
          BY <3>2, <3>3, <3>4, <3>7, <4>1, NoneFinishedStays
        <4> QED BY <1>0, <2>1, <2>3, <3>1, <3>3, <3>7, <4>1, <4>2
                DEF OneResultOf, Unserved, At, Backend, ClaimSteps, Replayable
      <3> QED BY <1>1, <3>5, <3>6, <3>7, SendDoes
    <2> QED BY <2>2, <2>3
  (* The one handler at work does a step: what is left to show is what     *)
  (* becomes of it and of the result its key had.                          *)
  <1>step. ASSUME NEW q \in InProgress, NEW k \in Key, k = job[q].key, NEW s, NEW seen, NEW res, Moves(q, s, seen, res),
                  \A l \in Key \ {k} : record'[l] = record[l] /\ faults'[l] = faults[l],
                  faults'[k] = 0 => faults[k] = 0,
                  OneResultOf(q)',
                  faults[k] = 0 => NoneFinished(k) \/ record'[k] = record[k]
           PROVE  OneResultOf(p)'
    <2>1. CASE p # q
      <3>1. p \notin InProgress /\ job'[p] = job[p]
        BY <1>step, <2>1, OthersAtRest DEF Moves
      <3>2. Finished(p) /\ Sent(p) /\ faults'[job[p].key] = 0 =>
                faults[job[p].key] = 0 /\ record'[job[p].key].result = record[job[p].key].result
        BY <1>t, <1>step DEF NoneFinished
      <3> QED BY <1>0, <3>1, <3>2, OneOther
    <2>2. CASE p = q
      BY <1>step, <2>2
    <2> QED BY <2>1, <2>2
  <1>claim. ASSUME NEW q \in Request, job[q].step \in ClaimSteps, NEW k \in Key, k = job[q].key,
                   faults' = faults, NEW s \in {"claim_result", "check"}, Moves(q, s, job[q].seen, None),
                   \A l \in Key \ {k} : record'[l] = record[l]
            PROVE  OneResultOf(p)'
    <2>1. q \in InProgress /\ Sent(q) /\ ~Replayable(job[q].seen)
      BY <1>claim, StepNames DEF JobsOK, JobOK, Sent, ClaimSteps, InProgress, Steps
    <2>2. faults[k] = 0 => NoneFinished(k)
      BY <1>claim, <2>1 DEF OneResult, OneResultOf, Unserved
    <2>3. ~Finished(q)'
      BY <1>claim DEF Finished, Moves
    <2>4. faults[k] = 0 => NoneFinished(k)'
      BY <1>claim, <2>2, <2>3, NoneFinishedStays DEF Moves
    <2>5. ~Replayable(job'[q].seen) /\ job'[q].key = k
      BY <1>claim, <2>1 DEF Moves, Replayable
    <2>6. OneResultOf(q)'
      BY <1>claim, <2>3, <2>4, <2>5 DEF OneResultOf, Replayable
    <2> QED BY <1>claim, <1>step, <2>1, <2>2, <2>6
  <1>2. ASSUME NEW q \in Request, ClaimStatus(q) PROVE OneResultOf(p)'
    <2>1. job[q].step \in ClaimSteps /\ job[q].result = None
      BY <1>2, ClaimStatusDoes, StepNames DEF At, ClaimSteps, JobsOK, JobOK, Sent
    <2> QED BY <1>2, <1>claim, <2>1, ClaimStatusDoes DEF ClaimStatus, Writes
  <1>3. ASSUME NEW q \in Request, ClaimResult(q) PROVE OneResultOf(p)'
    <2>1. job[q].step \in ClaimSteps /\ job[q].result = None
      BY <1>3, ClaimResultDoes, StepNames DEF At, ClaimSteps, JobsOK, JobOK, Sent
    <2> QED BY <1>3, <1>claim, <2>1, ClaimResultDoes DEF ClaimResult, Writes
  <1>4. ASSUME NEW q \in Request, Check(q) PROVE OneResultOf(p)'
    <2>0. PICK k \in Key : k = job[q].key
      BY <1>4, CheckDoes
    <2>1. /\ q \in InProgress /\ Sent(q) /\ At(q, "check") /\ record' = record /\ faults' = faults
      BY <1>4, CheckDoes, StepNames DEF Sent, Check, InProgress, At, Steps
    <2>2. CASE Replayable(Held(q)) /\ Moves(q, "answer", None, Held(q).result)
      <3>1. faults[k] = 0 => record[k].result = Held(q).result
        BY <2>0, <2>1, <2>2 DEF Held, KeyOf, OneResult, OneResultOf
      <3>2. OneResultOf(q)'
        BY <2>0, <2>1, <2>2, <3>1 DEF OneResultOf, Moves, Unserved, At, ClaimSteps, CompleteSteps
      <3> QED BY <1>step, <2>0, <2>1, <2>2, <3>2
    <2>3. CASE ~Replayable(Held(q)) /\ Moves(q, "execute", None, None)
      <3>1. faults[k] = 0 => NoneFinished(k)
        <4>1. CASE Backend = "memory"
          BY <1>kept, <2>0, <2>3, <4>1 DEF NoneFinished, Held, KeyOf
        <4>2. CASE Backend # "memory"
          BY <2>0, <2>1, <2>3, <4>2 DEF OneResult, OneResultOf, Unserved, Held
        <4> QED BY <4>1, <4>2
      <3>2. ~Finished(q)'
        BY <2>3 DEF Finished, Moves
      <3>3. faults[k] = 0 => NoneFinished(k)'
        BY <2>3, <3>1, <3>2, NoneFinishedStays DEF Moves
      <3>4. OneResultOf(q)'
        BY <2>0, <2>1, <2>3, <3>2, <3>3 DEF OneResultOf, Moves, At
      <3> QED BY <1>step, <2>0, <2>1, <2>3, <3>4
    <2> QED BY <1>4, <2>2, <2>3, CheckDoes
  (* A handler that is done, or at its answer, with what it had.           *)
  <1>end. ASSUME NEW q \in InProgress, NEW k \in Key, k = job[q].key, record' = record, faults' = faults,
                 NEW seen, Moves(q, "done", seen, job[q].result),
                 job[q].result = None \/ At(q, "answer")
          PROVE  OneResultOf(p)'
    <2>1. Sent(q)
      BY StepNames DEF InProgress, Sent
    <2>2. faults[k] = 0 /\ job[q].result # None => record[k].result = job[q].result
      BY <1>end, <2>1 DEF OneResult, OneResultOf, Finished, At, InProgress
    <2>3. OneResultOf(q)'
      BY <1>end, <2>2 DEF OneResultOf, Moves, Finished, Unserved, At, ClaimSteps, CompleteSteps
    <2> QED BY <1>end, <1>step, <2>3
  <1>5. ASSUME NEW q \in Request, Reject(q) PROVE OneResultOf(p)'
    <2>1. q \in InProgress /\ job[q].result = None /\ record' = record /\ faults' = faults
      BY <1>5, RejectDoes, StepNames DEF Sent, Reject, JobsOK, JobOK, At, InProgress, Steps
    <2> QED BY <1>5, <1>end, <2>1, RejectDoes
  <1>9. ASSUME NEW q \in Request, Answer(q) PROVE OneResultOf(p)'
    BY <1>9, <1>end, AnswerDoes DEF Answer, InProgress, At, Steps
  <1>10. ASSUME NEW q \in Request, LoseAnswer(q) PROVE OneResultOf(p)'
    BY <1>10, <1>end, LoseAnswerDoes DEF LoseAnswer, InProgress, At, Steps
  (* A handler at work after its check: nobody has finished with its key.  *)
  <1>work. ASSUME NEW q \in InProgress, NEW k \in Key, k = job[q].key, Unserved(q) \/ job[q].step \in CompleteSteps,
                  faults' = faults, \A l \in Key \ {k} : record'[l] = record[l],
                  NEW s \in CompleteSteps, NEW res, Moves(q, s, job[q].seen, res)
           PROVE  OneResultOf(p)'
    <2>1. faults[k] = 0 => NoneFinished(k)
      BY <1>work, StepNames DEF InProgress, Sent, OneResult, OneResultOf
    <2>2. ~Finished(q)'
      BY <1>work DEF Finished, Moves, CompleteSteps
    <2>3. faults[k] = 0 => NoneFinished(k)'
      BY <1>work, <2>1, <2>2, NoneFinishedStays DEF Moves, InProgress
    <2>4. OneResultOf(q)'
      BY <1>work, <2>2, <2>3 DEF OneResultOf, Moves, At, CompleteSteps
    <2> QED BY <1>step, <1>work, <2>1, <2>4
  <1>6. ASSUME NEW q \in Request, Execute(q) PROVE OneResultOf(p)'
    <2>1. q \in InProgress /\ Unserved(q) /\ record' = record /\ faults' = faults
      BY <1>6, ExecuteDoes DEF Execute, InProgress, At, Steps, Unserved
    <2> QED BY <1>6, <1>work, <2>1, ExecuteDoes DEF CompleteSteps
  <1>7. ASSUME NEW q \in Request, CompleteStatus(q) PROVE OneResultOf(p)'
    <2>1. /\ q \in InProgress /\ job[q].step \in CompleteSteps /\ faults' = faults
          /\ \A l \in Key \ {job[q].key} : record'[l] = record[l]
      BY <1>7, CompleteStatusDoes DEF CompleteStatus, Writes, InProgress, At, Steps, CompleteSteps
    <2> QED BY <1>7, <1>work, <2>1, CompleteStatusDoes DEF CompleteSteps
  <1>8. ASSUME NEW q \in Request, CompleteResult(q) PROVE OneResultOf(p)'
    <2>0. PICK k \in Key : k = job[q].key
      BY <1>8, CompleteResultDoes
    <2>1. /\ q \in InProgress /\ Sent(q) /\ At(q, "complete_result") /\ faults' = faults
          /\ Moves(q, "answer", job[q].seen, job[q].result)
          /\ \A l \in Key \ {k} : record'[l] = record[l]
      BY <1>8, <2>0, CompleteResultDoes, StepNames DEF CompleteResult, Writes, InProgress, At, Steps, Sent
    <2>2. faults[k] = 0 => NoneFinished(k)
      BY <2>0, <2>1 DEF OneResult, OneResultOf, At, CompleteSteps
    <2>3. faults[k] = 0 => ~Refused(k)
      BY <2>0, <2>1 DEF FinishedIsKept, Kept, Refused
    <2>4. faults[k] = 0 => record'[k].result = job[q].result
      BY <1>8, <2>0, <2>3, CompleteResultDoes DEF Writes
    <2>5. OneResultOf(q)'
      BY <2>0, <2>1, <2>4 DEF OneResultOf, Moves, Unserved, At, ClaimSteps, CompleteSteps
    <2> QED BY <1>step, <2>0, <2>1, <2>2, <2>5
  <1>struck. ASSUME NEW q \in InProgress, NEW k \in Key, k = job[q].key, Strikes(k), record' = record,
                    NEW s, NEW seen, NEW res, Moves(q, s, seen, res)
             PROVE  OneResultOf(p)'
    <2>1. faults'[k] # 0
      BY <1>struck DEF Strikes, TypeOK
    <2>2. OneResultOf(q)'
      BY <1>struck, <2>1 DEF OneResultOf, Moves
    <2> QED BY <1>step, <1>struck, <2>1, <2>2 DEF Strikes
  <1>11. ASSUME NEW q \in Request, RedisRefuses(q) PROVE OneResultOf(p)'
    BY <1>11, <1>struck, RedisRefusesDoes DEF RedisRefuses
  <1>12. ASSUME NEW q \in Request, HandlerFails(q) PROVE OneResultOf(p)'
    BY <1>12, <1>struck, HandlerFailsDoes DEF HandlerFails, InProgress, At, Steps
  <1>13. ASSUME NEW k \in Key, Expire(k) PROVE OneResultOf(p)'
    <2>1. /\ Strikes(k) /\ job' = job /\ \A l \in Key \ {k} : record'[l] = record[l]
      BY <1>13, ExpireDoes DEF Expire
    <2>2. faults'[k] # 0
      BY <2>1 DEF Strikes, TypeOK
    <2>3. CASE ~Sent(p) \/ job[p].key = k
      BY <2>1, <2>2, <2>3 DEF OneResultOf, Sent
    <2>4. CASE Sent(p) /\ job[p].key # k
      <3>1. NoneFinished(job[p].key)' <=> NoneFinished(job[p].key)
        BY <2>1 DEF NoneFinished, Finished, Sent
      <3>2. record'[job[p].key] = record[job[p].key] /\ faults'[job[p].key] = faults[job[p].key]
        BY <1>t, <2>1, <2>4 DEF Strikes
      <3> QED BY <1>0, <2>1, <3>1, <3>2 DEF OneResult, OneResultOf, Finished, Unserved, At, Backend, Sent, Replayable
    <2> QED BY <2>3, <2>4
  <1>14. ASSUME Crash PROVE OneResultOf(p)'
    <2>1. \A l \in Key : faults[l] \in Nat /\ faults'[l] \in Nat /\ faults'[l] >= faults[l]
      BY <1>14, CrashDoes DEF TypeOK
    <2>2. CASE p \in InProgress
      <3>1. job'[p].step = "done" /\ job'[p].result = None
        BY <1>14, <2>2, CrashDoes
      <3> QED BY <3>1 DEF OneResultOf, Finished, Unserved, At, ClaimSteps, CompleteSteps
    <2>3. CASE p \notin InProgress
      <3>1. job'[p] = job[p]
        BY <1>14, <2>3, CrashDoes
      <3>2. ASSUME Finished(p), Sent(p), faults'[job[p].key] = 0
            PROVE  faults[job[p].key] = 0 /\ record'[job[p].key].result = record[job[p].key].result
        <4>1. job[p].key \in Key /\ faults[job[p].key] = 0
          BY <1>t, <2>1, <3>2
        <4>2. record[job[p].key] # None
          BY <1>kept, <3>2, <4>1 DEF Replayable
        <4>3. record' = record
          BY <1>14, <2>1, <3>2, <4>1, <4>2, CrashDoes
        <4> QED BY <4>1, <4>3
      <3> QED BY <1>0, <2>3, <3>1, <3>2, OneOther
    <2> QED BY <2>2, <2>3
  <1>15. ASSUME UNCHANGED vars PROVE OneResultOf(p)'
    <2>1. Sent(p) => (NoneFinished(job[p].key)' <=> NoneFinished(job[p].key))
      BY <1>15 DEF NoneFinished, Finished, Sent, vars
    <2> QED BY <1>0, <1>15, <2>1 DEF OneResult, OneResultOf, Finished, Unserved, At, Backend, Sent, Replayable, vars
  <1> QED BY <1>1, <1>2, <1>3, <1>4, <1>5, <1>6, <1>7, <1>8, <1>9, <1>10, <1>11, <1>12, <1>13, <1>14, <1>15
          DEF Next, Serve

-----------------------------------------------------------------------------
LEMMA LateStep == ASSUME ServedInv, [Next]_vars PROVE LateFollows'
  <1>0. deployment' = deployment
    BY SameDeployment
  <1> USE DEF ServedInv, BaseInv
  <1>f. \A k \in Key : faults'[k] = 0 => faults[k] = 0
    <2>1. \A k \in Key : Strikes(k) => \A l \in Key : faults'[l] = 0 => faults[l] = 0
      BY DEF Strikes, TypeOK
    <2>2. Crash => \A l \in Key : faults'[l] = 0 => faults[l] = 0
      BY CrashDoes DEF TypeOK
    <2>3. \/ faults' = faults
          \/ \E k \in Key : Expire(k)
          \/ \E q \in Request : RedisRefuses(q) \/ HandlerFails(q)
          \/ Crash
      BY DEF Next, Serve, vars, Send, ClaimStatus, ClaimResult, Check, Reject, Execute, CompleteStatus,
             CompleteResult, Answer, LoseAnswer
    <2> QED BY <2>1, <2>2, <2>3, ExpireDoes, RedisRefusesDoes, HandlerFailsDoes
  (* Who is done stays as it is; who was sent keeps its key.               *)
  <1>done. ASSUME NEW x \in Request, Sent(x)
           PROVE  /\ Sent(x)' /\ job'[x].key = job[x].key
                  /\ At(x, "done") => job'[x] = job[x]
                  /\ ~(\E q \in Request, k \in Key : Send(q, k)) \/ job'[x] = job[x]
    <2>1. ASSUME NEW q \in Request, NEW s, NEW seen, NEW res, Moves(q, s, seen, res), job[q].step # "done"
          PROVE  Sent(x)' /\ job'[x].key = job[x].key /\ (At(x, "done") => job'[x] = job[x])
      BY <1>done, <2>1 DEF Moves, Sent, At
    <2>2. ASSUME NEW q \in Request, Serve(q)
          PROVE  Sent(x)' /\ job'[x].key = job[x].key /\ (At(x, "done") => job'[x] = job[x])
      <3>1. job[q].step # "done"
        BY <2>2 DEF Serve, At, ClaimStatus, ClaimResult, Check, Reject, Execute,
                    CompleteStatus, CompleteResult, Answer, LoseAnswer
      <3> QED BY <2>1, <2>2, <3>1, ClaimStatusDoes, ClaimResultDoes, CheckDoes, RejectDoes, ExecuteDoes,
                 CompleteStatusDoes, CompleteResultDoes, AnswerDoes, LoseAnswerDoes DEF Serve
    <2>3. ASSUME NEW q \in Request, RedisRefuses(q) \/ HandlerFails(q)
          PROVE  Sent(x)' /\ job'[x].key = job[x].key /\ (At(x, "done") => job'[x] = job[x])
      BY <2>1, <2>3, RedisRefusesDoes, HandlerFailsDoes, StepNames DEF InProgress, At
    <2>4. ASSUME NEW k \in Key, Expire(k) PROVE job' = job
      BY <2>4 DEF Expire
    <2>5. ASSUME Crash PROVE Sent(x)' /\ job'[x].key = job[x].key /\ (At(x, "done") => job'[x] = job[x])
      BY <1>done, <2>5, CrashDoes, StepNames DEF InProgress, Sent, At
    <2>6. ASSUME NEW q \in Request, NEW k \in Key, Send(q, k) PROVE job'[x] = job[x]
      BY <1>done, <2>6, SendDoes DEF Sent
    <2>7. ASSUME UNCHANGED vars PROVE job' = job
      BY <2>7 DEF vars
    <2>8. CASE \E q \in Request, k \in Key : Send(q, k)
      BY <1>done, <2>6, <2>8 DEF Sent
    <2>9. CASE ~\E q \in Request, k \in Key : Send(q, k)
      BY <1>done, <2>2, <2>3, <2>4, <2>5, <2>7, <2>9 DEF Next, Sent
    <2> QED BY <2>8, <2>9
  <1> DEFINE Earlier(k) == \E p \in Request : Sent(p) /\ job[p].key = k /\ At(p, "done") /\ job[p].result # None
             Working == {"execute", "complete_status", "complete_result"}
  <1>e. ASSUME NEW k, Earlier(k) PROVE Earlier(k)'
    <2>1. PICK p \in Request : Sent(p) /\ job[p].key = k /\ At(p, "done") /\ job[p].result # None
      BY <1>e
    <2> QED BY <1>done, <2>1 DEF At
  (* Those who were late already ...                                       *)
  <1>1. ASSUME NEW q \in late, q \in Request, Sent(q), NEW k \in Key, k = job[q].key, Earlier(k),
               Backend = "memory", faults[k] = 0, job[q].step \notin Working
        PROVE  job'[q].step \notin Working
    <2>1. Replayable(record[k])
      BY <1>1 DEF FinishedIsKept, Kept, Finished, At
    <2>2. ASSUME NEW x \in Request, x # q, NEW s, NEW seen, NEW res, Moves(x, s, seen, res) PROVE job'[q] = job[q]
      BY <1>1, <2>2 DEF Moves
    <2>3. ASSUME Check(q) PROVE job'[q].step \notin Working
      <3>1. Replayable(Held(q))
        BY <1>1, <2>1 DEF Held, KeyOf
      <3> QED BY <1>1, <2>3, <3>1, CheckDoes DEF Moves
    <2>4. ASSUME Serve(q) PROVE job'[q].step \notin Working
      <3>1. Check(q) \/ Answer(q) \/ LoseAnswer(q)
        BY <1>1, <2>4 DEF Serve, At, ClaimStatus, ClaimResult, Reject, Execute, CompleteStatus, CompleteResult,
                          JobsOK, JobOK, ClaimSteps
      <3> QED BY <1>1, <2>3, <3>1, AnswerDoes, LoseAnswerDoes DEF Moves
    <2>5. ASSUME NEW x \in Request, x # q, Serve(x) PROVE job'[q] = job[q]
      BY <2>2, <2>5, ClaimStatusDoes, ClaimResultDoes, CheckDoes, RejectDoes, ExecuteDoes,
         CompleteStatusDoes, CompleteResultDoes, AnswerDoes, LoseAnswerDoes DEF Serve
    <2>6. ASSUME NEW x \in Request, RedisRefuses(x) \/ HandlerFails(x) PROVE job'[q].step \notin Working
      <3>1. HandlerFails(x) /\ x # q
        BY <1>1, <2>6 DEF RedisRefuses, HandlerFails, At
      <3> QED BY <1>1, <2>2, <3>1, HandlerFailsDoes
    <2>7. ASSUME Crash PROVE job'[q].step \notin Working
      BY <1>1, <2>7, CrashDoes
    <2>8. ASSUME NEW x \in Request, NEW l \in Key, Send(x, l) PROVE job'[q] = job[q]
      BY <1>1, <1>done, <2>8
    <2>9. ASSUME NEW l \in Key, Expire(l) PROVE job'[q] = job[q]
      BY <2>9 DEF Expire
    <2>10. ASSUME UNCHANGED vars PROVE job'[q] = job[q]
      BY <2>10 DEF vars
    <2> QED BY <1>1, <2>4, <2>5, <2>6, <2>7, <2>8, <2>9, <2>10 DEF Next
  <1>2. ASSUME NEW q \in late, q \in Request
        PROVE  /\ Sent(q)' /\ Earlier(job[q].key)'
               /\ Backend' = "memory" /\ faults'[job'[q].key] = 0 => job'[q].step \notin Working
    <2>1. Sent(q)
      BY <1>2 DEF LateFollows
    <2>2. PICK k \in Key : k = job[q].key
      BY <2>1 DEF TypeOK, Sent, AnyJob
    <2>3. Earlier(k)
      BY <1>2, <2>2 DEF LateFollows
    <2>4. Earlier(k)' /\ job'[q].key = k /\ Sent(q)'
      BY <1>2, <1>e, <1>done, <2>1, <2>2, <2>3
    <2>5. Backend = "memory" /\ faults'[k] = 0 => job'[q].step \notin Working
      BY <1>2, <1>1, <1>f, <2>1, <2>2, <2>3 DEF LateFollows
    <2> QED BY <1>0, <2>2, <2>4, <2>5 DEF Backend
  (* ... and the one that has just been sent.                              *)
  <1>3. ASSUME NEW q \in late', q \notin late
        PROVE  q \in Request /\ Sent(q)' /\ Earlier(job[q].key)' /\ job'[q].step \notin Working
    <2>1. PICK x \in Request, k \in Key : Send(x, k)
      BY <1>3 DEF Next, Serve, vars, ClaimStatus, ClaimResult, Check, Reject, Execute, CompleteStatus,
                  CompleteResult, Answer, LoseAnswer, Expire, RedisRefuses, HandlerFails, Crash
    <2>2. q = x /\ \E p \in Request : KeyOf(p) = k /\ At(p, "done") /\ job[p].result # None
      BY <1>3, <2>1 DEF Send
    <2>3. Earlier(k)
      BY <2>2, JobType DEF KeyOf, At
    <2>4. Earlier(k)'
      BY <1>e, <2>3
    <2>5. job'[q].key = k /\ job'[q] \in AnyJob /\ job'[q].step \in {"check", "claim_status"}
      BY <2>1, <2>2, SendDoes
    <2> QED BY <2>2, <2>4, <2>5, StepNames DEF Sent
  <1>4. late \subseteq Request
    BY DEF TypeOK
  <1> QED BY <1>2, <1>3, <1>4 DEF LateFollows

LEMMA ServedInit == Init => ServedInv
  <1> SUFFICES ASSUME Init PROVE ServedInv
    OBVIOUS
  <1>1. late = {} /\ \A q \in Request : ~Sent(q)
    BY DEF Init, Sent
  <1> QED BY <1>1, InitBase DEF ServedInv, FinishedIsKept, OneResult, OneResultOf, LateFollows

(* A request that was sent after another with its key had finished, with   *)
(* no fault in between, is not executed again, and in turn it is sent what *)
(* the earlier one had to answer (get_or_begin and the replay of           *)
(* create_agent_run).                                                      *)
THEOREM LateRetries == Spec => []LateRetryReplays
  <1>1. ServedInv /\ [Next]_vars => ServedInv'
    BY BaseStep, KeptStep, OneStep, LateStep DEF ServedInv
  <1>2. ServedInv => LateRetryReplays
    <2> SUFFICES ASSUME ServedInv, NEW q \in late, faults[KeyOf(q)] = 0
                 PROVE  /\ InTurn \/ Backend = "memory" =>
                               job[q].step \notin {"execute", "complete_status", "complete_result"}
                        /\ InTurn /\ answer[q] # None =>
                               \A p \in Request : KeyOf(p) = KeyOf(q) /\ At(p, "done") /\ job[p].result # None =>
                                   answer[q] = job[p].result
      BY DEF LateRetryReplays, InTurn
    <2> USE DEF ServedInv, BaseInv
    <2>1. q \in Request /\ Sent(q)
      BY DEF TypeOK, LateFollows
    <2>2. InTurn => job[q].step \notin {"execute", "complete_status", "complete_result"}
      <3>1. PICK p \in Request : Sent(p) /\ job[p].key = job[q].key /\ At(p, "done") /\ job[p].result # None
        BY DEF LateFollows
      <3>2. Finished(p)
        BY <3>1 DEF Finished, At
      <3>3. InTurn => ~Unserved(q) /\ job[q].step \notin CompleteSteps
        BY <2>1, <3>1, <3>2 DEF OneResult, OneResultOf, NoneFinished, KeyOf
      <3> QED BY <3>3 DEF Unserved, CompleteSteps
    <2>3. Backend = "memory" => job[q].step \notin {"execute", "complete_status", "complete_result"}
      BY DEF LateFollows, KeyOf
    <2>4. ASSUME InTurn, answer[q] # None, NEW p \in Request, KeyOf(p) = KeyOf(q), At(p, "done"), job[p].result # None
          PROVE  answer[q] = job[p].result
      <3>1. Sent(p) /\ Finished(p)
        BY <2>4, JobType DEF Finished, At
      <3>2. At(q, "done") /\ answer[q] = job[q].result
        BY <2>1, <2>4 DEF JobsOK, JobOK
      <3>3. Finished(q)
        BY <2>4, <3>2 DEF Finished, At
      <3>4. record[job[q].key].result = job[q].result /\ record[job[q].key].result = job[p].result
        BY <2>1, <2>4, <3>1, <3>3 DEF OneResult, OneResultOf, KeyOf
      <3> QED BY <3>2, <3>4
    <2> QED BY <2>2, <2>3, <2>4
  <1> QED BY <1>1, <1>2, ServedInit, PTL DEF Spec
=============================================================================
