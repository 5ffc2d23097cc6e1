--------------------------- MODULE IncidentPipeline ---------------------------
(***************************************************************************)
(* The rca-agent: incidents are built from alarms, a run writes a report   *)
(* about an incident, an expert reviews the report (and may ask for more   *)
(* evidence), an accepted report yields candidate knowledge, a reviewed    *)
(* candidate is imported into the knowledge-api, and a report is written   *)
(* back to a ticket.  Handlers run in threads without a lock around the    *)
(* objects in memory.  SQLite keeps what the handlers save and is read     *)
(* back by a restart; Postgres keeps all but candidates and is not read    *)
(* back.                                                                   *)
(***************************************************************************)
EXTENDS AlarmConvergence

CONSTANTS Handler, Hypothesis, Agents

Kinds == {"build", "run", "review", "resume", "decide", "import", "post"}

(* requests: what a request to build an incident may hold.  Bounds: limit, *)
(* the handlers started per kind, and stops.                               *)
ASSUME AgentsAssumption ==
    \A d \in Agents : /\ d.store \in {"sqlite", "postgres"} /\ d.threads \subseteq Handler
                      /\ d.limit \in [Kinds -> Nat] /\ d.stops \in Nat
ASSUME HandlersAssumption == IsFiniteSet(Handler)

(* A request has alarms, and convergence makes a list of groups of them.   *)
ASSUME ConvergeAssumption ==
    \A d \in Agents : \A request \in d.requests :
        LET groups == Converge(request.alarms, request)
        IN  groups \in Seq(Range(groups)) /\ groups # << >>

VARIABLES agent,
          mem,       \* the objects in memory, by kind and number
          count,     \* the counters ids are made from
          disk,      \* the rows, by kind and number
          work,      \* what each handler is at
          started,   \* handlers started, by kind
          stops,
          library,   \* documents imported into the knowledge-api, in order
          comments,  \* posted to tickets in this life of the process
          audit,     \* records of write-back attempts
          input,     \* what the incidents in memory were built from
          grounds    \* accepted causes and approvals, as given by the experts

agentVars == <<agent, mem, count, disk, work, started, stops, library, comments, audit, input, grounds>>

Sqlite == agent.store = "sqlite"
NoWork == [at |-> "free"]
Empty == [incident |-> << >>, run |-> << >>, report |-> << >>, candidate |-> << >>]
Zero == [incident |-> 0, run |-> 0, report |-> 0, candidate |-> 0]

AgentInit ==
    /\ agent \in Agents
    /\ mem = Empty /\ count = Zero /\ disk = Empty
    /\ work = [w \in Handler |-> NoWork]
    /\ started = [k \in Kinds |-> 0]
    /\ stops = 0
    /\ library = << >> /\ comments = 0 /\ audit = << >>
    /\ input = << >>
    /\ grounds = [causes |-> {}, approvals |-> {}]

(* Objects are stored under their number and replace what is there.        *)
With(rows, id, object) == [i \in DOMAIN rows \cup {id} |-> IF i = id THEN object ELSE rows[i]]
Put(objects, kind, id, object) == [objects EXCEPT ![kind] = With(objects[kind], id, object)]
Save(kind, id, object) == disk' = Put(disk, kind, id, object)
SaveOnce(id, object) ==   \* mutant: an inserted candidate is not updated
    IF Sqlite /\ id \notin DOMAIN disk.candidate THEN disk' = Put(disk, "candidate", id, object) ELSE UNCHANGED disk
SaveCandidate(id, object) ==
    IF Sqlite THEN disk' = Put(disk, "candidate", id, object) ELSE UNCHANGED disk

Start(w, kind, handler) ==
    /\ w \in agent.threads /\ work[w] = NoWork
    /\ started[kind] < agent.limit[kind]
    /\ started' = [started EXCEPT ![kind] = @ + 1]
    /\ work' = [work EXCEPT ![w] = handler]
GoesOn(w, handler) == work' = [work EXCEPT ![w] = handler]
Leaves(w) == work' = [work EXCEPT ![w] = NoWork]

-----------------------------------------------------------------------------
(* POST incidents/build: the groups are computed and numbered, then kept   *)
(* and saved one after the other.                                          *)
Build(w) ==
    \E request \in agent.requests :
        /\ Start(w, "build", [at |-> "keep", request |-> request, next |-> count.incident + 1,
                              first |-> count.incident + 1,
                              groups |-> Converge(request.alarms, request)])
        /\ count' = [count EXCEPT !.incident = @ + Len(work'[w].groups)]
        /\ UNCHANGED <<agent, mem, disk, stops, library, comments, audit, input, grounds>>

KeepIncident(w) ==
    LET j == work[w]
        incident == [alarms |-> Head(j.groups), primary |-> PrimaryAlarm(Head(j.groups))]
    IN  /\ j.at = "keep"
        /\ mem' = Put(mem, "incident", j.next, incident)
        /\ Save("incident", j.next, incident)
        /\ IF Len(j.groups) > 1
           THEN GoesOn(w, [j EXCEPT !.groups = Tail(@), !.next = @ + 1]) /\ UNCHANGED input
           ELSE /\ Leaves(w)
                /\ input' = Append(input, [request |-> j.request, from |-> j.first, to |-> j.next])
        /\ UNCHANGED <<agent, count, started, stops, library, comments, audit, grounds>>

(* POST rca/runs for an incident in memory: both counters grow, evidence   *)
(* is collected, they grow again, and the second values name the run and   *)
(* its report.                                                             *)
StartRun(w) ==
    \E i \in DOMAIN mem.incident, attended \in BOOLEAN :
        /\ Start(w, "run", [at |-> "evidence", incident |-> i, attended |-> attended])
        /\ count' = [count EXCEPT !.run = @ + 1, !.report = @ + 1]
        /\ UNCHANGED <<agent, mem, disk, stops, library, comments, audit, input, grounds>>

CollectEvidence(w) ==
    /\ work[w].at = "evidence"
    /\ count' = [count EXCEPT !.run = @ + 1, !.report = @ + 1]
    /\ GoesOn(w, [work[w] EXCEPT !.at = "keep_run"])
    /\ UNCHANGED <<agent, mem, disk, started, stops, library, comments, audit, input, grounds>>

KeepRun(w) ==
    LET j == work[w]
        run == [incident |-> j.incident, report |-> count.report,
                status |-> IF j.attended THEN "waiting_review" ELSE "accepted"]
        report == [incident |-> j.incident, run |-> count.run, cause |-> FALSE, extra |-> 0,
                   review |-> IF j.attended THEN "pending" ELSE "accepted"]
    IN  /\ j.at = "keep_run"
        /\ mem' = Put(Put(mem, "run", count.run, run), "report", count.report, report)
        /\ Save("run", count.run, run)
        /\ GoesOn(w, [at |-> "save_report", id |-> count.report, report |-> report, todo |-> {}])
        /\ UNCHANGED <<agent, count, started, stops, library, comments, audit, input, grounds>>

(* The second row of a handler that changes a run and its report; then the *)
(* candidates of a report that was accepted with a cause.                  *)
SaveReport(w) ==
    LET j == work[w]
    IN  /\ j.at = "save_report"
        /\ Save("report", j.id, j.report)
        /\ IF j.todo = {} THEN Leaves(w) ELSE GoesOn(w, [j EXCEPT !.at = "generate"])
        /\ UNCHANGED <<agent, mem, count, started, stops, library, comments, audit, input, grounds>>

(* One candidate for each hypothesis of a report accepted with a cause.    *)
CandidatesOf(report) ==
    IF report.review = "accepted" /\ report.cause THEN Hypothesis ELSE {}

(* POST reports/{id}/review, whatever the report's review said before.     *)
Decisions == {"accepted", "rejected", "need_more_evidence"}

ReviewReport(w) ==
    \E id \in DOMAIN mem.report, decision \in Decisions, cause \in BOOLEAN :
        LET report == [mem.report[id] EXCEPT !.review = decision, !.cause = cause]
            known == report.run \in DOMAIN mem.run
            run == [mem.run[report.run] EXCEPT !.status = decision]
            todo == IF report.incident \in DOMAIN mem.incident THEN CandidatesOf(report) ELSE {}
        IN  /\ Start(w, "review", [at |-> "save_report", id |-> id, report |-> report, todo |-> todo])
            /\ IF known
               THEN /\ mem' = Put(Put(mem, "report", id, report), "run", report.run, run)
                    /\ Save("run", report.run, run)
               ELSE mem' = Put(mem, "report", id, report) /\ UNCHANGED disk
            /\ grounds' = IF todo # {} THEN [grounds EXCEPT !.causes = @ \cup {id}] ELSE grounds
            /\ UNCHANGED <<agent, count, stops, library, comments, audit, input>>

(* The next candidate is numbered, kept and saved.                         *)
GenerateCandidate(w) ==
    /\ work[w].at = "generate"
    /\ \E h \in work[w].todo :
        LET j == work[w]
            id == count.candidate + 1
            candidate == [report |-> j.id, hypothesis |-> h, review |-> "pending", doc |-> 0]
        IN  /\ count' = [count EXCEPT !.candidate = id]
            /\ mem' = Put(mem, "candidate", id, candidate)
            /\ SaveCandidate(id, candidate)
            /\ IF j.todo = {h} THEN Leaves(w) ELSE GoesOn(w, [j EXCEPT !.todo = @ \ {h}])
            /\ UNCHANGED <<agent, started, stops, library, comments, audit, input, grounds>>

(* POST runs/{id}/resume: one more piece of evidence, and another review.  *)
Resumable(run) == run.status = "need_more_evidence"

ResumeWithMoreEvidence(w) ==
    \E id \in DOMAIN mem.run :
        LET run == [mem.run[id] EXCEPT !.status = "waiting_review"]
            report == [mem.report[run.report] EXCEPT !.review = "pending", !.cause = FALSE,
                                                     !.extra = @ + 1]
        IN  /\ Resumable(mem.run[id])
            /\ run.report \in DOMAIN mem.report
            /\ Start(w, "resume", [at |-> "save_report", id |-> run.report, report |-> report, todo |-> {}])
            /\ mem' = Put(Put(mem, "run", id, run), "report", run.report, report)
            /\ Save("run", id, run)
            /\ UNCHANGED <<agent, count, stops, library, comments, audit, input, grounds>>

-----------------------------------------------------------------------------
(* POST candidate-knowledge/{id}/review: refused unless pending.           *)
DecideCandidate(w) ==
    \E id \in DOMAIN mem.candidate, decision \in {"approved", "rejected"} :
        /\ mem.candidate[id].review = "pending"
        /\ Start(w, "decide", [at |-> "decide", id |-> id,
                               candidate |-> [mem.candidate[id] EXCEPT !.review = decision]])
        /\ UNCHANGED <<agent, mem, count, disk, stops, library, comments, audit, input, grounds>>

KeepDecision(w) ==
    LET j == work[w]
    IN  /\ j.at = "decide"
        /\ mem' = Put(mem, "candidate", j.id, j.candidate)
        /\ SaveCandidate(j.id, j.candidate)
        /\ Leaves(w)
        /\ grounds' = IF j.candidate.review = "approved"
                      THEN [grounds EXCEPT !.approvals = @ \cup {<<j.candidate.report, j.candidate.hypothesis>>}]
                      ELSE grounds
        /\ UNCHANGED <<agent, count, started, stops, library, comments, audit, input>>

(* POST candidate-knowledge/{id}/import: refused unless approved, and when *)
(* a document is recorded; the knowledge-api is called with the candidate  *)
(* read at the start, and the document it names is recorded after.         *)
ImportableAgain(candidate) == candidate.review = "approved"   \* mutant: imports what was imported
Importable(candidate) == candidate.review = "approved" /\ candidate.doc = 0

ImportCandidate(w) ==
    \E id \in DOMAIN mem.candidate :
        /\ Importable(mem.candidate[id])
        /\ Start(w, "import", [at |-> "call", id |-> id, candidate |-> mem.candidate[id]])
        /\ UNCHANGED <<agent, mem, count, disk, stops, library, comments, audit, input, grounds>>

CallKnowledgeApi(w) ==
    LET j == work[w]
        Stored(lost) == Append(library, [report |-> j.candidate.report,
                                         hypothesis |-> j.candidate.hypothesis, lost |-> lost])
    IN  /\ j.at = "call"
        /\ \/ /\ library' = Stored(FALSE)
              /\ GoesOn(w, [at |-> "imported", id |-> j.id,
                            candidate |-> [j.candidate EXCEPT !.doc = Len(library) + 1]])
           \/ library' = Stored(TRUE) /\ Leaves(w)   \* stored, but the answer timed out: 503
           \/ UNCHANGED library /\ Leaves(w)   \* not reached, 503, or refused, 502
        /\ UNCHANGED <<agent, mem, count, disk, started, stops, comments, audit, input, grounds>>

KeepImport(w) ==
    /\ work[w].at = "imported"
    /\ mem' = Put(mem, "candidate", work[w].id, work[w].candidate)
    /\ SaveCandidate(work[w].id, work[w].candidate)
    /\ Leaves(w)
    /\ UNCHANGED <<agent, count, started, stops, library, comments, audit, input, grounds>>

-----------------------------------------------------------------------------
(* POST tickets/{id}/rca-summary: the post, then its record.               *)
PostOutcomes == {"success", "unanswered", "failed"}

PostSummary(w) ==
    \E id \in DOMAIN mem.report, outcome \in PostOutcomes :
        /\ Start(w, "post", [at |-> "record", status |-> IF outcome = "success" THEN "success" ELSE "failed",
                             posted |-> outcome # "failed"])
        /\ comments' = IF outcome # "failed" THEN comments + 1 ELSE comments
        /\ UNCHANGED <<agent, mem, count, disk, stops, library, audit, input, grounds>>

RecordWriteback(w) ==
    /\ work[w].at = "record"
    /\ audit' = Append(audit, work[w].status)
    /\ Leaves(w)
    /\ UNCHANGED <<agent, mem, count, disk, started, stops, library, comments, input, grounds>>

-----------------------------------------------------------------------------
(* The process is stopped, between any two steps, and started anew: the    *)
(* counters go on after the largest number read back.                      *)
Largest(objects) == IF objects = << >> THEN 0 ELSE Max(DOMAIN objects)
SyncRuns == [Zero EXCEPT !.run = Largest(disk.run)]   \* mutant: run ids only
SyncCounters == [k \in DOMAIN count |-> Largest(disk[k])]

Reloaded == IF Sqlite THEN disk ELSE Empty

RestartAgent ==
    /\ stops < agent.stops /\ stops' = stops + 1
    /\ mem' = Reloaded
    /\ count' = IF Sqlite THEN SyncCounters ELSE Zero
    /\ work' = [w \in Handler |-> NoWork]
    /\ comments' = 0 /\ audit' = << >> /\ input' = << >>
    /\ UNCHANGED <<agent, disk, started, library, grounds>>

AgentNext ==
    \/ \E w \in Handler :
          \/ Build(w) \/ KeepIncident(w)
          \/ StartRun(w) \/ CollectEvidence(w) \/ KeepRun(w) \/ SaveReport(w)
          \/ ReviewReport(w) \/ GenerateCandidate(w) \/ ResumeWithMoreEvidence(w)
          \/ DecideCandidate(w) \/ KeepDecision(w)
          \/ ImportCandidate(w) \/ CallKnowledgeApi(w) \/ KeepImport(w)
          \/ PostSummary(w) \/ RecordWriteback(w)
    \/ RestartAgent

AgentSpec == AgentInit /\ [][AgentNext]_agentVars

-----------------------------------------------------------------------------

Settled == \A w \in Handler : work[w] = NoWork
OneHandler == Cardinality(agent.threads) = 1

(* The incidents of a request hold every alarm of it once, up to repeated  *)
(* fingerprints; the merges bring a group to one it is linked with and     *)
(* join no others (runtime.py, build_incident).  Circular declarations are *)
(* excepted: the code leaves them apart, or swaps them.                    *)
IncidentsFollowLinks ==
    \A n \in DOMAIN input :
        LET request == input[n].request
            incidents == [i \in 1 .. input[n].to - input[n].from + 1 |->
                              mem.incident[input[n].from + i - 1].alarms]
            groups == Survivors(request.alarms, request)
            families == MergeParentChild(groups, request.lag)
        IN  OneHandler =>
            /\ Partitions(incidents, request.alarms)
            /\ request.lag > 0 => FollowsLinks(groups, families,
                                               LAMBDA g, h : ParentLink(g, h, request.lag))
            /\ request.topology > 0 => FollowsLinks(families, incidents,
                                                    LAMBDA g, h : UpstreamLink(g, h, request))

(* A document in the knowledge base was approved by an expert, and comes   *)
(* from a report an expert accepted with a cause; with one handler at a    *)
(* time, and no restart or lost answer in between, a candidate is imported *)
(* once (app.py, review_report to import_candidate).                       *)
KnowledgeIsEarned ==
    /\ \A n \in DOMAIN library : /\ library[n].report \in grounds.causes
                                 /\ <<library[n].report, library[n].hypothesis>> \in grounds.approvals
    /\ OneHandler /\ stops = 0 /\ started.review < 2 =>
           \A m, n \in DOMAIN library : library[m] = library[n] /\ ~library[m].lost => m = n

(* With one handler at a time on SQLite, what is in memory between two     *)
(* requests is what a restart would read back, and the run of a report     *)
(* tells its review (store.py, load; app.py, review_report).               *)
Told(status, review) == status = (IF review = "pending" THEN "waiting_review" ELSE review)
DiskKeepsUp ==
    Settled /\ OneHandler /\ Sqlite =>
        /\ mem = disk
        /\ stops = 0 => \A id \in DOMAIN mem.report :
                            Told(mem.run[mem.report[id].run].status, mem.report[id].review)

(* On SQLite and with one handler at a time, a row of an incident, a run   *)
(* or a report is not taken over by another one, whatever is stopped       *)
(* (store.py, _sync_counters).                                             *)
Owner(row) == IF "alarms" \in DOMAIN row THEN row.alarms ELSE <<row.incident>>
RowsKeepTheirOwner ==
    [][Sqlite /\ OneHandler =>
          /\ \A k \in {"incident", "run", "report"} : \A id \in DOMAIN disk[k] :
                 Owner(disk'[k][id]) = Owner(disk[k][id])
          /\ \A id \in DOMAIN disk.candidate :
                 /\ disk'.candidate[id].report = disk.candidate[id].report
                 /\ disk.candidate[id].review # "pending" =>
                        disk'.candidate[id].review = disk.candidate[id].review]_agentVars
=============================================================================
