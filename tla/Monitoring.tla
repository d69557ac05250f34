---------------------------- MODULE Monitoring ----------------------------
(***************************************************************************)
(* The vendor inventory and continuous monitoring as one process runs      *)
(* them: the scheduler of app/monitoring/scheduler.py, the ad-hoc          *)
(* detection jobs and the inventory and monitoring endpoints of            *)
(* app/detector_routes.py, over the tables of MonitoringStore.             *)
(*                                                                         *)
(* Everything runs on one asyncio event loop.  A coroutine keeps the loop  *)
(* from one await to the next, so `loop` names the coroutine that is in    *)
(* the middle of such a stretch, and nothing else moves until it awaits or *)
(* ends.  A handler that never awaits between its store calls is a single  *)
(* action.  The stretches of the scheduler and of a job are split at their *)
(* store calls, because each call commits on its own: the process may die, *)
(* or the next call may raise, with only some of them done.                *)
(***************************************************************************)
EXTENDS MonitoringStore

CONSTANTS
    RunConcurrency, \* MONITOR_RUN_CONCURRENCY
    InputLists,     \* vendor lists of POST /api/detect: a domain, or Unknown
    MaxTime,        \* bound on the clock
    MaxEdits,       \* bound on the requests that change state
    MaxFaults       \* bound on restarts and failing store calls

ASSUME MonitoringAssumption ==
    /\ RunConcurrency \in Nat \ {0}
    /\ InputLists \subseteq Seq(Domains \cup {Unknown}) \ {<<>>}
    /\ Jobs \cap VendorIds = {}
    /\ "free" \notin Jobs \cup VendorIds
    /\ MaxTime \in Nat /\ MaxEdits \in Nat /\ MaxFaults \in Nat

VARIABLES
    runs,     \* runs[v]: the scheduler's coroutine for vendor v
    jobs,     \* _detect_jobs and the coroutine of each job
    loop,     \* the coroutine holding the event loop, or Free
    edits,    \* requests served so far
    faults,   \* restarts and store errors so far
    held,     \* history: the domains each vendor has had
    accepted  \* history: the alerts whose webhook answered 2xx

vars == <<store, now, runs, jobs, loop, edits, faults, held, accepted>>

Free == "free"

Result == [detector : Detectors, score : Scores \cup {NoScore}, failed : BOOLEAN]

\* What detector d may return: a Scored detector a score or an error, another
\* no score, its error field set or not.
Outcomes(d) ==
    IF d \in Scored
    THEN {[detector |-> d, score |-> s, failed |-> s = NoScore] : s \in Scores \cup {NoScore}}
    ELSE {[detector |-> d, score |-> NoScore, failed |-> f] : f \in BOOLEAN}

\* What run_detectors_for_vendor may return for a list of types: one result
\* per type, in the order of the list.
ResultLists(types) ==
    LET asked == {types[i] : i \in DOMAIN types}
        picks == {f \in [asked -> UNION {Outcomes(d) : d \in asked}] :
                     \A d \in asked : f[d] \in Outcomes(d)}
    IN {[i \in DOMAIN types |-> f[types[i]]] : f \in picks}

-----------------------------------------------------------------------------
(* The coroutines' own state.                                              *)

IdleRun == [phase |-> "idle", cfg |-> NoConfig, domain |-> Unknown, results |-> <<>>,
            prev |-> NoScore, alert |-> 0]

RunPhases == {"idle", "queued", "scanning", "recording", "alerting", "posting", "posted", "refused"}

NoJob == [phase |-> "none", inputs |-> <<>>, types |-> <<>>, doms |-> <<>>, ids |-> <<>>,
          results |-> <<>>, at |-> 1, todo |-> <<>>]

JobRunning == {"queued", "resolving", "scanning", "recording"}

JobPhases == JobRunning \cup {"none", "complete", "failed", "lost"}

\* vendor_ids_by_domain: a later vendor of the list with the same domain
\* overwrites an earlier one.
IdOf(job, d) ==
    job.ids[CHOOSE i \in DOMAIN job.doms :
                /\ job.doms[i] = d
                /\ \A k \in DOMAIN job.doms : job.doms[k] = d => k <= i]

Active == {v \in VendorIds : runs[v].phase \notin {"idle", "queued"}}

Init ==
    /\ StoreInit
    /\ runs = [v \in VendorIds |-> IdleRun]
    /\ jobs = [j \in Jobs |-> NoJob]
    /\ loop = Free
    /\ edits = 0 /\ faults = 0
    /\ held = [v \in VendorIds |-> {}]
    /\ accepted = {}

-----------------------------------------------------------------------------
(* The scheduler.                                                          *)

\* _scheduler_tick: one coroutine per due configuration, each with the
\* configuration it had at this moment.  gather waits for all of them, so
\* the next tick finds none left.
SchedulerTick ==
    /\ loop = Free
    /\ \A v \in VendorIds : runs[v].phase = "idle"
    /\ \E v \in VendorIds : Due(v)
    /\ runs' = [v \in VendorIds |->
                  IF Due(v) THEN [IdleRun EXCEPT !.phase = "queued", !.cfg = configs[v]]
                            ELSE IdleRun]
    /\ UNCHANGED <<store, now, jobs, loop, edits, faults, held, accepted>>

\* async with semaphore
SlotFree == Cardinality(Active) < RunConcurrency

\* _run_one_monitored_vendor up to its first await: the vendor may be gone.
StartRun(v) ==
    /\ loop = Free
    /\ runs[v].phase = "queued"
    /\ SlotFree
    /\ runs' = [runs EXCEPT ![v] =
                  IF Exists(v) THEN [@ EXCEPT !.phase = "scanning", !.domain = vendors[v]]
                               ELSE IdleRun]
    /\ UNCHANGED <<store, now, jobs, loop, edits, faults, held, accepted>>

\* run_detectors_for_vendor returned, or raised: then only the run is marked,
\* which is what an empty list of results leads to.
ScanDone(v) ==
    /\ loop = Free
    /\ runs[v].phase = "scanning"
    /\ \E rs \in ResultLists(runs[v].cfg.types) \cup {<<>>} :
          runs' = [runs EXCEPT ![v] = [@ EXCEPT !.phase = "recording", !.results = rs]]
    /\ loop' = v
    /\ UNCHANGED <<store, now, jobs, edits, faults, held, accepted>>

\* a threshold that must be exceeded, not reached
DropMustExceed(prev, new, floor) == prev # NoScore /\ new # NoScore /\ prev - new > floor

\* "if drop >= config[alert_threshold_points]", both scores being there
DropAlerts(prev, new, floor) == prev # NoScore /\ new # NoScore /\ prev - new >= floor

\* previous = store.get_latest_score(...)
Previous(v, d) == Latest(v, d)

\* The run goes on to the next result of its list.
NextResult(run) ==
    [run EXCEPT !.phase = "recording", !.results = Tail(run.results), !.prev = NoScore, !.alert = 0]

\* get_latest_score, then record_score; the drop decides what comes next.
RecordResult(v) ==
    /\ loop = v
    /\ runs[v].phase = "recording" /\ runs[v].results # <<>>
    /\ LET run == runs[v]
           r == Head(run.results)
           prev == Previous(v, r.detector)
       IN /\ history' = RecordScore(v, r.detector,
                            [score |-> r.score, domain |-> run.domain,
                             src |-> Scheduler, floor |-> run.cfg.threshold])
          /\ runs' = [runs EXCEPT ![v] =
                        IF DropAlerts(prev, r.score, run.cfg.threshold)
                        THEN [run EXCEPT !.phase = "alerting", !.prev = prev]
                        ELSE NextResult(run)]
    /\ UNCHANGED <<vendors, configs, alerts, alertSeq, now, jobs, loop, edits, faults, held, accepted>>

\* record_alert; with a webhook, send_webhook_alert is awaited.
RaiseAlert(v) ==
    /\ loop = v
    /\ runs[v].phase = "alerting"
    /\ LET run == runs[v]
           r == Head(run.results)
       IN /\ alerts' = RecordAlert(v, r.detector, run.prev, r.score, run.cfg.threshold,
                                   run.cfg.webhook)
          /\ runs' = [runs EXCEPT ![v] =
                        IF run.cfg.webhook
                        THEN [run EXCEPT !.phase = "posting", !.alert = alertSeq + 1]
                        ELSE NextResult(run)]
          /\ loop' = IF run.cfg.webhook THEN Free ELSE loop
    /\ alertSeq' = alertSeq + 1
    /\ UNCHANGED <<vendors, configs, history, now, jobs, edits, faults, held, accepted>>

\* The POST was answered 2xx, or was not: send_webhook_alert never raises.
WebhookAnswered(v) ==
    /\ loop = Free
    /\ runs[v].phase = "posting"
    /\ \E ok \in BOOLEAN :
          /\ runs' = [runs EXCEPT ![v].phase = IF ok THEN "posted" ELSE "refused"]
          /\ accepted' = IF ok THEN accepted \cup {runs[v].alert} ELSE accepted
    /\ loop' = v
    /\ UNCHANGED <<store, now, jobs, edits, faults, held>>

\* mark_alert_delivered, then on to the next result
MarkDelivery(v) ==
    /\ loop = v
    /\ runs[v].phase \in {"posted", "refused"}
    /\ alerts' = MarkAlert(runs[v].alert, runs[v].phase = "posted")
    /\ runs' = [runs EXCEPT ![v] = NextResult(runs[v])]
    /\ UNCHANGED <<vendors, configs, history, alertSeq, now, jobs, loop, edits, faults, held, accepted>>

\* mark_monitor_run with the frequency the tick read
FinishRun(v) ==
    /\ loop = v
    /\ runs[v].phase = "recording" /\ runs[v].results = <<>>
    /\ configs' = MarkRun(v, runs[v].cfg.freq)
    /\ runs' = [runs EXCEPT ![v] = IdleRun]
    /\ loop' = Free
    /\ UNCHANGED <<vendors, history, alerts, alertSeq, now, jobs, edits, faults, held, accepted>>

\* A store call raises (the database is locked or full): _bounded swallows
\* the exception and the run is over, not marked.
RunFails(v) ==
    /\ \/ loop = v /\ runs[v].phase # "idle"
       \/ loop = Free /\ runs[v].phase = "queued" /\ SlotFree
    /\ faults < MaxFaults
    /\ faults' = faults + 1
    /\ runs' = [runs EXCEPT ![v] = IdleRun]
    /\ loop' = Free
    /\ UNCHANGED <<store, now, jobs, edits, held, accepted>>

RunStep(v) ==
    \/ StartRun(v) \/ ScanDone(v) \/ RecordResult(v) \/ RaiseAlert(v)
    \/ WebhookAnswered(v) \/ MarkDelivery(v) \/ FinishRun(v)

-----------------------------------------------------------------------------
(* Ad-hoc detection jobs.                                                  *)

\* start_detect_job and rescan_vendor: the job exists before its coroutine
\* first runs.
NewJob(j, inputs, types) ==
    /\ loop = Free
    /\ jobs[j].phase = "none"
    /\ edits < MaxEdits
    /\ edits' = edits + 1
    /\ jobs' = [jobs EXCEPT ![j] = [NoJob EXCEPT !.phase = "queued", !.inputs = inputs,
                                                 !.types = types]]
    /\ UNCHANGED <<store, now, runs, loop, faults, held, accepted>>

StartDetectJob(j) == \E inputs \in InputLists, types \in TypeLists : NewJob(j, inputs, types)

\* The stored domain is cleaned like one that is sent: an edit may have stored
\* one that does not clean up, and then the job looks for a domain.
RescanVendor(j, v) ==
    /\ Exists(v)
    /\ \E types \in TypeLists, domain \in {vendors[v], Unknown} : NewJob(j, <<domain>>, types)

\* One turn of the resolve loop: a given domain is used as it is, a missing
\* one is discovered (an await); then upsert_vendor.  The coroutine keeps the
\* loop when the next vendor has a domain, and awaits otherwise.
ResolveInput(j) ==
    /\ jobs[j].phase \in {"queued", "resolving"}
    /\ loop \in {Free, j}
    /\ LET job == jobs[j]
           k == Len(job.doms) + 1
       IN \E d \in (IF job.inputs[k] = Unknown THEN Domains ELSE {job.inputs[k]}) :
          \E v \in UpsertIds(d) :
             /\ vendors' = [vendors EXCEPT ![v] = d]
             /\ held' = [held EXCEPT ![v] = @ \cup {d}]
             /\ jobs' = [jobs EXCEPT ![j] =
                           [job EXCEPT !.doms = Append(job.doms, d), !.ids = Append(job.ids, v),
                                       !.phase = IF k = Len(job.inputs) THEN "scanning"
                                                                        ELSE "resolving"]]
             /\ loop' = IF k < Len(job.inputs) /\ job.inputs[k + 1] # Unknown THEN j ELSE Free
    /\ UNCHANGED <<configs, history, alerts, alertSeq, now, runs, edits, faults, accepted>>

\* an exception that nobody records
FailedJobKeepsStatus(j) == jobs

\* except Exception: only the status and the error are left to read.
FailedJob(j) == [jobs EXCEPT ![j] = [NoJob EXCEPT !.phase = "failed"]]

\* discover_domain found nothing (400), or run_detectors_for_vendors raised.
\* The vendors resolved before it stay in the inventory.
JobRaises(j) ==
    /\ loop = Free
    /\ \/ jobs[j].phase \in {"queued", "resolving"} /\ jobs[j].inputs[Len(jobs[j].doms) + 1] = Unknown
       \/ jobs[j].phase = "scanning"
    /\ jobs' = FailedJob(j)
    /\ UNCHANGED <<store, now, runs, loop, edits, faults, held, accepted>>

\* run_detectors_for_vendors returns {domain: results}: vendors of one domain
\* share the last results fetched for it.
JobScanned(j) ==
    /\ loop = Free
    /\ jobs[j].phase = "scanning"
    /\ LET doms == jobs[j].doms
           asked == {doms[i] : i \in DOMAIN doms}
       IN \E byDomain \in [asked -> ResultLists(jobs[j].types)] :
             jobs' = [jobs EXCEPT ![j] =
                        [jobs[j] EXCEPT !.phase = "recording", !.todo = byDomain[doms[1]],
                                        !.results = [i \in DOMAIN doms |-> byDomain[doms[i]]]]]
    /\ loop' = j
    /\ UNCHANGED <<store, now, runs, edits, faults, held, accepted>>

\* the id of the vendor at the cursor taken by position in the request
IdAtCursor(job) == job.ids[1]

\* vendor_ids_by_domain.get(v.domain)
IdForRows(job) == IdOf(job, job.doms[job.at])

\* "if r.error: continue"
Recorded(r) == ~r.failed

\* record_score for the next result of the vendor at the cursor
RecordJobResult(j) ==
    /\ loop = j
    /\ jobs[j].phase = "recording" /\ jobs[j].todo # <<>>
    /\ LET job == jobs[j]
           r == Head(job.todo)
       IN history' = IF Recorded(r)
                     THEN RecordScore(IdForRows(job), r.detector,
                            [score |-> r.score, domain |-> job.doms[job.at],
                             src |-> j, floor |-> 0])
                     ELSE history
    /\ jobs' = [jobs EXCEPT ![j] = [jobs[j] EXCEPT !.todo = Tail(jobs[j].todo)]]
    /\ UNCHANGED <<vendors, configs, alerts, alertSeq, now, runs, loop, edits, faults, held, accepted>>

\* on to the next vendor, or the end: status complete
NextJobVendor(j) ==
    /\ loop = j
    /\ jobs[j].phase = "recording" /\ jobs[j].todo = <<>>
    /\ LET job == jobs[j] IN
       IF job.at < Len(job.doms)
       THEN /\ jobs' = [jobs EXCEPT ![j] = [job EXCEPT !.at = job.at + 1,
                                                           !.todo = job.results[job.at + 1]]]
            /\ UNCHANGED loop
       ELSE /\ jobs' = [jobs EXCEPT ![j] = [job EXCEPT !.phase = "complete"]]
            /\ loop' = Free
    /\ UNCHANGED <<store, now, runs, edits, faults, held, accepted>>

\* A store call raises: status failed, with the rows written so far.
JobStoreFails(j) ==
    /\ \/ loop = j
       \/ loop = Free /\ jobs[j].phase \in {"queued", "resolving"}
    /\ faults < MaxFaults
    /\ faults' = faults + 1
    /\ jobs' = FailedJob(j)
    /\ loop' = Free
    /\ UNCHANGED <<store, now, runs, edits, held, accepted>>

JobStep(j) ==
    \/ ResolveInput(j) \/ JobRaises(j) \/ JobScanned(j)
    \/ RecordJobResult(j) \/ NextJobVendor(j)

-----------------------------------------------------------------------------
(* The inventory and monitoring endpoints.                                 *)

MonitoringInput ==
    [mode : {"ad_hoc", "continuous"}, types : TypeLists, freq : Frequencies,
     threshold : Thresholds, webhook : BOOLEAN]

\* an ownership test that lets a request without a cookie through
AuthorisedOrAnonymous(v, s) == configs[v].owner # NoOwner => s \in {configs[v].owner, NoOwner}

\* A real owner on record is binding; NoOwner is not one.
Authorised(v, s) == configs[v].owner # NoOwner => configs[v].owner = s

Request ==
    /\ loop = Free
    /\ edits < MaxEdits
    /\ edits' = edits + 1
    /\ UNCHANGED <<now, runs, jobs, loop, faults, accepted>>

\* set_continuous_monitoring
SetContinuousMonitoring(v) ==
    /\ Request
    /\ Exists(v)
    /\ \E s \in Sessions \cup {NoOwner}, m \in MonitoringInput :
          /\ m.mode = "continuous"
          /\ Authorised(v, s)
          /\ configs' = SetConfig(v, m, s)
    /\ UNCHANGED <<vendors, history, alerts, alertSeq, held>>

\* stop_continuous_monitoring keeps types, frequency and threshold, drops the
\* webhook, and needs a configuration, not a vendor.
StopContinuousMonitoring(v) ==
    /\ Request
    /\ HasConfig(v)
    /\ \E s \in Sessions \cup {NoOwner} :
          /\ Authorised(v, s)
          /\ configs' = SetConfig(v, [mode |-> "ad_hoc", types |-> configs[v].types,
                                      freq |-> configs[v].freq, webhook |-> FALSE,
                                      threshold |-> configs[v].threshold], s)
    /\ UNCHANGED <<vendors, history, alerts, alertSeq, held>>

\* update_vendor_detail: the name and domain are committed first, so they stay
\* when the monitoring part of the request is absent, not authorised (403) or
\* invalid (400).  A field the request leaves out keeps its stored value,
\* which is one of the values it could have sent.
UpdateVendorDetail(v) ==
    /\ Request
    /\ Exists(v)
    /\ \E d \in Domains :
          /\ UpdateAllowed(v, d)
          /\ vendors' = [vendors EXCEPT ![v] = d]
          /\ held' = [held EXCEPT ![v] = @ \cup {d}]
    /\ \/ UNCHANGED configs
       \/ \E s \in Sessions \cup {NoOwner}, m \in MonitoringInput :
             /\ Authorised(v, s)
             /\ configs' = SetConfig(v, m, s)
    /\ UNCHANGED <<history, alerts, alertSeq>>

\* delete_vendor_detail, which does not see whose request it is
DeleteVendorDetail(v) ==
    /\ Request
    /\ Exists(v)
    /\ DeleteRows(v)
    /\ UNCHANGED held

-----------------------------------------------------------------------------
(* The environment.                                                        *)

AdvanceClock ==
    /\ loop = Free
    /\ now < MaxTime
    /\ now' = now + 1
    /\ UNCHANGED <<store, runs, jobs, loop, edits, faults, held, accepted>>

\* The process dies at any point and starts again: the tables stay, the
\* coroutines are gone and _detect_jobs no longer knows its jobs.
Restart ==
    /\ faults < MaxFaults
    /\ faults' = faults + 1
    /\ runs' = [v \in VendorIds |-> IdleRun]
    /\ jobs' = [j \in Jobs |-> IF jobs[j].phase = "none" THEN NoJob
                                                         ELSE [NoJob EXCEPT !.phase = "lost"]]
    /\ loop' = Free
    /\ UNCHANGED <<store, now, edits, held, accepted>>

Next ==
    \/ SchedulerTick
    \/ \E v \in VendorIds : RunStep(v) \/ RunFails(v)
    \/ \E j \in Jobs : StartDetectJob(j) \/ JobStep(j) \/ JobStoreFails(j)
    \/ \E j \in Jobs, v \in VendorIds : RescanVendor(j, v)
    \/ \E v \in VendorIds : \/ SetContinuousMonitoring(v) \/ StopContinuousMonitoring(v)
                            \/ UpdateVendorDetail(v) \/ DeleteVendorDetail(v)
    \/ AdvanceClock
    \/ Restart

Spec == Init /\ [][Next]_vars

\* The event loop runs every ready coroutine: the poll recurs, and scans,
\* discovery and webhooks end because their HTTP clients have timeouts.
Fairness ==
    /\ WF_vars(SchedulerTick)
    /\ \A v \in VendorIds : WF_vars(RunStep(v))
    /\ \A j \in Jobs : WF_vars(JobStep(j))

FairSpec == Spec /\ Fairness

-----------------------------------------------------------------------------
(* Types.                                                                  *)

Run == [phase : RunPhases, cfg : Config, domain : Domains \cup {Unknown},
        results : Seq(Result), prev : Int, alert : Nat]

Job == [phase : JobPhases, inputs : Seq(Domains \cup {Unknown}), types : Seq(Detectors),
        doms : Seq(Domains), ids : Seq(VendorIds), results : Seq(Seq(Result)), at : Nat,
        todo : Seq(Result)]

\* Every variable has its type.
TypeOK ==
    /\ StoreTypeOK
    /\ runs \in [VendorIds -> Run]
    /\ jobs \in [Jobs -> Job]
    /\ loop \in {Free} \cup VendorIds \cup Jobs
    /\ edits \in Nat /\ faults \in Nat
    /\ held \in [VendorIds -> SUBSET Domains]
    /\ accepted \subseteq Nat

\* What the coroutines rely on between their steps: a run has a result at
\* hand while it handles one and a domain once it started; a job has inputs
\* left while it resolves and lists of one length afterwards.
RunWF(run) ==
    /\ run.phase \in {"alerting", "posting", "posted", "refused"} => run.results # <<>>
    /\ run.phase \notin {"idle", "queued"} => run.domain \in Domains

JobWF(job) ==
    /\ Len(job.ids) = Len(job.doms)
    /\ job.phase \in {"queued", "resolving"} => Len(job.doms) < Len(job.inputs)
    /\ job.phase \in {"scanning", "recording", "complete"} => Len(job.doms) >= 1
    /\ IF job.phase \in {"recording", "complete"}
       THEN Len(job.results) = Len(job.doms) /\ job.at \in 1..Len(job.doms)
       ELSE job.at = 1

CoroutinesWF == (\A v \in VendorIds : RunWF(runs[v])) /\ (\A j \in Jobs : JobWF(jobs[j]))

-----------------------------------------------------------------------------
(* Safety.                                                                 *)

\* No two inventory rows have one domain, whichever mix of jobs that upsert
\* vendors and requests that change a vendor's domain has run: the UNIQUE
\* constraint, which the model leaves out, never has to stop one of them with
\* an IntegrityError (upsert_vendor, update_vendor).
UniqueDomains ==
    \A v, w \in VendorIds : Exists(v) /\ Exists(w) /\ v # w => vendors[v] # vendors[w]

\* A monitoring configuration belongs to a vendor of the inventory, even when
\* the vendor is deleted while the scheduler scans it and then marks the run
\* (delete_vendor, mark_monitor_run, the handlers' get_vendor).
ConfigNeedsVendor == \A v \in VendorIds : HasConfig(v) => Exists(v)

\* Every alert is the record of a drop: its two scores are those of two
\* consecutive history rows of its vendor and detector, the later written by
\* a scheduled run, and they differ by at least the threshold of that run
\* (the get_latest_score, record_score, record_alert sequence of
\* _run_one_monitored_vendor).
AlertsAreDrops ==
    \A a \in alerts :
        LET h == history[a.vendor][a.detector] IN
        /\ a.row \in 2..Len(h)
        /\ h[a.row].src = Scheduler
        /\ h[a.row].score = a.new /\ h[a.row - 1].score = a.prev
        /\ a.prev # NoScore /\ a.new # NoScore
        /\ a.prev - a.new >= a.floor /\ a.floor = h[a.row].floor

\* Row i is a scheduled run's, and a drop from the last score before it.
IsDrop(h, i) ==
    /\ h[i].src = Scheduler /\ h[i].score # NoScore
    /\ \E k \in 1..i - 1 :
          /\ h[k].score # NoScore /\ \A j \in k + 1..i - 1 : h[j].score = NoScore
          /\ h[k].score - h[i].score >= h[i].floor

\* The row before it is that of a scheduled run in which the detector failed.
BehindFailure(h, i) == h[i - 1].src = Scheduler /\ h[i - 1].score = NoScore

HasAlert(v, d, i) == \E a \in alerts : a.vendor = v /\ a.detector = d /\ a.row = i

AboutToAlert(v, d, i) ==
    /\ loop = v /\ runs[v].phase = "alerting"
    /\ Head(runs[v].results).detector = d /\ i = Len(history[v][d])

\* As long as the process neither restarted nor had a store call fail, every
\* drop from the last score that a scheduled run recorded has its alert, or gets
\* it before the run lets go of the event loop; the only drops without one are
\* those behind the row of a scheduled run that failed, which the comparison
\* takes for the last score.  No row of a job hides one (get_latest_score,
\* _run_one_monitored_vendor, _run_detect_job).
DropsAreAlerted ==
    faults = 0 =>
        \A v \in VendorIds, d \in Scored : \A i \in DOMAIN history[v][d] :
            IsDrop(history[v][d], i) =>
                HasAlert(v, d, i) \/ AboutToAlert(v, d, i) \/ BehindFailure(history[v][d], i)

\* The delivered flag tells the truth: set only when the webhook answered
\* 2xx, an error only when it did not; and without faults no alert with a
\* webhook stays unsettled once its run has moved on (mark_alert_delivered).
DeliveryIsTrue ==
    \A a \in alerts :
        /\ a.status = "delivered" => a.id \in accepted
        /\ a.status = "error" => a.id \notin accepted
        /\ a.webhook /\ a.status = "logged" /\ faults = 0 =>
              \E v \in VendorIds : runs[v].alert = a.id

\* A score row is about a domain its vendor has had: a scan that outlives a
\* change of the vendor's domain, or a job with several vendors, never files
\* a result under a vendor it was not about (vendor_ids_by_domain).
RowsAreOfVendor ==
    \A v \in VendorIds, d \in Detectors :
        \A i \in DOMAIN history[v][d] : history[v][d][i].domain \in held[v]

\* A job that reports complete has recorded every result that is not an
\* error under the vendor it upserted for it, unless that vendor has been
\* deleted (_run_detect_job).
CompleteJobsRecorded ==
    \A j \in Jobs : jobs[j].phase = "complete" =>
        \A i \in DOMAIN jobs[j].doms :
            LET v == IdOf(jobs[j], jobs[j].doms[i]) IN
            Exists(v) =>
                \A k \in DOMAIN jobs[j].results[i] :
                    LET r == jobs[j].results[i][k] IN
                    ~r.failed =>
                        \E n \in DOMAIN history[v][r.detector] :
                            LET row == history[v][r.detector][n] IN
                            row.src = j /\ row.score = r.score

\* Once a real session owns a monitoring configuration, no request that writes
\* one comes from another session, since each leaves its own session in the row,
\* and no mark of a run or job disturbs it; it ends with its vendor only, which
\* anyone may delete (set_continuous_monitoring, update_vendor_detail,
\* stop_continuous_monitoring, mark_monitor_run; see OnlyOwnersCancel).
OwnerIsBinding ==
    [][\A v \in VendorIds :
          HasConfig(v) /\ configs[v].owner # NoOwner
              => \/ HasConfig(v)' /\ configs'[v].owner = configs[v].owner
                 \/ Exists(v) /\ vendors'[v] = Deleted]_vars

-----------------------------------------------------------------------------
(* Liveness.                                                               *)

\* A vendor due for its scheduled scan is eventually scanned and given its
\* next time, unless monitoring stops: failed scans, store errors and
\* restarts are caught by a later poll (_scheduler_tick, mark_monitor_run).
DueIsServed == \A v \in VendorIds : Due(v) ~> ~Due(v)

\* Every job reaches complete or failed, or is forgotten by a restart
\* (_run_detect_job).
JobsEnd == \A j \in Jobs : jobs[j].phase \in JobRunning ~> jobs[j].phase \notin JobRunning

-----------------------------------------------------------------------------
(* What the repository says and the code does not do.                      *)

\* "if the score drops by at least the configured threshold versus its last
\* recorded value, fires a webhook POST and logs an alert" (README:478-481):
\* once no run of the vendor is going on.
EveryDropAlerted ==
    \A v \in VendorIds, d \in Scored : \A i \in DOMAIN history[v][d] :
        IsDrop(history[v][d], i) /\ runs[v].phase = "idle" => HasAlert(v, d, i)

\* "once a real session has set up monitoring for a vendor, only that session
\* can modify or cancel it" (README:495-497): a vendor is not deleted, and its
\* configuration with it, at the request of any session s but the one that owns
\* the configuration (delete_vendor_detail).
OnlyOwnersCancel ==
    [][\A v \in VendorIds, s \in Sessions \cup {NoOwner} :
          HasConfig(v) /\ DeleteVendorDetail(v) => Authorised(v, s)]_vars
=============================================================================
