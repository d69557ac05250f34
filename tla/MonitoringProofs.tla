------------------------- MODULE MonitoringProofs -------------------------
(***************************************************************************)
(* Theorems about Monitoring, for every value of its constants.            *)
(***************************************************************************)
EXTENDS Monitoring, TLAPS

-----------------------------------------------------------------------------
(* What the detectors return, and the store functions.                     *)

\* A list of results has the type the runs and jobs expect
\* (run_detectors_for_vendor).
LEMMA ResultListsType ==
    ASSUME NEW types \in Seq(Detectors), NEW rs \in ResultLists(types)
    PROVE  rs \in Seq(Result)
<1> DEFINE asked == {types[i] : i \in DOMAIN types}
<1>1. asked \subseteq Detectors
  OBVIOUS
<1>2. PICK f \in [asked -> UNION {Outcomes(d) : d \in asked}] :
        /\ \A d \in asked : f[d] \in Outcomes(d)
        /\ rs = [i \in DOMAIN types |-> f[types[i]]]
  BY DEF ResultLists
<1> USE StoreAssumption
<1>3. ASSUME NEW d \in Detectors, NEW r \in Outcomes(d) PROVE r \in Result
  <2>1. CASE d \in Scored
    <3>1. PICK s \in Scores \cup {NoScore} :
            r = [detector |-> d, score |-> s, failed |-> s = NoScore]
      BY <2>1, Zenon DEF Outcomes
    <3>2. (s = NoScore) \in BOOLEAN
      BY Zenon
    <3>3. QED
      BY <3>1, <3>2, Zenon DEF Result
  <2>2. CASE d \notin Scored
    BY <2>2 DEF Outcomes, Result
  <2>3. QED
    BY <2>1, <2>2
<1>4. \A i \in DOMAIN types : f[types[i]] \in Result
  BY <1>1, <1>2, <1>3
<1>5. QED
  BY <1>2, <1>4

\* Stamping a configuration with two times keeps its type (mark_monitor_run).
LEMMA StampedConfig ==
    ASSUME NEW c \in Config, NEW t \in Int, NEW n \in Int
    PROVE  [c EXCEPT !.last = t, !.next = n] \in Config
BY DEF Config

\* Every new value a store function gives configs has its type
\* (set_monitoring_config, mark_monitor_run).
LEMMA ConfigTypes ==
    ASSUME StoreTypeOK, NEW v \in VendorIds
    PROVE  /\ \A m \in MonitoringInput, s \in Sessions \cup {NoOwner} :
                SetConfig(v, m, s) \in [VendorIds -> Config]
           /\ \A s \in Sessions \cup {NoOwner} :
                SetConfig(v, [mode |-> "ad_hoc", types |-> configs[v].types,
                              freq |-> configs[v].freq, webhook |-> FALSE,
                              threshold |-> configs[v].threshold], s) \in [VendorIds -> Config]
           /\ \A f \in Frequencies : MarkRun(v, f) \in [VendorIds -> Config]
<1>1. \A f \in Frequencies : NextRun(f) \in Int
  BY StoreAssumption DEF NextRun, StoreTypeOK
<1>0. now \in Int
  BY DEF StoreTypeOK
<1>2. configs[v] \in Config
  BY DEF StoreTypeOK
<1>3. ASSUME NEW m \in MonitoringInput, NEW s \in Sessions \cup {NoOwner}
      PROVE  SetConfig(v, m, s) \in [VendorIds -> Config]
  BY <1>1, <1>2, StoreAssumption DEF SetConfig, MonitoringInput, Config, StoreTypeOK
<1>4. ASSUME NEW s \in Sessions \cup {NoOwner}
      PROVE  SetConfig(v, [mode |-> "ad_hoc", types |-> configs[v].types,
                           freq |-> configs[v].freq, webhook |-> FALSE,
                           threshold |-> configs[v].threshold], s) \in [VendorIds -> Config]
  BY <1>1, <1>2 DEF SetConfig, Config, StoreTypeOK
<1>5. ASSUME NEW f \in Frequencies PROVE MarkRun(v, f) \in [VendorIds -> Config]
  <2>1. [configs[v] EXCEPT !.last = now, !.next = NextRun(f)] \in Config
    BY <1>0, <1>1, <1>2, <1>5, StampedConfig
  <2>2. QED
    BY <2>1 DEF MarkRun, StoreTypeOK
<1>6. QED
  BY <1>3, <1>4, <1>5

\* A score column is an integer: a score, or NULL.
LEMMA ScoresAreIntegers == Scores \cup {NoScore} \subseteq Int
BY StoreAssumption DEF NoScore

\* The latest recorded score is a score or NULL (get_latest_score).
LEMMA LatestType ==
    ASSUME StoreTypeOK, NEW v \in VendorIds, NEW d \in Detectors
    PROVE  Latest(v, d) \in Scores \cup {NoScore}
<1> DEFINE h == history[v][d]
<1>1. h \in Seq(Row)
  BY DEF StoreTypeOK
<1>2. CASE h = <<>>
  BY <1>2 DEF Latest
<1>3. CASE h # <<>>
  <2>1. h[Len(h)] \in Row
    BY <1>1, <1>3
  <2>2. QED
    BY <1>3, <2>1 DEF Latest, Row
<1>4. QED
  BY <1>2, <1>3

\* A new alert has the type of its columns (record_alert).
LEMMA RecordAlertType ==
    ASSUME StoreTypeOK, NEW v \in VendorIds, NEW d \in Detectors, NEW prev \in Int,
           NEW new \in Int, NEW floor \in Int, NEW webhook \in BOOLEAN
    PROVE  RecordAlert(v, d, prev, new, floor, webhook) \subseteq Alert
<1>1. alertSeq + 1 \in Nat /\ Len(history[v][d]) \in Nat /\ alerts \subseteq Alert
  BY DEF StoreTypeOK
<1>2. QED
  BY <1>1 DEF RecordAlert, Alert

\* Marking an alert changes its status only (mark_alert_delivered).
LEMMA MarkAlertType ==
    ASSUME StoreTypeOK, NEW id, NEW ok
    PROVE  MarkAlert(id, ok) \subseteq Alert
<1> SUFFICES ASSUME NEW a \in alerts
             PROVE  (IF a.id = id THEN [a EXCEPT !.status = IF ok THEN "delivered" ELSE "error"]
                                  ELSE a) \in Alert
  BY DEF MarkAlert
<1>1. a \in Alert
  BY DEF StoreTypeOK
<1>2. \A s \in {"delivered", "error"} : [a EXCEPT !.status = s] \in Alert
  BY <1>1 DEF Alert
<1>3. QED
  BY <1>1, <1>2

-----------------------------------------------------------------------------
(* Types.                                                                  *)

TypeInv == TypeOK /\ CoroutinesWF

LEMMA IdleRunType == IdleRun \in Run /\ RunWF(IdleRun)
<1>1. NoConfig \in Config
  BY DEF NoConfig, Config, Frequencies, Never
<1>2. QED
  BY <1>1 DEF IdleRun, Run, RunPhases, RunWF, NoScore, Unknown

\* Going on to the next result keeps the type of the run.
LEMMA NextResultType ==
    ASSUME NEW run \in Run, run.results \in Seq(Result), run.results # <<>>,
           run.domain \in Domains
    PROVE  NextResult(run) \in Run /\ RunWF(NextResult(run))
<1>1. Tail(run.results) \in Seq(Result)
  OBVIOUS
<1>2. \A p \in RunPhases, rs \in Seq(Result), prev \in Int, a \in Nat :
        [run EXCEPT !.phase = p, !.results = rs, !.prev = prev, !.alert = a] \in Run
  BY DEF Run
<1>3. NextResult(run) \in Run
  <2>1. "recording" \in RunPhases /\ NoScore \in Int /\ 0 \in Nat
    BY DEF RunPhases, NoScore
  <2>2. QED
    BY <1>1, <1>2, <2>1 DEF NextResult
<1>4. NextResult(run).phase = "recording" /\ NextResult(run).domain = run.domain
  BY DEF NextResult, Run
<1>5. QED
  BY <1>3, <1>4 DEF RunWF

LEMMA NoJobType == NoJob \in Job /\ JobWF(NoJob)
BY DEF NoJob, Job, JobWF, JobPhases, JobRunning

LEMMA InitType == Init => TypeInv
<1> SUFFICES ASSUME Init PROVE TypeInv
  OBVIOUS
<1>1. StoreTypeOK
  <2>1. NoConfig \in Config
    BY DEF NoConfig, Config, Frequencies, Never
  <2>2. QED
    BY <2>1 DEF Init, StoreInit, StoreTypeOK
<1>2. TypeOK
  BY <1>1, IdleRunType, NoJobType DEF Init, TypeOK
<1>3. CoroutinesWF
  BY IdleRunType, NoJobType DEF Init, CoroutinesWF
<1>4. QED
  BY <1>2, <1>3 DEF TypeInv

\* A step of a run changes the store within its types, the run within its
\* own, and who holds the loop.
LEMMA RunFrame ==
    ASSUME TypeInv, NEW v \in VendorIds, NEW r \in Run, RunWF(r),
           runs' = [runs EXCEPT ![v] = r], StoreTypeOK', loop' \in {loop, Free, v},
           faults' \in Nat, accepted' \subseteq Nat, UNCHANGED <<jobs, edits, held>>
    PROVE  TypeInv'
<1>1. runs' \in [VendorIds -> Run] /\ \A w \in VendorIds : RunWF(runs'[w])
  BY DEF TypeInv, TypeOK, CoroutinesWF
<1>2. TypeOK'
  BY <1>1 DEF TypeInv, TypeOK
<1>3. CoroutinesWF'
  BY <1>1 DEF TypeInv, CoroutinesWF
<1>4. QED
  BY <1>2, <1>3 DEF TypeInv

\* The tick gives every due vendor a queued run of the configuration it has.
LEMMA SchedulerTickType == TypeInv /\ SchedulerTick => TypeInv'
<1> SUFFICES ASSUME TypeInv, SchedulerTick PROVE TypeInv'
  OBVIOUS
<1>1. ASSUME NEW c \in Config
      PROVE  LET r == [IdleRun EXCEPT !.phase = "queued", !.cfg = c] IN r \in Run /\ RunWF(r)
  BY IdleRunType, <1>1 DEF Run, RunPhases, RunWF, IdleRun
<1>2. configs \in [VendorIds -> Config]
  BY DEF TypeInv, TypeOK, StoreTypeOK
<1>3. runs' \in [VendorIds -> Run] /\ \A v \in VendorIds : RunWF(runs'[v])
  BY <1>1, <1>2, IdleRunType DEF SchedulerTick
<1>4. UNCHANGED <<vendors, configs, history, alerts, alertSeq, now, jobs, loop, edits, faults, held, accepted>>
  BY DEF SchedulerTick, store
<1>5. StoreTypeOK'
  BY <1>4 DEF TypeInv, TypeOK, StoreTypeOK
<1>6. TypeOK' /\ CoroutinesWF'
  BY <1>3, <1>4, <1>5 DEF TypeInv, TypeOK, CoroutinesWF
<1>7. QED
  BY <1>6 DEF TypeInv

\* Every step of a run keeps the types.
LEMMA RunStepType ==
    ASSUME TypeInv, NEW v \in VendorIds, RunStep(v) \/ RunFails(v)
    PROVE  TypeInv'
<1> DEFINE run == runs[v]
<1>1. run \in Run /\ RunWF(run) /\ StoreTypeOK /\ faults \in Nat /\ accepted \subseteq Nat
  BY DEF TypeInv, TypeOK, CoroutinesWF
<1>2. CASE StartRun(v)
  <2> DEFINE r == IF Exists(v) THEN [run EXCEPT !.phase = "scanning", !.domain = vendors[v]]
                               ELSE IdleRun
  <2>1. r \in Run /\ RunWF(r)
    BY <1>1, IdleRunType DEF Run, RunPhases, RunWF, Exists
  <2>2. runs' = [runs EXCEPT ![v] = r]
    BY <1>2 DEF StartRun
  <2>3. StoreTypeOK'
    BY <1>1, <1>2 DEF StartRun, StoreTypeOK, store
  <2>4. QED
    BY <1>1, <1>2, <2>1, <2>2, <2>3, RunFrame DEF StartRun
<1>3. CASE ScanDone(v)
  <2>1. PICK rs \in ResultLists(run.cfg.types) \cup {<<>>} :
          runs' = [runs EXCEPT ![v] = [run EXCEPT !.phase = "recording", !.results = rs]]
    BY <1>3 DEF ScanDone
  <2>2. run.cfg.types \in Seq(Detectors)
    BY <1>1 DEF Run, Config
  <2>3. rs \in Seq(Result)
    <3>1. CASE rs = <<>>
      BY <3>1
    <3>2. CASE rs \in ResultLists(run.cfg.types)
      BY <2>2, <3>2, ResultListsType
    <3>3. QED
      BY <2>1, <3>1, <3>2
  <2> DEFINE r == [run EXCEPT !.phase = "recording", !.results = rs]
  <2>4. r \in Run
    BY <1>1, <2>3 DEF Run, RunPhases
  <2>5. RunWF(r)
    BY <1>1, <1>3 DEF Run, RunWF, ScanDone
  <2>6. StoreTypeOK'
    BY <1>1, <1>3 DEF ScanDone, StoreTypeOK, store
  <2>7. QED
    BY <1>1, <1>3, <2>1, <2>4, <2>5, <2>6, RunFrame DEF ScanDone
<1>4. CASE RecordResult(v)
  <2> DEFINE r == Head(run.results)
             prev == Previous(v, r.detector)
             row == [score |-> r.score, domain |-> run.domain,
                     src |-> Scheduler, floor |-> run.cfg.threshold]
             alerting == [run EXCEPT !.phase = "alerting", !.prev = prev]
             next == NextResult(run)
  <2>1. run.results \in Seq(Result) /\ run.results # <<>> /\ run.domain \in Domains
    BY <1>1, <1>4 DEF RecordResult, Run, RunWF
  <2>2. r \in Result
    BY <2>1
  <2>3. row \in Row
    BY <1>1, <2>1, <2>2 DEF Row, Result, Run, Config
  <2>4. history' \in [VendorIds -> [Detectors -> Seq(Row)]]
    BY <1>1, <1>4, <2>2, <2>3 DEF RecordResult, RecordScore, StoreTypeOK, Result
  <2>5. StoreTypeOK'
    BY <1>1, <1>4, <2>4 DEF RecordResult, StoreTypeOK
  <2>6. prev \in Int
    BY <1>1, <2>2, LatestType, ScoresAreIntegers DEF Previous, Result
  <2>7. alerting \in Run /\ RunWF(alerting)
    BY <1>1, <1>4, <2>1, <2>6 DEF Run, RunPhases, RunWF, RecordResult
  <2>8. next \in Run /\ RunWF(next)
    BY <1>1, <2>1, NextResultType
  <2>9. /\ runs' = [runs EXCEPT ![v] = alerting] \/ runs' = [runs EXCEPT ![v] = next]
        /\ UNCHANGED <<jobs, loop, edits, faults, held, accepted>>
    BY <1>4 DEF RecordResult
  <2>10. QED
    BY <1>1, <2>5, <2>7, <2>8, <2>9, RunFrame
<1>5. CASE RaiseAlert(v)
  <2> DEFINE r == Head(run.results)
             posting == [run EXCEPT !.phase = "posting", !.alert = alertSeq + 1]
             next == NextResult(run)
  <2>1. run.results \in Seq(Result) /\ run.results # <<>> /\ run.domain \in Domains
        /\ alertSeq \in Nat
    BY <1>1, <1>5 DEF RaiseAlert, Run, RunWF, StoreTypeOK
  <2>2. r \in Result
    BY <2>1
  <2>3. RecordAlert(v, r.detector, run.prev, r.score, run.cfg.threshold, run.cfg.webhook)
          \subseteq Alert
    <3>1. /\ r.detector \in Detectors /\ r.score \in Int /\ run.prev \in Int
          /\ run.cfg.threshold \in Int /\ run.cfg.webhook \in BOOLEAN
      BY <1>1, <2>2, ScoresAreIntegers DEF Run, Config, Result
    <3>2. QED
      BY <1>1, <3>1, RecordAlertType
  <2>4. StoreTypeOK'
    BY <1>1, <1>5, <2>1, <2>3 DEF RaiseAlert, StoreTypeOK
  <2>5. posting \in Run /\ RunWF(posting)
    <3>1. "posting" \in RunPhases /\ alertSeq + 1 \in Nat
      BY <2>1 DEF RunPhases
    <3>2. \A p \in RunPhases, a \in Nat : [run EXCEPT !.phase = p, !.alert = a] \in Run
      BY <1>1 DEF Run
    <3>3. posting.results = run.results /\ posting.domain = run.domain
      BY <1>1 DEF Run
    <3>4. QED
      BY <2>1, <3>1, <3>2, <3>3 DEF RunWF
  <2>6. next \in Run /\ RunWF(next)
    BY <1>1, <2>1, NextResultType
  <2>7. /\ runs' = [runs EXCEPT ![v] = posting] \/ runs' = [runs EXCEPT ![v] = next]
        /\ loop' \in {Free, loop}
        /\ UNCHANGED <<jobs, edits, faults, held, accepted>>
    BY <1>5 DEF RaiseAlert
  <2>8. QED
    BY <1>1, <2>4, <2>5, <2>6, <2>7, RunFrame
<1>6. CASE WebhookAnswered(v)
  <2>1. PICK ok \in BOOLEAN :
          /\ runs' = [runs EXCEPT ![v].phase = IF ok THEN "posted" ELSE "refused"]
          /\ accepted' = IF ok THEN accepted \cup {runs[v].alert} ELSE accepted
    BY <1>6 DEF WebhookAnswered
  <2> DEFINE r == [run EXCEPT !.phase = IF ok THEN "posted" ELSE "refused"]
  <2>2. r \in Run /\ RunWF(r)
    BY <1>1, <1>6 DEF Run, RunPhases, RunWF, WebhookAnswered
  <2>3. runs' = [runs EXCEPT ![v] = r]
    BY <2>1
  <2>4. accepted' \subseteq Nat
    BY <1>1, <2>1 DEF Run
  <2>5. StoreTypeOK'
    BY <1>1, <1>6 DEF WebhookAnswered, StoreTypeOK, store
  <2>6. QED
    BY <1>1, <1>6, <2>2, <2>3, <2>4, <2>5, RunFrame DEF WebhookAnswered
<1>7. CASE MarkDelivery(v)
  <2> DEFINE next == NextResult(run)
  <2>1. run.results \in Seq(Result) /\ run.results # <<>> /\ run.domain \in Domains
    BY <1>1, <1>7 DEF MarkDelivery, Run, RunWF
  <2>2. MarkAlert(run.alert, run.phase = "posted") \subseteq Alert
    BY <1>1, MarkAlertType
  <2>3. StoreTypeOK'
    BY <1>1, <1>7, <2>2 DEF MarkDelivery, StoreTypeOK
  <2>4. next \in Run /\ RunWF(next)
    BY <1>1, <2>1, NextResultType
  <2>5. /\ runs' = [runs EXCEPT ![v] = next]
        /\ UNCHANGED <<jobs, loop, edits, faults, held, accepted>>
    BY <1>7 DEF MarkDelivery
  <2>6. QED
    BY <1>1, <2>3, <2>4, <2>5, RunFrame
<1>8. CASE FinishRun(v)
  <2>1. run.cfg.freq \in Frequencies
    BY <1>1 DEF Run, Config
  <2>2. configs' \in [VendorIds -> Config]
    BY <1>1, <1>8, <2>1, ConfigTypes DEF FinishRun
  <2>3. StoreTypeOK'
    BY <1>1, <1>8, <2>2 DEF FinishRun, StoreTypeOK
  <2>4. /\ runs' = [runs EXCEPT ![v] = IdleRun] /\ loop' = Free
        /\ UNCHANGED <<jobs, edits, faults, held, accepted>>
    BY <1>8 DEF FinishRun
  <2>5. QED
    BY <1>1, <2>3, <2>4, IdleRunType, RunFrame
<1>9. CASE RunFails(v)
  <2>1. StoreTypeOK'
    BY <1>1, <1>9 DEF RunFails, StoreTypeOK, store
  <2>2. /\ runs' = [runs EXCEPT ![v] = IdleRun] /\ loop' = Free /\ faults' = faults + 1
        /\ UNCHANGED <<jobs, edits, held, accepted>>
    BY <1>9 DEF RunFails
  <2>3. faults' \in Nat
    BY <1>1, <2>2
  <2>4. QED
    BY <1>1, <2>1, <2>2, <2>3, IdleRunType, RunFrame
<1>10. QED
  BY <1>2, <1>3, <1>4, <1>5, <1>6, <1>7, <1>8, <1>9 DEF RunStep

\* A step of a job changes the store within its types, the job within its
\* own, and who holds the loop.
LEMMA JobFrame ==
    ASSUME TypeInv, NEW j \in Jobs, NEW job \in Job, JobWF(job),
           jobs' = [jobs EXCEPT ![j] = job], StoreTypeOK', loop' \in {loop, Free, j},
           edits' \in Nat, faults' \in Nat, held' \in [VendorIds -> SUBSET Domains],
           UNCHANGED <<runs, accepted>>
    PROVE  TypeInv'
<1>1. jobs' \in [Jobs -> Job] /\ \A k \in Jobs : JobWF(jobs'[k])
  BY DEF TypeInv, TypeOK, CoroutinesWF
<1>2. TypeOK'
  BY <1>1 DEF TypeInv, TypeOK
<1>3. CoroutinesWF'
  BY <1>1 DEF TypeInv, CoroutinesWF
<1>4. QED
  BY <1>2, <1>3 DEF TypeInv

\* A new job has a non-empty vendor list to resolve (start_detect_job, rescan_vendor).
LEMMA NewJobType ==
    ASSUME TypeInv, NEW j \in Jobs, NEW inputs \in Seq(Domains \cup {Unknown}) \ {<<>>},
           NEW types \in Seq(Detectors), NewJob(j, inputs, types)
    PROVE  TypeInv'
<1> DEFINE job == [NoJob EXCEPT !.phase = "queued", !.inputs = inputs, !.types = types]
<1>1. job \in Job
  <2>1. "queued" \in JobPhases
    BY DEF JobPhases, JobRunning
  <2>2. \A p \in JobPhases : [NoJob EXCEPT !.phase = p, !.inputs = inputs, !.types = types] \in Job
    BY NoJobType DEF Job
  <2>3. QED
    BY <2>1, <2>2
<1>2. Len(inputs) > 0
  OBVIOUS
<1>3. JobWF(job)
  BY <1>2 DEF NoJob, JobWF
<1>4. StoreTypeOK'
  BY DEF NewJob, TypeInv, TypeOK, StoreTypeOK, store
<1>5. /\ jobs' = [jobs EXCEPT ![j] = job] /\ edits' = edits + 1
      /\ UNCHANGED <<runs, loop, faults, held, accepted>>
  BY DEF NewJob
<1>6. edits' \in Nat /\ faults \in Nat /\ held \in [VendorIds -> SUBSET Domains]
  BY <1>5 DEF TypeInv, TypeOK
<1>7. QED
  BY <1>1, <1>3, <1>4, <1>5, <1>6, JobFrame

LEMMA FailedJobType ==
    ASSUME TypeInv, NEW j \in Jobs, jobs' = FailedJob(j), loop' \in {loop, Free},
           faults' \in Nat, UNCHANGED <<store, now, runs, edits, held, accepted>>
    PROVE  TypeInv'
<1> DEFINE job == [NoJob EXCEPT !.phase = "failed"]
<1>1. job \in Job /\ JobWF(job)
  <2>1. "failed" \in JobPhases
    BY DEF JobPhases, JobRunning
  <2>2. \A p \in JobPhases : [NoJob EXCEPT !.phase = p] \in Job
    BY NoJobType DEF Job
  <2>3. QED
    BY <2>1, <2>2 DEF NoJob, JobWF
<1>2. StoreTypeOK'
  BY DEF TypeInv, TypeOK, StoreTypeOK, store
<1>3. jobs' = [jobs EXCEPT ![j] = job]
  BY DEF FailedJob
<1>4. edits \in Nat /\ held \in [VendorIds -> SUBSET Domains]
  BY DEF TypeInv, TypeOK
<1>5. QED
  BY <1>1, <1>2, <1>3, <1>4, JobFrame

\* Every step of a job keeps the types.
LEMMA JobStepType ==
    ASSUME TypeInv, NEW j \in Jobs, JobStep(j) \/ JobStoreFails(j)
    PROVE  TypeInv'
<1> DEFINE job == jobs[j]
<1>1. /\ job \in Job /\ JobWF(job) /\ StoreTypeOK /\ edits \in Nat /\ faults \in Nat
      /\ held \in [VendorIds -> SUBSET Domains]
  BY DEF TypeInv, TypeOK, CoroutinesWF
<1>2. CASE ResolveInput(j)
  <2> DEFINE k == Len(job.doms) + 1
  <2> DEFINE Turn(d, v) ==
          /\ vendors' = [vendors EXCEPT ![v] = d]
          /\ held' = [held EXCEPT ![v] = @ \cup {d}]
          /\ jobs' = [jobs EXCEPT ![j] =
                        [job EXCEPT !.doms = Append(job.doms, d), !.ids = Append(job.ids, v),
                                    !.phase = IF k = Len(job.inputs) THEN "scanning"
                                                                     ELSE "resolving"]]
          /\ loop' = IF k < Len(job.inputs) /\ job.inputs[k + 1] # Unknown THEN j ELSE Free
  <2>a. PICK d \in (IF job.inputs[k] = Unknown THEN Domains ELSE {job.inputs[k]}) :
          \E v \in UpsertIds(d) : Turn(d, v)
    BY <1>2 DEF ResolveInput
  <2>1. PICK v \in UpsertIds(d) : Turn(d, v)
    BY <2>a
  <2> DEFINE p == IF k = Len(job.inputs) THEN "scanning" ELSE "resolving"
             new == [job EXCEPT !.doms = Append(job.doms, d), !.ids = Append(job.ids, v),
                                !.phase = p]
  <2>2. /\ job.doms \in Seq(Domains) /\ job.ids \in Seq(VendorIds)
        /\ job.inputs \in Seq(Domains \cup {Unknown})
        /\ Len(job.doms) < Len(job.inputs) /\ Len(job.ids) = Len(job.doms)
    BY <1>1, <1>2 DEF Job, JobWF, ResolveInput
  <2>3. d \in Domains /\ v \in VendorIds
    <3>1. job.inputs[k] \in Domains \cup {Unknown}
      BY <2>2
    <3>2. QED
      BY <2>a, <3>1 DEF UpsertIds
  <2>4. Append(job.doms, d) \in Seq(Domains) /\ Append(job.ids, v) \in Seq(VendorIds)
    BY <2>2, <2>3
  <2>5. new \in Job
    <3>1. p \in JobPhases
      BY DEF JobPhases, JobRunning
    <3>2. \A ds \in Seq(Domains), is \in Seq(VendorIds), q \in JobPhases :
            [job EXCEPT !.doms = ds, !.ids = is, !.phase = q] \in Job
      BY <1>1 DEF Job
    <3>3. QED
      BY <2>4, <3>1, <3>2
  <2>6. JobWF(new)
    <3>1. /\ new.doms = Append(job.doms, d) /\ new.ids = Append(job.ids, v)
          /\ new.phase = p /\ new.inputs = job.inputs /\ new.at = job.at
      BY <1>1 DEF Job
    <3>2. Len(new.doms) = k /\ Len(new.ids) = k /\ k \in Nat /\ k >= 1
      <4>1. job.doms \in Seq(Domains) /\ job.ids \in Seq(VendorIds) /\ Len(job.ids) = Len(job.doms)
        BY <2>2
      <4>2. Len(Append(job.doms, d)) = k /\ Len(Append(job.ids, v)) = k /\ k \in Nat /\ k >= 1
        BY <2>3, <4>1
      <4>3. QED
        BY <3>1, <4>2
    <3>3. p = "resolving" => k < Len(job.inputs)
      BY <2>2
    <3>4. job.at = 1
      BY <1>1, <1>2 DEF JobWF, ResolveInput
    <3>5. QED
      BY <3>1, <3>2, <3>3, <3>4 DEF JobWF
  <2>7. StoreTypeOK'
    BY <1>1, <1>2, <2>1, <2>3 DEF ResolveInput, StoreTypeOK
  <2>8. held' \in [VendorIds -> SUBSET Domains]
    BY <1>1, <2>1, <2>3
  <2>9. UNCHANGED <<runs, edits, faults, accepted>>
    BY <1>2 DEF ResolveInput
  <2>10. QED
    BY <1>1, <2>1, <2>5, <2>6, <2>7, <2>8, <2>9, JobFrame
<1>3. CASE JobRaises(j)
  BY SMTT(30), <1>1, <1>3, FailedJobType DEF JobRaises
<1>4. CASE JobScanned(j)
  <2> DEFINE asked == {job.doms[i] : i \in DOMAIN job.doms}
  <2>1. PICK byDomain \in [asked -> ResultLists(job.types)] :
          jobs' = [jobs EXCEPT ![j] =
                     [job EXCEPT !.phase = "recording", !.todo = byDomain[job.doms[1]],
                                 !.results = [i \in DOMAIN job.doms |-> byDomain[job.doms[i]]]]]
    BY <1>4 DEF JobScanned
  <2> DEFINE lists == [i \in DOMAIN job.doms |-> byDomain[job.doms[i]]]
             new == [job EXCEPT !.phase = "recording", !.todo = byDomain[job.doms[1]],
                                !.results = lists]
  <2>2. job.doms \in Seq(Domains) /\ Len(job.doms) >= 1 /\ job.types \in Seq(Detectors)
    BY <1>1, <1>4 DEF Job, JobWF, JobScanned
  <2>3. \A i \in DOMAIN job.doms : byDomain[job.doms[i]] \in Seq(Result)
    BY <2>1, <2>2, ResultListsType
  <2>4. lists \in Seq(Seq(Result)) /\ Len(lists) = Len(job.doms) /\ lists[1] \in Seq(Result)
    <3>1. Len(job.doms) \in Nat /\ DOMAIN job.doms = 1..Len(job.doms)
      BY <2>2
    <3>2. lists \in [1..Len(job.doms) -> Seq(Result)]
      BY <2>3, <3>1
    <3>3. \A n \in Nat : \A f \in [1..n -> Seq(Result)] :
            f \in Seq(Seq(Result)) /\ Len(f) = n /\ (n >= 1 => f[1] \in Seq(Result))
      OBVIOUS
    <3> HIDE DEF lists
    <3>4. QED
      BY <2>2, <3>1, <3>2, <3>3
  <2>5. new \in Job
    <3>1. "recording" \in JobPhases
      BY DEF JobPhases, JobRunning
    <3>2. \A p \in JobPhases, t \in Seq(Result), rs \in Seq(Seq(Result)) :
            [job EXCEPT !.phase = p, !.todo = t, !.results = rs] \in Job
      BY <1>1 DEF Job
    <3>3. byDomain[job.doms[1]] \in Seq(Result)
      BY <2>2, <2>3
    <3>4. QED
      BY <2>4, <3>1, <3>2, <3>3
  <2>6. JobWF(new)
    <3>1. /\ new.doms = job.doms /\ new.ids = job.ids /\ new.results = lists
          /\ new.phase = "recording" /\ new.at = job.at
      BY <1>1 DEF Job
    <3>2. job.at \in 1..Len(job.doms)
      BY <1>1, <1>4, <2>2 DEF JobWF, JobScanned
    <3>3. QED
      BY <1>1, <2>2, <2>4, <3>1, <3>2 DEF JobWF
  <2>7. StoreTypeOK'
    BY <1>1, <1>4 DEF JobScanned, StoreTypeOK, store
  <2>8. loop' = j /\ UNCHANGED <<runs, edits, faults, held, accepted>>
    BY <1>4 DEF JobScanned
  <2>9. QED
    BY ZenonT(60), <1>1, <2>1, <2>5, <2>6, <2>7, <2>8, JobFrame
<1>5. CASE RecordJobResult(j)
  <2> DEFINE r == Head(job.todo)
             row == [score |-> r.score, domain |-> job.doms[job.at],
                     src |-> j, floor |-> 0]
             new == [job EXCEPT !.todo = Tail(job.todo)]
  <2>1. /\ job.todo \in Seq(Result) /\ job.todo # <<>> /\ job.doms \in Seq(Domains)
        /\ job.at \in 1..Len(job.doms)
    BY <1>1, <1>5 DEF RecordJobResult, Job, JobWF
  <2>2. r \in Result /\ job.doms[job.at] \in Domains /\ Tail(job.todo) \in Seq(Result)
    BY <2>1
  <2>3. row \in Row
    BY <2>2 DEF Row, Result
  <2>4. history' = RecordScore(IdForRows(job), r.detector, row) \/ history' = history
    BY <1>5 DEF RecordJobResult
  <2>5. history' \in [VendorIds -> [Detectors -> Seq(Row)]]
    <3>1. ASSUME NEW v PROVE RecordScore(v, r.detector, row) \in [VendorIds -> [Detectors -> Seq(Row)]]
      <4>1. CASE v \in VendorIds
        BY <1>1, <2>2, <2>3, <4>1 DEF RecordScore, StoreTypeOK, Result
      <4>2. CASE v \notin VendorIds
        BY <1>1, <4>2 DEF RecordScore, StoreTypeOK
      <4>3. QED
        BY <4>1, <4>2
    <3>2. QED
      BY <1>1, <2>4, <3>1 DEF StoreTypeOK
  <2>6. StoreTypeOK'
    BY <1>1, <1>5, <2>5 DEF RecordJobResult, StoreTypeOK
  <2>7. new \in Job
    <3>1. \A t \in Seq(Result) : [job EXCEPT !.todo = t] \in Job
      BY <1>1 DEF Job
    <3>2. QED
      BY <2>2, <3>1
  <2>8. JobWF(new)
    BY <1>1 DEF Job, JobWF
  <2>9. /\ jobs' = [jobs EXCEPT ![j] = new]
        /\ UNCHANGED <<runs, loop, edits, faults, held, accepted>>
    BY <1>5 DEF RecordJobResult
  <2>10. QED
    BY <1>1, <2>6, <2>7, <2>8, <2>9, JobFrame
<1>6. CASE NextJobVendor(j)
  <2> DEFINE turn == [job EXCEPT !.at = job.at + 1, !.todo = job.results[job.at + 1]]
             end == [job EXCEPT !.phase = "complete"]
  <2>1. /\ job.phase = "recording" /\ job.results \in Seq(Seq(Result)) /\ job.at \in Nat
        /\ Len(job.doms) \in Nat /\ Len(job.results) = Len(job.doms)
        /\ job.at \in 1..Len(job.doms)
    BY <1>1, <1>6 DEF NextJobVendor, Job, JobWF
  <2>2. StoreTypeOK'
    BY <1>1, <1>6 DEF NextJobVendor, StoreTypeOK, store
  <2>3. UNCHANGED <<runs, edits, faults, held, accepted>>
    BY <1>6 DEF NextJobVendor
  <2>4. CASE job.at < Len(job.doms)
    <3>1. job.results[job.at + 1] \in Seq(Result) /\ job.at + 1 \in Nat
      BY SMTT(30), <2>1, <2>4
    <3>2. \A a \in Nat, t \in Seq(Result) : [job EXCEPT !.at = a, !.todo = t] \in Job
      BY <1>1 DEF Job
    <3>3. turn \in Job
      BY <3>1, <3>2
    <3>4. /\ turn.phase = job.phase /\ turn.doms = job.doms /\ turn.ids = job.ids
          /\ turn.results = job.results /\ turn.at = job.at + 1
      BY <1>1 DEF Job
    <3>5. JobWF(turn)
      BY SMTT(30), <1>1, <2>1, <2>4, <3>4 DEF JobWF
    <3>6. jobs' = [jobs EXCEPT ![j] = turn] /\ loop' = loop
      BY <1>6, <2>4 DEF NextJobVendor
    <3>7. QED
      BY <1>1, <2>2, <2>3, <3>3, <3>5, <3>6, JobFrame
  <2>5. CASE ~(job.at < Len(job.doms))
    <3>1. \A p \in JobPhases : [job EXCEPT !.phase = p] \in Job
      BY <1>1 DEF Job
    <3>2. end \in Job
      BY <3>1 DEF JobPhases
    <3>3. /\ end.phase = "complete" /\ end.doms = job.doms /\ end.ids = job.ids
          /\ end.results = job.results /\ end.at = job.at
      BY <1>1 DEF Job
    <3>4. JobWF(end)
      BY <1>1, <2>1, <3>3 DEF JobWF
    <3>5. jobs' = [jobs EXCEPT ![j] = end] /\ loop' = Free
      BY <1>6, <2>5 DEF NextJobVendor
    <3>6. QED
      BY <1>1, <2>2, <2>3, <3>2, <3>4, <3>5, JobFrame
  <2>6. QED
    BY <2>4, <2>5
<1>7. CASE JobStoreFails(j)
  BY <1>1, <1>7, FailedJobType DEF JobStoreFails
<1>8. QED
  BY <1>2, <1>3, <1>4, <1>5, <1>6, <1>7 DEF JobStep

\* A request handler changes the tables within their types, and nothing else.
LEMMA RequestFrame ==
    ASSUME TypeInv, Request, StoreTypeOK', held' \in [VendorIds -> SUBSET Domains]
    PROVE  TypeInv'
<1>1. UNCHANGED <<runs, jobs, loop, faults, accepted>> /\ edits' = edits + 1
  BY DEF Request
<1>2. edits' \in Nat
  BY <1>1 DEF TypeInv, TypeOK
<1>3. TypeOK'
  BY <1>1, <1>2 DEF TypeInv, TypeOK
<1>4. CoroutinesWF'
  BY <1>1 DEF TypeInv, CoroutinesWF
<1>5. QED
  BY <1>3, <1>4 DEF TypeInv

\* Deleting the rows of a vendor keeps the types of the tables (delete_vendor).
LEMMA DeleteRowsType ==
    ASSUME StoreTypeOK, NEW v \in VendorIds, DeleteRows(v), now' = now
    PROVE  StoreTypeOK'
<1>1. NoConfig \in Config
  BY DEF NoConfig, Config, Frequencies, Never
<1>2. QED
  BY <1>1 DEF DeleteRows, StoreTypeOK

\* Every request keeps the types.
LEMMA RequestType ==
    ASSUME TypeInv, NEW v \in VendorIds,
           \/ SetContinuousMonitoring(v) \/ StopContinuousMonitoring(v)
           \/ UpdateVendorDetail(v) \/ DeleteVendorDetail(v)
    PROVE  TypeInv'
<1>1. StoreTypeOK /\ held \in [VendorIds -> SUBSET Domains]
  BY DEF TypeInv, TypeOK
<1>2. CASE SetContinuousMonitoring(v)
  <2>1. configs' \in [VendorIds -> Config]
    <3>1. PICK s \in Sessions \cup {NoOwner}, m \in MonitoringInput : configs' = SetConfig(v, m, s)
      BY <1>2 DEF SetContinuousMonitoring
    <3>2. SetConfig(v, m, s) \in [VendorIds -> Config]
      BY <1>1, ConfigTypes
    <3>3. QED
      BY <3>1, <3>2
  <2>2. UNCHANGED <<vendors, history, alerts, alertSeq, now, held>>
    BY <1>2 DEF SetContinuousMonitoring, Request
  <2>3. StoreTypeOK'
    BY <1>1, <2>1, <2>2 DEF StoreTypeOK
  <2>4. QED
    BY <1>1, <1>2, <2>2, <2>3, RequestFrame DEF SetContinuousMonitoring
<1>3. CASE StopContinuousMonitoring(v)
  <2>1. configs' \in [VendorIds -> Config]
    <3> DEFINE stopped == [mode |-> "ad_hoc", types |-> configs[v].types,
                           freq |-> configs[v].freq, webhook |-> FALSE,
                           threshold |-> configs[v].threshold]
    <3>1. PICK s \in Sessions \cup {NoOwner} : configs' = SetConfig(v, stopped, s)
      BY <1>3, Zenon DEF StopContinuousMonitoring
    <3>2. SetConfig(v, stopped, s) \in [VendorIds -> Config]
      BY <1>1, ConfigTypes
    <3>3. QED
      BY <3>1, <3>2
  <2>2. UNCHANGED <<vendors, history, alerts, alertSeq, now, held>>
    BY <1>3 DEF StopContinuousMonitoring, Request
  <2>3. StoreTypeOK'
    BY <1>1, <2>1, <2>2 DEF StoreTypeOK
  <2>4. QED
    BY <1>1, <1>3, <2>2, <2>3, RequestFrame DEF StopContinuousMonitoring
<1>4. CASE UpdateVendorDetail(v)
  <2>1. PICK d \in Domains :
          vendors' = [vendors EXCEPT ![v] = d] /\ held' = [held EXCEPT ![v] = @ \cup {d}]
    BY <1>4 DEF UpdateVendorDetail
  <2>2. configs' \in [VendorIds -> Config]
    <3>1. CASE UNCHANGED configs
      BY <1>1, <3>1 DEF StoreTypeOK
    <3>2. CASE \E s \in Sessions \cup {NoOwner}, m \in MonitoringInput : configs' = SetConfig(v, m, s)
      <4>1. PICK s \in Sessions \cup {NoOwner}, m \in MonitoringInput : configs' = SetConfig(v, m, s)
        BY <3>2
      <4>2. SetConfig(v, m, s) \in [VendorIds -> Config]
        BY <1>1, ConfigTypes
      <4>3. QED
        BY <4>1, <4>2
    <3>3. QED
      BY <1>4, <3>1, <3>2 DEF UpdateVendorDetail
  <2>3. UNCHANGED <<history, alerts, alertSeq, now>>
    BY <1>4 DEF UpdateVendorDetail, Request
  <2>4. StoreTypeOK'
    BY <1>1, <2>1, <2>2, <2>3 DEF StoreTypeOK
  <2>5. held' \in [VendorIds -> SUBSET Domains]
    BY <1>1, <2>1
  <2>6. QED
    BY <1>4, <2>4, <2>5, RequestFrame DEF UpdateVendorDetail
<1>5. CASE DeleteVendorDetail(v)
  <2>1. now' = now /\ held' = held
    BY <1>5 DEF DeleteVendorDetail, Request
  <2>2. StoreTypeOK'
    BY <1>1, <1>5, <2>1, DeleteRowsType DEF DeleteVendorDetail
  <2>3. QED
    BY <1>1, <1>5, <2>1, <2>2, RequestFrame DEF DeleteVendorDetail
<1>6. QED
  BY <1>2, <1>3, <1>4, <1>5

\* A restart forgets the coroutines and keeps the tables.
LEMMA RestartType == TypeInv /\ Restart => TypeInv'
<1> SUFFICES ASSUME TypeInv, Restart PROVE TypeInv'
  OBVIOUS
<1> DEFINE lost == [NoJob EXCEPT !.phase = "lost"]
<1>1. lost \in Job /\ JobWF(lost)
  <2>1. "lost" \in JobPhases
    BY DEF JobPhases, JobRunning
  <2>2. \A p \in JobPhases : [NoJob EXCEPT !.phase = p] \in Job
    BY NoJobType DEF Job
  <2>3. QED
    BY <2>1, <2>2 DEF NoJob, JobWF
<1>2. /\ runs' = [v \in VendorIds |-> IdleRun]
      /\ jobs' = [j \in Jobs |-> IF jobs[j].phase = "none" THEN NoJob ELSE lost]
      /\ loop' = Free /\ faults' = faults + 1
      /\ UNCHANGED <<vendors, configs, history, alerts, alertSeq, now, edits, held, accepted>>
  BY DEF Restart, store
<1>3. StoreTypeOK' /\ faults' \in Nat
  BY <1>2 DEF TypeInv, TypeOK, StoreTypeOK
<1>4. TypeOK'
  BY <1>1, <1>2, <1>3, IdleRunType, NoJobType DEF TypeInv, TypeOK
<1>5. CoroutinesWF'
  BY <1>1, <1>2, IdleRunType, NoJobType DEF CoroutinesWF
<1>6. QED
  BY <1>4, <1>5 DEF TypeInv

LEMMA NextType == TypeInv /\ [Next]_vars => TypeInv'
<1> SUFFICES ASSUME TypeInv, [Next]_vars PROVE TypeInv'
  OBVIOUS
<1>1. CASE SchedulerTick
  BY <1>1, SchedulerTickType
<1>2. ASSUME NEW v \in VendorIds, RunStep(v) \/ RunFails(v) PROVE TypeInv'
  BY <1>2, RunStepType
<1>3. ASSUME NEW j \in Jobs, JobStep(j) \/ JobStoreFails(j) PROVE TypeInv'
  BY <1>3, JobStepType
<1>4. ASSUME NEW j \in Jobs, StartDetectJob(j) PROVE TypeInv'
  <2>1. PICK inputs \in InputLists, types \in TypeLists : NewJob(j, inputs, types)
    BY <1>4 DEF StartDetectJob
  <2>2. inputs \in Seq(Domains \cup {Unknown}) \ {<<>>} /\ types \in Seq(Detectors)
    BY StoreAssumption, MonitoringAssumption
  <2>3. QED
    BY <2>1, <2>2, NewJobType
<1>5. ASSUME NEW j \in Jobs, NEW v \in VendorIds, RescanVendor(j, v) PROVE TypeInv'
  <2>1. PICK types \in TypeLists, domain \in {vendors[v], Unknown} : NewJob(j, <<domain>>, types)
    BY <1>5 DEF RescanVendor
  <2>2. <<domain>> \in Seq(Domains \cup {Unknown}) \ {<<>>} /\ types \in Seq(Detectors)
    BY <1>5, StoreAssumption DEF RescanVendor, Exists
  <2>3. QED
    BY <2>1, <2>2, NewJobType
<1>6. ASSUME NEW v \in VendorIds,
             \/ SetContinuousMonitoring(v) \/ StopContinuousMonitoring(v)
             \/ UpdateVendorDetail(v) \/ DeleteVendorDetail(v)
      PROVE  TypeInv'
  BY <1>6, RequestType
<1>7. CASE AdvanceClock
  <2>1. /\ UNCHANGED <<vendors, configs, history, alerts, alertSeq, runs, jobs, loop, edits, faults, held, accepted>>
        /\ now' = now + 1
    BY <1>7 DEF AdvanceClock, store
  <2>2. StoreTypeOK'
    BY <2>1 DEF TypeInv, TypeOK, StoreTypeOK
  <2>3. TypeOK' /\ CoroutinesWF'
    BY <2>1, <2>2 DEF TypeInv, TypeOK, CoroutinesWF
  <2>4. QED
    BY <2>3 DEF TypeInv
<1>8. CASE Restart
  BY <1>8, RestartType
<1>9. CASE UNCHANGED vars
  <2>1. UNCHANGED <<vendors, configs, history, alerts, alertSeq, now, runs, jobs, loop, edits, faults, held, accepted>>
    BY <1>9 DEF vars, store
  <2>2. QED
    BY <2>1 DEF TypeInv, TypeOK, StoreTypeOK, CoroutinesWF
<1>10. QED
  BY <1>1, <1>2, <1>3, <1>4, <1>5, <1>6, <1>7, <1>8, <1>9 DEF Next

\* Every variable has its type in every reachable state, whatever the
\* vendors, detectors, thresholds, jobs and bounds are.
THEOREM TypeCorrect == Spec => []TypeOK
<1>1. Spec => []TypeInv
  BY InitType, NextType, PTL DEF Spec
<1>2. TypeInv => TypeOK
  BY DEF TypeInv
<1>3. QED
  BY <1>1, <1>2, PTL

-----------------------------------------------------------------------------
(* The inventory and its configurations.                                   *)

\* The steps that touch the inventory or the configurations, by kind.
LEMMA InventorySteps ==
    ASSUME [Next]_vars
    PROVE  \/ UNCHANGED <<vendors, configs>>
           \/ \E j \in Jobs : ResolveInput(j)
           \/ \E v \in VendorIds : FinishRun(v)
           \/ \E v \in VendorIds : \/ SetContinuousMonitoring(v) \/ StopContinuousMonitoring(v)
                                   \/ UpdateVendorDetail(v) \/ DeleteVendorDetail(v)
<1>1. CASE \E v \in VendorIds : RunStep(v) \/ RunFails(v)
  BY <1>1 DEF RunStep, RunFails, StartRun, ScanDone, RecordResult, RaiseAlert, WebhookAnswered,
              MarkDelivery, store
<1>2. CASE \E j \in Jobs : StartDetectJob(j) \/ JobStep(j) \/ JobStoreFails(j)
  BY <1>2 DEF StartDetectJob, NewJob, JobStep, JobRaises, JobScanned, RecordJobResult,
              NextJobVendor, JobStoreFails, store
<1>3. CASE \E j \in Jobs, v \in VendorIds : RescanVendor(j, v)
  BY <1>3 DEF RescanVendor, NewJob, store
<1>4. CASE SchedulerTick \/ AdvanceClock \/ Restart \/ UNCHANGED vars
  BY <1>4 DEF SchedulerTick, AdvanceClock, Restart, vars, store
<1>5. QED
  BY <1>1, <1>2, <1>3, <1>4 DEF Next

\* The vendor upsert_vendor returns has the domain already, or is new and
\* nobody has it.
LEMMA UpsertKeepsUnique ==
    ASSUME StoreTypeOK, UniqueDomains, NEW d \in Domains, NEW v \in UpsertIds(d),
           vendors' = [vendors EXCEPT ![v] = d]
    PROVE  UniqueDomains' /\ \A w \in VendorIds : Exists(w) => Exists(w)'
<1>1. v \in VendorIds
  BY DEF UpsertIds
<1>2. CASE \E w \in VendorIds : vendors[w] = d
  BY <1>1, <1>2 DEF UpsertIds, StoreTypeOK, UniqueDomains, Exists
<1>3. CASE ~\E w \in VendorIds : vendors[w] = d
  BY <1>1, <1>3 DEF StoreTypeOK, UniqueDomains, Exists
<1>4. QED
  BY <1>2, <1>3

\* A turn of the resolve loop upserts some vendor with some domain.
LEMMA ResolveUpserts ==
    ASSUME TypeInv, NEW j \in Jobs, ResolveInput(j)
    PROVE  \E d \in Domains : \E v \in UpsertIds(d) : vendors' = [vendors EXCEPT ![v] = d]
<1> DEFINE k == Len(jobs[j].doms) + 1
<1>1. /\ jobs[j].inputs \in Seq(Domains \cup {Unknown}) /\ jobs[j].doms \in Seq(Domains)
      /\ Len(jobs[j].doms) < Len(jobs[j].inputs)
  BY DEF TypeInv, TypeOK, CoroutinesWF, JobWF, Job, ResolveInput
<1>2. jobs[j].inputs[k] \in Domains \cup {Unknown}
  BY <1>1
<1>3. PICK d \in (IF jobs[j].inputs[k] = Unknown THEN Domains ELSE {jobs[j].inputs[k]}) :
        \E v \in UpsertIds(d) : vendors' = [vendors EXCEPT ![v] = d]
  BY DEF ResolveInput
<1>4. QED
  BY <1>2, <1>3

Inventory == UniqueDomains /\ ConfigNeedsVendor

LEMMA InventoryStep == TypeInv /\ Inventory /\ [Next]_vars => Inventory'
<1> SUFFICES ASSUME TypeInv, Inventory, [Next]_vars PROVE Inventory'
  OBVIOUS
<1>1. StoreTypeOK
  BY DEF TypeInv, TypeOK
<1>2. CASE UNCHANGED <<vendors, configs>>
  BY <1>2 DEF Inventory, UniqueDomains, ConfigNeedsVendor, Exists, HasConfig
<1>3. ASSUME NEW j \in Jobs, ResolveInput(j) PROVE Inventory'
  <2>1. PICK d \in Domains : \E v \in UpsertIds(d) : vendors' = [vendors EXCEPT ![v] = d]
    BY <1>3, ResolveUpserts
  <2>2. UniqueDomains' /\ \A w \in VendorIds : Exists(w) => Exists(w)'
    BY <1>1, <2>1, UpsertKeepsUnique DEF Inventory
  <2>3. configs' = configs
    BY <1>3 DEF ResolveInput
  <2>4. QED
    BY <2>2, <2>3 DEF Inventory, ConfigNeedsVendor, HasConfig
<1>4. ASSUME NEW v \in VendorIds, FinishRun(v) PROVE Inventory'
  <2>1. vendors' = vendors /\ configs' = MarkRun(v, runs[v].cfg.freq)
    BY <1>4 DEF FinishRun
  <2>2. \A w \in VendorIds : HasConfig(w)' => HasConfig(w)
    BY <1>1, <2>1 DEF HasConfig, MarkRun, StoreTypeOK, Config
  <2>3. QED
    BY <2>1, <2>2 DEF Inventory, UniqueDomains, ConfigNeedsVendor, Exists
<1>5. ASSUME NEW v \in VendorIds, SetContinuousMonitoring(v) PROVE Inventory'
  <2>1. vendors' = vendors /\ Exists(v)
    BY <1>5 DEF SetContinuousMonitoring
  <2>2. \A w \in VendorIds \ {v} : configs'[w] = configs[w]
    BY <1>1, <1>5 DEF SetContinuousMonitoring, SetConfig, StoreTypeOK
  <2>3. QED
    BY <2>1, <2>2 DEF Inventory, UniqueDomains, ConfigNeedsVendor, Exists, HasConfig
<1>6. ASSUME NEW v \in VendorIds, StopContinuousMonitoring(v) PROVE Inventory'
  <2>1. vendors' = vendors /\ HasConfig(v)
    BY <1>6 DEF StopContinuousMonitoring
  <2>2. \A w \in VendorIds \ {v} : configs'[w] = configs[w]
    BY <1>1, <1>6 DEF StopContinuousMonitoring, SetConfig, StoreTypeOK
  <2>3. QED
    BY <2>1, <2>2 DEF Inventory, UniqueDomains, ConfigNeedsVendor, Exists, HasConfig
<1>7. ASSUME NEW v \in VendorIds, UpdateVendorDetail(v) PROVE Inventory'
  <2>1. PICK d \in Domains : UpdateAllowed(v, d) /\ vendors' = [vendors EXCEPT ![v] = d]
    BY <1>7 DEF UpdateVendorDetail
  <2>2. \A w \in VendorIds \ {v} : configs'[w] = configs[w]
    BY <1>1, <1>7 DEF UpdateVendorDetail, SetConfig, StoreTypeOK
  <2>3. UniqueDomains'
    BY <1>1, <2>1 DEF Inventory, UniqueDomains, UpdateAllowed, Exists, StoreTypeOK
  <2>4. ConfigNeedsVendor'
    BY <1>1, <2>1, <2>2 DEF Inventory, ConfigNeedsVendor, Exists, HasConfig, StoreTypeOK
  <2>5. QED
    BY <2>3, <2>4 DEF Inventory
<1>8. ASSUME NEW v \in VendorIds, DeleteVendorDetail(v) PROVE Inventory'
  <2>1. /\ vendors' = [vendors EXCEPT ![v] = Deleted]
        /\ configs' = [configs EXCEPT ![v] = NoConfig]
    BY <1>8 DEF DeleteVendorDetail, DeleteRows
  <2>2. UniqueDomains'
    BY <1>1, <2>1, StoreAssumption DEF Inventory, UniqueDomains, Exists, StoreTypeOK
  <2>3. ConfigNeedsVendor'
    BY <1>1, <2>1 DEF Inventory, ConfigNeedsVendor, Exists, HasConfig, NoConfig, StoreTypeOK
  <2>4. QED
    BY <2>2, <2>3 DEF Inventory
<1>9. QED
  BY <1>2, <1>3, <1>4, <1>5, <1>6, <1>7, <1>8, InventorySteps

\* Vendors keep distinct domains, however upserts of concurrent jobs and
\* domain changes interleave (upsert_vendor, update_vendor).
THEOREM DomainsStayUnique == Spec => []UniqueDomains
<1>1. Init => Inventory
  BY StoreAssumption
     DEF Init, StoreInit, Inventory, UniqueDomains, ConfigNeedsVendor, Exists, HasConfig, NoConfig
<1>2. Spec => []Inventory
  BY <1>1, InitType, NextType, InventoryStep, PTL DEF Spec
<1>3. Inventory => UniqueDomains
  BY DEF Inventory
<1>4. QED
  BY <1>2, <1>3, PTL

\* No configuration outlives its vendor (delete_vendor, mark_monitor_run).
THEOREM ConfigsHaveVendors == Spec => []ConfigNeedsVendor
<1>1. Init => Inventory
  BY StoreAssumption
     DEF Init, StoreInit, Inventory, UniqueDomains, ConfigNeedsVendor, Exists, HasConfig, NoConfig
<1>2. Spec => []Inventory
  BY <1>1, InitType, NextType, InventoryStep, PTL DEF Spec
<1>3. Inventory => ConfigNeedsVendor
  BY DEF Inventory
<1>4. QED
  BY <1>2, <1>3, PTL

-----------------------------------------------------------------------------
(* Ownership of a configuration.                                           *)

KeepsOwners ==
    \A v \in VendorIds :
        HasConfig(v) /\ configs[v].owner # NoOwner
            => \/ HasConfig(v)' /\ configs'[v].owner = configs[v].owner
               \/ Exists(v) /\ vendors'[v] = Deleted

\* An authorised change of a configuration writes the owner back.
LEMMA SetConfigKeepsOwners ==
    ASSUME StoreTypeOK, NEW v \in VendorIds, NEW m, NEW s, Authorised(v, s),
           m.mode # "absent", configs' = SetConfig(v, m, s)
    PROVE  KeepsOwners
BY DEF KeepsOwners, Authorised, SetConfig, StoreTypeOK, HasConfig

LEMMA OwnerStep == TypeInv /\ [Next]_vars => KeepsOwners
<1> SUFFICES ASSUME TypeInv, [Next]_vars PROVE KeepsOwners
  OBVIOUS
<1>1. StoreTypeOK
  BY DEF TypeInv, TypeOK
<1>2. CASE configs' = configs
  BY <1>2 DEF KeepsOwners, HasConfig
<1>3. ASSUME NEW v \in VendorIds, FinishRun(v) PROVE KeepsOwners
  <2>1. configs' = MarkRun(v, runs[v].cfg.freq)
    BY <1>3 DEF FinishRun
  <2>2. QED
    BY <1>1, <2>1 DEF KeepsOwners, HasConfig, MarkRun, StoreTypeOK, Config
<1>4. ASSUME NEW v \in VendorIds,
             SetContinuousMonitoring(v) \/ StopContinuousMonitoring(v) \/ UpdateVendorDetail(v)
      PROVE  KeepsOwners
  <2>1. \/ UNCHANGED configs
        \/ \E s \in Sessions \cup {NoOwner} :
              \E m : Authorised(v, s) /\ m.mode # "absent" /\ configs' = SetConfig(v, m, s)
    BY <1>4 DEF SetContinuousMonitoring, StopContinuousMonitoring, UpdateVendorDetail, MonitoringInput
  <2>2. QED
    BY <1>1, <1>2, <2>1, SetConfigKeepsOwners
<1>5. ASSUME NEW v \in VendorIds, DeleteVendorDetail(v) PROVE KeepsOwners
  <2>1. /\ Exists(v) /\ vendors' = [vendors EXCEPT ![v] = Deleted]
        /\ configs' = [configs EXCEPT ![v] = NoConfig]
    BY <1>5 DEF DeleteVendorDetail, DeleteRows
  <2>2. QED
    BY <1>1, <2>1 DEF KeepsOwners, HasConfig, StoreTypeOK
<1>6. ASSUME NEW j \in Jobs, ResolveInput(j) PROVE KeepsOwners
  BY <1>2, <1>6 DEF ResolveInput
<1>7. QED
  BY <1>2, <1>3, <1>4, <1>5, <1>6, InventorySteps

\* A real owner on record is binding until the vendor is deleted (the ownership
\* checks of the three handlers, mark_monitor_run, delete_vendor).
THEOREM OwnersAreBinding == Spec => OwnerIsBinding
<1>1. TypeInv /\ [Next]_vars => [KeepsOwners]_vars
  BY OwnerStep
<1>2. Spec => [][KeepsOwners]_vars
  BY <1>1, InitType, NextType, PTL DEF Spec
<1>3. QED
  BY <1>2 DEF OwnerIsBinding, KeepsOwners

-----------------------------------------------------------------------------
(* Alerts.                                                                 *)

\* What a run knows when it has recorded a drop and not yet its alert.
Pending(v) ==
    LET r == Head(runs[v].results)
        h == history[v][r.detector]
        n == Len(h)
    IN /\ loop = v
       /\ r \in Result /\ n \in Nat /\ n >= 2
       /\ h[n].src = Scheduler /\ h[n].score = r.score /\ h[n - 1].score = runs[v].prev
       /\ runs[v].prev # NoScore /\ r.score # NoScore
       /\ runs[v].prev - r.score >= runs[v].cfg.threshold
       /\ h[n].floor = runs[v].cfg.threshold

AlertInv ==
    /\ AlertsAreDrops
    /\ \A v \in VendorIds : runs[v].phase = "alerting" => Pending(v)

\* What AlertsAreDrops says of one alert and the history of its detector.
Describes(a, h) ==
    /\ a.row \in 2..Len(h)
    /\ h[a.row].src = Scheduler
    /\ h[a.row].score = a.new /\ h[a.row - 1].score = a.prev
    /\ a.prev # NoScore /\ a.new # NoScore
    /\ a.prev - a.new >= a.floor /\ a.floor = h[a.row].floor

\* Recording a score changes no row that was there (record_score).
LEMMA RowsAreKept ==
    ASSUME StoreTypeOK, NEW v \in VendorIds, NEW d \in Detectors, NEW row \in Row,
           history' = RecordScore(v, d, row), NEW w \in VendorIds, NEW e \in Detectors
    PROVE  /\ Len(history'[w][e]) \in Nat /\ Len(history'[w][e]) >= Len(history[w][e])
           /\ \A i \in 1..Len(history[w][e]) : history'[w][e][i] = history[w][e][i]
<1>1. history[w][e] \in Seq(Row)
  BY DEF StoreTypeOK
<1>2. CASE w = v /\ e = d
  <2>1. history'[w][e] = Append(history[w][e], row)
    BY <1>2 DEF RecordScore, StoreTypeOK
  <2>2. QED
    BY <1>1, <2>1
<1>3. CASE ~(w = v /\ e = d)
  <2>1. history'[w][e] = history[w][e]
    BY <1>3 DEF RecordScore, StoreTypeOK
  <2>2. QED
    BY <1>1, <2>1
<1>4. QED
  BY <1>2, <1>3

\* So the alerts keep describing the rows they described.
LEMMA AlertsSurviveRecording ==
    ASSUME StoreTypeOK, AlertsAreDrops, NEW v \in VendorIds, NEW d \in Detectors,
           NEW row \in Row, history' = RecordScore(v, d, row), alerts' = alerts
    PROVE  AlertsAreDrops'
<1> SUFFICES ASSUME NEW a \in alerts
             PROVE  LET h == history'[a.vendor][a.detector] IN
                    /\ a.row \in 2..Len(h)
                    /\ h[a.row].src = Scheduler
                    /\ h[a.row].score = a.new /\ h[a.row - 1].score = a.prev
                    /\ a.prev # NoScore /\ a.new # NoScore
                    /\ a.prev - a.new >= a.floor /\ a.floor = h[a.row].floor
  BY DEF AlertsAreDrops
<1> DEFINE h == history[a.vendor][a.detector]
           g == history'[a.vendor][a.detector]
<1>1. a.vendor \in VendorIds /\ a.detector \in Detectors /\ a.row \in Nat
  BY DEF StoreTypeOK, Alert
<1>2. /\ Len(g) \in Nat /\ Len(g) >= Len(h)
      /\ \A i \in 1..Len(h) : g[i] = h[i]
  BY <1>1, RowsAreKept
<1>3. Len(h) \in Nat
  BY <1>1 DEF StoreTypeOK
<1>4. /\ a.row \in 2..Len(h)
      /\ h[a.row].src = Scheduler
      /\ h[a.row].score = a.new /\ h[a.row - 1].score = a.prev
      /\ a.prev # NoScore /\ a.new # NoScore
      /\ a.prev - a.new >= a.floor /\ a.floor = h[a.row].floor
  BY DEF AlertsAreDrops
<1>5. a.row \in 1..Len(h) /\ a.row - 1 \in 1..Len(h) /\ a.row \in 2..Len(g)
  <2> HIDE DEF h, g
  <2>1. \A n, m \in Nat : m >= n =>
          \A k \in 2..n : k \in 1..n /\ k - 1 \in 1..n /\ k \in 2..m
    OBVIOUS
  <2>2. QED
    BY <1>2, <1>3, <1>4, <2>1
<1>6. g[a.row] = h[a.row] /\ g[a.row - 1] = h[a.row - 1]
  BY <1>2, <1>5
<1>7. QED
  BY <1>4, <1>5, <1>6

\* While another coroutine holds the loop, or nobody does, no run is between
\* a drop and its alert.
LEMMA NobodyPending ==
    ASSUME AlertInv, NEW v \in VendorIds, loop # v
    PROVE  runs[v].phase # "alerting"
BY DEF AlertInv, Pending

LEMMA AlertStepOfRun ==
    ASSUME TypeInv, AlertInv, NEW v \in VendorIds, RunStep(v) \/ RunFails(v)
    PROVE  AlertInv'
<1> DEFINE run == runs[v]
<1>1. StoreTypeOK /\ run \in Run /\ RunWF(run) /\ runs \in [VendorIds -> Run]
  BY DEF TypeInv, TypeOK, CoroutinesWF
<1>2. loop = v \/ loop = Free
  BY DEF RunStep, RunFails, StartRun, ScanDone, RecordResult, RaiseAlert, WebhookAnswered,
         MarkDelivery, FinishRun
<1>3. \A w \in VendorIds \ {v} : runs[w].phase # "alerting" /\ runs'[w] = runs[w]
  <2>1. \A w \in VendorIds \ {v} : loop # w
    BY <1>2, MonitoringAssumption DEF Free
  <2>2. \A w \in VendorIds \ {v} : runs'[w] = runs[w]
    BY <1>1 DEF RunStep, RunFails, StartRun, ScanDone, RecordResult, RaiseAlert,
                WebhookAnswered, MarkDelivery, FinishRun
  <2>3. QED
    BY <2>1, <2>2, NobodyPending
<1>4. CASE StartRun(v) \/ ScanDone(v) \/ WebhookAnswered(v) \/ FinishRun(v) \/ RunFails(v)
  <2>1. UNCHANGED <<history, alerts>>
    BY <1>4 DEF StartRun, ScanDone, WebhookAnswered, FinishRun, RunFails, store
  <2>2. runs'[v].phase # "alerting"
    <3>1. CASE StartRun(v)
      <4>1. runs'[v] = [run EXCEPT !.phase = "scanning", !.domain = vendors[v]] \/ runs'[v] = IdleRun
        BY <1>1, <3>1 DEF StartRun
      <4>2. [run EXCEPT !.phase = "scanning", !.domain = vendors[v]].phase = "scanning"
        BY <1>1 DEF Run
      <4>3. IdleRun.phase = "idle"
        BY DEF IdleRun
      <4> DEFINE started == [run EXCEPT !.phase = "scanning", !.domain = vendors[v]]
      <4>4. runs'[v] = started \/ runs'[v] = IdleRun
        BY <4>1
      <4>5. started.phase = "scanning"
        BY <4>2
      <4> HIDE DEF started
      <4>6. QED
        BY <4>3, <4>4, <4>5
    <3>2. CASE ScanDone(v)
      <4>1. PICK rs \in ResultLists(run.cfg.types) \cup {<<>>} :
              runs' = [runs EXCEPT ![v] = [@ EXCEPT !.phase = "recording", !.results = rs]]
        BY <3>2 DEF ScanDone
      <4>2. runs'[v] = [run EXCEPT !.phase = "recording", !.results = rs]
        BY <1>1, <4>1
      <4>3. QED
        BY <1>1, <4>2 DEF Run
    <3>3. CASE WebhookAnswered(v)
      <4>1. PICK ok \in BOOLEAN :
              runs' = [runs EXCEPT ![v].phase = IF ok THEN "posted" ELSE "refused"]
        BY <3>3 DEF WebhookAnswered
      <4>2. runs'[v].phase = IF ok THEN "posted" ELSE "refused"
        BY <1>1, <4>1 DEF Run
      <4>3. QED
        BY <4>2
    <3>4. CASE FinishRun(v) \/ RunFails(v)
      BY <1>1, <3>4 DEF FinishRun, RunFails, IdleRun
    <3>5. QED
      BY <1>4, <3>1, <3>2, <3>3, <3>4
  <2>3. QED
    BY <1>3, <2>1, <2>2 DEF AlertInv, AlertsAreDrops
<1>5. CASE RecordResult(v)
  <2> DEFINE r == Head(run.results)
             prev == Previous(v, r.detector)
             row == [score |-> r.score, domain |-> run.domain,
                     src |-> Scheduler, floor |-> run.cfg.threshold]
             h == history[v][r.detector]
  <2>1. run.results \in Seq(Result) /\ run.results # <<>> /\ run.domain \in Domains
    BY <1>1, <1>5 DEF RecordResult, Run, RunWF
  <2>2. r \in Result /\ r.detector \in Detectors
    <3>1. r \in Result
      BY <2>1
    <3>2. QED
      BY <3>1 DEF Result
  <2>3. row \in Row
    BY <1>1, <2>1, <2>2 DEF Row, Result, Run, Config
  <2>4. history' = RecordScore(v, r.detector, row) /\ alerts' = alerts /\ loop' = v
    BY <1>5 DEF RecordResult
  <2>5. AlertsAreDrops'
    BY <1>1, <2>2, <2>3, <2>4, AlertsSurviveRecording DEF AlertInv
  <2>6. CASE DropAlerts(prev, r.score, run.cfg.threshold)
    <3>1. runs'[v] = [run EXCEPT !.phase = "alerting", !.prev = prev]
      BY <1>1, <1>5, <2>6 DEF RecordResult
    <3>2. /\ runs'[v].results = run.results /\ runs'[v].prev = prev /\ runs'[v].cfg = run.cfg
      BY <1>1, <3>1 DEF Run
    <3>3. h \in Seq(Row) /\ history'[v][r.detector] = Append(h, row)
      BY SMTT(30), <1>1, <2>2, <2>4 DEF StoreTypeOK, RecordScore
    <3>4. h # <<>> /\ prev = h[Len(h)].score
      BY <2>6 DEF DropAlerts, Previous, Latest
    <3>5. Len(h) \in Nat /\ Len(h) >= 1
      <4> HIDE DEF h
      <4>1. h \in Seq(Row) /\ h # <<>>
        BY <3>3, <3>4
      <4>2. QED
        BY <4>1
    <3>9. /\ Len(Append(h, row)) = Len(h) + 1
          /\ Append(h, row)[Len(h) + 1] = row /\ Append(h, row)[Len(h)] = h[Len(h)]
      <4> HIDE DEF h, row
      <4>1. h \in Seq(Row) /\ row \in Row
        BY <2>3, <3>3
      <4>2. QED
        BY <4>1, <3>5
    <3>6. /\ row.src = Scheduler /\ row.score = r.score /\ row.floor = run.cfg.threshold
      BY SMTT(30)
    <3>7. Pending(v)'
      <4> DEFINE n == Len(history'[v][r.detector])
      <4>1. Head(runs[v].results)' = r /\ runs'[v].prev = prev /\ runs'[v].cfg = run.cfg
        BY <3>2
      <4>2. n = Len(h) + 1 /\ n \in Nat /\ n >= 2 /\ n - 1 = Len(h)
        <5> HIDE DEF h, row
        <5>1. n = Len(Append(h, row))
          BY <3>3
        <5> HIDE DEF n
        <5>2. n = Len(h) + 1
          BY SMTT(30), <3>9, <5>1
        <5>3. QED
          BY <3>5, <5>2
      <4>3. history'[v][r.detector][n] = row /\ history'[v][r.detector][n - 1] = h[Len(h)]
        BY <3>3, <3>9, <4>2
      <4>4. prev # NoScore /\ r.score # NoScore /\ prev - r.score >= run.cfg.threshold
        BY <2>6 DEF DropAlerts
      <4> HIDE DEF h, n, r, prev, row
      <4>5. QED
        BY <2>2, <2>4, <3>4, <3>6, <4>1, <4>2, <4>3, <4>4 DEF Pending, n, run
    <3>8. QED
      BY <1>3, <2>5, <3>7 DEF AlertInv
  <2>7. CASE ~DropAlerts(prev, r.score, run.cfg.threshold)
    <3>1. runs'[v] = NextResult(run)
      BY <1>1, <1>5, <2>7 DEF RecordResult
    <3>2. runs'[v].phase # "alerting"
      BY <1>1, <3>1 DEF NextResult, Run
    <3>3. QED
      BY <1>3, <2>5, <3>2 DEF AlertInv
  <2>8. QED
    BY <2>6, <2>7
<1>6. CASE RaiseAlert(v)
  <2> DEFINE r == Head(run.results)
             new == [id |-> alertSeq + 1, vendor |-> v, detector |-> r.detector,
                     prev |-> run.prev, new |-> r.score, status |-> "logged",
                     row |-> Len(history[v][r.detector]), floor |-> run.cfg.threshold,
                     webhook |-> run.cfg.webhook]
  <2>1. Pending(v)
    BY <1>6 DEF RaiseAlert, AlertInv
  <2>2. alerts' = alerts \cup {new} /\ history' = history
    BY <1>6 DEF RaiseAlert, RecordAlert
  <2>3. AlertsAreDrops'
    <3>1. ASSUME NEW a \in alerts' PROVE Describes(a, history'[a.vendor][a.detector])
      <4>1. CASE a \in alerts
        BY <2>2, <4>1 DEF AlertInv, AlertsAreDrops, Describes
      <4>2. CASE a = new
        <5>1. /\ a.vendor = v /\ a.detector = r.detector /\ a.prev = run.prev /\ a.new = r.score
              /\ a.row = Len(history[v][r.detector]) /\ a.floor = run.cfg.threshold
          BY <4>2
        <5> DEFINE h == history[v][r.detector]
        <5>2. /\ Len(h) \in Nat /\ Len(h) >= 2
              /\ h[Len(h)].src = Scheduler /\ h[Len(h)].score = r.score
              /\ h[Len(h) - 1].score = run.prev /\ run.prev # NoScore /\ r.score # NoScore
              /\ run.prev - r.score >= run.cfg.threshold /\ h[Len(h)].floor = run.cfg.threshold
          BY <2>1 DEF Pending
        <5>3. history'[a.vendor][a.detector] = h /\ a.row = Len(h)
          BY <2>2, <5>1
        <5> HIDE DEF h, r, run, new
        <5>4. Len(h) \in 2..Len(h)
          BY <5>2
        <5>5. Describes(a, h)
          BY <5>1, <5>2, <5>3, <5>4 DEF Describes
        <5>6. QED
          BY <5>3, <5>5
      <4>3. QED
        BY SMTT(30), <2>2, <4>1, <4>2
    <3>2. QED
      BY <3>1 DEF AlertsAreDrops, Describes
  <2>4. runs'[v].phase # "alerting"
    BY <1>1, <1>6 DEF RaiseAlert, NextResult, Run
  <2>5. QED
    BY <1>3, <2>3, <2>4 DEF AlertInv
<1>7. CASE MarkDelivery(v)
  <2>1. alerts' = MarkAlert(run.alert, run.phase = "posted") /\ history' = history
    BY <1>7 DEF MarkDelivery
  <2>2. \A b \in alerts' : \E a \in alerts :
          /\ b.vendor = a.vendor /\ b.detector = a.detector /\ b.row = a.row
          /\ b.new = a.new /\ b.prev = a.prev /\ b.floor = a.floor
    <3> TAKE b \in alerts'
    <3>1. PICK a \in alerts : b = IF a.id = run.alert
                                  THEN [a EXCEPT !.status = IF run.phase = "posted" THEN "delivered" ELSE "error"]
                                  ELSE a
      BY <2>1 DEF MarkAlert
    <3>2. a \in Alert
      BY <1>1 DEF StoreTypeOK
    <3>3. \A st : LET c == [a EXCEPT !.status = st] IN
                  /\ c.vendor = a.vendor /\ c.detector = a.detector /\ c.row = a.row
                  /\ c.new = a.new /\ c.prev = a.prev /\ c.floor = a.floor
      BY <3>2 DEF Alert
    <3>4. /\ b.vendor = a.vendor /\ b.detector = a.detector /\ b.row = a.row
          /\ b.new = a.new /\ b.prev = a.prev /\ b.floor = a.floor
      BY <3>1, <3>3
    <3>5. QED
      BY <3>4
  <2>3. AlertsAreDrops'
    <3>1. ASSUME NEW b \in alerts' PROVE Describes(b, history'[b.vendor][b.detector])
      <4>1. PICK a \in alerts :
              /\ b.vendor = a.vendor /\ b.detector = a.detector /\ b.row = a.row
              /\ b.new = a.new /\ b.prev = a.prev /\ b.floor = a.floor
        BY <2>2
      <4>2. Describes(a, history[a.vendor][a.detector])
        BY DEF AlertInv, AlertsAreDrops, Describes
      <4>3. QED
        BY <2>1, <4>1, <4>2 DEF Describes
    <3>2. QED
      BY <3>1 DEF AlertsAreDrops, Describes
  <2>4. runs'[v].phase # "alerting"
    BY <1>1, <1>7 DEF MarkDelivery, NextResult, Run
  <2>5. QED
    BY <1>3, <2>3, <2>4 DEF AlertInv
<1>8. QED
  BY <1>4, <1>5, <1>6, <1>7 DEF RunStep

\* A job records scores and never touches a run or an alert.
LEMMA AlertStepOfJob ==
    ASSUME TypeInv, AlertInv, NEW j \in Jobs, RecordJobResult(j)
    PROVE  AlertInv'
<1> DEFINE job == jobs[j]
           r == Head(job.todo)
           row == [score |-> r.score, domain |-> job.doms[job.at],
                   src |-> j, floor |-> 0]
<1>1. StoreTypeOK /\ job \in Job /\ JobWF(job)
  BY DEF TypeInv, TypeOK, CoroutinesWF
<1>2. loop = j /\ UNCHANGED <<alerts, runs, loop>>
  BY DEF RecordJobResult
<1>3. \A v \in VendorIds : runs[v].phase # "alerting"
  BY <1>2, NobodyPending, MonitoringAssumption
<1>4. AlertsAreDrops'
  <2>1. CASE history' = history
    BY <1>2, <2>1 DEF AlertInv, AlertsAreDrops
  <2>2. CASE history' = RecordScore(IdForRows(job), r.detector, row)
    <3>1. job.todo \in Seq(Result) /\ job.todo # <<>> /\ job.doms \in Seq(Domains)
      BY <1>1 DEF RecordJobResult, Job
    <3>2. r \in Result
      BY <3>1
    <3>3. job.at \in 1..Len(job.doms)
      BY <1>1 DEF RecordJobResult, JobWF
    <3>4. job.doms[job.at] \in Domains
      BY <3>1, <3>3
    <3>5. row \in Row
      BY <3>2, <3>4 DEF Row, Result
    <3>6. r.detector \in Detectors
      BY <3>2 DEF Result
    <3>7. CASE IdForRows(job) \in VendorIds
      BY <1>1, <1>2, <2>2, <3>5, <3>6, <3>7, AlertsSurviveRecording DEF AlertInv
    <3>8. CASE IdForRows(job) \notin VendorIds
      <4>1. history' = history
        BY <1>1, <2>2, <3>8 DEF RecordScore, StoreTypeOK
      <4>2. QED
        BY <2>1, <4>1
    <3>9. QED
      BY <3>7, <3>8
  <2>3. QED
    BY <2>1, <2>2 DEF RecordJobResult
<1>5. QED
  BY <1>2, <1>3, <1>4 DEF AlertInv

\* Deleting a vendor deletes its alerts with its rows, and no others.
LEMMA AlertStepOfDelete ==
    ASSUME TypeInv, AlertInv, NEW v \in VendorIds, DeleteVendorDetail(v)
    PROVE  AlertInv'
<1>1. StoreTypeOK
  BY DEF TypeInv, TypeOK
<1>2. /\ alerts' = {a \in alerts : a.vendor # v}
      /\ history' = [history EXCEPT ![v] = [d \in Detectors |-> <<>>]]
      /\ loop = Free /\ UNCHANGED runs
  BY DEF DeleteVendorDetail, DeleteRows, Request
<1>3. \A w \in VendorIds : runs[w].phase # "alerting"
  BY <1>2, NobodyPending, MonitoringAssumption DEF Free
<1>4. \A a \in alerts' : a \in alerts /\ history'[a.vendor] = history[a.vendor]
  BY <1>1, <1>2 DEF StoreTypeOK, Alert
<1>5. AlertsAreDrops'
  BY <1>4 DEF AlertInv, AlertsAreDrops
<1>6. QED
  BY <1>2, <1>3, <1>5 DEF AlertInv

\* Every other step leaves the alerts and the history as they were, and no
\* run between a drop and its alert.
LEMMA AlertStepOfOthers ==
    ASSUME AlertInv, UNCHANGED <<alerts, history>>,
           \/ UNCHANGED <<runs, loop>>
           \/ loop = Free /\ UNCHANGED runs
           \/ \E j \in Jobs : loop = j /\ UNCHANGED runs
           \/ \A v \in VendorIds : runs'[v].phase # "alerting"
    PROVE  AlertInv'
<1>1. AlertsAreDrops'
  BY DEF AlertInv, AlertsAreDrops
<1>2. CASE UNCHANGED <<runs, loop>>
  BY <1>1, <1>2 DEF AlertInv, Pending
<1>3. CASE loop \in Jobs \cup {Free} /\ UNCHANGED runs
  <2>1. \A v \in VendorIds : runs[v].phase # "alerting"
    BY <1>3, NobodyPending, MonitoringAssumption DEF Free
  <2>2. QED
    BY <1>1, <1>3, <2>1 DEF AlertInv
<1>4. CASE \A v \in VendorIds : runs'[v].phase # "alerting"
  BY <1>1, <1>4 DEF AlertInv
<1>5. QED
  BY <1>2, <1>3, <1>4

LEMMA AlertStep == TypeInv /\ AlertInv /\ [Next]_vars => AlertInv'
<1> SUFFICES ASSUME TypeInv, AlertInv, [Next]_vars PROVE AlertInv'
  OBVIOUS
<1>1. CASE SchedulerTick
  <2>1. \A v \in VendorIds : runs'[v] = IdleRun \/ runs'[v] = [IdleRun EXCEPT !.phase = "queued", !.cfg = configs[v]]
    BY <1>1 DEF SchedulerTick
  <2>2. \A c : [IdleRun EXCEPT !.phase = "queued", !.cfg = c].phase = "queued"
    BY DEF IdleRun
  <2>3. IdleRun.phase = "idle"
    BY DEF IdleRun
  <2>4. \A v \in VendorIds : runs'[v].phase # "alerting"
    BY <2>1, <2>2, <2>3
  <2>5. UNCHANGED <<alerts, history>>
    BY <1>1 DEF SchedulerTick, store
  <2>6. QED
    BY <2>4, <2>5, AlertStepOfOthers
<1>2. CASE Restart
  <2>1. \A v \in VendorIds : runs'[v].phase # "alerting"
    BY <1>2 DEF Restart, IdleRun
  <2>2. UNCHANGED <<alerts, history>>
    BY <1>2 DEF Restart, store
  <2>3. QED
    BY <2>1, <2>2, AlertStepOfOthers
<1>3. ASSUME NEW v \in VendorIds, RunStep(v) \/ RunFails(v) PROVE AlertInv'
  BY <1>3, AlertStepOfRun
<1>4. ASSUME NEW j \in Jobs, RecordJobResult(j) PROVE AlertInv'
  BY <1>4, AlertStepOfJob
<1>5. ASSUME NEW j \in Jobs,
             ResolveInput(j) \/ JobRaises(j) \/ JobScanned(j) \/ NextJobVendor(j) \/ JobStoreFails(j)
      PROVE  AlertInv'
  <2>1. UNCHANGED <<alerts, history, runs>> /\ (loop = Free \/ loop = j)
    BY <1>5 DEF ResolveInput, JobRaises, JobScanned, NextJobVendor, JobStoreFails, store
  <2>2. QED
    BY SMTT(30), <2>1, AlertStepOfOthers
<1>6. ASSUME NEW j \in Jobs, NEW v \in VendorIds, RescanVendor(j, v) PROVE AlertInv'
  <2>1. UNCHANGED <<alerts, history, runs, loop>>
    BY <1>6 DEF RescanVendor, NewJob, store
  <2>2. QED
    BY <2>1, AlertStepOfOthers
<1>7. ASSUME NEW j \in Jobs, StartDetectJob(j) PROVE AlertInv'
  <2>1. UNCHANGED <<alerts, history, runs, loop>>
    BY <1>7 DEF StartDetectJob, NewJob, store
  <2>2. QED
    BY <2>1, AlertStepOfOthers
<1>8. ASSUME NEW v \in VendorIds,
             SetContinuousMonitoring(v) \/ StopContinuousMonitoring(v) \/ UpdateVendorDetail(v)
      PROVE  AlertInv'
  <2>1. UNCHANGED <<alerts, history, runs, loop>>
    BY <1>8 DEF SetContinuousMonitoring, StopContinuousMonitoring, UpdateVendorDetail, Request
  <2>2. QED
    BY <2>1, AlertStepOfOthers
<1>9. ASSUME NEW v \in VendorIds, DeleteVendorDetail(v) PROVE AlertInv'
  BY <1>9, AlertStepOfDelete
<1>10. CASE AdvanceClock \/ UNCHANGED vars
  <2>1. UNCHANGED <<alerts, history, runs, loop>>
    BY <1>10 DEF AdvanceClock, vars, store
  <2>2. QED
    BY <2>1, AlertStepOfOthers
<1>11. CASE Next
  <2>1. ASSUME NEW j \in Jobs, StartDetectJob(j) \/ JobStep(j) \/ JobStoreFails(j) PROVE AlertInv'
    BY <1>4, <1>5, <2>1, <1>7 DEF JobStep
  <2>2. QED
    BY <1>1, <1>2, <1>3, <1>6, <1>8, <1>9, <1>10, <1>11, <2>1 DEF Next
<1>12. QED
  BY <1>10, <1>11

\* An alert is always the record of a drop between two neighbouring score rows
\* (the get_latest_score, record_score, record_alert stretch of a run).
THEOREM AlertsAreRealDrops == Spec => []AlertsAreDrops
<1>1. Init => AlertInv
  BY DEF Init, StoreInit, AlertInv, AlertsAreDrops, IdleRun
<1>2. AlertInv => AlertsAreDrops
  BY DEF AlertInv
<1>3. QED
  BY <1>1, <1>2, AlertStep, InitType, NextType, PTL DEF Spec
=============================================================================
