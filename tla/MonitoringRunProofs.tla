----------------------- MODULE MonitoringRunProofs ------------------------
(***************************************************************************)
(* More theorems about Monitoring: what the runs of the scheduler and the  *)
(* detection jobs leave in the tables.  Each rests on TypeInv and on an    *)
(* invariant of its own, stated where it is proved.                        *)
(***************************************************************************)
EXTENDS MonitoringProofs, WellFoundedInduction

-----------------------------------------------------------------------------
(* How the coroutines and the score history change.                        *)

\* A run that has its slot of the semaphore.
Busy(v) == runs[v].phase \notin {"idle", "queued"}

\* Going on to the next result keeps the vendor's domain and configuration
\* and forgets the alert (the loop of _run_one_monitored_vendor).
LEMMA NextResultIs ==
    ASSUME NEW run \in Run
    PROVE  /\ NextResult(run).phase = "recording" /\ NextResult(run).alert = 0
           /\ NextResult(run).domain = run.domain /\ NextResult(run).cfg = run.cfg
           /\ NextResult(run).results = Tail(run.results)
BY DEF NextResult, Run

\* A run takes its slot in StartRun, with the domain its vendor has then, and
\* keeps that domain until it is idle again.
LEMMA RunMoves ==
    ASSUME TypeInv, [Next]_vars, NEW v \in VendorIds, Busy(v)'
    PROVE  \/ Busy(v) /\ runs'[v].domain = runs[v].domain
           \/ StartRun(v) /\ Exists(v) /\ runs'[v].domain = vendors[v]
<1> DEFINE run == runs[v]
<1>1. runs \in [VendorIds -> Run] /\ run \in Run
  BY DEF TypeInv, TypeOK
<1>2. IdleRun.phase = "idle"
  BY DEF IdleRun
<1>3. CASE UNCHANGED runs
  BY <1>3 DEF Busy
<1>4. CASE SchedulerTick
  <2>1. runs'[v] = IdleRun \/ runs'[v] = [IdleRun EXCEPT !.phase = "queued", !.cfg = configs[v]]
    BY <1>4 DEF SchedulerTick
  <2>2. \A c : [IdleRun EXCEPT !.phase = "queued", !.cfg = c].phase = "queued"
    BY DEF IdleRun
  <2>3. QED
    BY <1>2, <2>1, <2>2 DEF Busy
<1>5. CASE Restart
  BY <1>2, <1>5 DEF Restart, Busy
<1>6. ASSUME NEW w \in VendorIds \ {v}, RunStep(w) \/ RunFails(w) PROVE runs'[v] = runs[v]
  BY <1>1, <1>6 DEF RunStep, RunFails, StartRun, ScanDone, RecordResult, RaiseAlert,
                    WebhookAnswered, MarkDelivery, FinishRun
<1>7. CASE StartRun(v)
  <2>1. runs'[v] = IF Exists(v) THEN [run EXCEPT !.phase = "scanning", !.domain = vendors[v]]
                                ELSE IdleRun
    BY <1>1, <1>7 DEF StartRun
  <2>2. Exists(v)
    BY <1>2, <2>1 DEF Busy
  <2>3. [run EXCEPT !.phase = "scanning", !.domain = vendors[v]].domain = vendors[v]
    BY <1>1 DEF Run
  <2>4. QED
    BY <1>7, <2>1, <2>2, <2>3
<1>8. CASE ScanDone(v)
  <2>1. PICK rs \in ResultLists(run.cfg.types) \cup {<<>>} :
          runs' = [runs EXCEPT ![v] = [@ EXCEPT !.phase = "recording", !.results = rs]]
    BY <1>8 DEF ScanDone
  <2>2. runs'[v] = [run EXCEPT !.phase = "recording", !.results = rs]
    BY <1>1, <2>1
  <2>3. runs'[v].domain = run.domain
    BY <1>1, <2>2 DEF Run
  <2>4. QED
    BY <1>8, <2>3 DEF Busy, ScanDone
<1>9. CASE RecordResult(v) \/ RaiseAlert(v) \/ WebhookAnswered(v) \/ MarkDelivery(v)
  <2>1. Busy(v)
    BY <1>9 DEF Busy, RecordResult, RaiseAlert, WebhookAnswered, MarkDelivery
  <2>2. runs'[v].domain = run.domain
    <3>1. \A p, x : [run EXCEPT !.phase = p, !.prev = x].domain = run.domain
      BY <1>1 DEF Run
    <3>2. \A p, a : [run EXCEPT !.phase = p, !.alert = a].domain = run.domain
      BY <1>1 DEF Run
    <3>3. \A p : [run EXCEPT !.phase = p].domain = run.domain
      BY <1>1 DEF Run
    <3>4. CASE RecordResult(v)
      <4>1. \/ \E x : runs'[v] = [run EXCEPT !.phase = "alerting", !.prev = x]
            \/ runs'[v] = NextResult(run)
        BY <1>1, <3>4 DEF RecordResult
      <4>2. CASE runs'[v] = NextResult(run)
        BY <1>1, <4>2, NextResultIs
      <4>3. CASE \E x : runs'[v] = [run EXCEPT !.phase = "alerting", !.prev = x]
        BY <3>1, <4>3
      <4>4. QED
        BY <4>1, <4>2, <4>3
    <3>5. CASE RaiseAlert(v)
      <4>1. \/ runs'[v] = [run EXCEPT !.phase = "posting", !.alert = alertSeq + 1]
            \/ runs'[v] = NextResult(run)
        BY <1>1, <3>5 DEF RaiseAlert
      <4>2. CASE runs'[v] = NextResult(run)
        BY <1>1, <4>2, NextResultIs
      <4>3. CASE runs'[v] = [run EXCEPT !.phase = "posting", !.alert = alertSeq + 1]
        BY <3>2, <4>3
      <4>4. QED
        BY <4>1, <4>2, <4>3
    <3>6. CASE WebhookAnswered(v)
      <4>1. \E p : runs'[v] = [run EXCEPT !.phase = p]
        BY <1>1, <3>6 DEF WebhookAnswered
      <4>2. QED
        BY <3>3, <4>1
    <3>7. CASE MarkDelivery(v)
      BY <1>1, <3>7, NextResultIs DEF MarkDelivery
    <3>8. QED
      BY <1>9, <3>4, <3>5, <3>6, <3>7
  <2>3. QED
    BY <2>1, <2>2
<1>10. CASE FinishRun(v) \/ RunFails(v)
  <2>1. runs'[v] = IdleRun
    BY <1>1, <1>10 DEF FinishRun, RunFails
  <2>2. QED
    BY <1>2, <2>1 DEF Busy
<1>11. CASE \E w \in VendorIds : RunStep(w) \/ RunFails(w)
  <2>1. CASE RunStep(v) \/ RunFails(v)
    BY <2>1, <1>7, <1>8, <1>9, <1>10 DEF RunStep
  <2>2. CASE ~(RunStep(v) \/ RunFails(v))
    BY <1>6, <1>11, <2>2 DEF Busy
  <2>3. QED
    BY <2>1, <2>2
<1>12. CASE \E j \in Jobs : StartDetectJob(j) \/ JobStep(j) \/ JobStoreFails(j)
  <2>1. UNCHANGED runs
    BY <1>12 DEF StartDetectJob, NewJob, JobStep, ResolveInput, JobRaises, JobScanned,
                 RecordJobResult, NextJobVendor, JobStoreFails
  <2>2. QED
    BY <1>3, <2>1
<1>13. CASE \E j \in Jobs, w \in VendorIds : RescanVendor(j, w)
  BY <1>3, <1>13 DEF RescanVendor, NewJob
<1>14. CASE \E w \in VendorIds : \/ SetContinuousMonitoring(w) \/ StopContinuousMonitoring(w)
                                 \/ UpdateVendorDetail(w) \/ DeleteVendorDetail(w)
  BY <1>3, <1>14 DEF SetContinuousMonitoring, StopContinuousMonitoring, UpdateVendorDetail,
                     DeleteVendorDetail, Request
<1>15. CASE AdvanceClock \/ UNCHANGED vars
  BY <1>3, <1>15 DEF AdvanceClock, vars
<1>16. QED
  BY <1>4, <1>5, <1>11, <1>12, <1>13, <1>14, <1>15 DEF Next

-----------------------------------------------------------------------------
(* The alert of every drop.                                                *)

\* The steps that touch the score history, by kind.
LEMMA HistorySteps ==
    ASSUME [Next]_vars
    PROVE  \/ UNCHANGED history
           \/ \E v \in VendorIds : RecordResult(v) \/ DeleteVendorDetail(v)
           \/ \E j \in Jobs : RecordJobResult(j)
<1>1. CASE \E v \in VendorIds : RunStep(v) \/ RunFails(v)
  BY ZenonT(60), <1>1 DEF RunStep, RunFails, StartRun, ScanDone, RaiseAlert, WebhookAnswered,
              MarkDelivery, FinishRun, store
<1>2. CASE \E j \in Jobs : StartDetectJob(j) \/ JobStep(j) \/ JobStoreFails(j)
  BY <1>2 DEF StartDetectJob, NewJob, JobStep, ResolveInput, JobRaises, JobScanned,
              NextJobVendor, JobStoreFails, store
<1>3. CASE \E j \in Jobs, v \in VendorIds : RescanVendor(j, v)
  BY <1>3 DEF RescanVendor, NewJob, store
<1>4. CASE \E v \in VendorIds : \/ SetContinuousMonitoring(v) \/ StopContinuousMonitoring(v)
                                \/ UpdateVendorDetail(v)
  BY <1>4 DEF SetContinuousMonitoring, StopContinuousMonitoring, UpdateVendorDetail
<1>5. CASE SchedulerTick \/ AdvanceClock \/ Restart \/ UNCHANGED vars
  BY <1>5 DEF SchedulerTick, AdvanceClock, Restart, vars, store
<1>6. QED
  BY <1>1, <1>2, <1>3, <1>4, <1>5 DEF Next

\* What record_score appends in a scheduled run, and in a job: a row of the
\* domain the run started with, or of the vendor at the job's cursor.
RunRow(v) ==
    [score |-> Head(runs[v].results).score, domain |-> runs[v].domain,
     src |-> Scheduler, floor |-> runs[v].cfg.threshold]

JobRow(j) ==
    [score |-> Head(jobs[j].todo).score, domain |-> jobs[j].doms[jobs[j].at],
     src |-> j, floor |-> 0]

LEMMA RunRecords ==
    ASSUME TypeInv, NEW v \in VendorIds, RecordResult(v)
    PROVE  /\ RunRow(v) \in Row /\ Head(runs[v].results).detector \in Detectors
           /\ history' = RecordScore(v, Head(runs[v].results).detector, RunRow(v))
<1> DEFINE run == runs[v]
<1>1. run \in Run /\ RunWF(run)
  BY DEF TypeInv, TypeOK, CoroutinesWF
<1>2. run.results \in Seq(Result) /\ run.results # <<>> /\ run.domain \in Domains
  BY <1>1 DEF RecordResult, Run, RunWF
<1>3. Head(run.results) \in Result
  BY <1>2
<1>4. RunRow(v) \in Row /\ Head(run.results).detector \in Detectors
  BY <1>1, <1>2, <1>3 DEF RunRow, Row, Result, Run, Config
<1>5. history' = RecordScore(v, Head(run.results).detector, RunRow(v))
  BY DEF RecordResult, RunRow
<1>6. QED
  BY <1>4, <1>5

LEMMA JobRecords ==
    ASSUME TypeInv, NEW j \in Jobs, RecordJobResult(j)
    PROVE  /\ JobRow(j) \in Row /\ Head(jobs[j].todo) \in Result
           /\ Head(jobs[j].todo).detector \in Detectors
           /\ history' = IF Recorded(Head(jobs[j].todo))
                         THEN RecordScore(IdForRows(jobs[j]), Head(jobs[j].todo).detector, JobRow(j))
                         ELSE history
<1> DEFINE job == jobs[j]
<1>1. job \in Job /\ JobWF(job)
  BY DEF TypeInv, TypeOK, CoroutinesWF
<1>2. job.todo \in Seq(Result) /\ job.todo # <<>> /\ job.doms \in Seq(Domains)
      /\ job.at \in 1..Len(job.doms)
  BY <1>1 DEF RecordJobResult, Job, JobWF
<1>3. Head(job.todo) \in Result /\ job.doms[job.at] \in Domains
  BY <1>2
<1>4. JobRow(j) \in Row /\ Head(job.todo).detector \in Detectors
  BY <1>3 DEF JobRow, Row, Result
<1>5. history' = IF Recorded(Head(job.todo))
                 THEN RecordScore(IdForRows(job), Head(job.todo).detector, JobRow(j))
                 ELSE history
  BY DEF RecordJobResult, JobRow
<1>6. QED
  BY <1>3, <1>4, <1>5

\* A recorded row is the last of its detector's rows, and the only new one.
LEMMA RowAdded ==
    ASSUME StoreTypeOK, NEW v \in VendorIds, NEW d \in Detectors, NEW row \in Row,
           history' = RecordScore(v, d, row), NEW w \in VendorIds, NEW e \in Detectors
    PROVE  /\ history[w][e] \in Seq(Row)
           /\ history'[w][e] = IF w = v /\ e = d THEN Append(history[w][e], row) ELSE history[w][e]
<1>1. history[w][e] \in Seq(Row) /\ history \in [VendorIds -> [Detectors -> Seq(Row)]]
  BY DEF StoreTypeOK
<1>2. history'[w] = IF w = v THEN [history[v] EXCEPT ![d] = Append(history[v][d], row)] ELSE history[w]
  BY <1>1 DEF RecordScore
<1>3. history[w] \in [Detectors -> Seq(Row)]
  BY <1>1
<1>4. QED
  BY <1>1, <1>2, <1>3

\* A drop of a scheduled run from the row directly before, which is what the
\* run compares with.
FallsToNext(h, i) ==
    /\ i \in 2..Len(h)
    /\ h[i].src = Scheduler
    /\ h[i - 1].score # NoScore /\ h[i].score # NoScore
    /\ h[i - 1].score - h[i].score >= h[i].floor

DropsHandled ==
    \A v \in VendorIds, d \in Detectors : \A i \in DOMAIN history[v][d] :
        FallsToNext(history[v][d], i) => HasAlert(v, d, i) \/ AboutToAlert(v, d, i)

FallsAreAlerted == faults = 0 => DropsHandled

\* A row that was there is a drop after record_score only if it was one before.
LEMMA OldDrops ==
    ASSUME NEW h \in Seq(Row), NEW row \in Row, NEW i \in 1..Len(h), FallsToNext(Append(h, row), i)
    PROVE  FallsToNext(h, i)
<1>1. i \in 2..Len(Append(h, row))
  BY DEF FallsToNext
<1>2. i \in 2..Len(h) /\ i - 1 \in 1..Len(h)
  BY <1>1
<1>3. Append(h, row)[i] = h[i] /\ Append(h, row)[i - 1] = h[i - 1]
  BY <1>2
<1>4. QED
  BY <1>2, <1>3 DEF FallsToNext

\* A step that keeps the history and every alert, while no run is between a
\* drop and its alert.
LEMMA DropsFrame ==
    ASSUME DropsHandled, UNCHANGED history,
           \A v \in VendorIds : ~(loop = v /\ runs[v].phase = "alerting"),
           \A v, d, i : HasAlert(v, d, i) => HasAlert(v, d, i)'
    PROVE  DropsHandled'
BY DEF DropsHandled, AboutToAlert

\* RecordResult: a drop sends the run to its alert before the loop is free.
LEMMA DropsOfRecordResult ==
    ASSUME TypeInv, DropsHandled, NEW v \in VendorIds, RecordResult(v)
    PROVE  DropsHandled'
<1> DEFINE run == runs[v]
           r == Head(run.results)
           h == history[v][r.detector]
<1>1. StoreTypeOK /\ run \in Run /\ runs \in [VendorIds -> Run]
  BY DEF TypeInv, TypeOK
<1>2. /\ RunRow(v) \in Row /\ r.detector \in Detectors
      /\ history' = RecordScore(v, r.detector, RunRow(v))
  BY RunRecords
<1>3. /\ loop = v /\ loop' = v /\ alerts' = alerts /\ run.phase = "recording"
      /\ runs' = [runs EXCEPT ![v] =
                    IF DropAlerts(Latest(v, r.detector), r.score, run.cfg.threshold)
                    THEN [run EXCEPT !.phase = "alerting", !.prev = Latest(v, r.detector)]
                    ELSE NextResult(run)]
  BY DEF RecordResult, Previous
<1>4. h \in Seq(Row) /\ Len(h) \in Nat
  BY <1>1, <1>2 DEF StoreTypeOK
<1>a. \A w \in VendorIds, e \in Detectors :
        history'[w][e] = IF w = v /\ e = r.detector THEN Append(history[w][e], RunRow(v))
                                                   ELSE history[w][e]
  <2> DEFINE d == r.detector
             row == RunRow(v)
  <2>1. d \in Detectors /\ row \in Row /\ history' = RecordScore(v, d, row)
    BY <1>2
  <2> HIDE DEF d, row
  <2>2. \A w \in VendorIds, e \in Detectors :
          history'[w][e] = IF w = v /\ e = d THEN Append(history[w][e], row) ELSE history[w][e]
    BY <1>1, <2>1, RowAdded
  <2>3. QED
    BY <2>2 DEF d, row
<1>5. ASSUME NEW w \in VendorIds, NEW e \in Detectors, NEW i \in DOMAIN history[w][e],
             FallsToNext(history[w][e], i)
      PROVE  HasAlert(w, e, i)'
  <2>1. HasAlert(w, e, i) \/ AboutToAlert(w, e, i)
    BY <1>5 DEF DropsHandled
  <2>2. ~AboutToAlert(w, e, i)
    BY SMTT(30), <1>3 DEF AboutToAlert
  <2>3. QED
    BY <1>3, <2>1, <2>2 DEF HasAlert
<1>6. ASSUME FallsToNext(Append(h, RunRow(v)), Len(h) + 1)
      PROVE  /\ runs'[v].phase = "alerting" /\ Head(runs'[v].results) = r
             /\ Len(history'[v][r.detector]) = Len(h) + 1
  <2> DEFINE g == Append(h, RunRow(v))
             n == Len(h)
  <2>1. /\ n \in Nat /\ n + 1 \in 2..Len(g) /\ g[n + 1].src = Scheduler
        /\ g[n].score # NoScore /\ g[n + 1].score # NoScore
        /\ g[n].score - g[n + 1].score >= g[n + 1].floor
    <3>1. n \in Nat /\ (n + 1) - 1 = n
      BY <1>4
    <3>2. QED
      BY <1>6, <3>1 DEF FallsToNext
  <2>2. n >= 1 /\ h # <<>> /\ g[n] = h[n] /\ g[n + 1] = RunRow(v) /\ Len(g) = n + 1
    <3> HIDE DEF h
    <3>1. n >= 1
      BY <2>1
    <3>2. QED
      BY <1>2, <1>4, <3>1
  <2>3. RunRow(v).score = r.score /\ RunRow(v).floor = run.cfg.threshold
    BY DEF RunRow
  <2>4. Latest(v, r.detector) = h[n].score
    BY SMTT(30), <2>2 DEF Latest
  <2>5. DropAlerts(Latest(v, r.detector), r.score, run.cfg.threshold)
    BY SMTT(30), <2>1, <2>2, <2>3, <2>4 DEF DropAlerts
  <2>6. runs'[v] = [run EXCEPT !.phase = "alerting", !.prev = Latest(v, r.detector)]
    BY <1>1, <1>3, <2>5
  <2>7. runs'[v].phase = "alerting" /\ runs'[v].results = run.results
    BY <1>1, <2>6 DEF Run
  <2>8. history'[v][r.detector] = g
    BY <1>2, <1>a
  <2>9. QED
    BY ZenonT(60), <2>2, <2>7, <2>8
<1>7. SUFFICES ASSUME NEW w \in VendorIds, NEW e \in Detectors, NEW i \in DOMAIN history'[w][e],
                      FallsToNext(history'[w][e], i)
               PROVE  HasAlert(w, e, i)' \/ AboutToAlert(w, e, i)'
  BY DEF DropsHandled
<1>8. CASE w = v /\ e = r.detector
  <2>1. history'[w][e] = Append(h, RunRow(v))
    BY <1>2, <1>8, <1>a
  <2>2. i \in 1..Len(h) \/ i = Len(h) + 1
    <3> HIDE DEF h
    <3>1. i \in 1..(Len(h) + 1)
      BY <1>2, <1>4, <2>1
    <3>2. QED
      BY <1>4, <3>1
  <2>3. CASE i \in 1..Len(h)
    <3>1. FallsToNext(h, i)
      BY <1>2, <1>4, <1>7, <2>1, <2>3, OldDrops
    <3>2. i \in DOMAIN history[w][e]
      BY <1>4, <1>8, <2>3
    <3>3. QED
      BY SMTT(30), <1>5, <1>8, <3>1, <3>2
  <2>4. CASE i = Len(h) + 1
    <3>1. FallsToNext(Append(h, RunRow(v)), Len(h) + 1)
      BY <1>7, <2>1, <2>4
    <3>2. /\ runs'[v].phase = "alerting" /\ Head(runs'[v].results) = r
          /\ Len(history'[v][r.detector]) = Len(h) + 1
      BY <1>6, <3>1
    <3>3. loop' = v /\ runs'[w].phase = "alerting" /\ Head(runs'[w].results).detector = e
          /\ i = Len(history'[w][e])
      BY <1>3, <1>8, <2>4, <3>2
    <3> HIDE DEF h, r
    <3>4. QED
      BY SMTT(30), <1>8, <3>3 DEF AboutToAlert
  <2>5. QED
    BY <2>2, <2>3, <2>4
<1>9. CASE ~(w = v /\ e = r.detector)
  <2>1. history'[w][e] = history[w][e]
    BY <1>9, <1>a
  <2>2. QED
    BY <1>5, <1>7, <2>1
<1>10. QED
  BY <1>8, <1>9

\* A job's rows are no drops of the monitoring.
LEMMA DropsOfJob ==
    ASSUME TypeInv, DropsHandled, NEW j \in Jobs, RecordJobResult(j)
    PROVE  DropsHandled'
<1> DEFINE d == Head(jobs[j].todo).detector
           x == IdForRows(jobs[j])
<1>1. StoreTypeOK /\ loop = j /\ alerts' = alerts
  BY DEF TypeInv, TypeOK, RecordJobResult
<1>2. /\ JobRow(j) \in Row /\ d \in Detectors
      /\ history' = RecordScore(x, d, JobRow(j)) \/ history' = history
  BY JobRecords
<1>3. \A w \in VendorIds : loop # w
  BY <1>1, MonitoringAssumption
<1>4. CASE history' = history
  BY <1>1, <1>3, <1>4, DropsFrame DEF HasAlert
<1>5. CASE history' = RecordScore(x, d, JobRow(j)) /\ x \in VendorIds
  <2>1. SUFFICES ASSUME NEW w \in VendorIds, NEW e \in Detectors, NEW i \in DOMAIN history'[w][e],
                        FallsToNext(history'[w][e], i)
                 PROVE  HasAlert(w, e, i)'
    BY DEF DropsHandled
  <2> DEFINE h == history[w][e]
  <2>2. /\ h \in Seq(Row) /\ Len(h) \in Nat
        /\ history'[w][e] = Append(h, JobRow(j)) \/ history'[w][e] = h
    <3>1. h \in Seq(Row) /\ Len(h) \in Nat
      BY <1>1 DEF StoreTypeOK
    <3> HIDE DEF d, x
    <3>2. history'[w][e] = IF w = x /\ e = d THEN Append(h, JobRow(j)) ELSE h
      BY <1>1, <1>2, <1>5, RowAdded
    <3>3. QED
      BY <3>1, <3>2
  <2>3. i \in 1..Len(h) /\ FallsToNext(h, i)
    <3>1. CASE history'[w][e] = h
      BY <2>1, <2>2, <3>1
    <3>2. CASE history'[w][e] = Append(h, JobRow(j))
      <4>1. JobRow(j).src # Scheduler
        BY StoreAssumption DEF JobRow
      <4>2. Append(h, JobRow(j))[i].src = Scheduler
        BY <2>1, <3>2 DEF FallsToNext
      <4> HIDE DEF h
      <4>3. i \in 1..(Len(h) + 1) /\ Append(h, JobRow(j))[Len(h) + 1] = JobRow(j)
        BY <1>2, <2>2, <3>2
      <4>4. i \in 1..Len(h)
        BY <2>2, <4>1, <4>2, <4>3
      <4>5. QED
        BY <1>2, <2>1, <2>2, <3>2, <4>4, OldDrops
    <3>3. QED
      BY <2>2, <3>1, <3>2
  <2>4. HasAlert(w, e, i) \/ AboutToAlert(w, e, i)
    BY <2>2, <2>3 DEF DropsHandled
  <2>5. QED
    BY <1>1, <1>3, <2>4 DEF HasAlert, AboutToAlert
<1>6. CASE history' = RecordScore(x, d, JobRow(j)) /\ x \notin VendorIds
  <2>1. history' = history
    BY <1>1, <1>6 DEF RecordScore, StoreTypeOK
  <2>2. QED
    BY <1>4, <2>1
<1>7. QED
  BY <1>2, <1>4, <1>5, <1>6

\* RaiseAlert: the pending drop gets its alert.
LEMMA DropsOfRaiseAlert ==
    ASSUME DropsHandled, NEW v \in VendorIds, RaiseAlert(v)
    PROVE  DropsHandled'
<1> DEFINE r == Head(runs[v].results)
           new == [id |-> alertSeq + 1, vendor |-> v, detector |-> r.detector,
                   prev |-> runs[v].prev, new |-> r.score, status |-> "logged",
                   row |-> Len(history[v][r.detector]), floor |-> runs[v].cfg.threshold,
                   webhook |-> runs[v].cfg.webhook]
<1>1. alerts' = alerts \cup {new} /\ history' = history /\ loop = v
  BY DEF RaiseAlert, RecordAlert
<1>2. \A w, e, i : HasAlert(w, e, i) => HasAlert(w, e, i)'
  BY <1>1 DEF HasAlert
<1>3. ASSUME NEW w \in VendorIds, NEW e \in Detectors, NEW i, AboutToAlert(w, e, i)
      PROVE  HasAlert(w, e, i)'
  <2>1. w = v /\ e = r.detector /\ i = Len(history[v][r.detector])
    BY <1>1, <1>3 DEF AboutToAlert
  <2>2. new \in alerts' /\ new.vendor = v /\ new.detector = r.detector
        /\ new.row = Len(history[v][r.detector])
    BY <1>1
  <2> HIDE DEF new, r
  <2>3. QED
    BY <2>1, <2>2 DEF HasAlert
<1>4. QED
  BY <1>1, <1>2, <1>3 DEF DropsHandled

\* mark_alert_delivered changes the status of an alert and not what it is about.
LEMMA MarkKeepsAlerts ==
    ASSUME StoreTypeOK, NEW id, NEW ok, alerts' = MarkAlert(id, ok)
    PROVE  \A v, d, i : HasAlert(v, d, i) => HasAlert(v, d, i)'
<1> SUFFICES ASSUME NEW a \in alerts
             PROVE  \E b \in alerts' : /\ b.vendor = a.vendor /\ b.detector = a.detector
                                       /\ b.row = a.row
  BY DEF HasAlert
<1>1. a \in Alert
  BY DEF StoreTypeOK
<1>2. \A s : LET b == [a EXCEPT !.status = s] IN
             b.vendor = a.vendor /\ b.detector = a.detector /\ b.row = a.row
  BY <1>1 DEF Alert
<1>3. CASE a.id = id
  <2> DEFINE b == [a EXCEPT !.status = IF ok THEN "delivered" ELSE "error"]
  <2>1. b \in alerts'
    BY <1>3 DEF MarkAlert
  <2>2. b.vendor = a.vendor /\ b.detector = a.detector /\ b.row = a.row
    BY <1>2
  <2> HIDE DEF b
  <2>3. QED
    BY <2>1, <2>2
<1>4. CASE a.id # id
  <2>1. a \in alerts'
    BY <1>4 DEF MarkAlert
  <2>2. QED
    BY <2>1
<1>5. QED
  BY <1>3, <1>4

\* delete_vendor takes a vendor's drops away with its alerts.
LEMMA DropsOfDelete ==
    ASSUME StoreTypeOK, DropsHandled, NEW v \in VendorIds, DeleteVendorDetail(v)
    PROVE  DropsHandled'
<1>1. /\ alerts' = {a \in alerts : a.vendor # v} /\ loop = Free
      /\ history' = [history EXCEPT ![v] = [d \in Detectors |-> <<>>]]
  BY DEF DeleteVendorDetail, DeleteRows, Request
<1> SUFFICES ASSUME NEW w \in VendorIds, NEW e \in Detectors, NEW i \in DOMAIN history'[w][e],
                    FallsToNext(history'[w][e], i)
             PROVE  HasAlert(w, e, i)'
  BY DEF DropsHandled
<1>2. CASE w = v
  BY <1>1, <1>2 DEF StoreTypeOK
<1>3. CASE w # v
  <2>1. history'[w][e] = history[w][e]
    BY <1>1, <1>3 DEF StoreTypeOK
  <2>2. HasAlert(w, e, i) \/ AboutToAlert(w, e, i)
    BY <2>1 DEF DropsHandled
  <2>3. ~AboutToAlert(w, e, i)
    BY <1>1, MonitoringAssumption DEF AboutToAlert, Free
  <2>4. QED
    BY <1>1, <1>3, <2>2, <2>3 DEF HasAlert
<1>4. QED
  BY <1>2, <1>3

\* A step meets at most one fault.
LEMMA FaultSteps ==
    ASSUME [Next]_vars
    PROVE  faults' = faults \/ faults' = faults + 1
<1>1. CASE \E v \in VendorIds : RunStep(v) \/ RunFails(v)
  BY ZenonT(60), <1>1 DEF RunStep, RunFails, StartRun, ScanDone, RecordResult, RaiseAlert,
              WebhookAnswered, MarkDelivery, FinishRun
<1>2. CASE \E j \in Jobs : StartDetectJob(j) \/ JobStep(j) \/ JobStoreFails(j)
  BY <1>2 DEF StartDetectJob, NewJob, JobStep, ResolveInput, JobRaises, JobScanned,
              RecordJobResult, NextJobVendor, JobStoreFails
<1>3. CASE \E j \in Jobs, v \in VendorIds : RescanVendor(j, v)
  BY <1>3 DEF RescanVendor, NewJob
<1>4. CASE \E v \in VendorIds : \/ SetContinuousMonitoring(v) \/ StopContinuousMonitoring(v)
                                \/ UpdateVendorDetail(v) \/ DeleteVendorDetail(v)
  BY <1>4 DEF SetContinuousMonitoring, StopContinuousMonitoring, UpdateVendorDetail,
              DeleteVendorDetail, Request
<1>5. CASE SchedulerTick \/ AdvanceClock \/ Restart \/ UNCHANGED vars
  BY <1>5 DEF SchedulerTick, AdvanceClock, Restart, vars
<1>6. QED
  BY <1>1, <1>2, <1>3, <1>4, <1>5 DEF Next

LEMMA DropsStep == TypeInv /\ FallsAreAlerted /\ [Next]_vars => FallsAreAlerted'
<1> SUFFICES ASSUME TypeInv, FallsAreAlerted, [Next]_vars, faults' = 0 PROVE DropsHandled'
  BY DEF FallsAreAlerted, DropsHandled
<1>1. StoreTypeOK /\ faults \in Nat /\ runs \in [VendorIds -> Run]
  BY DEF TypeInv, TypeOK
<1>2. faults' = faults \/ faults' = faults + 1
  BY FaultSteps
<1>3. faults = 0 /\ DropsHandled
  BY <1>1, <1>2 DEF FallsAreAlerted, DropsHandled
<1>4. ASSUME NEW v \in VendorIds, RecordResult(v) PROVE DropsHandled'
  BY <1>3, <1>4, DropsOfRecordResult
<1>5. ASSUME NEW v \in VendorIds, RaiseAlert(v) PROVE DropsHandled'
  BY <1>3, <1>5, DropsOfRaiseAlert
<1>6. ASSUME NEW v \in VendorIds, MarkDelivery(v) PROVE DropsHandled'
  <2>1. /\ loop = v /\ runs[v].phase # "alerting" /\ history' = history
        /\ alerts' = MarkAlert(runs[v].alert, runs[v].phase = "posted")
    BY <1>6 DEF MarkDelivery
  <2>2. \A w, d, i : HasAlert(w, d, i) => HasAlert(w, d, i)'
    BY <1>1, <2>1, MarkKeepsAlerts
  <2>3. QED
    BY <1>3, <2>1, <2>2, DropsFrame
<1>7. ASSUME NEW j \in Jobs, RecordJobResult(j) PROVE DropsHandled'
  BY <1>3, <1>7, DropsOfJob
<1>8. ASSUME NEW v \in VendorIds, DeleteVendorDetail(v) PROVE DropsHandled'
  BY <1>1, <1>3, <1>8, DropsOfDelete
<1>9. ASSUME UNCHANGED <<history, alerts>>,
             \A v \in VendorIds : ~(loop = v /\ runs[v].phase = "alerting")
      PROVE  DropsHandled'
  <2>1. \A v, d, i : HasAlert(v, d, i) => HasAlert(v, d, i)'
    BY <1>9 DEF HasAlert
  <2>2. QED
    BY <1>3, <1>9, <2>1, DropsFrame
<1>10. ASSUME loop = Free \/ loop \in Jobs
       PROVE  \A v \in VendorIds : ~(loop = v /\ runs[v].phase = "alerting")
  BY <1>10, MonitoringAssumption DEF Free
<1>11. ASSUME NEW v \in VendorIds, StartRun(v) \/ ScanDone(v) \/ WebhookAnswered(v) \/ FinishRun(v)
       PROVE  DropsHandled'
  <2>1. UNCHANGED <<history, alerts>> /\ (loop = Free \/ (loop = v /\ runs[v].phase # "alerting"))
    BY <1>11 DEF StartRun, ScanDone, WebhookAnswered, FinishRun, store
  <2>2. QED
    BY <1>9, <1>10, <2>1
<1>12. ASSUME NEW j \in Jobs,
              \/ StartDetectJob(j) \/ ResolveInput(j) \/ JobRaises(j) \/ JobScanned(j)
              \/ NextJobVendor(j)
       PROVE  DropsHandled'
  <2>1. UNCHANGED <<history, alerts>> /\ (loop = Free \/ loop = j)
    BY <1>12 DEF StartDetectJob, NewJob, ResolveInput, JobRaises, JobScanned, NextJobVendor, store
  <2>2. QED
    BY SMTT(30), <1>9, <1>10, <2>1
<1>13. ASSUME NEW j \in Jobs, NEW v \in VendorIds, RescanVendor(j, v) PROVE DropsHandled'
  <2>1. UNCHANGED <<history, alerts>> /\ loop = Free
    BY <1>13 DEF RescanVendor, NewJob, store
  <2>2. QED
    BY <1>9, <1>10, <2>1
<1>14. ASSUME NEW v \in VendorIds,
              SetContinuousMonitoring(v) \/ StopContinuousMonitoring(v) \/ UpdateVendorDetail(v)
       PROVE  DropsHandled'
  <2>1. UNCHANGED <<history, alerts>> /\ loop = Free
    BY <1>14 DEF SetContinuousMonitoring, StopContinuousMonitoring, UpdateVendorDetail, Request
  <2>2. QED
    BY <1>9, <1>10, <2>1
<1>15. CASE SchedulerTick \/ AdvanceClock
  <2>1. UNCHANGED <<history, alerts>> /\ loop = Free
    BY <1>15 DEF SchedulerTick, AdvanceClock, store
  <2>2. QED
    BY <1>9, <1>10, <2>1
<1>16. CASE UNCHANGED vars
  <2>1. UNCHANGED <<history, alerts, loop, runs>>
    BY <1>16 DEF vars, store
  <2>2. QED
    BY <1>3, <2>1 DEF DropsHandled, HasAlert, AboutToAlert
<1>17. ~Restart /\ (\A v \in VendorIds : ~RunFails(v)) /\ \A j \in Jobs : ~JobStoreFails(j)
  BY <1>3 DEF Restart, RunFails, JobStoreFails
<1>18. QED
  BY <1>4, <1>5, <1>6, <1>7, <1>8, <1>11, <1>12, <1>13, <1>14, <1>15, <1>16, <1>17
     DEF Next, RunStep, JobStep

-----------------------------------------------------------------------------
(* The domains a vendor has had.                                           *)

\* A set of numbers that is not empty has a least one, and below a bound a
\* greatest one.
LEMMA LeastNumber ==
    ASSUME NEW T \in SUBSET Nat, T # {}
    PROVE  \E x \in T : \A y \in T : x <= y
<1> DEFINE R == {p \in Nat \X Nat : p[1] < p[2]}
<1>1. IsWellFoundedOn(R, Nat)
  BY NatLessThanWellFounded DEF OpToRel
<1> HIDE DEF R
<1>2. PICK x \in T : \A y \in T : <<y, x>> \notin R
  BY <1>1, WFMin
<1>3. \A y \in T : ~(y < x)
  BY <1>2 DEF R
<1>4. QED
  BY <1>3

LEMMA GreatestNumber ==
    ASSUME NEW n \in Nat, NEW T \in SUBSET (1..n), T # {}
    PROVE  \E x \in T : \A y \in T : y <= x
<1> DEFINE S == {n - y : y \in T}
<1>1. S \in SUBSET Nat /\ S # {}
  <2>1. \A y \in T : y \in Nat /\ n - y \in Nat
    OBVIOUS
  <2>2. QED
    BY <2>1
<1> HIDE DEF S
<1>2. PICK m \in S : \A y \in S : m <= y
  BY <1>1, LeastNumber
<1> USE DEF S
<1>3. PICK x \in T : m = n - x
  OBVIOUS
<1>4. \A y \in T : n - x <= n - y
  BY <1>2, <1>3
<1>5. QED
  BY <1>3, <1>4

\* vendor_ids_by_domain of a resolved domain: the id of the last vendor of
\* the list that has it.
LEMMA IdOfIs ==
    ASSUME NEW job \in Job, JobWF(job), NEW i \in DOMAIN job.doms
    PROVE  \E k \in DOMAIN job.ids : job.doms[k] = job.doms[i] /\ IdOf(job, job.doms[i]) = job.ids[k]
<1> DEFINE d == job.doms[i]
           last == CHOOSE k \in DOMAIN job.doms :
                      /\ job.doms[k] = d
                      /\ \A m \in DOMAIN job.doms : job.doms[m] = d => m <= k
           T == {m \in DOMAIN job.doms : job.doms[m] = d}
<1>1. job.doms \in Seq(Domains) /\ job.ids \in Seq(VendorIds) /\ Len(job.ids) = Len(job.doms)
  BY DEF Job, JobWF
<1>2. /\ Len(job.doms) \in Nat /\ DOMAIN job.doms = 1..Len(job.doms)
      /\ DOMAIN job.ids = DOMAIN job.doms
  BY <1>1
<1>3. T \in SUBSET (1..Len(job.doms)) /\ T # {}
  BY <1>2
<1> HIDE DEF T
<1>4. \E k \in T : \A m \in T : m <= k
  BY <1>2, <1>3, GreatestNumber
<1> USE DEF T
<1>5. \E k \in DOMAIN job.doms :
        /\ job.doms[k] = d
        /\ \A m \in DOMAIN job.doms : job.doms[m] = d => m <= k
  BY <1>4
<1>6. last \in DOMAIN job.doms /\ job.doms[last] = d
  BY <1>5, Zenon
<1>7. IdOf(job, d) = job.ids[last]
  BY DEF IdOf
<1> HIDE DEF last
<1>8. QED
  BY <1>2, <1>6, <1>7

\* What one turn of the resolve loop does: it upserts a vendor and adds it to
\* the job's lists.
ResolveTurn(j, d, v) ==
    /\ d \in Domains /\ v \in UpsertIds(d)
    /\ vendors' = [vendors EXCEPT ![v] = d]
    /\ held' = [held EXCEPT ![v] = @ \cup {d}]
    /\ jobs'[j].doms = Append(jobs[j].doms, d) /\ jobs'[j].ids = Append(jobs[j].ids, v)
    /\ jobs'[j].phase \in {"scanning", "resolving"}
    /\ \A k \in Jobs \ {j} : jobs'[k] = jobs[k]

LEMMA ResolveInputIs ==
    ASSUME TypeInv, NEW j \in Jobs, ResolveInput(j)
    PROVE  \E d \in Domains : \E v \in UpsertIds(d) : ResolveTurn(j, d, v)
<1> DEFINE job == jobs[j]
           k == Len(job.doms) + 1
           p == IF k = Len(job.inputs) THEN "scanning" ELSE "resolving"
           New(d, v) == [job EXCEPT !.doms = Append(job.doms, d), !.ids = Append(job.ids, v),
                                    !.phase = p]
           Turn(d, v) ==
             /\ vendors' = [vendors EXCEPT ![v] = d]
             /\ held' = [held EXCEPT ![v] = @ \cup {d}]
             /\ jobs' = [jobs EXCEPT ![j] = New(d, v)]
<1>1. jobs \in [Jobs -> Job] /\ job \in Job
  BY DEF TypeInv, TypeOK
<1>2. /\ job.inputs \in Seq(Domains \cup {Unknown}) /\ job.doms \in Seq(Domains)
      /\ Len(job.doms) < Len(job.inputs)
  BY <1>1 DEF TypeInv, CoroutinesWF, JobWF, Job, ResolveInput
<1>3. job.inputs[k] \in Domains \cup {Unknown}
  BY <1>2
<1>4. PICK d \in (IF job.inputs[k] = Unknown THEN Domains ELSE {job.inputs[k]}) :
        \E v \in UpsertIds(d) : Turn(d, v)
  BY DEF ResolveInput
<1>5. PICK v \in UpsertIds(d) : Turn(d, v)
  BY <1>4
<1>6. d \in Domains
  BY <1>3, <1>4
<1>7. /\ New(d, v).doms = Append(job.doms, d) /\ New(d, v).ids = Append(job.ids, v)
      /\ New(d, v).phase = p
  BY <1>1 DEF Job
<1>8. p \in {"scanning", "resolving"}
  OBVIOUS
<1> HIDE DEF New, p
<1>9. jobs'[j] = New(d, v) /\ \A i \in Jobs \ {j} : jobs'[i] = jobs[i]
  BY <1>1, <1>5
<1>10. ResolveTurn(j, d, v)
  BY <1>5, <1>6, <1>7, <1>8, <1>9 DEF ResolveTurn
<1>11. QED
  BY <1>5, <1>6, <1>10

\* The steps that touch the inventory or the record of the domains, by kind.
LEMMA DomainSteps ==
    ASSUME [Next]_vars
    PROVE  \/ UNCHANGED <<vendors, held>>
           \/ \E j \in Jobs : ResolveInput(j)
           \/ \E v \in VendorIds : UpdateVendorDetail(v) \/ DeleteVendorDetail(v)
<1>1. CASE \E v \in VendorIds : RunStep(v) \/ RunFails(v)
  BY ZenonT(60), <1>1 DEF RunStep, RunFails, StartRun, ScanDone, RecordResult, RaiseAlert, WebhookAnswered,
              MarkDelivery, FinishRun, store
<1>2. CASE \E j \in Jobs : StartDetectJob(j) \/ JobStep(j) \/ JobStoreFails(j)
  BY <1>2 DEF StartDetectJob, NewJob, JobStep, JobRaises, JobScanned, RecordJobResult,
              NextJobVendor, JobStoreFails, store
<1>3. CASE \E j \in Jobs, v \in VendorIds : RescanVendor(j, v)
  BY <1>3 DEF RescanVendor, NewJob, store
<1>4. CASE \E v \in VendorIds : SetContinuousMonitoring(v) \/ StopContinuousMonitoring(v)
  BY <1>4 DEF SetContinuousMonitoring, StopContinuousMonitoring
<1>5. CASE SchedulerTick \/ AdvanceClock \/ Restart \/ UNCHANGED vars
  BY <1>5 DEF SchedulerTick, AdvanceClock, Restart, vars, store
<1>6. QED
  BY <1>1, <1>2, <1>3, <1>4, <1>5 DEF Next

\* A job that its own coroutine does not move stays as it is, or is new or
\* over with nothing but its status.
LEMMA JobSteps ==
    ASSUME TypeInv, [Next]_vars, NEW j \in Jobs
    PROVE  \/ jobs'[j] = jobs[j]
           \/ jobs'[j].ids = <<>> /\ jobs'[j].phase \notin {"recording", "complete"}
           \/ ResolveInput(j) \/ JobScanned(j) \/ RecordJobResult(j) \/ NextJobVendor(j)
<1> DEFINE job == jobs[j]
<1>1. jobs \in [Jobs -> Job] /\ job \in Job
  BY DEF TypeInv, TypeOK
<1>2. \A p, a, b :
        /\ NoJob.ids = <<>> /\ NoJob.phase = "none"
        /\ LET new == [NoJob EXCEPT !.phase = p] IN new.ids = <<>> /\ new.phase = p
        /\ LET new == [NoJob EXCEPT !.phase = p, !.inputs = a, !.types = b]
           IN new.ids = <<>> /\ new.phase = p
  BY DEF NoJob
<1>3. ASSUME NEW k \in Jobs \ {j},
             \/ JobStep(k) \/ JobStoreFails(k) \/ StartDetectJob(k)
             \/ \E v \in VendorIds : RescanVendor(k, v)
      PROVE  jobs'[j] = job
  <2>1. CASE ResolveInput(k)
    <3>1. PICK d \in Domains : \E v \in UpsertIds(d) : ResolveTurn(k, d, v)
      BY <2>1, ResolveInputIs
    <3>2. QED
      BY <3>1 DEF ResolveTurn
  <2>2. CASE ~ResolveInput(k)
    BY <1>1, <1>3, <2>2
       DEF JobStep, JobRaises, JobScanned, RecordJobResult, NextJobVendor, JobStoreFails,
           StartDetectJob, RescanVendor, NewJob, FailedJob
  <2>3. QED
    BY <2>1, <2>2
<1>4. CASE \E inputs, types : NewJob(j, inputs, types)
  <2>1. PICK inputs, types : NewJob(j, inputs, types)
    BY <1>4
  <2>2. jobs'[j] = [NoJob EXCEPT !.phase = "queued", !.inputs = inputs, !.types = types]
    BY <1>1, <2>1 DEF NewJob
  <2>3. QED
    BY <1>2, <2>2
<1>5. CASE JobRaises(j) \/ JobStoreFails(j)
  <2>1. jobs'[j] = [NoJob EXCEPT !.phase = "failed"]
    BY <1>1, <1>5 DEF JobRaises, JobStoreFails, FailedJob
  <2>2. QED
    BY <1>2, <2>1
<1>6. CASE Restart
  BY <1>2, <1>6 DEF Restart
<1>7. CASE UNCHANGED jobs
  BY <1>7
<1>8. CASE \E v \in VendorIds : RunStep(v) \/ RunFails(v)
  <2>1. UNCHANGED jobs
    BY <1>8 DEF RunStep, RunFails, StartRun, ScanDone, RecordResult, RaiseAlert,
                 WebhookAnswered, MarkDelivery, FinishRun
  <2>2. QED
    BY <1>7, <2>1
<1>9. CASE \E v \in VendorIds : \/ SetContinuousMonitoring(v) \/ StopContinuousMonitoring(v)
                                 \/ UpdateVendorDetail(v) \/ DeleteVendorDetail(v)
  BY <1>7, <1>9 DEF SetContinuousMonitoring, StopContinuousMonitoring, UpdateVendorDetail,
                      DeleteVendorDetail, Request
<1>10. CASE SchedulerTick \/ AdvanceClock \/ UNCHANGED vars
  BY <1>7, <1>10 DEF SchedulerTick, AdvanceClock, vars
<1>11. ASSUME NEW k \in Jobs,
              \/ JobStep(k) \/ JobStoreFails(k) \/ StartDetectJob(k)
              \/ \E v \in VendorIds : RescanVendor(k, v)
       PROVE  \/ jobs'[j] = job
              \/ jobs'[j].ids = <<>> /\ jobs'[j].phase \notin {"recording", "complete"}
              \/ ResolveInput(j) \/ JobScanned(j) \/ RecordJobResult(j) \/ NextJobVendor(j)
  <2>1. CASE k # j
    BY <1>3, <1>11, <2>1
  <2>2. CASE k = j
    BY <1>4, <1>5, <1>11, <2>2 DEF JobStep, StartDetectJob, RescanVendor
  <2>3. QED
    BY <2>1, <2>2
<1>12. QED
  BY <1>6, <1>8, <1>9, <1>10, <1>11 DEF Next

\* Outside a turn of the resolve loop, a job keeps its vendors or has none.
LEMMA JobMoves ==
    ASSUME TypeInv, [Next]_vars, NEW j \in Jobs
    PROVE  \/ jobs'[j].ids = jobs[j].ids /\ jobs'[j].doms = jobs[j].doms
           \/ jobs'[j].ids = <<>>
           \/ ResolveInput(j)
<1> DEFINE job == jobs[j]
<1>1. jobs \in [Jobs -> Job] /\ job \in Job
  BY DEF TypeInv, TypeOK
<1>2. CASE JobScanned(j)
  <2>1. \E t, rs : jobs'[j] = [job EXCEPT !.phase = "recording", !.todo = t, !.results = rs]
    BY <1>1, <1>2 DEF JobScanned
  <2>2. PICK t, rs : jobs'[j] = [job EXCEPT !.phase = "recording", !.todo = t, !.results = rs]
    BY <2>1
  <2>3. QED
    BY <1>1, <2>2 DEF Job
<1>3. CASE RecordJobResult(j)
  <2>1. jobs'[j] = [job EXCEPT !.todo = Tail(job.todo)]
    BY <1>1, <1>3 DEF RecordJobResult
  <2>2. QED
    BY <1>1, <2>1 DEF Job
<1>4. CASE NextJobVendor(j)
  <2>1. \/ jobs'[j] = [job EXCEPT !.at = job.at + 1, !.todo = job.results[job.at + 1]]
        \/ jobs'[j] = [job EXCEPT !.phase = "complete"]
    BY <1>1, <1>4 DEF NextJobVendor
  <2>2. QED
    BY <1>1, <2>1 DEF Job
<1>5. QED
  BY <1>2, <1>3, <1>4, JobSteps

-----------------------------------------------------------------------------
(* Drops behind rows without a score.                                      *)

\* A result that is no error has a score where its detector produces one.
Sane(r) == r.detector \in Scored /\ ~r.failed => r.score # NoScore

SaneList(rs) == \A k \in DOMAIN rs : Sane(rs[k])

SaneJob(job) ==
    job.phase = "recording" =>
        SaneList(job.todo) /\ \A i \in DOMAIN job.results : SaneList(job.results[i])

\* A job skips what failed, so each of its rows has a score if any row of the
\* detector can have one.
JobRowsScored ==
    \A v \in VendorIds, d \in Scored : \A i \in DOMAIN history[v][d] :
        history[v][d][i].src # Scheduler => history[v][d][i].score # NoScore

LEMMA ResultsAreSane ==
    ASSUME NEW types \in Seq(Detectors), NEW rs \in ResultLists(types)
    PROVE  SaneList(rs)
<1> DEFINE asked == {types[i] : i \in DOMAIN types}
<1>1. PICK f \in [asked -> UNION {Outcomes(d) : d \in asked}] :
        /\ \A d \in asked : f[d] \in Outcomes(d)
        /\ rs = [i \in DOMAIN types |-> f[types[i]]]
  BY DEF ResultLists
<1>2. ASSUME NEW d, NEW r \in Outcomes(d) PROVE Sane(r)
  <2>1. CASE d \in Scored
    <3>1. PICK s \in Scores \cup {NoScore} :
            r = [detector |-> d, score |-> s, failed |-> s = NoScore]
      BY <2>1, Zenon DEF Outcomes
    <3>2. r.failed = (s = NoScore) /\ r.score = s
      BY <3>1, Zenon
    <3>3. QED
      BY <3>2, Zenon DEF Sane
  <2>2. CASE d \notin Scored
    BY <2>2 DEF Outcomes, Sane
  <2>3. QED
    BY <2>1, <2>2
<1>3. \A i \in DOMAIN types : Sane(f[types[i]])
  BY <1>1, <1>2
<1>4. QED
  BY <1>1, <1>3 DEF SaneList

\* The results of a job that records them come from the orchestrator.
LEMMA SaneJobStep ==
    ASSUME TypeInv, NEW j \in Jobs, SaneJob(jobs[j]), [Next]_vars
    PROVE  SaneJob(jobs'[j])
<1> DEFINE job == jobs[j]
           new == jobs'[j]
<1>1. jobs \in [Jobs -> Job] /\ job \in Job /\ JobWF(job)
  BY DEF TypeInv, TypeOK, CoroutinesWF
<1>2. /\ job.types \in Seq(Detectors) /\ job.doms \in Seq(Domains)
      /\ job.todo \in Seq(Result) /\ job.results \in Seq(Seq(Result))
  BY <1>1 DEF Job
<1>3. CASE new = job
  BY <1>3
<1>4. CASE new.phase \notin {"recording", "complete"}
  BY <1>4 DEF SaneJob
<1>5. CASE ResolveInput(j)
  <2>1. new.phase \in {"scanning", "resolving"}
    BY <1>5, ResolveInputIs DEF ResolveTurn
  <2>2. QED
    BY <1>4, <2>1
<1>6. CASE JobScanned(j)
  <2> DEFINE asked == {job.doms[i] : i \in DOMAIN job.doms}
  <2>1. PICK byDomain \in [asked -> ResultLists(job.types)] :
          new = [job EXCEPT !.phase = "recording", !.todo = byDomain[job.doms[1]],
                            !.results = [i \in DOMAIN job.doms |-> byDomain[job.doms[i]]]]
    BY <1>1, <1>6 DEF JobScanned
  <2>2. /\ new.todo = byDomain[job.doms[1]]
        /\ new.results = [i \in DOMAIN job.doms |-> byDomain[job.doms[i]]]
    BY <1>1, <2>1 DEF Job
  <2>3. 1 \in DOMAIN job.doms
    BY <1>1, <1>2, <1>6 DEF JobScanned, JobWF
  <2>4. \A i \in DOMAIN job.doms : SaneList(byDomain[job.doms[i]])
    BY <1>2, <2>1, ResultsAreSane
  <2>5. QED
    BY <2>2, <2>3, <2>4 DEF SaneJob
<1>7. CASE RecordJobResult(j)
  <2>1. new = [job EXCEPT !.todo = Tail(job.todo)] /\ job.phase = "recording" /\ job.todo # <<>>
    BY <1>1, <1>7 DEF RecordJobResult
  <2>2. new.todo = Tail(job.todo) /\ new.results = job.results
    BY <1>1, <2>1 DEF Job
  <2>3. SaneList(job.todo) /\ \A i \in DOMAIN job.results : SaneList(job.results[i])
    BY <2>1 DEF SaneJob
  <2>4. SaneList(Tail(job.todo))
    <3> DEFINE t == job.todo
    <3>1. t \in Seq(Result) /\ t # <<>> /\ SaneList(t)
      BY <1>2, <2>1, <2>3
    <3> HIDE DEF t
    <3>2. \A k \in DOMAIN Tail(t) : k + 1 \in DOMAIN t /\ Tail(t)[k] = t[k + 1]
      BY <3>1
    <3>3. QED
      BY <3>1, <3>2 DEF SaneList, t
  <2>5. QED
    BY <2>2, <2>3, <2>4 DEF SaneJob
<1>8. CASE NextJobVendor(j)
  <2>1. CASE job.at < Len(job.doms)
    <3>1. new = [job EXCEPT !.at = job.at + 1, !.todo = job.results[job.at + 1]]
          /\ job.phase = "recording"
      BY <1>1, <1>8, <2>1 DEF NextJobVendor
    <3>2. new.todo = job.results[job.at + 1] /\ new.results = job.results
      BY <1>1, <3>1 DEF Job
    <3>3. job.at + 1 \in DOMAIN job.results
      BY <1>1, <1>2, <2>1, <3>1 DEF JobWF
    <3>4. QED
      BY <3>1, <3>2, <3>3 DEF SaneJob
  <2>2. CASE ~(job.at < Len(job.doms))
    <3>1. new = [job EXCEPT !.phase = "complete"]
      BY <1>1, <1>8, <2>2 DEF NextJobVendor
    <3>2. new.phase = "complete"
      BY <1>1, <3>1 DEF Job
    <3>3. QED
      BY <3>2 DEF SaneJob
  <2>3. QED
    BY <2>1, <2>2
<1>9. QED
  BY <1>3, <1>4, <1>5, <1>6, <1>7, <1>8, JobSteps

ScoreInv == (\A j \in Jobs : SaneJob(jobs[j])) /\ JobRowsScored

\* record_score appends a row that keeps JobRowsScored.
LEMMA ScoredRowAdded ==
    ASSUME StoreTypeOK, JobRowsScored, NEW v \in VendorIds, NEW d \in Detectors, NEW row \in Row,
           history' = RecordScore(v, d, row),
           d \in Scored /\ row.src # Scheduler => row.score # NoScore
    PROVE  JobRowsScored'
<1> SUFFICES ASSUME NEW w \in VendorIds, NEW e \in Scored, NEW i \in DOMAIN history'[w][e],
                    history'[w][e][i].src # Scheduler
             PROVE  history'[w][e][i].score # NoScore
  BY DEF JobRowsScored
<1> DEFINE h == history[w][e]
<1>0. e \in Detectors
  BY StoreAssumption
<1>1. h \in Seq(Row) /\ history'[w][e] = IF w = v /\ e = d THEN Append(h, row) ELSE h
  BY <1>0, RowAdded
<1>2. CASE ~(w = v /\ e = d)
  BY <1>1, <1>2 DEF JobRowsScored
<1>3. CASE w = v /\ e = d
  <2>1. history'[w][e] = Append(h, row) /\ \A k \in DOMAIN h :
          h[k].src # Scheduler => h[k].score # NoScore
    BY <1>1, <1>3 DEF JobRowsScored
  <2> HIDE DEF h
  <2>2. CASE i \in 1..Len(h)
    <3>1. i \in DOMAIN h /\ Append(h, row)[i] = h[i]
      BY <1>1, <2>2
    <3>2. QED
      BY <2>1, <3>1
  <2>3. CASE i \notin 1..Len(h)
    <3>1. Append(h, row)[i] = row
      BY <1>1, <2>1, <2>3
    <3>2. QED
      BY <1>3, <2>1, <3>1
  <2>4. QED
    BY <2>2, <2>3
<1>4. QED
  BY <1>2, <1>3

LEMMA ScoreStep == TypeInv /\ ScoreInv /\ [Next]_vars => ScoreInv'
<1> SUFFICES ASSUME TypeInv, ScoreInv, [Next]_vars PROVE ScoreInv'
  OBVIOUS
<1>1. StoreTypeOK
  BY DEF TypeInv, TypeOK
<1>2. ASSUME NEW j \in Jobs PROVE SaneJob(jobs'[j])
  BY SaneJobStep DEF ScoreInv
<1>3. JobRowsScored
  BY DEF ScoreInv
<1>4. CASE UNCHANGED history
  <2>1. JobRowsScored'
    BY <1>3, <1>4 DEF JobRowsScored
  <2>2. QED
    BY <1>2, <2>1 DEF ScoreInv
<1>5. ASSUME NEW v \in VendorIds, RecordResult(v) PROVE JobRowsScored'
  <2> DEFINE d == Head(runs[v].results).detector
             row == RunRow(v)
  <2>1. d \in Detectors /\ row \in Row /\ history' = RecordScore(v, d, row)
    BY <1>5, RunRecords
  <2>2. row.src = Scheduler
    BY DEF RunRow
  <2> HIDE DEF d, row
  <2>3. QED
    BY <1>1, <1>3, <2>1, <2>2, ScoredRowAdded
<1>6. ASSUME NEW v \in VendorIds, DeleteVendorDetail(v) PROVE JobRowsScored'
  <2>1. history' = [history EXCEPT ![v] = [d \in Detectors |-> <<>>]]
    BY <1>6 DEF DeleteVendorDetail, DeleteRows
  <2>2. QED
    BY <1>1, <1>3, <2>1, StoreAssumption DEF JobRowsScored, StoreTypeOK
<1>7. ASSUME NEW j \in Jobs, RecordJobResult(j) PROVE JobRowsScored'
  <2> DEFINE r == Head(jobs[j].todo)
             d == r.detector
             row == JobRow(j)
             x == IdForRows(jobs[j])
  <2>1. /\ row \in Row /\ r \in Result /\ d \in Detectors
        /\ history' = IF Recorded(r) THEN RecordScore(x, d, row) ELSE history
    BY <1>7, JobRecords
  <2>2. jobs[j].todo \in Seq(Result) /\ jobs[j].todo # <<>> /\ SaneJob(jobs[j])
        /\ jobs[j].phase = "recording"
    BY <1>7 DEF RecordJobResult, ScoreInv, TypeInv, TypeOK, Job
  <2>3. Sane(r)
    <3>1. 1 \in DOMAIN jobs[j].todo /\ r = jobs[j].todo[1]
      BY <2>2
    <3>2. QED
      BY <2>2, <3>1 DEF SaneJob, SaneList
  <2>4. row.score = r.score
    BY DEF JobRow
  <2>5. CASE Recorded(r)
    <3>1. d \in Scored => row.score # NoScore
      BY <2>3, <2>4, <2>5 DEF Sane, Recorded
    <3>2. history' = RecordScore(x, d, row)
      BY <2>1, <2>5
    <3>3. CASE x \in VendorIds
      <4> HIDE DEF d, row, x
      <4>1. QED
        BY <1>1, <1>3, <2>1, <3>1, <3>2, <3>3, ScoredRowAdded
    <3>4. CASE x \notin VendorIds
      <4>1. history' = history
        BY <1>1, <3>2, <3>4 DEF RecordScore, StoreTypeOK
      <4>2. QED
        BY <1>3, <4>1 DEF JobRowsScored
    <3>5. QED
      BY <3>3, <3>4
  <2>6. CASE ~Recorded(r)
    BY <1>3, <2>1, <2>6 DEF JobRowsScored
  <2>7. QED
    BY <2>5, <2>6
<1>8. QED
  BY <1>2, <1>4, <1>5, <1>6, <1>7, HistorySteps DEF ScoreInv

\* A drop from the last score is one from the row before, unless that row has
\* no score.
LEMMA DropKinds ==
    ASSUME NEW h \in Seq(Row), NEW i \in 1..Len(h), IsDrop(h, i)
    PROVE  \/ FallsToNext(h, i)
           \/ i - 1 \in DOMAIN h /\ h[i - 1].score = NoScore
<1>1. PICK k \in 1..i - 1 :
        /\ h[k].score # NoScore /\ \A j \in k + 1..i - 1 : h[j].score = NoScore
        /\ h[k].score - h[i].score >= h[i].floor
  BY DEF IsDrop
<1>2. i \in 2..Len(h) /\ i - 1 \in DOMAIN h
  BY <1>1
<1>3. CASE k = i - 1
  BY <1>1, <1>2, <1>3 DEF IsDrop, FallsToNext
<1>4. CASE k # i - 1
  <2>1. i - 1 \in k + 1..i - 1
    BY <1>1, <1>4
  <2>2. QED
    BY <1>1, <1>2, <2>1
<1>5. QED
  BY <1>3, <1>4

\* Until the process meets a fault, every drop from the last score that a
\* scheduled run recorded has its alert, or gets it before the run lets go of
\* the event loop, unless the row before it is that of a scheduled run that
\* failed (_run_one_monitored_vendor, _run_detect_job).
THEOREM NoDropIsMissed == Spec => []DropsAreAlerted
<1>1. Init => FallsAreAlerted /\ ScoreInv
  <2> SUFFICES ASSUME Init
               PROVE  FallsAreAlerted /\ ScoreInv
    OBVIOUS
  <2>1. \A v \in VendorIds, d \in Detectors : DOMAIN history[v][d] = {}
    BY DEF Init, StoreInit
  <2>2. FallsAreAlerted
    BY <2>1 DEF FallsAreAlerted, DropsHandled
  <2>3. JobRowsScored
    BY <2>1, StoreAssumption DEF JobRowsScored
  <2>4. \A j \in Jobs : jobs[j].phase = "none"
    BY DEF Init, NoJob
  <2>5. QED
    BY <2>2, <2>3, <2>4 DEF ScoreInv, SaneJob
<1>2. TypeInv /\ FallsAreAlerted /\ ScoreInv => DropsAreAlerted
  <2> SUFFICES ASSUME TypeInv, FallsAreAlerted, ScoreInv, faults = 0,
                      NEW v \in VendorIds, NEW d \in Scored, NEW i \in DOMAIN history[v][d],
                      IsDrop(history[v][d], i)
               PROVE  HasAlert(v, d, i) \/ AboutToAlert(v, d, i) \/ BehindFailure(history[v][d], i)
    BY DEF DropsAreAlerted
  <2>1. d \in Detectors
    BY StoreAssumption
  <2>2. history[v][d] \in Seq(Row) /\ i \in 1..Len(history[v][d])
    BY <2>1 DEF TypeInv, TypeOK, StoreTypeOK
  <2>3. CASE FallsToNext(history[v][d], i)
    BY <2>1, <2>3 DEF FallsAreAlerted, DropsHandled
  <2>4. CASE i - 1 \in DOMAIN history[v][d] /\ history[v][d][i - 1].score = NoScore
    BY <2>4 DEF ScoreInv, JobRowsScored, BehindFailure
  <2>5. QED
    BY <2>2, <2>3, <2>4, DropKinds
<1>3. QED
  BY <1>1, <1>2, DropsStep, ScoreStep, InitType, NextType, PTL DEF Spec

-----------------------------------------------------------------------------
(* Rows are of their vendor.                                               *)

\* Whatever is scanned or recorded for a vendor is about a domain it has had:
\* the inventory's row, a run that has its slot, a job's vendors and the
\* history.
HeldRows == \A v \in VendorIds : Exists(v) => vendors[v] \in held[v]

HeldRuns == \A v \in VendorIds : Busy(v) => runs[v].domain \in held[v]

HeldJobs == \A j \in Jobs : \A i \in DOMAIN jobs[j].ids : jobs[j].doms[i] \in held[jobs[j].ids[i]]

HeldInv == HeldRows /\ HeldRuns /\ HeldJobs /\ RowsAreOfVendor

\* The record of a vendor's domains only grows, and has the one it has now.
LEMMA HeldGrows ==
    ASSUME TypeInv, HeldRows, [Next]_vars
    PROVE  HeldRows' /\ \A v \in VendorIds : held[v] \subseteq held'[v]
<1>1. /\ vendors \in [VendorIds -> Domains \cup {Unissued, Deleted}]
      /\ held \in [VendorIds -> SUBSET Domains]
  BY DEF TypeInv, TypeOK, StoreTypeOK
<1>2. CASE UNCHANGED <<vendors, held>>
  BY <1>2 DEF HeldRows, Exists
<1>3. ASSUME NEW v \in VendorIds, NEW d \in Domains, vendors' = [vendors EXCEPT ![v] = d],
             held' = [held EXCEPT ![v] = @ \cup {d}]
      PROVE  HeldRows' /\ \A w \in VendorIds : held[w] \subseteq held'[w]
  BY <1>1, <1>3 DEF HeldRows, Exists
<1>4. ASSUME NEW j \in Jobs, ResolveInput(j)
      PROVE  HeldRows' /\ \A v \in VendorIds : held[v] \subseteq held'[v]
  <2>1. PICK d \in Domains : \E v \in UpsertIds(d) : ResolveTurn(j, d, v)
    BY <1>4, ResolveInputIs
  <2>2. PICK v \in VendorIds : ResolveTurn(j, d, v)
    BY <2>1 DEF UpsertIds
  <2>3. QED
    BY <1>3, <2>2 DEF ResolveTurn
<1>5. ASSUME NEW v \in VendorIds, UpdateVendorDetail(v)
      PROVE  HeldRows' /\ \A w \in VendorIds : held[w] \subseteq held'[w]
  <2>1. PICK d \in Domains :
          vendors' = [vendors EXCEPT ![v] = d] /\ held' = [held EXCEPT ![v] = @ \cup {d}]
    BY <1>5 DEF UpdateVendorDetail
  <2>2. QED
    BY <1>3, <2>1
<1>6. ASSUME NEW v \in VendorIds, DeleteVendorDetail(v)
      PROVE  HeldRows' /\ \A w \in VendorIds : held[w] \subseteq held'[w]
  <2>1. vendors' = [vendors EXCEPT ![v] = Deleted] /\ held' = held
    BY <1>6 DEF DeleteVendorDetail, DeleteRows
  <2>2. QED
    BY <1>1, <2>1, StoreAssumption DEF HeldRows, Exists
<1>7. QED
  BY <1>2, <1>4, <1>5, <1>6, DomainSteps

\* A run goes on with the domain it had, or starts with its vendor's.
LEMMA HeldRunsStep == TypeInv /\ HeldRows /\ HeldRuns /\ [Next]_vars => HeldRuns'
<1> SUFFICES ASSUME TypeInv, HeldRows, HeldRuns, [Next]_vars, NEW v \in VendorIds, Busy(v)'
             PROVE  runs'[v].domain \in held'[v]
  BY DEF HeldRuns
<1>1. held[v] \subseteq held'[v]
  BY HeldGrows
<1>2. CASE Busy(v) /\ runs'[v].domain = runs[v].domain
  BY <1>1, <1>2 DEF HeldRuns
<1>3. CASE Exists(v) /\ runs'[v].domain = vendors[v]
  BY <1>1, <1>3 DEF HeldRows
<1>4. QED
  BY <1>2, <1>3, RunMoves

\* A job's new vendor has just been given the domain.
LEMMA HeldJobsStep == TypeInv /\ HeldRows /\ HeldJobs /\ [Next]_vars => HeldJobs'
<1> SUFFICES ASSUME TypeInv, HeldRows, HeldJobs, [Next]_vars, NEW j \in Jobs,
                    NEW i \in DOMAIN jobs'[j].ids
             PROVE  jobs'[j].doms[i] \in held'[jobs'[j].ids[i]]
  BY DEF HeldJobs
<1> DEFINE job == jobs[j]
<1>1. \A v \in VendorIds : held[v] \subseteq held'[v]
  BY HeldGrows
<1>2. /\ job.doms \in Seq(Domains) /\ job.ids \in Seq(VendorIds) /\ Len(job.ids) = Len(job.doms)
      /\ held \in [VendorIds -> SUBSET Domains]
  BY DEF TypeInv, TypeOK, CoroutinesWF, JobWF, Job
<1>3. ASSUME NEW k \in DOMAIN job.ids PROVE job.doms[k] \in held'[job.ids[k]]
  BY <1>1, <1>2 DEF HeldJobs
<1>4. CASE jobs'[j].ids = job.ids /\ jobs'[j].doms = job.doms
  BY <1>3, <1>4
<1>5. CASE jobs'[j].ids = <<>>
  BY <1>5
<1>6. CASE ResolveInput(j)
  <2>1. PICK d \in Domains : \E v \in UpsertIds(d) : ResolveTurn(j, d, v)
    BY <1>6, ResolveInputIs
  <2>2. PICK v \in VendorIds : ResolveTurn(j, d, v)
    BY <2>1 DEF UpsertIds
  <2>3. jobs'[j].doms = Append(job.doms, d) /\ jobs'[j].ids = Append(job.ids, v) /\ d \in held'[v]
    BY <1>2, <2>2 DEF ResolveTurn
  <2> DEFINE ds == job.doms
             is == job.ids
             n == Len(is)
  <2>4. /\ n \in Nat /\ i \in 1..(n + 1)
        /\ Append(ds, d)[n + 1] = d /\ Append(is, v)[n + 1] = v
        /\ \A k \in 1..n : Append(ds, d)[k] = ds[k] /\ Append(is, v)[k] = is[k]
    <3>1. ds \in Seq(Domains) /\ is \in Seq(VendorIds) /\ Len(ds) = Len(is) /\ i \in DOMAIN Append(is, v)
      BY <1>2, <2>3
    <3> HIDE DEF ds, is
    <3>2. /\ n \in Nat /\ Len(ds) = n /\ d \in Domains /\ v \in VendorIds
          /\ Len(Append(is, v)) = n + 1
      BY <3>1
    <3>3. i \in 1..(n + 1)
      BY <3>1, <3>2
    <3>4. Append(ds, d)[n + 1] = d /\ \A k \in 1..n : Append(ds, d)[k] = ds[k]
      BY <3>1, <3>2
    <3>5. Append(is, v)[n + 1] = v /\ \A k \in 1..n : Append(is, v)[k] = is[k]
      BY <3>1, <3>2
    <3>6. QED
      BY <3>2, <3>3, <3>4, <3>5
  <2>5. CASE i \in 1..n
    BY SMTT(30), <1>2, <1>3, <2>3, <2>4, <2>5
  <2>6. CASE i = n + 1
    BY <2>3, <2>4, <2>6
  <2>7. QED
    BY <2>4, <2>5, <2>6
<1>7. QED
  BY <1>4, <1>5, <1>6, JobMoves

\* A row recorded for a vendor with a domain it has had.
LEMMA HeldRowRecorded ==
    ASSUME StoreTypeOK, RowsAreOfVendor, \A v \in VendorIds : held[v] \subseteq held'[v],
           NEW v \in VendorIds, NEW d \in Detectors, NEW row \in Row, row.domain \in held[v],
           history' = RecordScore(v, d, row)
    PROVE  RowsAreOfVendor'
<1> SUFFICES ASSUME NEW w \in VendorIds, NEW e \in Detectors, NEW i \in DOMAIN history'[w][e]
             PROVE  history'[w][e][i].domain \in held'[w]
  BY DEF RowsAreOfVendor
<1> DEFINE h == history[w][e]
<1>1. h \in Seq(Row) /\ history'[w][e] = IF w = v /\ e = d THEN Append(h, row) ELSE h
  BY RowAdded
<1>2. \A k \in DOMAIN h : h[k].domain \in held'[w]
  BY DEF RowsAreOfVendor
<1>3. row.domain \in held'[v]
  OBVIOUS
<1> HIDE DEF h
<1>4. CASE w = v /\ e = d
  <2>1. history'[w][e] = Append(h, row) /\ i \in DOMAIN Append(h, row)
    BY <1>1, <1>4
  <2>2. (i \in DOMAIN h /\ Append(h, row)[i] = h[i]) \/ Append(h, row)[i] = row
    BY <1>1, <2>1
  <2>3. QED
    BY <1>2, <1>3, <1>4, <2>1, <2>2
<1>5. CASE ~(w = v /\ e = d)
  BY <1>1, <1>2, <1>5
<1>6. QED
  BY <1>4, <1>5

LEMMA HeldHistoryStep == TypeInv /\ HeldInv /\ [Next]_vars => RowsAreOfVendor'
<1> SUFFICES ASSUME TypeInv, HeldInv, [Next]_vars PROVE RowsAreOfVendor'
  OBVIOUS
<1>1. /\ StoreTypeOK /\ HeldRows /\ HeldRuns /\ HeldJobs /\ RowsAreOfVendor
      /\ \A v \in VendorIds : held[v] \subseteq held'[v]
  BY HeldGrows DEF HeldInv, TypeInv, TypeOK
<1>2. CASE UNCHANGED history
  BY <1>1, <1>2 DEF RowsAreOfVendor
<1>3. ASSUME NEW v \in VendorIds, RecordResult(v) PROVE RowsAreOfVendor'
  <2> DEFINE d == Head(runs[v].results).detector
             row == RunRow(v)
  <2>1. row \in Row /\ d \in Detectors /\ history' = RecordScore(v, d, row)
    BY <1>3, RunRecords
  <2>2. row.domain = runs[v].domain
    BY DEF RunRow
  <2>3. row.domain \in held[v]
    BY <1>1, <1>3, <2>2 DEF HeldRuns, Busy, RecordResult
  <2> HIDE DEF d, row
  <2>4. QED
    BY <1>1, <2>1, <2>3, HeldRowRecorded
<1>4. ASSUME NEW j \in Jobs, RecordJobResult(j) PROVE RowsAreOfVendor'
  <2> DEFINE d == Head(jobs[j].todo).detector
             row == JobRow(j)
             job == jobs[j]
  <2>1. /\ row \in Row /\ d \in Detectors
        /\ history' = RecordScore(IdForRows(job), d, row) \/ history' = history
    BY <1>4, JobRecords
  <2>2. job \in Job /\ JobWF(job) /\ job.at \in DOMAIN job.doms
    BY <1>4 DEF TypeInv, TypeOK, CoroutinesWF, RecordJobResult, JobWF, Job
  <2>3. PICK k \in DOMAIN job.ids : job.doms[k] = job.doms[job.at] /\ IdForRows(job) = job.ids[k]
    BY <2>2, IdOfIs DEF IdForRows
  <2>4. job.ids[k] \in VendorIds /\ row.domain = job.doms[k]
    BY <2>2, <2>3 DEF JobRow, Job
  <2>5. row.domain \in held[job.ids[k]]
    BY <1>1, <2>3, <2>4 DEF HeldJobs
  <2> HIDE DEF d, row
  <2>6. CASE history' = RecordScore(IdForRows(job), d, row)
    BY <1>1, <2>1, <2>3, <2>4, <2>5, <2>6, HeldRowRecorded
  <2>7. QED
    BY <1>2, <2>1, <2>6
<1>5. ASSUME NEW v \in VendorIds, DeleteVendorDetail(v) PROVE RowsAreOfVendor'
  <2>1. history' = [history EXCEPT ![v] = [d \in Detectors |-> <<>>]]
    BY <1>5 DEF DeleteVendorDetail, DeleteRows
  <2>2. \A w \in VendorIds \ {v} : history'[w] = history[w]
    BY <1>1, <2>1 DEF StoreTypeOK
  <2>3. \A d \in Detectors : history'[v][d] = <<>>
    BY <1>1, <2>1 DEF StoreTypeOK
  <2>4. QED
    BY <1>1, <2>2, <2>3 DEF RowsAreOfVendor
<1>6. QED
  BY <1>2, <1>3, <1>4, <1>5, HistorySteps

\* A score row is about a domain its vendor has had, whatever changes of
\* domain, deletions and jobs with several vendors the scan overlapped
\* (record_score in _run_one_monitored_vendor and _run_detect_job).
THEOREM RowsFitTheirVendor == Spec => []RowsAreOfVendor
<1>1. Init => HeldInv
  BY StoreAssumption DEF Init, StoreInit, HeldInv, HeldRows, HeldRuns, HeldJobs, RowsAreOfVendor,
                         Exists, Busy, IdleRun, NoJob
<1>2. TypeInv /\ HeldInv /\ [Next]_vars => HeldInv'
  BY HeldGrows, HeldRunsStep, HeldJobsStep, HeldHistoryStep DEF HeldInv
<1>3. HeldInv => RowsAreOfVendor
  BY DEF HeldInv
<1>4. QED
  BY <1>1, <1>2, <1>3, InitType, NextType, PTL DEF Spec

-----------------------------------------------------------------------------
(* What a job has recorded.                                                *)

\* A vendor that was handed out is never a fresh one again, and once deleted
\* stays so: its id does not recur (upsert_vendor, delete_vendor).
LEMMA VendorsMove ==
    ASSUME TypeInv, [Next]_vars, NEW v \in VendorIds, vendors[v] # Unissued
    PROVE  vendors'[v] # Unissued /\ (vendors'[v] \in Domains => Exists(v))
<1>1. vendors \in [VendorIds -> Domains \cup {Unissued, Deleted}] /\ Unissued \notin Domains
  BY StoreAssumption DEF TypeInv, TypeOK, StoreTypeOK
<1>2. CASE vendors' = vendors
  BY <1>2 DEF Exists
<1>3. ASSUME NEW j \in Jobs, ResolveInput(j)
      PROVE  vendors'[v] # Unissued /\ (vendors'[v] \in Domains => Exists(v))
  <2>1. PICK d \in Domains : \E w \in UpsertIds(d) : vendors' = [vendors EXCEPT ![w] = d]
    BY <1>3, ResolveUpserts
  <2>2. PICK w \in UpsertIds(d) : vendors' = [vendors EXCEPT ![w] = d]
    BY <2>1
  <2>3. w \in VendorIds /\ (vendors[w] = d \/ vendors[w] = Unissued)
    BY DEF UpsertIds
  <2>4. QED
    BY <1>1, <2>2, <2>3 DEF Exists
<1>4. ASSUME NEW w \in VendorIds, UpdateVendorDetail(w)
      PROVE  vendors'[v] # Unissued /\ (vendors'[v] \in Domains => Exists(v))
  <2>1. PICK d \in Domains : vendors' = [vendors EXCEPT ![w] = d]
    BY <1>4 DEF UpdateVendorDetail
  <2>2. Exists(w)
    BY <1>4 DEF UpdateVendorDetail
  <2>3. QED
    BY <1>1, <2>1, <2>2 DEF Exists
<1>5. ASSUME NEW w \in VendorIds, DeleteVendorDetail(w)
      PROVE  vendors'[v] # Unissued /\ (vendors'[v] \in Domains => Exists(v))
  <2>1. vendors' = [vendors EXCEPT ![w] = Deleted]
    BY <1>5 DEF DeleteVendorDetail, DeleteRows
  <2>2. Deleted # Unissued /\ Deleted \notin Domains
    BY StoreAssumption DEF Deleted, Unissued
  <2>3. QED
    BY <1>1, <2>1, <2>2 DEF Exists
<1>6. QED
  BY <1>2, <1>3, <1>4, <1>5, DomainSteps

\* The rows of a vendor hold result r of job j, unless r is an error.
Filed(rows, j, r) ==
    r.failed \/ \E n \in DOMAIN rows[r.detector] : /\ rows[r.detector][n].src = j
                                                   /\ rows[r.detector][n].score = r.score

\* The rows of a vendor go only with the vendor (record_score, delete_vendor).
LEMMA FiledStays ==
    ASSUME TypeInv, [Next]_vars, NEW v \in VendorIds, vendors'[v] \in Domains,
           NEW j, NEW r \in Result, Filed(history[v], j, r)
    PROVE  Filed(history'[v], j, r)
<1>1. StoreTypeOK /\ r.detector \in Detectors
  BY DEF TypeInv, TypeOK, Result
<1>2. CASE history' = history
  BY <1>2
<1>3. ASSUME NEW w \in VendorIds, NEW d \in Detectors, NEW row \in Row,
             history' = RecordScore(w, d, row)
      PROVE  Filed(history'[v], j, r)
  <2> DEFINE h == history[v][r.detector]
             g == history'[v][r.detector]
  <2>1. /\ Len(g) \in Nat /\ Len(g) >= Len(h)
        /\ \A i \in 1..Len(h) : g[i] = h[i]
    BY <1>1, <1>3, RowsAreKept
  <2>2. h \in Seq(Row) /\ g \in Seq(Row)
    <3>1. h \in Seq(Row) /\ (g = Append(h, row) \/ g = h)
      <4>1. h \in Seq(Row) /\ g = IF v = w /\ r.detector = d THEN Append(h, row) ELSE h
        <5> DEFINE e == r.detector
        <5>1. e \in Detectors
          BY <1>1
        <5> HIDE DEF e
        <5>2. /\ history[v][e] \in Seq(Row)
              /\ history'[v][e] = IF v = w /\ e = d THEN Append(history[v][e], row) ELSE history[v][e]
          BY <1>1, <1>3, <5>1, RowAdded
        <5>3. QED
          BY <5>2 DEF e
      <4> HIDE DEF g, h
      <4>2. QED
        BY <4>1
    <3> HIDE DEF g, h
    <3>2. QED
      BY <3>1
  <2>3. CASE r.failed
    BY <2>3 DEF Filed
  <2>4. CASE ~r.failed
    <3>1. PICK n \in DOMAIN h : h[n].src = j /\ h[n].score = r.score
      BY <2>4 DEF Filed
    <3>2. n \in DOMAIN g /\ g[n] = h[n]
      <4> HIDE DEF g, h
      <4>1. QED
        BY <2>1, <2>2
    <3>3. QED
      BY <3>1, <3>2 DEF Filed
  <2>5. QED
    BY <2>3, <2>4
<1>4. ASSUME NEW w \in VendorIds, RecordResult(w) PROVE Filed(history'[v], j, r)
  <2> DEFINE d == Head(runs[w].results).detector
             row == RunRow(w)
  <2>1. row \in Row /\ d \in Detectors /\ history' = RecordScore(w, d, row)
    BY <1>4, RunRecords
  <2> HIDE DEF d, row
  <2>2. QED
    BY <1>3, <2>1
<1>5. ASSUME NEW k \in Jobs, RecordJobResult(k) PROVE Filed(history'[v], j, r)
  <2> DEFINE d == Head(jobs[k].todo).detector
             row == JobRow(k)
             x == IdForRows(jobs[k])
  <2>1. row \in Row /\ d \in Detectors /\ (history' = RecordScore(x, d, row) \/ history' = history)
    BY <1>5, JobRecords
  <2> HIDE DEF d, row, x
  <2>2. x \notin VendorIds => RecordScore(x, d, row) = history
    BY <1>1 DEF RecordScore, StoreTypeOK
  <2>3. QED
    BY <1>2, <1>3, <2>1, <2>2
<1>6. ASSUME NEW w \in VendorIds, DeleteVendorDetail(w) PROVE Filed(history'[v], j, r)
  <2>1. /\ vendors' = [vendors EXCEPT ![w] = Deleted]
        /\ history' = [history EXCEPT ![w] = [d \in Detectors |-> <<>>]]
    BY <1>6 DEF DeleteVendorDetail, DeleteRows
  <2>2. w # v
    BY <1>1, <2>1, StoreAssumption DEF StoreTypeOK
  <2>3. history'[v] = history[v]
    BY <1>1, <2>1, <2>2 DEF StoreTypeOK
  <2>4. QED
    BY <2>3
<1>7. QED
  BY <1>2, <1>4, <1>5, <1>6, HistorySteps

\* The vendors of a job were handed out.
IssuedInv == \A j \in Jobs : \A i \in DOMAIN jobs[j].ids : vendors[jobs[j].ids[i]] # Unissued

LEMMA IssuedStep == TypeInv /\ IssuedInv /\ [Next]_vars => IssuedInv'
<1> SUFFICES ASSUME TypeInv, IssuedInv, [Next]_vars, NEW j \in Jobs, NEW i \in DOMAIN jobs'[j].ids
             PROVE  vendors'[jobs'[j].ids[i]] # Unissued
  BY DEF IssuedInv
<1> DEFINE is == jobs[j].ids
<1>1. is \in Seq(VendorIds) /\ StoreTypeOK
  BY DEF TypeInv, TypeOK, Job
<1>2. ASSUME NEW k \in DOMAIN is PROVE vendors'[is[k]] # Unissued
  <2>1. is[k] \in VendorIds /\ vendors[is[k]] # Unissued
    BY <1>1 DEF IssuedInv
  <2>2. QED
    BY <2>1, VendorsMove
<1>3. CASE jobs'[j].ids = is
  BY <1>2, <1>3
<1>4. CASE jobs'[j].ids = <<>>
  BY <1>4
<1>5. CASE ResolveInput(j)
  <2>1. PICK d \in Domains : \E v \in UpsertIds(d) : ResolveTurn(j, d, v)
    BY <1>5, ResolveInputIs
  <2>2. PICK v \in VendorIds : ResolveTurn(j, d, v)
    BY <2>1 DEF UpsertIds
  <2>3. jobs'[j].ids = Append(is, v) /\ vendors'[v] = d
    BY <1>1, <2>2 DEF ResolveTurn, StoreTypeOK
  <2>4. vendors'[v] # Unissued
    BY <2>3, StoreAssumption
  <2>5. (i \in DOMAIN is /\ Append(is, v)[i] = is[i]) \/ Append(is, v)[i] = v
    <3>1. i \in DOMAIN Append(is, v)
      BY <2>3
    <3> HIDE DEF is
    <3>2. QED
      BY <1>1, <3>1
  <2>6. QED
    BY <1>2, <2>3, <2>4, <2>5
<1>6. QED
  BY <1>3, <1>4, <1>5, JobMoves

\* Of vendor i of a job, with the inventory and the history at a moment:
\* every result is filed, or still to come while the cursor is on the vendor.
Handled(job, j, i, inventory, rows) ==
    LET v == IdOf(job, job.doms[i]) IN
    inventory[v] \in Domains =>
        \A k \in DOMAIN job.results[i] :
            \/ Filed(rows[v], j, job.results[i][k])
            \/ i = job.at /\ \E n \in DOMAIN job.todo : job.todo[n] = job.results[i][k]

\* A job has handled the vendors up to its cursor, and at its end all of them.
FiledInv ==
    /\ IssuedInv
    /\ \A j \in Jobs :
         /\ jobs[j].phase \in {"recording", "complete"} =>
              \A i \in 1..jobs[j].at : Handled(jobs[j], j, i, vendors, history)
         /\ jobs[j].phase = "complete" => jobs[j].at = Len(jobs[j].doms) /\ jobs[j].todo = <<>>

\* What was handled stays handled, whatever anyone does.
LEMMA HandledStays ==
    ASSUME TypeInv, IssuedInv, [Next]_vars, NEW j \in Jobs,
           jobs[j].phase \in {"recording", "complete"}, NEW i \in 1..jobs[j].at,
           Handled(jobs[j], j, i, vendors, history)
    PROVE  Handled(jobs[j], j, i, vendors', history')
<1> DEFINE job == jobs[j]
           v == IdOf(job, job.doms[i])
<1>1. job \in Job /\ JobWF(job)
  BY DEF TypeInv, TypeOK, CoroutinesWF
<1>2. /\ job.ids \in Seq(VendorIds) /\ job.doms \in Seq(Domains) /\ job.at \in 1..Len(job.doms)
      /\ job.results \in Seq(Seq(Result)) /\ Len(job.results) = Len(job.doms)
  BY <1>1 DEF Job, JobWF
<1>3. i \in DOMAIN job.doms /\ i \in DOMAIN job.results
  BY <1>2
<1>4. v \in VendorIds /\ vendors[v] # Unissued
  <2>1. PICK k \in DOMAIN job.ids : v = job.ids[k]
    BY <1>1, <1>3, IdOfIs
  <2>2. QED
    BY <1>2, <2>1 DEF IssuedInv
<1>5. job.results[i] \in Seq(Result)
  BY <1>2, <1>3
<1> HIDE DEF v
<1>6. SUFFICES ASSUME vendors'[v] \in Domains, NEW k \in DOMAIN job.results[i],
                      Filed(history[v], j, job.results[i][k])
               PROVE  Filed(history'[v], j, job.results[i][k])
  <2>1. vendors'[v] \in Domains => vendors[v] \in Domains
    BY <1>4, VendorsMove DEF Exists
  <2>2. QED
    BY <2>1 DEF Handled, v
<1>7. job.results[i][k] \in Result
  BY <1>5
<1>8. QED
  BY <1>4, <1>6, <1>7, FiledStays

\* RecordJobResult: the head of the list is filed, the others are still to come.
LEMMA HandledByRecording ==
    ASSUME TypeInv, IssuedInv, [Next]_vars, NEW j \in Jobs, RecordJobResult(j),
           NEW i \in 1..jobs[j].at, Handled(jobs[j], j, i, vendors, history)
    PROVE  Handled(jobs'[j], j, i, vendors', history')
<1> DEFINE job == jobs[j]
           new == [job EXCEPT !.todo = Tail(job.todo)]
           v == IdOf(job, job.doms[i])
           r == Head(job.todo)
<1>1. job \in Job /\ JobWF(job) /\ jobs \in [Jobs -> Job] /\ StoreTypeOK
  BY DEF TypeInv, TypeOK, CoroutinesWF
<1>2. /\ job.doms \in Seq(Domains) /\ job.ids \in Seq(VendorIds) /\ job.at \in 1..Len(job.doms)
      /\ job.results \in Seq(Seq(Result)) /\ Len(job.results) = Len(job.doms)
      /\ job.todo \in Seq(Result) /\ job.todo # <<>> /\ job.phase = "recording"
  BY <1>1 DEF Job, JobWF, RecordJobResult
<1>3. jobs'[j] = new
  BY <1>1 DEF RecordJobResult
<1>4. /\ new.doms = job.doms /\ new.ids = job.ids /\ new.at = job.at
      /\ new.results = job.results /\ new.todo = Tail(job.todo)
  BY <1>1 DEF Job
<1>5. IdOf(new, new.doms[i]) = v
  BY <1>4 DEF IdOf
<1>6. Handled(job, j, i, vendors', history')
  BY <1>2, HandledStays
<1> HIDE DEF new
<1>7. SUFFICES ASSUME vendors'[v] \in Domains, NEW k \in DOMAIN job.results[i]
               PROVE  \/ Filed(history'[v], j, job.results[i][k])
                      \/ i = job.at /\ \E n \in DOMAIN Tail(job.todo) :
                                          Tail(job.todo)[n] = job.results[i][k]
  BY <1>3, <1>4, <1>5 DEF Handled
<1>8. CASE Filed(history'[v], j, job.results[i][k])
  BY <1>8
<1>9. ASSUME i = job.at, NEW n \in DOMAIN job.todo, job.todo[n] = job.results[i][k]
      PROVE  \/ Filed(history'[v], j, job.results[i][k])
             \/ i = job.at /\ \E m \in DOMAIN Tail(job.todo) :
                                 Tail(job.todo)[m] = job.results[i][k]
  <2>1. CASE n = 1
    <3>1. job.results[i][k] = r /\ v = IdForRows(job)
      BY <1>2, <1>9, <2>1 DEF IdForRows
    <3>2. /\ JobRow(j) \in Row /\ r.detector \in Detectors
          /\ history' = IF Recorded(r) THEN RecordScore(IdForRows(job), r.detector, JobRow(j))
                                       ELSE history
      BY JobRecords
    <3>3. v \in VendorIds
      <4>1. i \in DOMAIN job.doms
        BY SMTT(30), <1>2
      <4>2. PICK m \in DOMAIN job.ids : v = job.ids[m]
        BY <1>1, <4>1, IdOfIs
      <4>3. QED
        BY <1>2, <4>2
    <3>4. CASE r.failed
      BY <3>1, <3>4 DEF Filed
    <3>5. CASE ~r.failed
      <4> DEFINE h == history[v][r.detector]
                 g == history'[v][r.detector]
      <4>1. h \in Seq(Row) /\ g = Append(h, JobRow(j))
        <5> DEFINE d == r.detector
                   row == JobRow(j)
        <5>1. d \in Detectors /\ row \in Row /\ history' = RecordScore(v, d, row)
          BY <3>1, <3>2, <3>5 DEF Recorded
        <5> HIDE DEF d, row, v
        <5>2. history[v][d] \in Seq(Row) /\ history'[v][d] = Append(history[v][d], row)
          BY <1>1, <3>3, <5>1, RowAdded
        <5>3. QED
          BY <5>2 DEF d, row
      <4>2. JobRow(j).src = j /\ JobRow(j).score = r.score
        BY DEF JobRow
      <4> HIDE DEF h, v
      <4>3. Len(h) + 1 \in DOMAIN Append(h, JobRow(j)) /\ Append(h, JobRow(j))[Len(h) + 1] = JobRow(j)
        BY <3>2, <4>1
      <4>4. Filed(history'[v], j, r)
        BY <4>1, <4>2, <4>3 DEF Filed
      <4>5. QED
        BY SMTT(30), <3>1, <4>4
    <3>6. QED
      BY <3>4, <3>5
  <2>2. CASE n # 1
    <3> DEFINE t == job.todo
    <3>1. n - 1 \in DOMAIN Tail(t) /\ Tail(t)[n - 1] = t[n]
      <4>1. t \in Seq(Result) /\ t # <<>> /\ n \in DOMAIN t /\ n # 1
        BY <1>2, <1>9, <2>2
      <4> HIDE DEF t
      <4>2. n \in 1..Len(t) /\ Len(t) \in Nat /\ Len(Tail(t)) = Len(t) - 1
        BY <4>1
      <4>3. n - 1 \in 1..(Len(t) - 1) /\ (n - 1) + 1 = n
        BY <4>1, <4>2
      <4>4. n - 1 \in DOMAIN Tail(t)
        BY <4>1, <4>2, <4>3
      <4>5. QED
        BY <4>1, <4>3, <4>4
    <3>2. QED
      BY <1>9, <3>1
  <2>3. QED
    BY <2>1, <2>2
<1>10. QED
  BY <1>6, <1>7, <1>8, <1>9 DEF Handled

\* NextJobVendor: with nothing left to come, the vendor under the cursor is
\* handled for good, and the cursor moves on, or the job is complete.
LEMMA HandledByMovingOn ==
    ASSUME TypeInv, IssuedInv, [Next]_vars, NEW j \in Jobs, NextJobVendor(j),
           \A i \in 1..jobs[j].at : Handled(jobs[j], j, i, vendors, history)
    PROVE  /\ \A i \in 1..jobs'[j].at : Handled(jobs'[j], j, i, vendors', history')
           /\ jobs'[j].phase = "complete" =>
                jobs'[j].at = Len(jobs'[j].doms) /\ jobs'[j].todo = <<>>
<1> DEFINE job == jobs[j]
<1>1. job \in Job /\ JobWF(job) /\ jobs \in [Jobs -> Job]
  BY DEF TypeInv, TypeOK, CoroutinesWF
<1>2. /\ job.at \in 1..Len(job.doms) /\ Len(job.doms) \in Nat /\ job.at \in Nat
      /\ job.todo = <<>> /\ job.phase = "recording"
  BY <1>1 DEF Job, JobWF, NextJobVendor
<1>3. ASSUME NEW i \in 1..job.at, vendors'[IdOf(job, job.doms[i])] \in Domains,
             NEW k \in DOMAIN job.results[i]
      PROVE  Filed(history'[IdOf(job, job.doms[i])], j, job.results[i][k])
  <2>1. Handled(job, j, i, vendors', history')
    BY <1>2, <1>3, HandledStays
  <2>2. ~\E n \in DOMAIN job.todo : job.todo[n] = job.results[i][k]
    BY <1>2
  <2>3. QED
    BY <1>3, <2>1, <2>2 DEF Handled
<1>4. CASE job.at < Len(job.doms)
  <2> DEFINE new == [job EXCEPT !.at = job.at + 1, !.todo = job.results[job.at + 1]]
  <2>1. jobs'[j] = new
    BY <1>1, <1>4 DEF NextJobVendor
  <2>2. /\ new.doms = job.doms /\ new.ids = job.ids /\ new.results = job.results
        /\ new.at = job.at + 1 /\ new.todo = job.results[job.at + 1] /\ new.phase = "recording"
    BY <1>1, <1>2 DEF Job
  <2> HIDE DEF new
  <2>3. ASSUME NEW i \in 1..job.at + 1 PROVE Handled(new, j, i, vendors', history')
    <3>1. IdOf(new, new.doms[i]) = IdOf(job, job.doms[i])
      BY <2>2 DEF IdOf
    <3>2. CASE i \in 1..job.at
      BY <1>3, <2>2, <3>1, <3>2 DEF Handled
    <3>3. CASE i = job.at + 1
      BY <2>2, <3>3 DEF Handled
    <3>4. QED
      BY <1>2, <2>3, <3>2, <3>3
  <2>4. QED
    BY <2>1, <2>2, <2>3
<1>5. CASE ~(job.at < Len(job.doms))
  <2> DEFINE new == [job EXCEPT !.phase = "complete"]
  <2>1. jobs'[j] = new
    BY <1>1, <1>5 DEF NextJobVendor
  <2>2. /\ new.doms = job.doms /\ new.ids = job.ids /\ new.results = job.results
        /\ new.at = job.at /\ new.todo = job.todo
    BY <1>1 DEF Job
  <2> HIDE DEF new
  <2>3. ASSUME NEW i \in 1..job.at PROVE Handled(new, j, i, vendors', history')
    <3>1. IdOf(new, new.doms[i]) = IdOf(job, job.doms[i])
      BY <2>2 DEF IdOf
    <3>2. QED
      BY <1>3, <2>2, <3>1 DEF Handled
  <2>4. job.at = Len(job.doms)
    BY <1>2, <1>5
  <2>5. QED
    BY <1>2, <2>1, <2>2, <2>3, <2>4
<1>6. QED
  BY <1>4, <1>5

\* JobScanned: everything is still to come.
LEMMA HandledByScanning ==
    ASSUME TypeInv, NEW j \in Jobs, JobScanned(j)
    PROVE  /\ \A i \in 1..jobs'[j].at : Handled(jobs'[j], j, i, vendors', history')
           /\ jobs'[j].phase = "recording"
<1> DEFINE job == jobs[j]
           asked == {job.doms[i] : i \in DOMAIN job.doms}
<1>1. job \in Job /\ JobWF(job) /\ jobs \in [Jobs -> Job]
  BY DEF TypeInv, TypeOK, CoroutinesWF
<1>2. job.doms \in Seq(Domains) /\ Len(job.doms) >= 1 /\ job.at = 1
  BY SMTT(30), <1>1 DEF Job, JobWF, JobScanned
<1>3. PICK byDomain \in [asked -> ResultLists(job.types)] :
        jobs' = [jobs EXCEPT ![j] =
                   [job EXCEPT !.phase = "recording", !.todo = byDomain[job.doms[1]],
                               !.results = [i \in DOMAIN job.doms |-> byDomain[job.doms[i]]]]]
  BY DEF JobScanned
<1> DEFINE lists == [i \in DOMAIN job.doms |-> byDomain[job.doms[i]]]
           new == [job EXCEPT !.phase = "recording", !.todo = byDomain[job.doms[1]],
                              !.results = lists]
<1>4. jobs'[j] = new
  BY <1>1, <1>3
<1>5. 1 \in DOMAIN job.doms /\ lists[1] = byDomain[job.doms[1]]
  BY <1>2
<1>6. /\ new.phase = "recording" /\ new.at = 1 /\ new.todo = byDomain[job.doms[1]]
      /\ new.results = lists
  BY <1>1, <1>2 DEF Job
<1> HIDE DEF new, lists
<1>7. Handled(new, j, 1, vendors', history')
  BY <1>5, <1>6 DEF Handled
<1>8. \A i \in 1..1 : i = 1
  OBVIOUS
<1>9. QED
  BY <1>4, <1>6, <1>7, <1>8

LEMMA FiledStep == TypeInv /\ FiledInv /\ [Next]_vars => FiledInv'
<1> SUFFICES ASSUME TypeInv, FiledInv, [Next]_vars, NEW j \in Jobs
             PROVE  /\ jobs'[j].phase \in {"recording", "complete"} =>
                         \A i \in 1..jobs'[j].at : Handled(jobs'[j], j, i, vendors', history')
                    /\ jobs'[j].phase = "complete" =>
                         jobs'[j].at = Len(jobs'[j].doms) /\ jobs'[j].todo = <<>>
  BY IssuedStep DEF FiledInv
<1>1. /\ IssuedInv
      /\ jobs[j].phase \in {"recording", "complete"} =>
           \A i \in 1..jobs[j].at : Handled(jobs[j], j, i, vendors, history)
      /\ jobs[j].phase = "complete" => jobs[j].at = Len(jobs[j].doms) /\ jobs[j].todo = <<>>
  BY DEF FiledInv
<1>2. CASE jobs'[j] = jobs[j]
  BY <1>1, <1>2, HandledStays
<1>3. CASE jobs'[j].phase \notin {"recording", "complete"}
  BY <1>3
<1>4. CASE ResolveInput(j)
  <2>1. PICK d \in Domains : \E v \in UpsertIds(d) : ResolveTurn(j, d, v)
    BY <1>4, ResolveInputIs
  <2>2. QED
    BY <1>3, <2>1 DEF ResolveTurn
<1>5. CASE JobScanned(j)
  BY <1>5, HandledByScanning
<1>6. CASE RecordJobResult(j)
  <2>1. jobs[j].phase = "recording" /\ jobs \in [Jobs -> Job]
        /\ jobs' = [jobs EXCEPT ![j] = [jobs[j] EXCEPT !.todo = Tail(jobs[j].todo)]]
    BY <1>6 DEF RecordJobResult, TypeInv, TypeOK
  <2>2. jobs'[j].phase = "recording" /\ jobs'[j].at = jobs[j].at
    BY <2>1 DEF Job
  <2>3. QED
    BY <1>1, <1>6, <2>1, <2>2, HandledByRecording
<1>7. CASE NextJobVendor(j)
  <2>1. jobs[j].phase = "recording"
    BY <1>7 DEF NextJobVendor
  <2>2. QED
    BY <1>1, <1>7, <2>1, HandledByMovingOn
<1>8. QED
  BY <1>2, <1>3, <1>4, <1>5, <1>6, <1>7, JobSteps

LEMMA CompleteMeansRecorded == TypeInv /\ FiledInv => CompleteJobsRecorded
<1> SUFFICES ASSUME TypeInv, FiledInv, NEW j \in Jobs, jobs[j].phase = "complete",
                    NEW i \in DOMAIN jobs[j].doms, Exists(IdOf(jobs[j], jobs[j].doms[i])),
                    NEW k \in DOMAIN jobs[j].results[i], ~jobs[j].results[i][k].failed
             PROVE  LET v == IdOf(jobs[j], jobs[j].doms[i])
                        r == jobs[j].results[i][k]
                    IN  \E n \in DOMAIN history[v][r.detector] :
                            /\ history[v][r.detector][n].src = j
                            /\ history[v][r.detector][n].score = r.score
  BY Zenon DEF CompleteJobsRecorded
<1>1. i \in 1..jobs[j].at /\ jobs[j].todo = <<>>
  BY SMTT(30) DEF FiledInv, TypeInv, TypeOK, Job
<1>2. Handled(jobs[j], j, i, vendors, history)
  BY <1>1 DEF FiledInv
<1>3. ~\E n \in DOMAIN jobs[j].todo : jobs[j].todo[n] = jobs[j].results[i][k]
  BY <1>1
<1>4. Filed(history[IdOf(jobs[j], jobs[j].doms[i])], j, jobs[j].results[i][k])
  BY <1>2, <1>3 DEF Handled, Exists
<1>5. QED
  BY <1>4, Zenon DEF Filed

\* A complete job has recorded every result that is no error under its
\* vendor, as long as the inventory has that vendor (_run_detect_job).
THEOREM CompleteJobsAreRecorded == Spec => []CompleteJobsRecorded
<1>1. Init => FiledInv
  BY DEF Init, FiledInv, IssuedInv, NoJob
<1>2. Spec => [](TypeInv /\ FiledInv)
  BY <1>1, FiledStep, InitType, NextType, PTL DEF Spec
<1>3. QED
  BY <1>2, CompleteMeansRecorded, PTL

-----------------------------------------------------------------------------
(* The delivered flag.                                                     *)

\* The alert of a run is on its way, or answered and not yet marked.
Settling == {"posting", "posted", "refused"}

\* What a run knows of the alert it posts: its id was given out, its webhook
\* answered 2xx exactly if the run says so, its row is not marked yet, and no
\* other run posts it.  A run that posts none has no alert.
Post(v) ==
    IF runs[v].phase \in Settling
    THEN /\ runs[v].alert \in 1..alertSeq
         /\ runs[v].alert \in accepted <=> runs[v].phase = "posted"
         /\ \A a \in alerts : a.id = runs[v].alert => a.status = "logged"
         /\ \A w \in VendorIds : runs[w].alert = runs[v].alert => w = v
    ELSE runs[v].alert = 0

PostInv ==
    /\ \A a \in alerts : a.id \in 1..alertSeq
    /\ accepted \subseteq 1..alertSeq
    /\ \A v \in VendorIds : Post(v)
    /\ DeliveryIsTrue

\* The run goes on with the alert it has, or has none and loses none but by a
\* fault.
KeepsPost(v) == runs'[v].phase = runs[v].phase /\ runs'[v].alert = runs[v].alert

DropsPost(v) ==
    /\ runs'[v].phase \notin Settling /\ runs'[v].alert = 0
    /\ runs[v].phase \notin Settling \/ faults' = faults + 1

LEMMA PostFrame ==
    ASSUME TypeInv, PostInv, alerts' \subseteq alerts, UNCHANGED <<alertSeq, accepted>>,
           faults' = faults \/ faults' = faults + 1,
           \A v \in VendorIds : KeepsPost(v) \/ DropsPost(v)
    PROVE  PostInv'
<1>1. faults \in Nat /\ alertSeq \in Nat
  BY DEF TypeInv, TypeOK, StoreTypeOK
<1>2. ASSUME NEW v \in VendorIds PROVE Post(v)'
  <2>1. CASE DropsPost(v)
    BY <2>1 DEF DropsPost, Post
  <2>2. CASE KeepsPost(v) /\ runs[v].phase \notin Settling
    BY <2>2 DEF KeepsPost, Post, PostInv
  <2>3. CASE KeepsPost(v) /\ runs[v].phase \in Settling
    <3>1. /\ runs[v].alert \in 1..alertSeq
          /\ runs[v].alert \in accepted <=> runs[v].phase = "posted"
          /\ \A a \in alerts : a.id = runs[v].alert => a.status = "logged"
          /\ \A w \in VendorIds : runs[w].alert = runs[v].alert => w = v
      BY <2>3 DEF Post, PostInv
    <3>2. \A w \in VendorIds : runs'[w].alert = runs[v].alert => w = v
      BY <1>1, <3>1 DEF KeepsPost, DropsPost
    <3>3. QED
      BY <2>3, <3>1, <3>2 DEF Post, KeepsPost
  <2>4. QED
    BY <2>1, <2>2, <2>3
<1>3. DeliveryIsTrue'
  <2> SUFFICES ASSUME NEW a \in alerts
               PROVE  /\ a.status = "delivered" => a.id \in accepted
                      /\ a.status = "error" => a.id \notin accepted
                      /\ a.webhook /\ a.status = "logged" /\ faults' = 0 =>
                           \E v \in VendorIds : runs'[v].alert = a.id
    BY DEF DeliveryIsTrue
  <2>1. a.id \in 1..alertSeq
    BY DEF PostInv
  <2>2. ASSUME a.webhook, a.status = "logged", faults' = 0
        PROVE  \E v \in VendorIds : runs'[v].alert = a.id
    <3>1. faults = 0 /\ faults' = faults
      BY <1>1, <2>2
    <3>2. PICK v \in VendorIds : runs[v].alert = a.id
      BY <2>2, <3>1 DEF PostInv, DeliveryIsTrue
    <3>3. runs[v].phase \in Settling
      BY <1>1, <2>1, <3>2 DEF PostInv, Post
    <3>4. KeepsPost(v)
      BY <1>1, <3>1, <3>3 DEF DropsPost
    <3>5. QED
      BY <3>2, <3>4 DEF KeepsPost
  <2>3. QED
    BY <2>2 DEF PostInv, DeliveryIsTrue
<1>4. QED
  BY <1>2, <1>3 DEF PostInv

\* Only the steps that raise, post and mark an alert change one; any other
\* step leaves every run its alert, or none.
LEMMA PostSteps ==
    ASSUME TypeInv, PostInv, [Next]_vars
    PROVE  \/ \E v \in VendorIds : RaiseAlert(v) \/ WebhookAnswered(v) \/ MarkDelivery(v)
           \/ /\ alerts' \subseteq alerts /\ UNCHANGED <<alertSeq, accepted>>
              /\ \A v \in VendorIds : KeepsPost(v) \/ DropsPost(v)
<1>1. runs \in [VendorIds -> Run]
  BY DEF TypeInv, TypeOK
<1>2. IdleRun.phase = "idle" /\ IdleRun.alert = 0
  BY DEF IdleRun
<1>3. {"idle", "queued", "scanning", "recording", "alerting"} \cap Settling = {}
  BY DEF Settling
<1>4. \A v \in VendorIds : runs[v].phase \notin Settling => runs[v].alert = 0
  BY DEF PostInv, Post
<1>5. ASSUME NEW v \in VendorIds,
             StartRun(v) \/ ScanDone(v) \/ RecordResult(v) \/ FinishRun(v) \/ RunFails(v)
      PROVE  /\ alerts' \subseteq alerts /\ UNCHANGED <<alertSeq, accepted>>
             /\ \A w \in VendorIds : KeepsPost(w) \/ DropsPost(w)
  <2> DEFINE run == runs[v]
  <2>1. UNCHANGED <<alerts, alertSeq, accepted>>
    BY <1>5 DEF StartRun, ScanDone, RecordResult, FinishRun, RunFails, store
  <2>2. \A w \in VendorIds \ {v} : runs'[w] = runs[w]
    BY <1>1, <1>5 DEF StartRun, ScanDone, RecordResult, FinishRun, RunFails
  <2>3. DropsPost(v)
    <3>1. CASE StartRun(v)
      <4> DEFINE new == [run EXCEPT !.phase = "scanning", !.domain = vendors[v]]
      <4>1. runs'[v] = new \/ runs'[v] = IdleRun
        BY <1>1, <3>1 DEF StartRun
      <4>2. new.phase = "scanning" /\ new.alert = run.alert
        BY <1>1 DEF Run
      <4>3. run.phase = "queued"
        BY <3>1 DEF StartRun
      <4> HIDE DEF new
      <4>4. QED
        BY <1>2, <1>3, <1>4, <4>1, <4>2, <4>3 DEF DropsPost
    <3>2. CASE ScanDone(v)
      <4>1. PICK rs \in ResultLists(run.cfg.types) \cup {<<>>} :
              runs' = [runs EXCEPT ![v] = [@ EXCEPT !.phase = "recording", !.results = rs]]
        BY <3>2 DEF ScanDone
      <4> DEFINE new == [run EXCEPT !.phase = "recording", !.results = rs]
      <4>2. runs'[v] = new
        BY <1>1, <4>1
      <4>3. new.phase = "recording" /\ new.alert = run.alert
        BY <1>1 DEF Run
      <4>4. run.phase = "scanning"
        BY <3>2 DEF ScanDone
      <4> HIDE DEF new
      <4>5. QED
        BY <1>3, <1>4, <4>2, <4>3, <4>4 DEF DropsPost
    <3>3. CASE RecordResult(v)
      <4>1. run.phase = "recording" /\ run.alert = 0
        BY <1>3, <1>4, <3>3 DEF RecordResult
      <4>2. \/ \E x : runs'[v] = [run EXCEPT !.phase = "alerting", !.prev = x]
            \/ runs'[v] = NextResult(run)
        BY <1>1, <3>3 DEF RecordResult
      <4>3. CASE runs'[v] = NextResult(run)
        BY <1>1, <1>3, <4>1, <4>3, NextResultIs DEF DropsPost
      <4>4. CASE \E x : runs'[v] = [run EXCEPT !.phase = "alerting", !.prev = x]
        <5>1. PICK x : runs'[v] = [run EXCEPT !.phase = "alerting", !.prev = x]
          BY <4>4
        <5>2. runs'[v].phase = "alerting" /\ runs'[v].alert = run.alert
          BY <1>1, <5>1 DEF Run
        <5>3. QED
          BY <1>3, <4>1, <5>2 DEF DropsPost
      <4>5. QED
        BY <4>2, <4>3, <4>4
    <3>4. CASE FinishRun(v)
      BY <1>1, <1>2, <1>3, <3>4 DEF FinishRun, DropsPost
    <3>5. CASE RunFails(v)
      BY <1>1, <1>2, <1>3, <3>5 DEF RunFails, DropsPost
    <3>6. QED
      BY <1>5, <3>1, <3>2, <3>3, <3>4, <3>5
  <2>4. QED
    BY <2>1, <2>2, <2>3 DEF KeepsPost
<1>6. CASE SchedulerTick
  <2>1. UNCHANGED <<alerts, alertSeq, accepted>> /\ \A v \in VendorIds : runs[v].phase = "idle"
    BY <1>6 DEF SchedulerTick, store
  <2>2. \A v \in VendorIds :
          runs'[v] = IdleRun \/ runs'[v] = [IdleRun EXCEPT !.phase = "queued", !.cfg = configs[v]]
    BY <1>6 DEF SchedulerTick
  <2>3. \A c : LET r == [IdleRun EXCEPT !.phase = "queued", !.cfg = c]
               IN r.phase = "queued" /\ r.alert = 0
    BY DEF IdleRun
  <2>4. ASSUME NEW v \in VendorIds PROVE DropsPost(v)
    <3> DEFINE new == [IdleRun EXCEPT !.phase = "queued", !.cfg = configs[v]]
    <3>1. new.phase = "queued" /\ new.alert = 0
      BY <2>3
    <3>2. runs'[v] = IdleRun \/ runs'[v] = new
      BY <2>2
    <3> HIDE DEF new
    <3>3. QED
      BY <1>2, <1>3, <2>1, <3>1, <3>2 DEF DropsPost
  <2>5. QED
    BY <2>1, <2>4
<1>7. CASE Restart
  <2>1. UNCHANGED <<alerts, alertSeq, accepted>> /\ faults' = faults + 1
        /\ \A v \in VendorIds : runs'[v] = IdleRun
    BY <1>7 DEF Restart, store
  <2>2. \A v \in VendorIds : DropsPost(v)
    BY <1>2, <1>3, <2>1 DEF DropsPost
  <2>3. QED
    BY <2>1, <2>2
<1>8. ASSUME alerts' \subseteq alerts, UNCHANGED <<alertSeq, accepted, runs>>
      PROVE  /\ alerts' \subseteq alerts /\ UNCHANGED <<alertSeq, accepted>>
             /\ \A v \in VendorIds : KeepsPost(v) \/ DropsPost(v)
  BY <1>8 DEF KeepsPost
<1>9. CASE \E j \in Jobs : StartDetectJob(j) \/ JobStep(j) \/ JobStoreFails(j)
  <2>1. UNCHANGED <<alerts, alertSeq, accepted, runs>>
    BY <1>9 DEF StartDetectJob, NewJob, JobStep, ResolveInput, JobRaises, JobScanned,
                RecordJobResult, NextJobVendor, JobStoreFails, store
  <2>2. QED
    BY SMTT(30), <1>8, <2>1
<1>10. CASE \E j \in Jobs, v \in VendorIds : RescanVendor(j, v)
  BY <1>8, <1>10 DEF RescanVendor, NewJob, store
<1>11. CASE \E v \in VendorIds : \/ SetContinuousMonitoring(v) \/ StopContinuousMonitoring(v)
                                 \/ UpdateVendorDetail(v) \/ DeleteVendorDetail(v)
  <2>1. alerts' \subseteq alerts /\ UNCHANGED <<alertSeq, accepted, runs>>
    BY <1>11 DEF SetContinuousMonitoring, StopContinuousMonitoring, UpdateVendorDetail,
                 DeleteVendorDetail, DeleteRows, Request
  <2>2. QED
    BY <1>8, <2>1
<1>12. CASE AdvanceClock \/ UNCHANGED vars
  BY <1>8, <1>12 DEF AdvanceClock, vars, store
<1>13. QED
  BY <1>5, <1>6, <1>7, <1>9, <1>10, <1>11, <1>12 DEF Next, RunStep

\* RaiseAlert: a new id, which nobody else has and no webhook has answered.
LEMMA PostOfRaiseAlert ==
    ASSUME TypeInv, PostInv, NEW v \in VendorIds, RaiseAlert(v)
    PROVE  PostInv'
<1> DEFINE run == runs[v]
           r == Head(run.results)
           id == alertSeq + 1
           new == [id |-> alertSeq + 1, vendor |-> v, detector |-> r.detector,
                   prev |-> run.prev, new |-> r.score, status |-> "logged",
                   row |-> Len(history[v][r.detector]), floor |-> run.cfg.threshold,
                   webhook |-> run.cfg.webhook]
<1>1. runs \in [VendorIds -> Run] /\ alertSeq \in Nat /\ id \in Nat /\ run.cfg.webhook \in BOOLEAN
  BY DEF TypeInv, TypeOK, StoreTypeOK, Run, Config
<1>2. /\ alerts' = alerts \cup {new} /\ alertSeq' = id /\ accepted' = accepted /\ faults' = faults
      /\ \A w \in VendorIds \ {v} : runs'[w] = runs[w]
  BY <1>1 DEF RaiseAlert, RecordAlert
<1>3. new.id = id /\ new.status = "logged" /\ new.webhook = run.cfg.webhook
  OBVIOUS
<1>4. IF run.cfg.webhook THEN runs'[v].phase = "posting" /\ runs'[v].alert = id
                         ELSE runs'[v].phase = "recording" /\ runs'[v].alert = 0
  <2>1. CASE run.cfg.webhook
    <3>1. runs'[v] = [run EXCEPT !.phase = "posting", !.alert = id]
      BY <1>1, <2>1 DEF RaiseAlert
    <3>2. QED
      BY <1>1, <2>1, <3>1 DEF Run
  <2>2. CASE ~run.cfg.webhook
    <3>1. runs'[v] = NextResult(run)
      BY <1>1, <2>2 DEF RaiseAlert
    <3>2. QED
      BY <1>1, <2>2, <3>1, NextResultIs
  <2>3. QED
    BY <2>1, <2>2
<1> HIDE DEF new, id
<1>5. \A n \in 1..alertSeq : n \in 1..id /\ n # id /\ n # 0
  BY <1>1 DEF id
<1>6. id \in 1..id /\ id # 0
  BY <1>1 DEF id
<1>7. /\ \A a \in alerts : a.id \in 1..alertSeq
      /\ accepted \subseteq 1..alertSeq /\ id \notin accepted
      /\ \A w \in VendorIds : runs[w].alert \in 1..alertSeq \/ runs[w].alert = 0
      /\ \A w \in VendorIds : Post(w)
  BY <1>5 DEF PostInv, Post
<1>8. run.phase = "alerting" /\ run.alert = 0
  BY <1>7 DEF RaiseAlert, Post, Settling
<1>9. ASSUME NEW w \in VendorIds PROVE Post(w)'
  <2>1. CASE w = v
    <3>1. CASE run.cfg.webhook
      <4>1. /\ runs'[w].phase = "posting" /\ runs'[w].alert = id /\ id \in 1..alertSeq'
            /\ id \notin accepted'
        BY <1>2, <1>4, <1>6, <1>7, <2>1, <3>1
      <4>2. \A a \in alerts' : a.id = id => a.status = "logged"
        BY <1>2, <1>3, <1>5, <1>7
      <4>3. \A u \in VendorIds : runs'[u].alert = id => u = w
        BY <1>2, <1>5, <1>6, <1>7, <2>1
      <4>4. QED
        BY <4>1, <4>2, <4>3 DEF Post, Settling
    <3>2. CASE ~run.cfg.webhook
      BY <1>4, <2>1, <3>2 DEF Post, Settling
    <3>3. QED
      BY <3>1, <3>2
  <2>2. CASE w # v /\ runs[w].phase \notin Settling
    BY <1>2, <1>7, <2>2 DEF Post
  <2>3. CASE w # v /\ runs[w].phase \in Settling
    <3>1. /\ runs[w].alert \in 1..alertSeq
          /\ runs[w].alert \in accepted <=> runs[w].phase = "posted"
          /\ \A a \in alerts : a.id = runs[w].alert => a.status = "logged"
          /\ \A u \in VendorIds : runs[u].alert = runs[w].alert => u = w
      BY <1>7, <2>3 DEF Post
    <3>2. runs'[w] = runs[w] /\ runs[w].alert \in 1..alertSeq'
      BY <1>2, <1>5, <2>3, <3>1
    <3>3. \A a \in alerts' : a.id = runs[w].alert => a.status = "logged"
      BY <1>2, <1>3, <3>1
    <3>4. \A u \in VendorIds : runs'[u].alert = runs[w].alert => u = w
      BY <1>2, <1>4, <1>5, <3>1
    <3>5. QED
      BY <1>2, <2>3, <3>1, <3>2, <3>3, <3>4 DEF Post
  <2>4. QED
    BY <2>1, <2>2, <2>3
<1>10. ASSUME NEW a \in alerts'
       PROVE  /\ a.id \in 1..alertSeq'
              /\ a.status = "delivered" => a.id \in accepted'
              /\ a.status = "error" => a.id \notin accepted'
              /\ a.webhook /\ a.status = "logged" /\ faults' = 0 =>
                   \E w \in VendorIds : runs'[w].alert = a.id
  <2>1. CASE a = new
    BY <1>2, <1>3, <1>4, <1>6, <2>1
  <2>2. CASE a \in alerts
    <3>1. /\ a.status = "delivered" => a.id \in accepted
          /\ a.status = "error" => a.id \notin accepted
          /\ a.webhook /\ a.status = "logged" /\ faults = 0 =>
               \E w \in VendorIds : runs[w].alert = a.id
      BY <2>2 DEF PostInv, DeliveryIsTrue
    <3>2. a.id \in 1..alertSeq' /\ a.id # 0
      BY <1>2, <1>5, <1>7, <2>2
    <3>3. \A w \in VendorIds : runs[w].alert = a.id => runs'[w].alert = a.id
      BY <1>2, <1>8, <3>2
    <3>4. QED
      BY <1>2, <3>1, <3>2, <3>3
  <2>3. QED
    BY <1>2, <2>1, <2>2
<1>11. /\ \A a \in alerts' : a.id \in 1..alertSeq'
       /\ accepted' \subseteq 1..alertSeq'
  BY <1>2, <1>5, <1>7, <1>10
<1>12. DeliveryIsTrue'
  BY <1>10 DEF DeliveryIsTrue
<1>13. QED
  BY <1>9, <1>11, <1>12 DEF PostInv

\* WebhookAnswered: the run says what its webhook said.
LEMMA PostOfWebhookAnswered ==
    ASSUME TypeInv, PostInv, NEW v \in VendorIds, WebhookAnswered(v)
    PROVE  PostInv'
<1> DEFINE run == runs[v]
<1>1. runs \in [VendorIds -> Run] /\ run.phase = "posting"
  BY DEF TypeInv, TypeOK, WebhookAnswered
<1>2. PICK ok \in BOOLEAN :
        /\ runs' = [runs EXCEPT ![v].phase = IF ok THEN "posted" ELSE "refused"]
        /\ accepted' = IF ok THEN accepted \cup {run.alert} ELSE accepted
  BY DEF WebhookAnswered
<1>3. UNCHANGED <<alerts, alertSeq, faults>>
  BY DEF WebhookAnswered, store
<1>4. /\ runs'[v].phase = IF ok THEN "posted" ELSE "refused"
      /\ \A w \in VendorIds : runs'[w].alert = runs[w].alert
      /\ \A w \in VendorIds \ {v} : runs'[w] = runs[w]
  BY <1>1, <1>2 DEF Run
<1>5. /\ run.alert \in 1..alertSeq /\ run.alert \notin accepted
      /\ \A a \in alerts : a.id = run.alert => a.status = "logged"
      /\ \A w \in VendorIds : runs[w].alert = run.alert => w = v
  BY <1>1 DEF PostInv, Post, Settling
<1>6. ASSUME NEW w \in VendorIds PROVE Post(w)'
  <2>1. CASE w = v
    <3>1. runs'[v].phase \in Settling /\ (runs'[v].phase = "posted" <=> ok)
      BY <1>4 DEF Settling
    <3>2. run.alert \in accepted' <=> ok
      BY <1>2, <1>5
    <3>3. QED
      BY <1>3, <1>4, <1>5, <2>1, <3>1, <3>2 DEF Post
  <2>2. CASE w # v /\ runs[w].phase \in Settling
    <3>1. /\ runs[w].alert \in 1..alertSeq
          /\ runs[w].alert \in accepted <=> runs[w].phase = "posted"
          /\ \A a \in alerts : a.id = runs[w].alert => a.status = "logged"
          /\ \A u \in VendorIds : runs[u].alert = runs[w].alert => u = w
      BY <2>2 DEF PostInv, Post
    <3>2. runs[w].alert # run.alert
      BY <1>5, <2>2
    <3>3. runs[w].alert \in accepted' <=> runs[w].alert \in accepted
      BY <1>2, <3>2
    <3>4. QED
      BY <1>3, <1>4, <2>2, <3>1, <3>3 DEF Post
  <2>3. CASE w # v /\ runs[w].phase \notin Settling
    BY <1>4, <2>3 DEF PostInv, Post
  <2>4. QED
    BY <2>1, <2>2, <2>3
<1>7. DeliveryIsTrue'
  <2> SUFFICES ASSUME NEW a \in alerts
               PROVE  /\ a.status = "delivered" => a.id \in accepted'
                      /\ a.status = "error" => a.id \notin accepted'
                      /\ a.webhook /\ a.status = "logged" /\ faults = 0 =>
                           \E w \in VendorIds : runs'[w].alert = a.id
    BY <1>3 DEF DeliveryIsTrue
  <2>1. a.status = "error" => a.id # run.alert
    BY <1>5
  <2>2. QED
    BY <1>2, <1>4, <2>1 DEF PostInv, DeliveryIsTrue
<1>8. accepted' \subseteq 1..alertSeq'
  BY <1>2, <1>3, <1>5 DEF PostInv
<1>9. QED
  BY <1>3, <1>6, <1>7, <1>8 DEF PostInv

\* MarkDelivery: the row says what the run says.
LEMMA PostOfMarkDelivery ==
    ASSUME TypeInv, PostInv, NEW v \in VendorIds, MarkDelivery(v)
    PROVE  PostInv'
<1> DEFINE run == runs[v]
           mark == IF run.phase = "posted" THEN "delivered" ELSE "error"
<1>1. runs \in [VendorIds -> Run] /\ run.phase \in {"posted", "refused"} /\ alerts \subseteq Alert
      /\ alertSeq \in Nat
  BY DEF TypeInv, TypeOK, StoreTypeOK, MarkDelivery
<1>2. /\ alerts' = MarkAlert(run.alert, run.phase = "posted")
      /\ runs' = [runs EXCEPT ![v] = NextResult(run)]
      /\ UNCHANGED <<alertSeq, accepted, faults>>
  BY DEF MarkDelivery
<1>3. /\ runs'[v].phase = "recording" /\ runs'[v].alert = 0
      /\ \A w \in VendorIds \ {v} : runs'[w] = runs[w]
  BY <1>1, <1>2, NextResultIs
<1>4. /\ run.alert \in 1..alertSeq /\ (run.alert \in accepted <=> run.phase = "posted")
      /\ \A a \in alerts : a.id = run.alert => a.status = "logged"
      /\ \A w \in VendorIds : runs[w].alert = run.alert => w = v
  BY <1>1 DEF PostInv, Post, Settling
<1>5. ASSUME NEW b \in alerts'
      PROVE  \E a \in alerts : /\ b.id = a.id /\ b.webhook = a.webhook
                               /\ IF a.id = run.alert THEN b.status = mark ELSE b = a
  <2>1. PICK a \in alerts : b = IF a.id = run.alert THEN [a EXCEPT !.status = mark] ELSE a
    BY <1>2 DEF MarkAlert
  <2>2. LET c == [a EXCEPT !.status = mark] IN c.id = a.id /\ c.webhook = a.webhook /\ c.status = mark
    BY <1>1 DEF Alert
  <2> HIDE DEF mark
  <2>3. QED
    BY <2>1, <2>2
<1>6. ASSUME NEW w \in VendorIds PROVE Post(w)'
  <2>1. CASE w = v
    BY <1>3, <2>1 DEF Post, Settling
  <2>2. CASE w # v /\ runs[w].phase \notin Settling
    BY <1>3, <2>2 DEF PostInv, Post
  <2>3. CASE w # v /\ runs[w].phase \in Settling
    <3>1. /\ runs[w].alert \in 1..alertSeq
          /\ runs[w].alert \in accepted <=> runs[w].phase = "posted"
          /\ \A a \in alerts : a.id = runs[w].alert => a.status = "logged"
          /\ \A u \in VendorIds : runs[u].alert = runs[w].alert => u = w
      BY <2>3 DEF PostInv, Post
    <3>2. runs[w].alert # run.alert /\ runs[w].alert # 0
      BY <1>1, <1>4, <2>3, <3>1
    <3>3. ASSUME NEW b \in alerts', b.id = runs[w].alert PROVE b.status = "logged"
      <4>1. PICK a \in alerts : /\ b.id = a.id
                                /\ IF a.id = run.alert THEN b.status = mark ELSE b = a
        BY <1>5, <3>3
      <4>2. QED
        BY <3>1, <3>2, <3>3, <4>1
    <3>4. \A u \in VendorIds : runs'[u].alert = runs[w].alert => u = w
      BY <1>3, <3>1, <3>2
    <3>5. QED
      BY <1>2, <1>3, <2>3, <3>1, <3>3, <3>4 DEF Post
  <2>4. QED
    BY <2>1, <2>2, <2>3
<1>7. ASSUME NEW b \in alerts'
      PROVE  /\ b.id \in 1..alertSeq
             /\ b.status = "delivered" => b.id \in accepted
             /\ b.status = "error" => b.id \notin accepted
             /\ b.webhook /\ b.status = "logged" /\ faults = 0 =>
                  \E w \in VendorIds : runs'[w].alert = b.id
  <2>1. PICK a \in alerts : /\ b.id = a.id /\ b.webhook = a.webhook
                            /\ IF a.id = run.alert THEN b.status = mark ELSE b = a
    BY <1>5, <1>7
  <2>2. /\ a.id \in 1..alertSeq
        /\ a.status = "delivered" => a.id \in accepted
        /\ a.status = "error" => a.id \notin accepted
        /\ a.webhook /\ a.status = "logged" /\ faults = 0 =>
             \E w \in VendorIds : runs[w].alert = a.id
    BY DEF PostInv, DeliveryIsTrue
  <2>3. CASE a.id = run.alert
    BY <1>1, <1>4, <2>1, <2>2, <2>3
  <2>4. CASE a.id # run.alert
    <3>1. b = a
      BY <2>1, <2>4
    <3>2. \A w \in VendorIds : runs[w].alert = a.id => runs'[w].alert = a.id
      BY <1>3, <2>4
    <3>3. QED
      BY <2>2, <3>1, <3>2
  <2>5. QED
    BY <2>3, <2>4
<1>8. DeliveryIsTrue'
  BY <1>2, <1>7 DEF DeliveryIsTrue
<1>9. QED
  BY <1>2, <1>6, <1>7, <1>8 DEF PostInv

LEMMA PostStep == TypeInv /\ PostInv /\ [Next]_vars => PostInv'
<1> SUFFICES ASSUME TypeInv, PostInv, [Next]_vars PROVE PostInv'
  OBVIOUS
<1>1. CASE \E v \in VendorIds : RaiseAlert(v) \/ WebhookAnswered(v) \/ MarkDelivery(v)
  BY <1>1, PostOfRaiseAlert, PostOfWebhookAnswered, PostOfMarkDelivery
<1>2. CASE /\ alerts' \subseteq alerts /\ UNCHANGED <<alertSeq, accepted>>
           /\ \A v \in VendorIds : KeepsPost(v) \/ DropsPost(v)
  BY <1>2, FaultSteps, PostFrame
<1>3. QED
  BY <1>1, <1>2, PostSteps

\* An alert is flagged delivered only when its webhook answered 2xx and as an
\* error only when it did not; and without faults a run that moves on has
\* settled its alert (send_webhook_alert, mark_alert_delivered).
THEOREM DeliveryFlagIsTrue == Spec => []DeliveryIsTrue
<1>1. Init => PostInv
  BY DEF Init, StoreInit, PostInv, Post, Settling, DeliveryIsTrue, IdleRun
<1>2. PostInv => DeliveryIsTrue
  BY DEF PostInv
<1>3. QED
  BY <1>1, <1>2, PostStep, InitType, NextType, PTL DEF Spec

=============================================================================
