---------------------------- MODULE Reporting ----------------------------
(***************************************************************************)
(* From the detectors of one vendor to what is read about it: the adapters *)
(* that give every detector one shape of result (orchestrator.py,          *)
(* exploitation.py, phishing.py), the score history that detection jobs    *)
(* and scheduled runs write, and the two reports of executive_report.py,   *)
(* from a job's results while the process remembers it and from the        *)
(* history at any time (download_vendor_last_report).                      *)
(*                                                                         *)
(* A summary is reduced to the phrase that _classify_status looks for, and *)
(* detail_items to their number.  The result cache is in DetectorRuns.     *)
(***************************************************************************)
EXTENDS KevCatalog, Lookalikes, FiniteSetsExt, SequencesExt

CONSTANTS
    Kinds,        \* who runs the detectors: "job" and "scheduler"
    Plans,        \* which detector types the runs may ask for together, {} for no run
    KevEntries,   \* per version of the catalogue, the entries that match the vendor
    KevCap,       \* [:10] of run_exploitation_detector
    Assessed,     \* what the rules may say: number of findings and score
    HistoryLimit, \* limit=200 of download_vendor_last_report
    Nobody,       \* stands for no run
    MaxFaults     \* bound on restarts and errors of the store

ASSUME ReportingAssumption ==
    /\ KevEntries \in [1..MaxVersions -> Nat] /\ KevCap \in Nat \ {0}
    /\ Assessed \subseteq Nat \X (0..100)
    /\ HistoryLimit \in Nat \ {0} /\ MaxFaults \in Nat /\ Nobody \notin Runs

VARIABLES
    runs,    \* runs[r]: who asked, for what, and the results so far
    history, \* the vendor's rows of score_history, oldest first
    loop,    \* the run that records and has not let go of the event loop
    faults   \* restarts and errors so far

repVars == <<clock, publishedAt, kevCache, fetches, runs, history, loop, faults>>

NoScore == -1

\* phishing and lost are not kept by the program: the raw result and the
\* look-ups that failed under it.
NoRun == [phase |-> "none", kind |-> "job", types |-> {}, results |-> {},
          phishing |-> NoPhishing, lost |-> {}]

RepInit ==
    KevInit /\ runs = [r \in Runs |-> NoRun] /\ history = <<>> /\ loop = Nobody /\ faults = 0

-----------------------------------------------------------------------------
(* DetectorRunResult and the adapters.                                     *)

Result(detector, phrase, score, items, error) ==
    [detector |-> detector, phrase |-> phrase, score |-> score, items |-> items, error |-> error]

Failed(detector) == Result(detector, "failed", NoScore, 0, TRUE)

Listing(detector, findings) ==
    Result(detector, IF findings = 0 THEN "nothing found" ELSE "findings", NoScore, findings, FALSE)

\* Where there is always one item, whatever it says.
Informing(detector, phrase, error) == Result(detector, phrase, NoScore, 1, error)

\* The results a scan-derived detector may have.  An exception in dns_integrity
\* leaves its summary at "no anomalies".
Derived(detector) ==
    CASE detector = "vulnerability" ->
            {Result(detector, IF a[1] = 0 THEN "nothing found" ELSE "findings", a[2], a[1], FALSE) : a \in Assessed}
      [] detector = "subdomain_takeover" -> {Listing(detector, n) : n \in 0..1} \cup {Failed(detector)}
      [] detector = "cors_csp" -> {Listing(detector, n) : n \in 0..1}
      [] detector = "dns_integrity" ->
            {Informing(detector, "nothing found", e) : e \in BOOLEAN} \cup {Informing(detector, "findings", FALSE)}
      [] detector = "waf_absence" -> {Informing(detector, p, FALSE) : p \in {"present", "no signature"}}
      [] detector = "concentration_risk" ->
            {Informing(detector, p, FALSE) : p \in {"hosted on", "undetermined"}} \cup {Informing(detector, "failed", TRUE)}

ScanDerived == {"vulnerability", "subdomain_takeover", "dns_integrity",
                "waf_absence", "cors_csp", "concentration_risk"}

\* to_standard_result of exploitation: the most recent matches
Exploitation(r) ==
    IF fetches'[r].at = "failed" THEN Failed("exploitation")
    ELSE Listing("exploitation", Min({KevEntries[fetches'[r].version], KevCap}))

\* to_standard_result of phishing, which drops the error when there are no
\* findings, that is, always: the summary has it instead.
Phishing(raw) ==
    Result("phishing",
           IF raw.leads # <<>> THEN "findings" ELSE IF raw.error THEN "failed" ELSE "nothing found",
           NoScore, Len(raw.leads), raw.error /\ raw.leads # <<>>)

-----------------------------------------------------------------------------
(* The runs.  A coroutine moves only while no other one records.           *)

Lacking(r, t) == runs[r].phase = "running" /\ t \in runs[r].types
                    /\ \A res \in runs[r].results : res.detector # t

Filed(r, new) == [runs EXCEPT ![r].results = @ \cup new]

\* A job's vendor, or a vendor that is due, comes to its detectors.
StartRun(r) ==
    /\ loop = Nobody /\ runs[r] = NoRun
    /\ \E kind \in Kinds, plan \in Plans :
          /\ plan[r] # {}
          /\ \A q \in Runs : runs[q] # NoRun => runs[q].types = plan[q]
          /\ runs' = [runs EXCEPT ![r].phase = "running", ![r].kind = kind, ![r].types = plan[r]]
    /\ UNCHANGED <<clock, publishedAt, kevCache, fetches, history, faults, loop>>

\* run_exploitation_detector: a step of its fetch, of which one is the feed's,
\* and its result when the fetch has come to an end.
RunExploitation(r) ==
    /\ Lacking(r, "exploitation")
    /\ \/ loop = Nobody /\ (FetchKevCatalog(r) \/ KevArrives(r) \/ KevFails(r))
       \/ KevServed(r)
    /\ runs' = IF fetches'[r].at \in {"returned", "failed"} THEN Filed(r, {Exploitation(r)}) ELSE runs
    /\ UNCHANGED <<history, faults, loop>>

RunPhishing(r) ==
    /\ loop = Nobody /\ Lacking(r, "phishing")
    /\ \/ \E lost \in SUBSET Checked :
          \E dead \in SUBSET {v \in (Checked \ lost) \X {"https", "http"} : Candidates[v[1]].certificate} :
             LET raw == RunPhishingDetector(lost, dead)
             IN  runs' = [runs EXCEPT ![r].results = @ \cup {Phishing(raw)},
                                      ![r].phishing = raw, ![r].lost = lost]
       \/ runs' = [runs EXCEPT ![r].results = @ \cup {Phishing(PhishingRaised)},
                               ![r].phishing = PhishingRaised]
    /\ UNCHANGED <<clock, publishedAt, kevCache, fetches, history, faults, loop>>

\* The base scan and what derives from it, or the exception of the scan.
RunScanDerived(r) ==
    LET lacking == {t \in ScanDerived : Lacking(r, t)}
    IN  /\ loop = Nobody /\ lacking # {}
        /\ \/ \E said \in [lacking -> UNION {Derived(t) : t \in lacking}] :
                 /\ \A t \in lacking : said[t] \in Derived(t)
                 /\ runs' = Filed(r, {said[t] : t \in lacking})
           \/ runs' = Filed(r, {Failed(t) : t \in lacking})
        /\ UNCHANGED <<clock, publishedAt, kevCache, fetches, history, faults, loop>>

\* A job skips what failed, the scheduler records it like the rest.
Recorded(r) == {res \in runs[r].results : runs[r].kind = "scheduler" \/ ~res.error}

Row(r, res) == [detector |-> res.detector, score |-> res.score, phrase |-> res.phrase, run |-> r]

\* every row with a score waits for a webhook, whoever writes it
AwaitsAnyScore(r, res) == res.score # NoScore

\* Between two record_score calls only a scheduled run lets go of the event
\* loop: for the webhook of an alert, which takes a score, and one in the row
\* of the type before.  The threshold, any integer, and whether there is a
\* webhook are left open (Monitoring has them).
MayAwait(r, res) ==
    /\ runs[r].kind = "scheduler" /\ res.score # NoScore
    /\ \E k \in DOMAIN history :
          /\ history[k].detector = res.detector /\ history[k].score # NoScore
          /\ \A j \in k + 1..Len(history) : history[j].detector # res.detector

HasRow(r, res) == \E k \in DOMAIN history : history[k] = Row(r, res)

Rephased(r, phase) == [runs EXCEPT ![r].phase = phase]

\* Every detector has answered.
BeginRecording(r) ==
    /\ loop = Nobody /\ runs[r].phase = "running"
    /\ \A t \in runs[r].types : ~Lacking(r, t)
    /\ runs' = Rephased(r, "recording") /\ loop' = r
    /\ UNCHANGED <<clock, publishedAt, kevCache, fetches, history, faults>>

\* One record_score, in the order the types were asked for; after a webhook a
\* scheduled run goes on when the event loop is free again.
RecordRow(r) ==
    /\ runs[r].phase = "recording" /\ loop \in {Nobody, r}
    /\ \E res \in Recorded(r) :
          /\ ~HasRow(r, res)
          /\ history' = Append(history, Row(r, res))
          /\ loop' = r \/ (MayAwait(r, res) /\ loop' = Nobody)
    /\ UNCHANGED <<clock, publishedAt, kevCache, fetches, runs, faults>>

\* The job is complete, or the scheduled run marked (mark_monitor_run).
EndRecording(r) ==
    /\ runs[r].phase = "recording" /\ loop \in {Nobody, r}
    /\ \A res \in Recorded(r) : HasRow(r, res)
    /\ runs' = Rephased(r, "done") /\ loop' = Nobody
    /\ UNCHANGED <<clock, publishedAt, kevCache, fetches, history, faults>>

\* The store raises: the rows written so far stay and no others come.
RecordingFails(r) ==
    /\ faults < MaxFaults
    /\ runs[r].phase = "recording" /\ loop \in {Nobody, r}
    /\ runs' = Rephased(r, "failed") /\ loop' = Nobody /\ faults' = faults + 1
    /\ UNCHANGED <<clock, publishedAt, kevCache, fetches, history>>

\* The catalogue is forgotten, and so are the jobs and what is under way.
Restart ==
    /\ faults < MaxFaults
    /\ faults' = faults + 1 /\ loop' = Nobody
    /\ kevCache' = NoCatalogue
    /\ runs' = [r \in Runs |->
          CASE runs[r].phase \in {"running", "recording"} -> [runs[r] EXCEPT !.phase = "lost"]
            [] runs[r].phase = "done" -> [runs[r] EXCEPT !.phase = "forgotten"]
            [] OTHER -> runs[r]]
    /\ UNCHANGED <<clock, publishedAt, fetches, history>>

RepNext ==
    \/ \E r \in Runs :
          \/ StartRun(r) \/ RunExploitation(r) \/ RunPhishing(r) \/ RunScanDerived(r)
          \/ BeginRecording(r) \/ RecordRow(r) \/ EndRecording(r) \/ RecordingFails(r)
    \/ (Publish \/ Tick) /\ UNCHANGED <<runs, history, faults, loop>>
    \/ Restart

RepSpec == RepInit /\ [][RepNext]_repVars

-----------------------------------------------------------------------------
(* The reports. *)

\* items looked at before the score
ItemsFirst(res) ==
    IF res.error THEN "ERROR"
    ELSE IF res.phrase = "nothing found" THEN "CLEAR"
    ELSE IF res.phrase = "no signature" THEN "FINDINGS"
    ELSE IF res.detector \in {"waf_absence", "concentration_risk"} THEN "INFO"
    ELSE IF res.items > 0 THEN "FINDINGS"
    ELSE IF res.score # NoScore /\ res.score < 80 THEN "FINDINGS"
    ELSE "CLEAR"

\* _classify_status
ClassifyStatus(res) ==
    IF res.error THEN "ERROR"
    ELSE IF res.phrase = "nothing found" THEN "CLEAR"
    ELSE IF res.score # NoScore THEN IF res.score < 80 THEN "FINDINGS" ELSE "CLEAR"
    ELSE IF res.phrase = "no signature" THEN "FINDINGS"
    ELSE IF res.detector \in {"waf_absence", "concentration_risk"} THEN "INFO"
    ELSE IF res.items > 0 THEN "FINDINGS"
    ELSE "CLEAR"

\* The KPI card of build_executive_pdf.
CriticalCount(results) == Cardinality({res \in results : res.score # NoScore /\ res.score < 60})

\* get_score_history(vendor_id, limit): the last rows, latest first
ScoreHistory == Reverse(SubSeq(history, Max({1, Len(history) - HistoryLimit + 1}), Len(history)))

\* the last row seen of a type wins
OldestByType == {k \in DOMAIN ScoreHistory :
                    \A j \in k + 1..Len(ScoreHistory) : ScoreHistory[j].detector # ScoreHistory[k].detector}

\* The first row of each type, as download_vendor_last_report picks it.
LatestByType == {k \in DOMAIN ScoreHistory :
                    \A j \in 1..k - 1 : ScoreHistory[j].detector # ScoreHistory[k].detector}

\* A row as a result again: no items, no error.
FromRow(row) == Result(row.detector, row.phrase, row.score, 0, FALSE)
LastReport == {ScoreHistory[k] : k \in LatestByType}

-----------------------------------------------------------------------------
(* Properties. *)

ResultOf(r, t) == CHOOSE res \in runs[r].results : res.detector = t

Completed == {r \in Runs : runs[r].phase \in {"done", "forgotten"}}

\* What a completed run answered for a type is in the last report, or else an
\* answer that was recorded after it, and after all of the run if that was a
\* job: two jobs never have their answers mixed, although a scheduled run may
\* have its own overtaken while it waits for a webhook.  Only a whole history's
\* length of rows behind these displaces the type, whether the process remembers
\* the run or not (get_score_history, download_vendor_last_report,
\* _run_detect_job, _run_one_monitored_vendor).
LastReportLatest ==
    \A r \in Completed : \A res \in Recorded(r) : \E k \in DOMAIN history :
        LET after == IF runs[r].kind = "job"
                     THEN Max({i \in DOMAIN history : history[i].run = r}) ELSE k
            fit == {k} \cup {i \in after + 1..Len(history) : history[i].detector = res.detector}
        IN  /\ history[k] = Row(r, res)
            /\ \/ \E i \in fit : history[i] \in LastReport
               \/ /\ \A row \in LastReport : row.detector # res.detector
                  /\ \A i \in fit : Len(history) - i >= HistoryLimit

\* What is left of a job's result after its process is no worse than it was, and
\* where the score or the summary decides, it is the same: the status, and
\* whether it counts as critical (_classify_status, build_executive_pdf).
ReportsAgree ==
    \A row \in LastReport :
        LET live == ResultOf(row.run, row.detector)
            Harm(res) == CASE ClassifyStatus(res) = "CLEAR" -> 0 [] ClassifyStatus(res) = "INFO" -> 1 [] OTHER -> 2
        IN  /\ Harm(FromRow(row)) <= Harm(live)
            /\ row.detector \in {"vulnerability", "waf_absence", "concentration_risk"} /\ ~live.error
                  => /\ ClassifyStatus(FromRow(row)) = ClassifyStatus(live)
                     /\ CriticalCount({FromRow(row)}) = CriticalCount({live})

\* A domain with a certificate is a lead unless its look-up failed, which is
\* counted, and no site that leads elsewhere is cut off a report in favour of one
\* that does not (run_phishing_detector, _finding_detail_rows).
LeadsShown ==
    \A r \in Runs :
        LET raw == runs[r].phishing
            found == {i \in Checked \ runs[r].lost : Candidates[i].certificate}
            Alarming(leads) == {k \in DOMAIN leads : leads[k].site = "other"}
        IN  (\E res \in runs[r].results : res.detector = "phishing") /\ raw # PhishingRaised =>
                /\ {raw.leads[k].candidate : k \in DOMAIN raw.leads} = found
                /\ raw.inconclusive = Cardinality(runs[r].lost)
                /\ \/ Cardinality(Alarming(Shown(raw.leads))) = Cardinality(Alarming(raw.leads))
                   \/ Alarming(Shown(raw.leads)) = DOMAIN Shown(raw.leads)

-----------------------------------------------------------------------------
(* What the repository says and the code does not do.                      *)

\* "results are inconclusive, not a confirmed absence of lookalike domains"
\* (phishing.py:184): such a result is not reported as clear.
InconclusiveNotClear ==
    \A r \in Runs : runs[r].phase = "done" /\ runs[r].phishing.error =>
        ClassifyStatus(ResultOf(r, "phishing")) # "CLEAR"
=============================================================================
