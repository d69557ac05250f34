---------------------------- MODULE Assessments ----------------------------
(***************************************************************************)
(* Assessment jobs of app/main.py, from the upload to the expiry of the    *)
(* encrypted report: the job's coroutine and its rendering thread, the     *)
(* report files, the retention sweep, the two ways to download a report    *)
(* and the audit log, over the tables of ReportStore.                      *)
(*                                                                         *)
(* `loop` is the coroutine in the middle of a stretch without await; such  *)
(* stretches are split at their file operations and store calls.  What     *)
(* asyncio.to_thread runs, rendering a report and reading one, needs no    *)
(* loop and may take place in the middle of anybody's stretch.             *)
(***************************************************************************)
EXTENDS ReportStore

CONSTANTS
    VendorLists, \* the lists of domains an upload may hold
    Requests,    \* ids of download requests
    StableKey,   \* whether REPORT_ENCRYPTION_KEY is set
    MaxTime,     \* bound on the clock
    MaxFaults    \* bound on restarts and failing file or store calls

ASSUME AssessmentAssumption ==
    /\ VendorLists \subseteq Seq(Domains) \ {<<>>}
    /\ StableKey \in BOOLEAN
    /\ {"free", "sweep"} \cap Jobs = {}
    /\ MaxTime \in Nat /\ MaxFaults \in Nat

VARIABLES
    jobs,      \* jobs[j]: the entry of _jobs and the coroutine that serves it
    files,     \* files[j]: OUTPUT_DIR/j.pdf.enc, or NoFile
    plaintext, \* the jobs with a file OUTPUT_DIR/j.tmp.pdf
    key,       \* number of the key _fernet was made with
    audit,     \* audit[j]: status of the scan_audit_log row of j
    loop,      \* the coroutine holding the event loop, or Free
    sweepTime, \* `now` of the sweep under way
    gets,      \* gets[g]: download request g
    faults,    \* restarts and failing calls so far
    creator    \* history: the session that started each job

disk == <<files, plaintext>>
vars == <<inventory, reports, clock, jobs, disk, key, audit, loop, sweepTime, gets, faults, creator>>

Free == "free"
Sweep == "sweep"

NoFile == [at |-> -1, key |-> -1]

\* step is where the coroutine is; status, what GET /api/jobs shows.
NoJob == [status |-> "none", step |-> "none", owner |-> Nothing, domains |-> <<>>, vendor |-> Nothing,
          next |-> 1]

\* the entry of a job just accepted
NewJob(step, s, ds) ==
    [status |-> "queued", step |-> step, owner |-> s, domains |-> ds, vendor |-> Nothing, next |-> 1]

Known(j) == jobs[j].status \notin {"none", "lost"}

NoGet == [phase |-> "none", job |-> Nothing, session |-> Nothing, outcome |-> 0]

Init ==
    /\ StoreInit
    /\ jobs = [j \in Jobs |-> NoJob]
    /\ files = [j \in Jobs |-> NoFile]
    /\ plaintext = {}
    /\ key = 0
    /\ audit = [j \in Jobs |-> "none"]
    /\ loop = Free
    /\ sweepTime = 0
    /\ gets = [g \in Requests |-> NoGet]
    /\ faults = 0
    /\ creator = [j \in Jobs |-> Nothing]

Fault ==
    /\ faults < MaxFaults
    /\ faults' = faults + 1

To(j, step, status) == [jobs EXCEPT ![j].step = step, ![j].status = status]

-----------------------------------------------------------------------------
(* The job.                                                                *)

\* start_scan and start_single_vendor_scan, once the upload is accepted.
StartScan(j) ==
    /\ loop = Free
    /\ jobs[j].status = "none"
    /\ \E s \in Sessions, ds \in VendorLists :
          /\ jobs' = [jobs EXCEPT ![j] = NewJob("queued", s, ds)]
          /\ creator' = [creator EXCEPT ![j] = s]
    /\ audit' = [audit EXCEPT ![j] = "started"]
    /\ UNCHANGED <<inventory, reports, clock, disk, key, loop, sweepTime, gets, faults>>

\* record_scan_started raises: the request fails after the job was entered,
\* and no coroutine will serve it.
StartScanFails(j) ==
    /\ loop = Free
    /\ jobs[j].status = "none"
    /\ Fault
    /\ \E s \in Sessions, ds \in VendorLists :
          /\ jobs' = [jobs EXCEPT ![j] = NewJob("none", s, ds)]
          /\ creator' = [creator EXCEPT ![j] = s]
    /\ UNCHANGED <<inventory, reports, clock, disk, key, audit, loop, sweepTime, gets>>

\* _run_assessment between its awaits: scanning, then analysing, then the
\* rendering thread is started.
NextStage(j) ==
    /\ loop = Free
    /\ \/ jobs[j].step = "queued" /\ jobs' = To(j, "scanning", "scanning")
       \/ jobs[j].step = "scanning" /\ jobs' = To(j, "analyzing", "analyzing")
       \/ jobs[j].step = "analyzing" /\ jobs' = To(j, "building", "rendering")
    /\ UNCHANGED <<inventory, reports, clock, disk, key, audit, loop, sweepTime, gets, faults, creator>>

\* _build_and_encrypt: the PDF is rendered to a plaintext file ...
BuildPdf(j) ==
    /\ jobs[j].step = "building"
    /\ plaintext' = plaintext \cup {j}
    /\ jobs' = [jobs EXCEPT ![j].step = "built"]
    /\ UNCHANGED <<inventory, reports, clock, files, key, audit, loop, sweepTime, gets, faults, creator>>

\* ... which is read, removed and encrypted in memory.
Encrypt(j) ==
    /\ jobs[j].step = "built"
    /\ plaintext' = plaintext \ {j}
    /\ jobs' = [jobs EXCEPT ![j].step = "encrypted"]
    /\ UNCHANGED <<inventory, reports, clock, files, key, audit, loop, sweepTime, gets, faults, creator>>

\* The coroutine goes on: the ciphertext is written, the job is complete.
WriteReport(j) ==
    /\ loop = Free
    /\ jobs[j].step = "encrypted"
    /\ files' = [files EXCEPT ![j] = [at |-> clock, key |-> key]]
    /\ jobs' = To(j, "upsert", "complete")
    /\ loop' = j
    /\ UNCHANGED <<inventory, reports, clock, plaintext, key, audit, sweepTime, gets, faults, creator>>

\* upsert_vendor for the next vendor of the report
UpsertVendor(j) ==
    /\ loop = j
    /\ jobs[j].step = "upsert"
    /\ LET d == jobs[j].domains[jobs[j].next] IN
       \E v \in UpsertIds(d, jobs[j].owner) :
          /\ inventory' = Upserted(v, d, jobs[j].owner)
          /\ jobs' = [jobs EXCEPT ![j].vendor = v, ![j].step = "record"]
    /\ UNCHANGED <<reports, clock, disk, key, audit, loop, sweepTime, gets, faults, creator>>

\* record_report for it, and on to the next one
RecordVendorReport(j) ==
    /\ loop = j
    /\ jobs[j].step = "record"
    /\ reports' = RecordReport(jobs[j].vendor, j, jobs[j].owner)
    /\ jobs' = IF jobs[j].next < Len(jobs[j].domains)
               THEN [jobs EXCEPT ![j].next = @ + 1, ![j].step = "upsert"]
               ELSE [jobs EXCEPT ![j].step = "audit"]
    /\ UNCHANGED <<inventory, clock, disk, key, audit, loop, sweepTime, gets, faults, creator>>

\* An exception while the inventory is written is swallowed.
InventoryFails(j) ==
    /\ loop = j
    /\ jobs[j].step \in {"upsert", "record"}
    /\ Fault
    /\ jobs' = [jobs EXCEPT ![j].step = "audit"]
    /\ UNCHANGED <<inventory, reports, clock, disk, key, audit, loop, sweepTime, gets, creator>>

\* record_scan_finished(job_id, "complete", ...)
FinishScan(j) ==
    /\ loop = j
    /\ jobs[j].step = "audit"
    /\ audit' = [audit EXCEPT ![j] = "complete"]
    /\ jobs' = [jobs EXCEPT ![j].step = "none"]
    /\ loop' = Free
    /\ UNCHANGED <<inventory, reports, clock, disk, key, sweepTime, gets, faults, creator>>

\* a handler that leaves the status to the audit log
KeepStatus(j) == jobs[j].status

\* a status no reader of the job knows
UnknownStatus(j) == "error"

\* job["status"] = "failed"
FailedStatus(j) == "failed"

\* The except branch of _run_assessment, entered from a scan, an analysis, the
\* rendering thread (which may leave its plaintext file), the writing of the
\* file (which may leave a part of it) or the audit log; it logs the failure,
\* which may fail in its turn.
ScanFails(j) ==
    /\ Fault
    /\ \/ /\ loop = Free /\ jobs[j].step \in {"scanning", "analyzing"}
          /\ UNCHANGED disk
       \/ /\ loop = Free /\ jobs[j].step = "building"
          /\ plaintext' \in {plaintext, plaintext \cup {j}}
          /\ UNCHANGED files
       \/ /\ loop = Free /\ jobs[j].step = "built"
          /\ plaintext' \in {plaintext, plaintext \ {j}}
          /\ UNCHANGED files
       \/ /\ loop = Free /\ jobs[j].step = "encrypted"
          /\ \/ UNCHANGED files
             \/ files' = [files EXCEPT ![j] = [at |-> clock, key |-> -1]]
          /\ UNCHANGED plaintext
       \/ loop = j /\ jobs[j].step = "audit" /\ UNCHANGED disk
    /\ jobs' = To(j, "none", FailedStatus(j))
    /\ \/ audit' = [audit EXCEPT ![j] = "failed"]
       \/ UNCHANGED audit
    /\ loop' = Free
    /\ UNCHANGED <<inventory, reports, clock, key, sweepTime, gets, creator>>

JobStep(j) ==
    \/ NextStage(j) \/ BuildPdf(j) \/ Encrypt(j) \/ WriteReport(j)
    \/ UpsertVendor(j) \/ RecordVendorReport(j) \/ FinishScan(j)

-----------------------------------------------------------------------------
(* The retention sweep: no await between reading the time and the end of   *)
(* the pass, but every removal counts at once.                             *)

\* Passes that would find nothing to remove are left out.
StartSweep ==
    /\ loop = Free
    /\ \/ \E j \in Jobs : files[j] # NoFile /\ clock - files[j].at > Retention
       \/ Unexpired(clock) # reports
    /\ loop' = Sweep
    /\ sweepTime' = clock
    /\ UNCHANGED <<inventory, reports, clock, jobs, disk, key, audit, gets, faults, creator>>

\* a sweep of the jobs the process knows, not of the directory
TooOldAndKnown(j) == files[j] # NoFile /\ sweepTime - files[j].at > Retention /\ Known(j)

TooOld(j) == files[j] # NoFile /\ sweepTime - files[j].at > Retention

\* a sweep that leaves the job's entry alone
EntryUntouched(j) == jobs

\* job["status"] = "expired", when _jobs has the job.
Expired(j) == IF Known(j) THEN [jobs EXCEPT ![j].status = "expired"] ELSE jobs

RemoveExpired(j) ==
    /\ loop = Sweep
    /\ TooOld(j)
    /\ files' = [files EXCEPT ![j] = NoFile]
    /\ jobs' = Expired(j)
    /\ UNCHANGED <<inventory, reports, clock, plaintext, key, audit, loop, sweepTime, gets, faults, creator>>

\* Once the directory is through, the rows; a failure is swallowed.
SweepRows ==
    /\ loop = Sweep
    /\ \A j \in Jobs : ~TooOld(j)
    /\ \/ reports' = Unexpired(sweepTime) /\ UNCHANGED faults
       \/ Fault /\ UNCHANGED reports
    /\ loop' = Free
    /\ sweepTime' = 0
    /\ UNCHANGED <<inventory, clock, jobs, disk, key, audit, gets, creator>>

-----------------------------------------------------------------------------
(* Downloads.                                                              *)

Refused(s, code) == [phase |-> "done", job |-> Nothing, session |-> s, outcome |-> code]

Opened(s, j) == [phase |-> "reading", job |-> j, session |-> s, outcome |-> 0]

Finished(get, code) == [phase |-> "done", job |-> get.job, session |-> get.session, outcome |-> code]

Answer(g, s, code) == gets' = [gets EXCEPT ![g] = Refused(s, code)]

Reading(g, s, j) == gets' = [gets EXCEPT ![g] = Opened(s, j)]

\* an ownership test that forgets the token
AnyCookie(j, s) == TRUE

\* _require_job_owner
OwnsJob(j, s) == jobs[j].owner = s

\* get_job_report up to asyncio.to_thread
GetJobReport(g, s, j) ==
    /\ loop = Free /\ gets[g].phase = "none"
    /\ \/ ~Known(j) /\ Answer(g, s, 404)
       \/ Known(j) /\ ~OwnsJob(j, s) /\ Answer(g, s, 403)
       \/ /\ Known(j) /\ OwnsJob(j, s)
          /\ \/ jobs[j].status = "expired" /\ Answer(g, s, 410)
             \/ jobs[j].status \notin {"expired", "complete"} /\ Answer(g, s, 409)
             \/ jobs[j].status = "complete" /\ files[j] = NoFile /\ Answer(g, s, 410)
             \/ jobs[j].status = "complete" /\ files[j] # NoFile /\ Reading(g, s, j)
    /\ UNCHANGED <<inventory, reports, clock, jobs, disk, key, audit, loop, sweepTime, faults, creator>>

\* download_vendor_report up to asyncio.to_thread: a row of the requester's
\* inventory leads to the file of the row's job.
DownloadVendorReport(g, s, v) ==
    /\ loop = Free /\ gets[g].phase = "none"
    /\ \/ inventory[v].owner # s /\ Answer(g, s, 404)
       \/ /\ inventory[v].owner = s
          /\ \E r \in ReportsOf(v, s) :
                IF files[r.job] = NoFile THEN Answer(g, s, 410) ELSE Reading(g, s, r.job)
    /\ UNCHANGED <<inventory, reports, clock, jobs, disk, key, audit, loop, sweepTime, faults, creator>>

\* _read_and_decrypt in its thread: the file may have gone since the check,
\* which nobody catches, and a file written with another key, or in part, is
\* an InvalidToken.
ReadReport(g) ==
    /\ gets[g].phase = "reading"
    /\ LET f == files[gets[g].job]
           code == IF f = NoFile THEN 500 ELSE IF f.key = key THEN 200 ELSE 410
       IN gets' = [gets EXCEPT ![g] = Finished(@, code)]
    /\ UNCHANGED <<inventory, reports, clock, jobs, disk, key, audit, loop, sweepTime, faults, creator>>

-----------------------------------------------------------------------------

\* Time passes in the middle of any stretch.
Tick ==
    /\ clock < MaxTime
    /\ clock' = clock + 1
    /\ UNCHANGED <<inventory, reports, jobs, disk, key, audit, loop, sweepTime, gets, faults, creator>>

\* The process stops anywhere and starts again: the tables and the files
\* stay, _jobs is empty, and without REPORT_ENCRYPTION_KEY the key is new.
Restart ==
    /\ Fault
    /\ jobs' = [j \in Jobs |-> IF jobs[j].status = "none" THEN NoJob
                                                           ELSE [NoJob EXCEPT !.status = "lost"]]
    /\ key' = IF StableKey THEN key ELSE key + 1
    /\ gets' = [g \in Requests |-> IF gets[g].phase = "reading"
                                   THEN [NoGet EXCEPT !.phase = "done"] ELSE gets[g]]
    /\ loop' = Free
    /\ sweepTime' = 0
    /\ UNCHANGED <<inventory, reports, clock, disk, audit, creator>>

SweepStep == StartSweep \/ (\E j \in Jobs : RemoveExpired(j)) \/ SweepRows

Next ==
    \/ \E j \in Jobs : \/ StartScan(j) \/ StartScanFails(j) \/ JobStep(j)
                       \/ InventoryFails(j) \/ ScanFails(j)
    \/ SweepStep
    \/ \E g \in Requests, s \in Sessions : \/ \E j \in Jobs : GetJobReport(g, s, j)
                                          \/ \E v \in VendorIds : DownloadVendorReport(g, s, v)
    \/ \E g \in Requests : ReadReport(g)
    \/ Tick
    \/ Restart

Spec == Init /\ [][Next]_vars

\* The event loop takes its ready coroutines in turn; probes, AI calls and
\* threads end; the sweep recurs.
Fairness ==
    /\ \A j \in Jobs : WF_vars(JobStep(j))
    /\ WF_vars(SweepStep)
    /\ WF_vars(Tick)

FairSpec == Spec /\ Fairness

-----------------------------------------------------------------------------
(* Types and safety.                                                       *)

Running == {"queued", "scanning", "analyzing", "rendering"}

Statuses == Running \cup {"none", "complete", "failed", "expired", "lost"}

Steps == {"none", "queued", "scanning", "analyzing", "building", "built", "encrypted",
          "upsert", "record", "audit"}

Job == [status : Statuses, step : Steps, owner : Sessions \cup {Nothing}, domains : Seq(Domains),
        vendor : VendorIds \cup {Nothing}, next : Nat]

File == [at : Int, key : Int]

Get == [phase : {"none", "reading", "done"}, job : Jobs \cup {Nothing},
        session : Sessions \cup {Nothing}, outcome : {0, 200, 403, 404, 409, 410, 500}]

\* Every variable has its type.
TypeOK ==
    /\ StoreTypeOK
    /\ jobs \in [Jobs -> Job]
    /\ files \in [Jobs -> File]
    /\ plaintext \subseteq Jobs
    /\ key \in Nat
    /\ audit \in [Jobs -> {"none", "started", "complete", "failed"}]
    /\ loop \in {Free, Sweep} \cup Jobs
    /\ sweepTime \in Nat
    /\ gets \in [Requests -> Get]
    /\ faults \in Nat
    /\ creator \in [Jobs -> Sessions \cup {Nothing}]

\* A job that says complete has its report on disk, written with the key of
\* this process: neither the sweep nor a failure on the way leaves a complete
\* job without a readable report (_run_assessment, _cleanup_expired_reports).
CompleteHasReport ==
    \A j \in Jobs : jobs[j].status = "complete" => files[j] # NoFile /\ files[j].key = key

\* A report row stands under a vendor row of its own session, whichever
\* sessions assess the same domain: else its owner could not reach it
\* (upsert_vendor, record_report).
RowsUnderOwnVendor ==
    \A r \in reports : inventory[r.vendor].owner = r.owner /\ creator[r.job] = r.owner

\* A report is served to the session that started its job and to no other,
\* by job or from the inventory, before and after restarts
\* (_require_job_owner, download_vendor_report).
OnlyOwnersRead ==
    \A g \in Requests : gets[g].outcome = 200 => gets[g].session = creator[gets[g].job]

\* The audit log and the jobs agree: complete is logged of jobs whose report
\* was written, failed of jobs that say so until they expire, and without
\* faults every job that ended is logged (record_scan_finished).
AuditMatches ==
    \A j \in Jobs :
        /\ audit[j] = "complete" => jobs[j].status \in {"complete", "expired", "lost"}
        /\ audit[j] = "failed" => jobs[j].status \in {"failed", "expired", "lost"}
        /\ faults = 0 /\ Known(j) /\ jobs[j].step = "none" => audit[j] # "started"

-----------------------------------------------------------------------------
(* Liveness.                                                               *)

\* A report file that is past its retention is removed, whatever became of
\* the job that wrote it (_cleanup_expired_reports).
FilesExpire ==
    \A j \in Jobs : files[j] # NoFile /\ clock - files[j].at > Retention ~> files[j] = NoFile

\* A job that has a coroutine comes to an end its poller can see, or is
\* forgotten by a restart (_run_assessment).
AssessmentsEnd ==
    \A j \in Jobs : jobs[j].step # "none" ~> jobs[j].step = "none" /\ jobs[j].status \notin Running

-----------------------------------------------------------------------------
(* What the repository says and the code does not do.                      *)

\* Reports are "encrypted before being written to disk" (README.md:253-255) and
\* "the plaintext temp file is removed immediately after" (main.py:277-278):
\* only the rendering thread at work has one.
NoPlaintextLeft == \A j \in plaintext : jobs[j].step = "built"
=============================================================================
