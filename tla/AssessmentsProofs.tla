------------------------- MODULE AssessmentsProofs -------------------------
(***************************************************************************)
(* Theorems about Assessments, for every value of its constants: any jobs, *)
(* sessions, vendors, retention and number of restarts and failures.       *)
(*                                                                         *)
(* The invariant says of each job how the place of its coroutine, its      *)
(* status, its file, its owner and its line in the audit log belong        *)
(* together (JobInv), and of the report rows and the downloads whose they  *)
(* are (RowInv, GetInv).  The acting job is argued step by step; of every  *)
(* other job a step leaves alone what JobInv reads (Alone, AloneInv).      *)
(***************************************************************************)
EXTENDS Assessments, TLAPS

\* the steps of the stretch from the written file to the audit log, which has no await
Held == {"upsert", "record", "audit"}

StatusAt(step) ==
    CASE step \in {"queued", "scanning", "analyzing"} -> {step}
      [] step \in {"building", "built", "encrypted"} -> {"rendering"}
      [] step \in Held -> {"complete"}
      [] step = "none" -> {"none", "queued", "complete", "failed", "expired", "lost"}

\* The statuses a job may show while its coroutine is at a step (_run_assessment).
LEMMA StatusNames ==
    /\ \A step \in {"queued", "scanning", "analyzing"} : StatusAt(step) = {step}
    /\ \A step \in {"building", "built", "encrypted"} : StatusAt(step) = {"rendering"}
    /\ \A step \in {"upsert", "record", "audit"} : StatusAt(step) = {"complete"}
    /\ StatusAt("none") = {"none", "queued", "complete", "failed", "expired", "lost"}
    /\ Held = {"upsert", "record", "audit"}
BY DEF StatusAt, Held

\* Where the coroutine is, what the job says and who has the loop.
Staged(j) ==
    /\ jobs[j].status \in StatusAt(jobs[j].step)
    /\ loop = j <=> jobs[j].step \in Held
    /\ Known(j) => jobs[j].next \in 1..Len(jobs[j].domains)
    /\ jobs[j].step = "record" => jobs[j].vendor \in VendorIds

\* A file is of a job that wrote one, of this key if the job says complete.
Filed(j) ==
    /\ files[j] # NoFile => jobs[j].status \in {"complete", "failed", "lost"}
    /\ jobs[j].status = "complete" => files[j] # NoFile /\ files[j].key = key

\* The job is of the session that started it, and the row it is about to
\* write goes under a vendor of that session.
Owned(j) ==
    /\ Known(j) => jobs[j].owner = creator[j]
    /\ jobs[j].status # "none" => creator[j] \in Sessions
    /\ jobs[j].step = "record" => inventory[jobs[j].vendor].owner = jobs[j].owner

\* What the audit log says of the job.
Logged(j) ==
    /\ jobs[j].step # "none" => audit[j] = "started"
    /\ audit[j] = "complete" => jobs[j].status \in {"complete", "expired", "lost"}
    /\ audit[j] = "failed" => jobs[j].status \in {"failed", "expired", "lost"}
    /\ faults = 0 /\ Known(j) /\ jobs[j].step = "none" => audit[j] \in {"complete", "failed"}

JobInv(j) == Staged(j) /\ Filed(j) /\ Owned(j) /\ Logged(j)

RowInv ==
    \A r \in reports :
        /\ inventory[r.vendor].owner = r.owner
        /\ creator[r.job] = r.owner /\ jobs[r.job].status # "none"

GetInv ==
    \A g \in Requests : gets[g].phase = "reading" \/ gets[g].outcome = 200 =>
        /\ gets[g].job \in Jobs
        /\ gets[g].session = creator[gets[g].job]
        /\ jobs[gets[g].job].status # "none"

AssessInv == TypeOK /\ (\A j \in Jobs : JobInv(j)) /\ RowInv /\ GetInv

-----------------------------------------------------------------------------
(* What the steps do to the entries of the jobs.                           *)

\* The places of a coroutine and the values of job["status"], spelled out.
LEMMA Names ==
    /\ Steps = {"none", "queued", "scanning", "analyzing", "building", "built", "encrypted",
                "upsert", "record", "audit"}
    /\ Statuses = {"queued", "scanning", "analyzing", "rendering", "none", "complete", "failed",
                   "expired", "lost"}
BY DEF Steps, Statuses, Running

\* f has the entries of jobs but for that of j, whose request is the same.
Moved(f, j) ==
    /\ f \in [Jobs -> Job]
    /\ \A i \in Jobs \ {j} : f[i] = jobs[i]
    /\ f[j].owner = jobs[j].owner /\ f[j].domains = jobs[j].domains

\* A change of step and status changes nothing else of a job (_run_assessment).
LEMMA MovesTo ==
    ASSUME jobs \in [Jobs -> Job], NEW j \in Jobs,
           NEW step \in Steps, NEW status \in Statuses, jobs' = To(j, step, status)
    PROVE  /\ Moved(jobs', j) /\ jobs'[j].step = step /\ jobs'[j].status = status
           /\ jobs'[j].next = jobs[j].next
<1>1. PICK f : f = To(j, step, status)
  OBVIOUS
<1>2. /\ Moved(f, j) /\ f[j].step = step /\ f[j].status = status
      /\ f[j].next = jobs[j].next
  BY <1>1 DEF Moved, To, Job
<1>3. QED
  BY <1>1, <1>2

\* Going on to a step changes nothing else of a job.
LEMMA MovesStep ==
    ASSUME jobs \in [Jobs -> Job], NEW j \in Jobs, NEW step \in Steps,
           jobs' = [jobs EXCEPT ![j].step = step]
    PROVE  /\ Moved(jobs', j) /\ jobs'[j].step = step /\ jobs'[j].status = jobs[j].status
           /\ jobs'[j].vendor = jobs[j].vendor /\ jobs'[j].next = jobs[j].next
<1>1. PICK f : f = [jobs EXCEPT ![j].step = step]
  OBVIOUS
<1>2. /\ Moved(f, j) /\ f[j].step = step /\ f[j].status = jobs[j].status
     /\ f[j].vendor = jobs[j].vendor /\ f[j].next = jobs[j].next
  BY <1>1 DEF Moved, Job
<1>3. QED
  BY <1>1, <1>2

\* A new status changes nothing else of a job (_cleanup_expired_reports).
LEMMA MovesStatus ==
    ASSUME jobs \in [Jobs -> Job], NEW j \in Jobs, NEW status \in Statuses,
           jobs' = [jobs EXCEPT ![j].status = status]
    PROVE  /\ Moved(jobs', j) /\ jobs'[j].step = jobs[j].step /\ jobs'[j].status = status
           /\ jobs'[j].vendor = jobs[j].vendor /\ jobs'[j].next = jobs[j].next
<1>1. PICK f : f = [jobs EXCEPT ![j].status = status]
  OBVIOUS
<1>2. /\ Moved(f, j) /\ f[j].step = jobs[j].step /\ f[j].status = status
     /\ f[j].vendor = jobs[j].vendor /\ f[j].next = jobs[j].next
  BY <1>1 DEF Moved, Job
<1>3. QED
  BY <1>1, <1>2

\* Going on to the next vendor of the list (_record_vendor_inventory's loop).
LEMMA MovesNext ==
    ASSUME jobs \in [Jobs -> Job], NEW j \in Jobs, NEW n \in Nat, NEW step \in Steps,
           jobs' = [jobs EXCEPT ![j].next = n, ![j].step = step]
    PROVE  /\ Moved(jobs', j) /\ jobs'[j].step = step /\ jobs'[j].status = jobs[j].status
           /\ jobs'[j].next = n
<1>1. PICK f : f = [jobs EXCEPT ![j].next = n, ![j].step = step]
  OBVIOUS
<1>2. /\ Moved(f, j) /\ f[j].step = step /\ f[j].status = jobs[j].status
     /\ f[j].next = n
  BY <1>1 DEF Moved, Job
<1>3. QED
  BY <1>1, <1>2

\* Noting the inventory row of the vendor (upsert_vendor's answer).
LEMMA MovesVendor ==
    ASSUME jobs \in [Jobs -> Job], NEW j \in Jobs, NEW step \in Steps, NEW v \in VendorIds,
           jobs' = [jobs EXCEPT ![j].vendor = v, ![j].step = step]
    PROVE  /\ Moved(jobs', j) /\ jobs'[j].step = step /\ jobs'[j].status = jobs[j].status
           /\ jobs'[j].vendor = v /\ jobs'[j].next = jobs[j].next
<1>1. PICK f : f = [jobs EXCEPT ![j].vendor = v, ![j].step = step]
  OBVIOUS
<1>2. /\ Moved(f, j) /\ f[j].step = step /\ f[j].status = jobs[j].status
     /\ f[j].vendor = v /\ f[j].next = jobs[j].next
  BY <1>1 DEF Moved, Job
<1>3. QED
  BY <1>1, <1>2

-----------------------------------------------------------------------------
(* Types.                                                                  *)

\* An entry made or emptied has the type of entries.
LEMMA NewJobs ==
    /\ NoJob \in Job
    /\ [NoJob EXCEPT !.status = "lost"] \in Job
    /\ \A s \in Sessions, ds \in VendorLists :
          NewJob("none", s, ds) \in Job /\ NewJob("queued", s, ds) \in Job
<1>1. \A ds \in VendorLists : ds \in Seq(Domains)
  BY AssessmentAssumption
<1>2. <<>> \in Seq(Domains)
  OBVIOUS
<1>3. NoJob \in Job /\ [NoJob EXCEPT !.status = "lost"] \in Job
  BY <1>2, Names DEF NoJob, Job
<1>4. ASSUME NEW s \in Sessions, NEW ds \in VendorLists, NEW step \in Steps
      PROVE  NewJob(step, s, ds) \in Job
  BY <1>1, Names DEF NewJob, Job
<1>5. QED
  BY <1>3, <1>4, Names

\* A row of the vendor's report is a row of the table (record_report).
LEMMA RecordType ==
    ASSUME StoreTypeOK, NEW v \in VendorIds, NEW j \in Jobs, NEW s \in Sessions
    PROVE  RecordReport(v, j, s) \subseteq Report
<1>1. Second \in Nat \ {0} /\ clock + Retention \in Int
  BY ReportStoreAssumption DEF StoreTypeOK
<1>2. (clock + Retention) % Second \in Int
  BY <1>1
<1>3. Stamp(clock + Retention) \in Int
  BY <1>1, <1>2 DEF Stamp
<1>4. QED
  BY <1>3 DEF StoreTypeOK, RecordReport, Report

\* The row of a vendor found or made (upsert_vendor).
LEMMA UpsertType ==
    ASSUME StoreTypeOK, NEW d \in Domains, NEW s \in Sessions, NEW v \in UpsertIds(d, s)
    PROVE  /\ v \in VendorIds
           /\ Upserted(v, d, s) \in [VendorIds -> Vendor \cup {NoVendor}]
           /\ Upserted(v, d, s)[v].owner = s
           /\ \A w \in VendorIds : inventory[w] # NoVendor => Upserted(v, d, s)[w] = inventory[w]
<1>1. v \in VendorIds /\ (inventory[v] = [domain |-> d, owner |-> s] \/ inventory[v] = NoVendor)
  BY DEF UpsertIds
<1>2. [domain |-> d, owner |-> s] \in Vendor
  BY DEF Vendor
<1>3. QED
  BY <1>1, <1>2 DEF StoreTypeOK, Upserted

\* What a download may be answered, or told to read.
LEMMA Answers ==
    /\ \A s \in Sessions, code \in {404, 403, 410, 409} : Refused(s, code) \in Get
    /\ \A s \in Sessions, j \in Jobs : Opened(s, j) \in Get
    /\ \A r \in Get, code \in {500, 200, 410} : Finished(r, code) \in Get
BY DEF Get, Refused, Opened, Finished

\* Every step keeps the types.
LEMMA TypeStep ==
    ASSUME TypeOK, \A j \in Jobs : JobInv(j), [Next]_vars
    PROVE  TypeOK'
<1> DEFINE OwnerKnown == \A j \in Jobs : Staged(j) /\ (Known(j) => jobs[j].owner \in Sessions)
<1>00. OwnerKnown
  BY DEF JobInv, Owned, Known
<1>0. /\ jobs \in [Jobs -> Job] /\ StoreTypeOK /\ gets \in [Requests -> Get]
      /\ key \in Nat /\ clock \in Nat /\ faults \in Nat
  BY DEF StoreTypeOK, TypeOK
<1>1. ASSUME NEW j \in Jobs, StartScan(j) PROVE TypeOK'
  <2>1. PICK s \in Sessions, ds \in VendorLists :
           jobs' = [jobs EXCEPT ![j] = NewJob("queued", s, ds)] /\ creator' = [creator EXCEPT ![j] = s]
    BY <1>1 DEF StartScan
  <2>2. jobs' \in [Jobs -> Job] /\ creator' \in [Jobs -> Sessions \cup {Nothing}]
    BY <1>0, <2>1, NewJobs DEF TypeOK
  <2>3. QED
    BY <1>1, <2>2 DEF TypeOK, StartScan, StoreTypeOK, disk
<1>2. ASSUME NEW j \in Jobs, StartScanFails(j) PROVE TypeOK'
  <2>1. PICK s \in Sessions, ds \in VendorLists :
           jobs' = [jobs EXCEPT ![j] = NewJob("none", s, ds)] /\ creator' = [creator EXCEPT ![j] = s]
    BY <1>2 DEF StartScanFails
  <2>2. jobs' \in [Jobs -> Job] /\ creator' \in [Jobs -> Sessions \cup {Nothing}]
    BY <1>0, <2>1, NewJobs DEF TypeOK
  <2>3. QED
    BY <1>2, <2>2 DEF TypeOK, StartScanFails, StoreTypeOK, disk, Fault
<1>3. ASSUME NEW j \in Jobs, NextStage(j) PROVE TypeOK'
  <2>1. jobs' \in [Jobs -> Job]
    <3>1. PICK step \in Steps, status \in Statuses : jobs' = To(j, step, status)
      BY <1>3, Names DEF NextStage
    <3>2. QED
      BY <1>0, <3>1, MovesTo DEF Moved
  <2>2. QED
    BY <1>3, <2>1 DEF TypeOK, NextStage, StoreTypeOK, disk
<1>4. ASSUME NEW j \in Jobs, BuildPdf(j) \/ Encrypt(j) PROVE TypeOK'
  <2>1. jobs' \in [Jobs -> Job]
    <3>1. PICK step \in Steps : jobs' = [jobs EXCEPT ![j].step = step]
      BY <1>4, Names DEF BuildPdf, Encrypt
    <3>2. QED
      BY <1>0, <3>1, MovesStep DEF Moved
  <2>2. QED
    BY <1>4, <2>1 DEF TypeOK, BuildPdf, Encrypt, StoreTypeOK
<1>5. ASSUME NEW j \in Jobs, WriteReport(j) PROVE TypeOK'
  <2>1. jobs' \in [Jobs -> Job]
    BY <1>5, <1>0, MovesTo, Names DEF WriteReport, Moved
  <2>2. [at |-> clock, key |-> key] \in File
    BY <1>0 DEF File
  <2>3. QED
    BY <1>5, <2>1, <2>2 DEF TypeOK, WriteReport, StoreTypeOK
<1>6. ASSUME NEW j \in Jobs, UpsertVendor(j) PROVE TypeOK'
  <2>1. Known(j) /\ jobs[j].owner \in Sessions /\ jobs[j].domains[jobs[j].next] \in Domains
    <3>1. jobs[j].status = "complete" /\ jobs[j].domains \in Seq(Domains)
      BY <1>00, <1>6 DEF UpsertVendor, Staged, StatusAt, Held, Job, TypeOK
    <3>2. QED
      BY <1>00, <3>1 DEF Staged, Known
  <2>2. PICK v \in UpsertIds(jobs[j].domains[jobs[j].next], jobs[j].owner) :
           /\ inventory' = Upserted(v, jobs[j].domains[jobs[j].next], jobs[j].owner)
           /\ jobs' = [jobs EXCEPT ![j].vendor = v, ![j].step = "record"]
    BY <1>6 DEF UpsertVendor
  <2>3. v \in VendorIds /\ inventory' \in [VendorIds -> Vendor \cup {NoVendor}]
    BY <2>1, <2>2, <1>0, UpsertType
  <2>4. jobs' \in [Jobs -> Job]
    BY <2>2, <1>0, <2>3, MovesVendor, Names DEF Moved
  <2>5. QED
    BY <1>6, <2>3, <2>4 DEF TypeOK, UpsertVendor, StoreTypeOK, disk
<1>7. ASSUME NEW j \in Jobs, RecordVendorReport(j) PROVE TypeOK'
  <2>1. jobs[j].owner \in Sessions /\ jobs[j].vendor \in VendorIds
    BY <1>00, <1>7 DEF RecordVendorReport, Staged, StatusAt, Held, Known
  <2>2. reports' \subseteq Report
    BY <1>7, <2>1, <1>0, RecordType DEF RecordVendorReport
  <2>3. jobs' \in [Jobs -> Job]
    <3>1. PICK n \in Nat : n = jobs[j].next + 1
      BY <1>0 DEF Job
    <3>2. CASE jobs' = [jobs EXCEPT ![j].next = n, ![j].step = "upsert"]
      BY <1>0, <3>2, MovesNext, Names DEF Moved
    <3>3. CASE jobs' = [jobs EXCEPT ![j].step = "audit"]
      BY <1>0, <3>3, MovesStep, Names DEF Moved
    <3>4. QED
      BY <1>7, <3>1, <3>2, <3>3 DEF RecordVendorReport
  <2>4. QED
    BY <1>7, <2>2, <2>3 DEF TypeOK, RecordVendorReport, StoreTypeOK, disk
<1>8. ASSUME NEW j \in Jobs, InventoryFails(j) \/ FinishScan(j) PROVE TypeOK'
  <2>1. jobs' \in [Jobs -> Job]
    <3>1. PICK step \in Steps : jobs' = [jobs EXCEPT ![j].step = step]
      BY <1>8, Names DEF InventoryFails, FinishScan
    <3>2. QED
      BY <1>0, <3>1, MovesStep DEF Moved
  <2>2. QED
    BY <1>8, <2>1 DEF TypeOK, InventoryFails, FinishScan, StoreTypeOK, disk, Fault
<1>9. ASSUME NEW j \in Jobs, ScanFails(j) PROVE TypeOK'
  <2>1. jobs' \in [Jobs -> Job]
    BY <1>9, <1>0, MovesTo, Names DEF ScanFails, FailedStatus, Moved
  <2>2. [at |-> clock, key |-> -1] \in File
    BY <1>0 DEF File
  <2>3. plaintext' \subseteq Jobs /\ files' \in [Jobs -> File]
    BY <1>9, <2>2 DEF TypeOK, ScanFails, disk
  <2>4. QED
    BY <1>9, <2>1, <2>3 DEF TypeOK, ScanFails, StoreTypeOK, Fault
<1>10. CASE StartSweep \/ SweepRows
  <2>1. reports' \subseteq reports
    BY <1>10 DEF StartSweep, SweepRows, Unexpired
  <2>2. faults' \in Nat
    BY <1>0, <1>10 DEF StartSweep, SweepRows, Fault
  <2>3. QED
    BY <1>10, <2>1, <2>2 DEF TypeOK, StartSweep, SweepRows, StoreTypeOK, disk
<1>11. ASSUME NEW j \in Jobs, RemoveExpired(j) PROVE TypeOK'
  <2>1. jobs' \in [Jobs -> Job]
    <3>1. jobs' = jobs \/ jobs' = [jobs EXCEPT ![j].status = "expired"]
      BY <1>11 DEF RemoveExpired, Expired
    <3>2. QED
      BY <1>0, <3>1, MovesStatus, Names DEF Moved
  <2>2. NoFile \in File
    BY DEF NoFile, File
  <2>3. QED
    BY <1>11, <2>1, <2>2 DEF TypeOK, RemoveExpired, StoreTypeOK
<1>12. ASSUME NEW g \in Requests, NEW s \in Sessions, NEW j \in Jobs, GetJobReport(g, s, j) PROVE TypeOK'
  <2>1. gets' \in [Requests -> Get]
    <3>1. PICK n \in Get : gets' = [gets EXCEPT ![g] = n]
      BY <1>12, Answers DEF GetJobReport, Answer, Reading
    <3>2. QED
      BY <1>0, <3>1
  <2>2. QED
    BY <1>12, <2>1 DEF TypeOK, GetJobReport, StoreTypeOK, disk
<1>13. ASSUME NEW g \in Requests, NEW s \in Sessions, NEW v \in VendorIds, DownloadVendorReport(g, s, v)
       PROVE  TypeOK'
  <2>1. \A r \in ReportsOf(v, s) : r.job \in Jobs
    BY <1>0 DEF StoreTypeOK, ReportsOf, Report
  <2>2. gets' \in [Requests -> Get]
    <3>1. PICK n \in Get : gets' = [gets EXCEPT ![g] = n]
      BY <1>13, <2>1, Answers DEF DownloadVendorReport, Answer, Reading
    <3>2. QED
      BY <1>0, <3>1
  <2>3. QED
    BY <1>13, <2>2 DEF TypeOK, DownloadVendorReport, StoreTypeOK, disk
<1>14. ASSUME NEW g \in Requests, ReadReport(g) PROVE TypeOK'
  <2>1. gets' \in [Requests -> Get]
    <3>1. PICK code \in {500, 200, 410} : gets' = [gets EXCEPT ![g] = Finished(gets[g], code)]
      BY <1>14, ZenonT(60) DEF ReadReport
    <3>2. Finished(gets[g], code) \in Get
      BY <1>0, Answers
    <3>3. QED
      BY <1>0, <3>1, <3>2
  <2>2. QED
    BY <1>14, <2>1 DEF TypeOK, ReadReport, StoreTypeOK, disk
<1>15. CASE Tick
  BY <1>15 DEF TypeOK, Tick, StoreTypeOK, disk
<1>16. CASE Restart
  <2>1. jobs' \in [Jobs -> Job]
    BY <1>0, <1>16, NewJobs DEF Restart
  <2>2. gets' \in [Requests -> Get]
    <3>1. [NoGet EXCEPT !.phase = "done"] \in Get
      BY DEF NoGet, Get
    <3>2. QED
      BY <1>0, <1>16, <3>1 DEF Restart
  <2>3. faults' \in Nat /\ key' \in Nat
    BY <1>0, <1>16 DEF Restart, Fault
  <2>4. QED
    BY <1>16, <2>1, <2>2, <2>3 DEF TypeOK, Restart, StoreTypeOK, disk
<1>17. CASE UNCHANGED vars
  BY <1>17 DEF TypeOK, vars, disk, StoreTypeOK
<1>18. QED
  BY <1>1, <1>2, <1>3, <1>4, <1>5, <1>6, <1>7, <1>8, <1>9, <1>10, <1>11, <1>12, <1>13, <1>14,
     <1>15, <1>16, <1>17 DEF Next, JobStep, SweepStep

-----------------------------------------------------------------------------
(* One job.                                                                *)

\* A job with a coroutine is one that _jobs has.
LEMMA JobsKnown ==
    ASSUME TypeOK, NEW j \in Jobs, Staged(j)
    PROVE  /\ jobs[j] \in Job /\ jobs[j].status \in Statuses /\ jobs[j].step \in Steps
           /\ jobs[j].step # "none" => Known(j) /\ jobs[j].status # "none"
           /\ Free \notin Jobs /\ Sweep \notin Jobs /\ Free # Sweep
<1>1. jobs[j] \in Job
  BY DEF TypeOK
<1>2. jobs[j].status \in Statuses /\ jobs[j].step \in Steps
  BY <1>1 DEF Job
<1>3. jobs[j].step # "none" => Known(j) /\ jobs[j].status # "none"
  BY <1>2, Names DEF Staged, StatusAt, Held, Known
<1>4. QED
  BY <1>1, <1>2, <1>3, AssessmentAssumption DEF Free, Sweep

\* What a step leaves alone of job i.
Alone(i) ==
    /\ jobs'[i] = jobs[i] /\ files'[i] = files[i] /\ audit'[i] = audit[i]
    /\ creator'[i] = creator[i] /\ key' = key
    /\ loop' = i <=> loop = i
    /\ faults' \in {faults, faults + 1}
    /\ jobs[i].step = "record" => inventory'[jobs[i].vendor].owner = inventory[jobs[i].vendor].owner

\* Left alone, a job keeps its invariant.
LEMMA AloneInv ==
    ASSUME TypeOK, NEW i \in Jobs, JobInv(i), Alone(i)
    PROVE  JobInv(i)'
<1>1. Staged(i)'
  BY DEF JobInv, Staged, Alone, Known
<1>2. Filed(i)'
  BY DEF JobInv, Filed, Alone
<1>3. Owned(i)'
  BY DEF JobInv, Owned, Alone, Known
<1>4. Logged(i)'
  <2>1. faults' = 0 => faults = 0
    BY DEF Alone, TypeOK
  <2>2. QED
    BY <2>1 DEF JobInv, Logged, Alone, Known
<1>5. QED
  BY <1>1, <1>2, <1>3, <1>4 DEF JobInv

\* What the handlers that start job j, its coroutine and its thread do keeps the
\* invariant of j and of every other job (start_scan, _run_assessment).
LEMMA JobStepInv ==
    ASSUME TypeOK, NEW j \in Jobs, JobInv(j), NEW i \in Jobs, JobInv(i),
           \/ StartScan(j) \/ StartScanFails(j) \/ JobStep(j) \/ InventoryFails(j) \/ ScanFails(j)
    PROVE  JobInv(i)'
<1>0. /\ jobs \in [Jobs -> Job] /\ files \in [Jobs -> File] /\ clock \in Nat /\ faults \in Nat
      /\ audit \in [Jobs -> {"none", "started", "complete", "failed"}] /\ loop \in {Free, Sweep} \cup Jobs
      /\ creator \in [Jobs -> Sessions \cup {Nothing}]
  BY DEF TypeOK, StoreTypeOK
<1>00. Staged(j) /\ Filed(j) /\ Owned(j) /\ Logged(j) /\ Staged(i)
  BY DEF JobInv
<1>k. /\ jobs[j].status \in Statuses /\ jobs[j].step \in Steps
      /\ jobs[j].step # "none" => Known(j) /\ jobs[j].status # "none"
      /\ Free \notin Jobs /\ Sweep \notin Jobs /\ Free # Sweep
  BY <1>00, JobsKnown
<1> USE DEF JobInv
<1>1. CASE StartScan(j)
  <2>1. PICK s \in Sessions, ds \in VendorLists :
           jobs' = [jobs EXCEPT ![j] = NewJob("queued", s, ds)] /\ creator' = [creator EXCEPT ![j] = s]
    BY <1>1 DEF StartScan
  <2>2. CASE i # j
    <3>1. Alone(i)
      BY <1>0, <1>1, <2>1, <2>2 DEF StartScan, disk, Alone
    <3>2. QED
      BY <3>1, AloneInv
  <2>3. CASE i = j
    <3>1. /\ jobs'[j].status = "queued" /\ jobs'[j].step = "queued" /\ jobs'[j].owner = s
          /\ jobs'[j].domains = ds /\ jobs'[j].next = 1 /\ creator'[j] = s /\ audit'[j] = "started"
      BY <1>0, <1>1, <2>1 DEF StartScan, NewJob
    <3>2. ds \in Seq(Domains) /\ Len(ds) >= 1
      BY AssessmentAssumption
    <3>3. /\ files' = files /\ loop' = Free /\ jobs[j].status = "none"
      BY <1>1 DEF StartScan, disk
    <3>4. Staged(j)'
      <4>1. 1 \in 1..Len(ds)
        BY <3>2
      <4>2. QED
        BY <3>1, <4>1, <3>3, <1>k, StatusNames DEF Staged
    <3>5. Filed(j)'
      BY <3>1, <3>3, <1>00 DEF Filed
    <3>6. Owned(j)'
      BY <3>1 DEF Owned, Known
    <3>7. Logged(j)'
      BY <3>1 DEF Logged, Known
    <3>8. QED
      BY <2>3, <3>4, <3>5, <3>6, <3>7
  <2>4. QED
    BY <2>2, <2>3
<1>3. CASE NextStage(j)
  <2>1. PICK step \in Steps, status \in Statuses :
           /\ jobs' = To(j, step, status) /\ jobs[j].step # "none" /\ status \in StatusAt(step)
           /\ step \notin Held \cup {"none"} /\ jobs[j].step \notin Held \cup {"none"}
    BY <1>3, Names DEF NextStage, StatusAt, Held
  <2>2. /\ Moved(jobs', j) /\ jobs'[j].step = step /\ jobs'[j].status = status
        /\ jobs'[j].next = jobs[j].next
    BY <1>0, <2>1, MovesTo
  <2>3. UNCHANGED <<inventory, reports, clock, files, key, audit, loop, sweepTime, gets, faults, creator>>
    BY <1>3 DEF NextStage, disk
  <2>4. Staged(j)'
    <3>1. Known(j) /\ jobs[j].next \in 1..Len(jobs[j].domains) /\ loop # j
      BY <1>00, <1>k, <2>1 DEF Staged
    <3>2. jobs'[j].next \in 1..Len(jobs'[j].domains)
      BY <2>2, <3>1 DEF Moved
    <3>3. QED
      BY <3>1, <3>2, <2>1, <2>2, <2>3, StatusNames DEF Staged
  <2>5. Filed(j)'
    BY <1>00, <1>k, <2>1, <2>2, <2>3, Names, StatusNames DEF Filed, Staged
  <2>6. Owned(j)'
    BY <1>00, <2>1, <2>2, <2>3, JobsKnown, Names DEF Owned, Moved, Known, StatusAt, Held
  <2>7. Logged(j)'
    BY <1>00, <2>1, <2>2, <2>3, JobsKnown DEF Logged, Moved, Known, StatusAt, Held
  <2>8. i # j => Alone(i)
    BY <2>2, <2>3 DEF Alone, Moved
  <2>9. QED
    BY <2>4, <2>5, <2>6, <2>7, <2>8, AloneInv
<1>2. CASE StartScanFails(j)
  <2>1. PICK s \in Sessions, ds \in VendorLists :
           jobs' = [jobs EXCEPT ![j] = NewJob("none", s, ds)] /\ creator' = [creator EXCEPT ![j] = s]
    BY <1>2 DEF StartScanFails
  <2>2. CASE i # j
    <3>1. Alone(i)
      BY <1>0, <1>2, <2>1, <2>2 DEF StartScanFails, Fault, disk, Alone
    <3>2. QED
      BY <3>1, AloneInv
  <2>3. CASE i = j
    <3>1. /\ jobs'[j].status = "queued" /\ jobs'[j].step = "none" /\ jobs'[j].owner = s
          /\ jobs'[j].domains = ds /\ jobs'[j].next = 1 /\ creator'[j] = s
      BY <1>0, <2>1 DEF NewJob
    <3>2. ds \in Seq(Domains) /\ Len(ds) >= 1
      BY AssessmentAssumption
    <3>3. /\ files' = files /\ loop' = Free /\ jobs[j].status = "none" /\ audit' = audit
          /\ faults' # 0
      BY <1>0, <1>2 DEF StartScanFails, disk, Fault
    <3>4. Staged(j)'
      <4>1. 1 \in 1..Len(ds)
        BY <3>2
      <4>2. QED
        BY <3>1, <4>1, <3>3, <1>k, StatusNames DEF Staged
    <3>5. Filed(j)'
      BY <3>1, <3>3, <1>00 DEF Filed
    <3>6. Owned(j)'
      BY <3>1 DEF Owned, Known
    <3>7. Logged(j)'
      BY <3>1, <3>3, <1>00 DEF Logged, Known
    <3>8. QED
      BY <2>3, <3>4, <3>5, <3>6, <3>7
  <2>4. QED
    BY <2>2, <2>3
<1>4. CASE BuildPdf(j) \/ Encrypt(j)
  <2>1. PICK step \in {"built", "encrypted"} :
           jobs' = [jobs EXCEPT ![j].step = step] /\ jobs[j].step \in {"building", "built"}
    BY <1>4 DEF BuildPdf, Encrypt
  <2>2. /\ Moved(jobs', j) /\ jobs'[j].step = step /\ jobs'[j].status = jobs[j].status
        /\ jobs'[j].vendor = jobs[j].vendor /\ jobs'[j].next = jobs[j].next
    BY <1>0, <2>1, MovesStep, Names
  <2>3. UNCHANGED <<inventory, reports, clock, files, key, audit, loop, sweepTime, gets, faults, creator>>
    BY <1>4 DEF BuildPdf, Encrypt
  <2>4. Staged(j)'
    <3>1. Known(j) /\ jobs[j].next \in 1..Len(jobs[j].domains) /\ loop # j /\ jobs[j].status = "rendering"
      BY <1>00, <1>k, <2>1, StatusNames DEF Staged
    <3>2. jobs'[j].next \in 1..Len(jobs'[j].domains)
      BY <2>2, <3>1 DEF Moved
    <3>3. QED
      BY <3>1, <3>2, <2>1, <2>2, <2>3, StatusNames DEF Staged
  <2>5. Filed(j)'
    BY <1>00, <2>2, <2>3 DEF Filed
  <2>6. Owned(j)'
    BY <1>00, <2>1, <2>2, <2>3 DEF Owned, Moved, Known
  <2>7. Logged(j)'
    BY <1>00, <2>1, <2>2, <2>3 DEF Logged, Known
  <2>8. i # j => Alone(i)
    BY <2>2, <2>3 DEF Alone, Moved
  <2>9. QED
    BY <2>4, <2>5, <2>6, <2>7, <2>8, AloneInv
<1>5. CASE WriteReport(j)
  <2>1. /\ jobs' = To(j, "upsert", "complete") /\ jobs[j].step = "encrypted" /\ loop = Free /\ loop' = j
        /\ files' = [files EXCEPT ![j] = [at |-> clock, key |-> key]]
        /\ UNCHANGED <<inventory, reports, clock, key, audit, sweepTime, gets, faults, creator>>
    BY <1>5 DEF WriteReport
  <2>2. /\ Moved(jobs', j) /\ jobs'[j].step = "upsert" /\ jobs'[j].status = "complete"
        /\ jobs'[j].next = jobs[j].next
    BY <1>0, <2>1, MovesTo, Names
  <2>3. Known(j) /\ jobs[j].next \in 1..Len(jobs[j].domains)
    BY <1>00, <1>k, <2>1 DEF Staged
  <2>4. Staged(j)'
    <3>1. jobs'[j].next \in 1..Len(jobs'[j].domains)
      BY <2>2, <2>3 DEF Moved
    <3>2. QED
      BY <3>1, <2>1, <2>2, StatusNames DEF Staged
  <2>5. Filed(j)'
    <3>1. files'[j].at = clock /\ files'[j].key = key /\ clock # -1
      BY <1>0, <2>1
    <3>2. files'[j] # NoFile
      BY <3>1 DEF NoFile
    <3>3. QED
      BY <3>1, <3>2, <2>1, <2>2 DEF Filed
  <2>6. Owned(j)'
    BY <1>00, <2>1, <2>2, <2>3 DEF Owned, Moved, Known
  <2>7. Logged(j)'
    BY <1>00, <2>1, <2>2 DEF Logged, Known
  <2>8. i # j => Alone(i)
    BY <1>0, <1>k, <2>1, <2>2 DEF Alone, Moved
  <2>9. QED
    BY <2>4, <2>5, <2>6, <2>7, <2>8, AloneInv
<1>6. CASE UpsertVendor(j)
  <2>1. /\ loop = j /\ jobs[j].step = "upsert"
        /\ UNCHANGED <<reports, clock, files, key, audit, loop, sweepTime, gets, faults, creator>>
    BY <1>6 DEF UpsertVendor, disk
  <2>2. /\ Known(j) /\ jobs[j].status = "complete" /\ jobs[j].owner \in Sessions
        /\ jobs[j].domains[jobs[j].next] \in Domains
    <3>1. Known(j) /\ jobs[j].status = "complete" /\ jobs[j].next \in 1..Len(jobs[j].domains)
      BY <1>00, <1>k, <2>1, StatusNames DEF Staged
    <3>2. jobs[j].domains \in Seq(Domains)
      BY <1>0 DEF Job
    <3>3. QED
      BY <1>00, <3>1, <3>2 DEF Owned, Known
  <2>3. PICK v \in UpsertIds(jobs[j].domains[jobs[j].next], jobs[j].owner) :
           /\ inventory' = Upserted(v, jobs[j].domains[jobs[j].next], jobs[j].owner)
           /\ jobs' = [jobs EXCEPT ![j].vendor = v, ![j].step = "record"]
    BY <1>6 DEF UpsertVendor
  <2>4. v \in VendorIds /\ inventory'[v].owner = jobs[j].owner
    BY <2>2, <2>3, UpsertType DEF TypeOK
  <2>5. /\ Moved(jobs', j) /\ jobs'[j].step = "record" /\ jobs'[j].status = jobs[j].status
        /\ jobs'[j].vendor = v /\ jobs'[j].next = jobs[j].next
    BY <1>0, <2>3, <2>4, MovesVendor, Names
  <2>6. Staged(j)'
    <3>1. jobs[j].next \in 1..Len(jobs[j].domains)
      BY <1>00, <2>2 DEF Staged
    <3>2. jobs'[j].next \in 1..Len(jobs'[j].domains)
      BY <2>5, <3>1 DEF Moved
    <3>3. QED
      BY <3>2, <2>1, <2>2, <2>4, <2>5, StatusNames DEF Staged
  <2>7. Filed(j)'
    BY <1>00, <2>1, <2>5 DEF Filed
  <2>8. Owned(j)'
    BY <1>00, <2>1, <2>2, <2>4, <2>5 DEF Owned, Moved, Known
  <2>9. Logged(j)'
    BY <1>00, <2>1, <2>5 DEF Logged, Known
  <2>10. i # j => Alone(i)
    <3>1. i # j => jobs[i].step # "record"
      BY <1>00, <2>1, StatusNames DEF Staged
    <3>2. QED
      BY <3>1, <2>1, <2>5 DEF Alone, Moved
  <2>11. QED
    BY <2>6, <2>7, <2>8, <2>9, <2>10, AloneInv
<1>7. CASE RecordVendorReport(j) \/ InventoryFails(j)
  <2>1. /\ loop = j /\ jobs[j].step \in {"upsert", "record"} /\ faults' \in {faults, faults + 1}
        /\ UNCHANGED <<inventory, clock, files, key, audit, loop, sweepTime, gets, creator>>
    BY <1>7 DEF RecordVendorReport, InventoryFails, Fault, disk
  <2>2. Known(j) /\ jobs[j].status = "complete" /\ jobs[j].next \in 1..Len(jobs[j].domains)
    BY <1>00, <1>k, <2>1, StatusNames DEF Staged
  <2>3. /\ Moved(jobs', j) /\ jobs'[j].step \in {"upsert", "audit"} /\ jobs'[j].status = jobs[j].status
        /\ jobs'[j].next \in 1..Len(jobs[j].domains)
    <3>1. CASE jobs' = [jobs EXCEPT ![j].step = "audit"]
      <4>1. /\ Moved(jobs', j) /\ jobs'[j].step = "audit" /\ jobs'[j].status = jobs[j].status
            /\ jobs'[j].next = jobs[j].next
        BY <1>0, <3>1, MovesStep, Names
      <4>2. QED
        BY <4>1, <2>2
    <3>2. CASE /\ jobs[j].next < Len(jobs[j].domains)
               /\ jobs' = [jobs EXCEPT ![j].next = @ + 1, ![j].step = "upsert"]
      <4>1. PICK n \in Nat : n = jobs[j].next + 1
        BY <2>2
      <4>2. jobs' = [jobs EXCEPT ![j].next = n, ![j].step = "upsert"]
        BY <3>2, <4>1
      <4>3. /\ Moved(jobs', j) /\ jobs'[j].step = "upsert" /\ jobs'[j].status = jobs[j].status
            /\ jobs'[j].next = n
        BY <1>0, <4>2, MovesNext, Names
      <4>4. Len(jobs[j].domains) \in Nat
        BY <1>0 DEF Job
      <4>5. n \in 1..Len(jobs[j].domains)
        BY <2>2, <3>2, <4>1, <4>4
      <4>6. QED
        BY <4>3, <4>5
    <3>3. QED
      BY <1>7, <3>1, <3>2 DEF RecordVendorReport, InventoryFails
  <2>4. Staged(j)'
    <3>1. jobs'[j].next \in 1..Len(jobs'[j].domains)
      BY <2>3 DEF Moved
    <3>2. QED
      BY <3>1, <2>1, <2>2, <2>3, StatusNames DEF Staged
  <2>5. Filed(j)'
    BY <1>00, <2>1, <2>3 DEF Filed
  <2>6. Owned(j)'
    BY <1>00, <2>1, <2>2, <2>3 DEF Owned, Moved, Known
  <2>7. Logged(j)'
    BY <1>00, <2>1, <2>3 DEF Logged, Known
  <2>8. i # j => Alone(i)
    BY <2>1, <2>3 DEF Alone, Moved
  <2>9. QED
    BY <2>4, <2>5, <2>6, <2>7, <2>8, AloneInv
<1>8. CASE FinishScan(j)
  <2>1. /\ loop = j /\ jobs[j].step = "audit" /\ jobs' = [jobs EXCEPT ![j].step = "none"]
        /\ loop' = Free /\ audit' = [audit EXCEPT ![j] = "complete"]
        /\ UNCHANGED <<inventory, clock, files, key, sweepTime, gets, faults, creator>>
    BY <1>8 DEF FinishScan, disk
  <2>2. Known(j) /\ jobs[j].status = "complete" /\ jobs[j].next \in 1..Len(jobs[j].domains)
    BY <1>00, <1>k, <2>1, StatusNames DEF Staged
  <2>3. /\ Moved(jobs', j) /\ jobs'[j].step = "none" /\ jobs'[j].status = jobs[j].status
        /\ jobs'[j].next = jobs[j].next
    BY <1>0, <2>1, MovesStep, Names
  <2>4. Staged(j)'
    <3>1. jobs'[j].next \in 1..Len(jobs'[j].domains)
      BY <2>2, <2>3 DEF Moved
    <3>2. QED
      BY <3>1, <1>k, <2>1, <2>2, <2>3, StatusNames DEF Staged
  <2>5. Filed(j)'
    BY <1>00, <2>1, <2>3 DEF Filed
  <2>6. Owned(j)'
    BY <1>00, <2>1, <2>2, <2>3 DEF Owned, Moved, Known
  <2>7. Logged(j)'
    <3>1. audit'[j] = "complete"
      BY <1>0, <2>1
    <3>2. QED
      BY <2>2, <2>3, <3>1 DEF Logged
  <2>8. i # j => Alone(i)
    BY <1>0, <1>k, <2>1, <2>3 DEF Alone, Moved
  <2>9. QED
    BY <2>4, <2>5, <2>6, <2>7, <2>8, AloneInv
<1>9. CASE ScanFails(j)
  <2>1. /\ jobs' = To(j, "none", "failed") /\ loop' = Free /\ loop \in {Free, j} /\ faults' = faults + 1
        /\ jobs[j].step # "none" /\ (audit' = [audit EXCEPT ![j] = "failed"] \/ audit' = audit)
        /\ files' = files \/ files' = [files EXCEPT ![j] = [at |-> clock, key |-> -1]]
        /\ UNCHANGED <<inventory, clock, key, sweepTime, gets, creator>>
    BY <1>9 DEF ScanFails, disk, Fault, FailedStatus
  <2>2. Known(j) /\ jobs[j].next \in 1..Len(jobs[j].domains) /\ audit[j] = "started"
    BY <1>00, <1>k, <2>1 DEF Staged, Logged
  <2>3. /\ Moved(jobs', j) /\ jobs'[j].step = "none" /\ jobs'[j].status = "failed"
        /\ jobs'[j].next = jobs[j].next
    BY <1>0, <2>1, MovesTo, Names
  <2>4. Staged(j)'
    <3>1. jobs'[j].next \in 1..Len(jobs'[j].domains)
      BY <2>2, <2>3 DEF Moved
    <3>2. QED
      BY <3>1, <1>k, <2>1, <2>3, StatusNames DEF Staged
  <2>5. Filed(j)'
    BY <2>3 DEF Filed
  <2>6. Owned(j)'
    BY <1>00, <2>1, <2>2, <2>3 DEF Owned, Moved, Known
  <2>7. Logged(j)'
    <3>1. faults' # 0 /\ audit'[j] \in {"failed", "started"}
      BY <1>0, <2>1, <2>2
    <3>2. QED
      BY <2>3, <3>1 DEF Logged
  <2>8. i # j => Alone(i)
    BY <1>0, <1>k, <2>1, <2>3 DEF Alone, Moved
  <2>9. QED
    BY <2>4, <2>5, <2>6, <2>7, <2>8, AloneInv
<1>10. QED
  BY <1>1, <1>2, <1>3, <1>4, <1>5, <1>6, <1>7, <1>8, <1>9 DEF JobStep

\* The sweep's removal of a file, the downloads, the clock and a restart.
LEMMA OtherStepInv ==
    ASSUME TypeOK, NEW i \in Jobs, JobInv(i),
           \/ SweepStep \/ Tick \/ Restart
           \/ \E g \in Requests, s \in Sessions : \/ \E j \in Jobs : GetJobReport(g, s, j)
                                                \/ \E v \in VendorIds : DownloadVendorReport(g, s, v)
           \/ \E g \in Requests : ReadReport(g)
    PROVE  JobInv(i)'
<1>0. /\ jobs \in [Jobs -> Job] /\ files \in [Jobs -> File] /\ clock \in Nat /\ faults \in Nat
      /\ Staged(i) /\ Filed(i) /\ Owned(i) /\ Logged(i)
  BY DEF TypeOK, StoreTypeOK, JobInv
<1>k. Free \notin Jobs /\ Sweep \notin Jobs /\ Free # Sweep
  BY <1>0, JobsKnown
<1>1. ASSUME Alone(i) PROVE JobInv(i)'
  BY <1>1, AloneInv
<1>2. CASE StartSweep \/ SweepRows
  <2>1. Alone(i)
    BY <1>k, <1>2 DEF StartSweep, SweepRows, Fault, Alone, disk
  <2>2. QED
    BY <1>1, <2>1
<1>3. ASSUME NEW j \in Jobs, RemoveExpired(j) PROVE JobInv(i)'
  <2>1. /\ loop = Sweep /\ files[j] # NoFile /\ files' = [files EXCEPT ![j] = NoFile]
        /\ UNCHANGED <<inventory, key, audit, loop, faults, creator>>
        /\ \/ Known(j) /\ jobs' = [jobs EXCEPT ![j].status = "expired"]
           \/ ~Known(j) /\ jobs' = jobs
    BY <1>3 DEF RemoveExpired, TooOld, Expired
  <2>2. CASE i # j
    <3>1. jobs'[i] = jobs[i]
      BY <1>0, <2>1, <2>2
    <3>2. Alone(i)
      BY <1>0, <2>1, <2>2, <3>1 DEF Alone
    <3>3. QED
      BY <1>1, <3>2
  <2>3. CASE i = j /\ ~Known(j)
    <3>1. jobs' = jobs /\ jobs[j].status \in {"none", "lost"} /\ files'[j] = NoFile
      BY <1>0, <2>1, <2>3 DEF Known
    <3>2. Staged(j)' /\ Owned(j)' /\ Logged(j)'
      BY <1>0, <2>1, <2>3, <3>1 DEF Staged, Owned, Logged, Known
    <3>3. Filed(j)'
      BY <1>0, <3>1 DEF Filed
    <3>4. QED
      BY <2>3, <3>2, <3>3 DEF JobInv
  <2>4. CASE i = j /\ Known(j)
    <3>1. jobs' = [jobs EXCEPT ![j].status = "expired"] /\ files'[j] = NoFile
      BY <1>0, <2>1, <2>4
    <3>2. /\ Moved(jobs', j) /\ jobs'[j].step = jobs[j].step /\ jobs'[j].status = "expired"
          /\ jobs'[j].vendor = jobs[j].vendor /\ jobs'[j].next = jobs[j].next
      BY <1>0, <3>1, MovesStatus, Names
    <3>3. jobs[j].status \in {"complete", "failed", "lost"} /\ jobs[j].step \notin Held
      BY <1>0, <1>k, <2>1, <2>4 DEF Filed, Staged
    <3>4. jobs[j].step = "none"
      <4>1. jobs[j].status \in StatusAt(jobs[j].step) /\ jobs[j].step \in Steps
        BY <1>0, <2>4 DEF Staged, Job
      <4>2. QED
        BY <3>3, <4>1, StatusNames, Names
    <3>5. Staged(j)'
      <4>1. jobs'[j].next \in 1..Len(jobs'[j].domains)
        BY <1>0, <2>4, <3>2 DEF Staged, Moved
      <4>2. QED
        BY <1>k, <2>1, <3>2, <3>4, <4>1, StatusNames DEF Staged
    <3>6. Filed(j)'
      BY <3>1, <3>2 DEF Filed
    <3>7. Owned(j)'
      BY <1>0, <2>1, <2>4, <3>2, <3>4 DEF Owned, Moved, Known
    <3>8. Logged(j)'
      BY <1>0, <2>1, <2>4, <3>2, <3>4 DEF Logged, Known
    <3>9. QED
      BY <2>4, <3>5, <3>6, <3>7, <3>8 DEF JobInv
  <2>5. QED
    BY <2>2, <2>3, <2>4
<1>4. ASSUME NEW g \in Requests, NEW s \in Sessions, NEW j \in Jobs, GetJobReport(g, s, j)
      PROVE  JobInv(i)'
  BY <1>1, <1>4 DEF GetJobReport, Alone, disk
<1>5. ASSUME NEW g \in Requests, NEW s \in Sessions, NEW v \in VendorIds, DownloadVendorReport(g, s, v)
      PROVE  JobInv(i)'
  BY <1>1, <1>5 DEF DownloadVendorReport, Alone, disk
<1>6. ASSUME NEW g \in Requests, ReadReport(g) PROVE JobInv(i)'
  BY <1>1, <1>6 DEF ReadReport, Alone, disk
<1>7. CASE Tick
  BY <1>1, <1>7 DEF Tick, Alone, disk
<1>8. CASE Restart
  <2>1. /\ jobs'[i] = IF jobs[i].status = "none" THEN NoJob ELSE [NoJob EXCEPT !.status = "lost"]
        /\ loop' = Free /\ faults' = faults + 1 /\ UNCHANGED <<inventory, files, audit, creator>>
    BY <1>8 DEF Restart, disk, Fault
  <2>2. /\ jobs'[i].step = "none" /\ jobs'[i].status \in {"none", "lost"}
        /\ jobs'[i].status = "none" <=> jobs[i].status = "none"
    BY <2>1 DEF NoJob
  <2>3. Staged(i)'
    BY <1>k, <2>1, <2>2, StatusNames DEF Staged, Known
  <2>4. Filed(i)'
    BY <1>0, <2>1, <2>2 DEF Filed
  <2>5. Owned(i)'
    BY <1>0, <2>1, <2>2 DEF Owned, Known
  <2>6. Logged(i)'
    BY <1>0, <2>1, <2>2 DEF Logged, Known
  <2>7. QED
    BY <2>3, <2>4, <2>5, <2>6 DEF JobInv
<1>9. QED
  BY <1>2, <1>3, <1>4, <1>5, <1>6, <1>7, <1>8 DEF SweepStep

-----------------------------------------------------------------------------
(* The rows and the downloads.                                             *)

\* What was ever said of a job's session, or of a vendor row, stays.
Keeps ==
    /\ \A i \in Jobs : jobs[i].status # "none" =>
          creator'[i] = creator[i] /\ jobs'[i].status # "none"
    /\ \A v \in VendorIds : inventory[v] # NoVendor => inventory'[v] = inventory[v]

\* No step takes a job's session or a vendor row back: upsert_vendor never hands
\* a row to another session.
LEMMA StepKeeps ==
    ASSUME TypeOK, \A j \in Jobs : JobInv(j), [Next]_vars
    PROVE  Keeps
<1>0. /\ jobs \in [Jobs -> Job] /\ creator \in [Jobs -> Sessions \cup {Nothing}] /\ StoreTypeOK
      /\ \A j \in Jobs : Staged(j) /\ Owned(j)
  BY DEF TypeOK, JobInv
<1>1. ASSUME NEW j \in Jobs, StartScan(j) \/ StartScanFails(j) PROVE Keeps
  <2>1. /\ jobs[j].status = "none" /\ inventory' = inventory
        /\ \A i \in Jobs \ {j} : jobs'[i] = jobs[i] /\ creator'[i] = creator[i]
    BY <1>0, <1>1 DEF StartScan, StartScanFails
  <2>2. QED
    BY <2>1 DEF Keeps
<1>2. ASSUME NEW j \in Jobs, Moved(jobs', j), jobs'[j].status # "none", creator' = creator,
             \A v \in VendorIds : inventory[v] # NoVendor => inventory'[v] = inventory[v]
      PROVE  Keeps
  BY <1>2 DEF Keeps, Moved
<1>3. ASSUME NEW j \in Jobs, NextStage(j) \/ WriteReport(j) \/ ScanFails(j) PROVE Keeps
  <2>1. PICK step \in Steps, status \in Statuses :
           jobs' = To(j, step, status) /\ status # "none" /\ creator' = creator /\ inventory' = inventory
    BY <1>3, Names DEF NextStage, WriteReport, ScanFails, FailedStatus
  <2>2. Moved(jobs', j) /\ jobs'[j].status = status
    BY <1>0, <2>1, MovesTo
  <2>3. QED
    BY <1>2, <2>1, <2>2
<1>4. ASSUME NEW j \in Jobs, BuildPdf(j) \/ Encrypt(j) \/ InventoryFails(j) \/ FinishScan(j) PROVE Keeps
  <2>1. PICK step \in Steps :
           /\ jobs' = [jobs EXCEPT ![j].step = step] /\ creator' = creator /\ inventory' = inventory
           /\ jobs[j].step # "none"
    BY <1>4, Names DEF BuildPdf, Encrypt, InventoryFails, FinishScan
  <2>2. Moved(jobs', j) /\ jobs'[j].status = jobs[j].status
    BY <1>0, <2>1, MovesStep
  <2>3. jobs[j].status # "none"
    BY <1>0, <2>1, JobsKnown
  <2>4. QED
    BY <1>2, <2>1, <2>2, <2>3
<1>5. ASSUME NEW j \in Jobs, RecordVendorReport(j) PROVE Keeps
  <2>1. /\ jobs[j].status # "none" /\ creator' = creator /\ inventory' = inventory
        /\ \A i \in Jobs : jobs'[i].status = jobs[i].status
    <3>1. jobs[j].status # "none"
      BY <1>0, <1>5, JobsKnown DEF RecordVendorReport
    <3>2. PICK n \in Nat : n = jobs[j].next + 1
      BY <1>0 DEF Job
    <3>3. CASE jobs' = [jobs EXCEPT ![j].next = n, ![j].step = "upsert"]
      <4>1. Moved(jobs', j) /\ jobs'[j].status = jobs[j].status
        BY <1>0, <3>3, MovesNext, Names
      <4>2. QED
        BY <1>5, <3>1, <4>1 DEF RecordVendorReport, Moved
    <3>4. CASE jobs' = [jobs EXCEPT ![j].step = "audit"]
      <4>1. Moved(jobs', j) /\ jobs'[j].status = jobs[j].status
        BY <1>0, <3>4, MovesStep, Names
      <4>2. QED
        BY <1>5, <3>1, <4>1 DEF RecordVendorReport, Moved
    <3>5. QED
      BY <1>5, <3>1, <3>2, <3>3, <3>4 DEF RecordVendorReport
  <2>2. QED
    BY <2>1 DEF Keeps
<1>6. ASSUME NEW j \in Jobs, UpsertVendor(j) PROVE Keeps
  <2>1. jobs[j].status # "none" /\ creator' = creator
    BY <1>0, <1>6, JobsKnown DEF UpsertVendor
  <2>2. PICK v \in UpsertIds(jobs[j].domains[jobs[j].next], jobs[j].owner) :
           /\ inventory' = Upserted(v, jobs[j].domains[jobs[j].next], jobs[j].owner)
           /\ jobs' = [jobs EXCEPT ![j].vendor = v, ![j].step = "record"]
    BY <1>6 DEF UpsertVendor
  <2>3. v \in VendorIds /\ \A w \in VendorIds : inventory[w] # NoVendor => inventory'[w] = inventory[w]
    BY <1>0, <2>2 DEF UpsertIds, Upserted, StoreTypeOK
  <2>4. Moved(jobs', j) /\ jobs'[j].status = jobs[j].status
    BY <1>0, <2>2, <2>3, MovesVendor, Names
  <2>5. QED
    BY <1>2, <2>1, <2>3, <2>4
<1>7. ASSUME NEW j \in Jobs, RemoveExpired(j) PROVE Keeps
  <2>1. /\ creator' = creator /\ inventory' = inventory
        /\ \/ jobs' = [jobs EXCEPT ![j].status = "expired"]
           \/ jobs' = jobs
    BY <1>7 DEF RemoveExpired, Expired
  <2>2. CASE jobs' = [jobs EXCEPT ![j].status = "expired"]
    <3>1. Moved(jobs', j) /\ jobs'[j].status = "expired"
      BY <1>0, <2>2, MovesStatus, Names
    <3>2. QED
      BY <1>2, <2>1, <3>1
  <2>3. QED
    BY <2>1, <2>2 DEF Keeps
<1>8. CASE Restart
  <2>1. \A i \in Jobs : jobs[i].status # "none" => jobs'[i].status # "none"
    BY <1>8 DEF Restart, NoJob
  <2>2. QED
    BY <1>8, <2>1 DEF Restart, Keeps
<1>9. ASSUME UNCHANGED <<inventory, jobs, creator>> PROVE Keeps
  BY <1>9 DEF Keeps
<1>10. CASE StartSweep \/ SweepRows \/ Tick \/ UNCHANGED vars
  BY <1>9, <1>10 DEF StartSweep, SweepRows, Tick, vars
<1>11. ASSUME NEW g \in Requests, NEW s \in Sessions, NEW j \in Jobs, GetJobReport(g, s, j) PROVE Keeps
  BY <1>9, <1>11 DEF GetJobReport
<1>12. ASSUME NEW g \in Requests, NEW s \in Sessions, NEW v \in VendorIds, DownloadVendorReport(g, s, v)
       PROVE  Keeps
  BY <1>9, <1>12 DEF DownloadVendorReport
<1>13. ASSUME NEW g \in Requests, ReadReport(g) PROVE Keeps
  BY <1>9, <1>13 DEF ReadReport
<1>14. QED
  BY <1>1, <1>3, <1>4, <1>5, <1>6, <1>7, <1>8, <1>10, <1>11, <1>12, <1>13 DEF Next, JobStep, SweepStep

\* Report rows stay under the vendors and jobs of their sessions (record_report,
\* delete_expired_report_rows).
LEMMA RowStep ==
    ASSUME TypeOK, \A j \in Jobs : JobInv(j), RowInv, [Next]_vars
    PROVE  RowInv'
<1>0. /\ StoreTypeOK /\ Keeps /\ \A j \in Jobs : Staged(j) /\ Owned(j)
  BY StepKeeps DEF TypeOK, JobInv
<1>1. ASSUME NEW r \in reports
      PROVE  /\ inventory'[r.vendor].owner = r.owner
             /\ creator'[r.job] = r.owner /\ jobs'[r.job].status # "none"
  <2>1. r.vendor \in VendorIds /\ r.job \in Jobs /\ r.owner \in Sessions
    BY <1>0 DEF StoreTypeOK, Report
  <2>2. /\ inventory[r.vendor].owner = r.owner
        /\ creator[r.job] = r.owner /\ jobs[r.job].status # "none"
    BY DEF RowInv
  <2>3. inventory[r.vendor] # NoVendor
    BY <2>1, <2>2, ReportStoreAssumption DEF NoVendor
  <2>4. QED
    BY <1>0, <2>1, <2>2, <2>3 DEF Keeps
<1>2. ASSUME reports' \subseteq reports PROVE RowInv'
  BY <1>1, <1>2 DEF RowInv
<1>3. ASSUME NEW j \in Jobs, RecordVendorReport(j) PROVE RowInv'
  <2>1. PICK t : reports' = reports \cup {[vendor |-> jobs[j].vendor, job |-> j, owner |-> jobs[j].owner,
                                           expires |-> t]}
    BY <1>3 DEF RecordVendorReport, RecordReport
  <2>2. /\ Known(j) /\ jobs[j].status # "none" /\ inventory' = inventory
        /\ inventory[jobs[j].vendor].owner = jobs[j].owner /\ creator[j] = jobs[j].owner
    BY <1>0, <1>3, JobsKnown DEF RecordVendorReport, Owned
  <2>3. creator'[j] = creator[j] /\ jobs'[j].status # "none"
    BY <1>0, <2>2 DEF Keeps
  <2>4. QED
    BY <1>1, <2>1, <2>2, <2>3 DEF RowInv
<1>4. CASE SweepRows
  <2>1. reports' \subseteq reports
    BY <1>4 DEF SweepRows, Unexpired
  <2>2. QED
    BY <1>2, <2>1
<1>5. ASSUME NEW j \in Jobs,
             \/ StartScan(j) \/ StartScanFails(j) \/ NextStage(j) \/ BuildPdf(j) \/ Encrypt(j)
             \/ WriteReport(j) \/ UpsertVendor(j) \/ InventoryFails(j) \/ FinishScan(j) \/ ScanFails(j)
             \/ RemoveExpired(j)
      PROVE  RowInv'
  BY <1>2, <1>5 DEF StartScan, StartScanFails, NextStage, BuildPdf, Encrypt, WriteReport, UpsertVendor,
                    InventoryFails, FinishScan, ScanFails, RemoveExpired
<1>6. CASE StartSweep \/ Tick \/ Restart \/ UNCHANGED vars
  BY <1>2, <1>6 DEF StartSweep, Tick, Restart, vars
<1>7. ASSUME NEW g \in Requests, NEW s \in Sessions, NEW j \in Jobs, GetJobReport(g, s, j) PROVE RowInv'
  BY <1>2, <1>7 DEF GetJobReport
<1>8. ASSUME NEW g \in Requests, NEW s \in Sessions, NEW v \in VendorIds, DownloadVendorReport(g, s, v)
      PROVE  RowInv'
  BY <1>2, <1>8 DEF DownloadVendorReport
<1>9. ASSUME NEW g \in Requests, ReadReport(g) PROVE RowInv'
  BY <1>2, <1>9 DEF ReadReport
<1>10. QED
  BY <1>3, <1>4, <1>5, <1>6, <1>7, <1>8, <1>9 DEF Next, JobStep, SweepStep

\* What GetInv says of a download, of any entry.
Sound(get) ==
    get.phase = "reading" \/ get.outcome = 200 =>
        /\ get.job \in Jobs
        /\ get.session = creator[get.job]
        /\ jobs[get.job].status # "none"

\* A download that reads, or has read, does so for the session of the job
\* (_require_job_owner, download_vendor_report).
LEMMA GetStep ==
    ASSUME TypeOK, \A j \in Jobs : JobInv(j), RowInv, GetInv, [Next]_vars
    PROVE  GetInv'
<1>0. /\ StoreTypeOK /\ Keeps /\ gets \in [Requests -> Get] /\ \A j \in Jobs : Owned(j)
      /\ \A g \in Requests : Sound(gets[g])
  BY StepKeeps DEF TypeOK, JobInv, GetInv, Sound
<1>1. \A get : Sound(get) => Sound(get)'
  BY <1>0 DEF Sound, Keeps
<1>2. ASSUME NEW g \in Requests, NEW get, Sound(get), gets' = [gets EXCEPT ![g] = get] PROVE GetInv'
  <2>1. \A h \in Requests : gets'[h] = get \/ gets'[h] = gets[h]
    BY <1>0, <1>2
  <2>2. QED
    BY <1>0, <1>1, <1>2, <2>1 DEF GetInv, Sound
<1>3. ASSUME NEW s \in Sessions, NEW code \in {404, 403, 410, 409} PROVE Sound(Refused(s, code))
  BY DEF Sound, Refused
<1>4. ASSUME NEW s \in Sessions, NEW j \in Jobs, creator[j] = s, jobs[j].status # "none"
      PROVE  Sound(Opened(s, j))
  BY <1>4 DEF Sound, Opened
<1>5. ASSUME NEW g \in Requests, NEW s \in Sessions, NEW j \in Jobs, GetJobReport(g, s, j) PROVE GetInv'
  <2>1. CASE \E code \in {404, 403, 410, 409} : gets' = [gets EXCEPT ![g] = Refused(s, code)]
    <3>1. PICK code \in {404, 403, 410, 409} : gets' = [gets EXCEPT ![g] = Refused(s, code)]
      BY <2>1
    <3>2. Sound(Refused(s, code))
      BY <1>3
    <3>3. QED
      BY <1>2, <3>1, <3>2
  <2>2. CASE Known(j) /\ OwnsJob(j, s) /\ gets' = [gets EXCEPT ![g] = Opened(s, j)]
    <3>1. creator[j] = s /\ jobs[j].status # "none"
      BY <1>0, <2>2 DEF Owned, OwnsJob, Known
    <3>2. QED
      BY <1>2, <1>4, <2>2, <3>1
  <2>3. QED
    BY <1>5, <2>1, <2>2 DEF GetJobReport, Answer, Reading
<1>6. ASSUME NEW g \in Requests, NEW s \in Sessions, NEW v \in VendorIds, DownloadVendorReport(g, s, v)
      PROVE  GetInv'
  <2>1. CASE \E code \in {404, 410} : gets' = [gets EXCEPT ![g] = Refused(s, code)]
    <3>1. PICK code \in {404, 410} : gets' = [gets EXCEPT ![g] = Refused(s, code)]
      BY <2>1
    <3>2. Sound(Refused(s, code))
      BY <1>3
    <3>3. QED
      BY <1>2, <3>1, <3>2
  <2>2. ASSUME NEW r \in ReportsOf(v, s), gets' = [gets EXCEPT ![g] = Opened(s, r.job)] PROVE GetInv'
    <3>1. r \in reports /\ r.owner = s
      BY DEF ReportsOf
    <3>2. r.job \in Jobs /\ creator[r.job] = s /\ jobs[r.job].status # "none"
      BY <1>0, <3>1 DEF RowInv, StoreTypeOK, Report
    <3>3. QED
      BY <1>2, <1>4, <2>2, <3>2
  <2>3. QED
    BY <1>6, <2>1, <2>2 DEF DownloadVendorReport, Answer, Reading
<1>7. ASSUME NEW g \in Requests, ReadReport(g) PROVE GetInv'
  <2>1. PICK code : gets' = [gets EXCEPT ![g] = Finished(gets[g], code)]
    BY <1>7, ZenonT(60) DEF ReadReport
  <2>2. Sound(gets[g]) /\ gets[g].phase = "reading"
    BY <1>0, <1>7 DEF ReadReport
  <2>3. Sound(Finished(gets[g], code))
    BY <2>2 DEF Sound, Finished
  <2>4. QED
    BY <1>2, <2>1, <2>3
<1>8. ASSUME UNCHANGED gets PROVE GetInv'
  BY <1>0, <1>1, <1>8 DEF GetInv, Sound
<1>9. ASSUME NEW j \in Jobs,
             \/ StartScan(j) \/ StartScanFails(j) \/ NextStage(j) \/ BuildPdf(j) \/ Encrypt(j)
             \/ WriteReport(j) \/ UpsertVendor(j) \/ RecordVendorReport(j) \/ InventoryFails(j)
             \/ FinishScan(j) \/ ScanFails(j) \/ RemoveExpired(j)
      PROVE  GetInv'
  BY <1>8, <1>9 DEF StartScan, StartScanFails, NextStage, BuildPdf, Encrypt, WriteReport, UpsertVendor,
                    RecordVendorReport, InventoryFails, FinishScan, ScanFails, RemoveExpired
<1>10. CASE StartSweep \/ SweepRows \/ Tick \/ UNCHANGED vars
  BY <1>8, <1>10 DEF StartSweep, SweepRows, Tick, vars
<1>11. CASE Restart
  <2>1. \A g \in Requests : gets'[g] = gets[g] \/ gets'[g] = [NoGet EXCEPT !.phase = "done"]
    BY <1>11 DEF Restart
  <2>2. Sound([NoGet EXCEPT !.phase = "done"])
    BY DEF Sound, NoGet
  <2>3. PICK now : now = gets'
    OBVIOUS
  <2>4. \A g \in Requests : Sound(now[g])
    BY <1>0, <2>1, <2>2, <2>3
  <2>5. \A g \in Requests : Sound(now[g])'
    BY <1>1, <2>4
  <2>6. QED
    BY <2>3, <2>5 DEF GetInv, Sound
<1>12. QED
  BY <1>5, <1>6, <1>7, <1>9, <1>10, <1>11 DEF Next, JobStep, SweepStep

-----------------------------------------------------------------------------
(* The theorems.                                                           *)

\* The process starts with no job, file, row or download.
LEMMA AssessInit == Init => AssessInv
<1> SUFFICES ASSUME Init PROVE AssessInv
  OBVIOUS
<1>1. TypeOK
  <2>1. NoFile \in File /\ NoGet \in Get
    BY DEF NoFile, File, NoGet, Get
  <2>2. QED
    BY <2>1, NewJobs DEF Init, StoreInit, TypeOK, StoreTypeOK
<1>2. ASSUME NEW j \in Jobs PROVE JobInv(j)
  <2>1. /\ jobs[j].status = "none" /\ jobs[j].step = "none" /\ files[j] = NoFile /\ audit[j] = "none"
        /\ loop = Free
    BY DEF Init, NoJob
  <2>2. Free \notin Jobs
    BY AssessmentAssumption DEF Free
  <2>3. Staged(j)
    BY <2>1, <2>2, StatusNames DEF Staged, Known
  <2>4. Filed(j) /\ Owned(j) /\ Logged(j)
    BY <2>1 DEF Filed, Owned, Logged, Known
  <2>5. QED
    BY <2>3, <2>4 DEF JobInv
<1>3. RowInv
  BY DEF Init, StoreInit, RowInv
<1>4. GetInv
  BY DEF Init, GetInv, NoGet
<1>5. QED
  BY <1>1, <1>2, <1>3, <1>4 DEF AssessInv

\* Every step of the coroutines, threads, sweep and downloads keeps the invariant.
LEMMA AssessStep == AssessInv /\ [Next]_vars => AssessInv'
<1> SUFFICES ASSUME AssessInv, [Next]_vars PROVE AssessInv'
  OBVIOUS
<1>0. TypeOK /\ (\A j \in Jobs : JobInv(j)) /\ RowInv /\ GetInv
  BY DEF AssessInv
<1>1. TypeOK' /\ RowInv' /\ GetInv'
  BY <1>0, TypeStep, RowStep, GetStep
<1>2. ASSUME NEW i \in Jobs PROVE JobInv(i)'
  <2>1. CASE \E j \in Jobs : \/ StartScan(j) \/ StartScanFails(j) \/ JobStep(j)
                            \/ InventoryFails(j) \/ ScanFails(j)
    BY <1>0, <2>1, JobStepInv
  <2>2. CASE \/ SweepStep \/ Tick \/ Restart
             \/ \E g \in Requests, s \in Sessions : \/ \E j \in Jobs : GetJobReport(g, s, j)
                                                  \/ \E v \in VendorIds : DownloadVendorReport(g, s, v)
             \/ \E g \in Requests : ReadReport(g)
    BY <1>0, <2>2, OtherStepInv
  <2>3. CASE UNCHANGED vars
    <3>1. Alone(i)
      BY <2>3 DEF vars, disk, Alone
    <3>2. QED
      BY <1>0, <3>1, AloneInv
  <2>4. QED
    BY <2>1, <2>2, <2>3 DEF Next
<1>3. QED
  BY <1>1, <1>2 DEF AssessInv

\* So the invariant holds always.
LEMMA AssessInvHolds == Spec => []AssessInv
BY AssessInit, AssessStep, PTL DEF Spec

\* Every variable has its type, whatever fails and however often the process
\* restarts; a coroutine never looks up a vendor beyond its list (_run_assessment).
THEOREM AssessmentTypes == Spec => []TypeOK
<1>1. AssessInv => TypeOK
  BY DEF AssessInv
<1>2. QED
  BY <1>1, AssessInvHolds, PTL

\* A job that says complete has its report on disk under the key of this process:
\* neither the sweep nor a failure on the way takes it away without the status
\* saying so (_run_assessment, _cleanup_expired_reports).
THEOREM CompleteJobsDeliver == Spec => []CompleteHasReport
<1>1. AssessInv => CompleteHasReport
  BY DEF AssessInv, JobInv, Filed, CompleteHasReport
<1>2. QED
  BY <1>1, AssessInvHolds, PTL

\* A report is served to the session that started its job and to no other, by job
\* or from the inventory, over any restarts (_require_job_owner,
\* download_vendor_report).
THEOREM ReportsStayPrivate == Spec => []OnlyOwnersRead
<1>1. AssessInv => OnlyOwnersRead
  BY DEF AssessInv, GetInv, OnlyOwnersRead
<1>2. QED
  BY <1>1, AssessInvHolds, PTL

\* A report row stands under a vendor row of its own session, whichever sessions
\* assess the same domain in whatever order (upsert_vendor, record_report).
THEOREM RowsKeepTheirOwner == Spec => []RowsUnderOwnVendor
<1>1. AssessInv => RowsUnderOwnVendor
  BY DEF AssessInv, RowInv, RowsUnderOwnVendor
<1>2. QED
  BY <1>1, AssessInvHolds, PTL

\* The audit log says complete of jobs whose report was written, failed of jobs
\* that failed, and without faults leaves no ended job at started
\* (record_scan_started, record_scan_finished).
THEOREM LogsAreTrue == Spec => []AuditMatches
<1>1. AssessInv => AuditMatches
  BY DEF AssessInv, JobInv, Logged, AuditMatches
<1>2. QED
  BY <1>1, AssessInvHolds, PTL
=============================================================================
