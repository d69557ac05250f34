# A formal model of the Vendor Monitoring Tool

This directory models the FastAPI service under `src/app` in TLA+, checks small
instances of the models with TLC and proves the main results for every size with
TLAPS. It is written for somebody who has the code open next to it: definitions
keep the names of the functions and variables they stand for, and the comment of
each one names what it leaves out. `PROJECT.json` has the run list, the source
lines behind each definition and the hazards the properties are for.

- [1. The system](#1-the-system)
- [2. The modules and the code](#2-the-modules-and-the-code)
- [3. What the runs check](#3-what-the-runs-check)
- [4. Where the code departs from what the repository says](#4-where-the-code-departs-from-what-the-repository-says)
- [5. What is proved](#5-what-is-proved)
- [6. What is not modelled](#6-what-is-not-modelled)
- [7. Plan](#7-plan)

## 1. The system

One Python process runs one asyncio event loop. Two tools share it: the *risk
assessment* tool (`main.py`: upload a list of vendors, get an encrypted PDF) and the
*threat detector* (`detector_routes.py`: run detectors on vendors, keep an inventory,
monitor vendors continuously). A coroutine keeps the loop from one `await` to the
next; `asyncio.to_thread` is the only thing that runs beside it. Everything durable is
in three SQLite files, each function of a store committing once, and in a directory of
report files. Everything else - jobs, caches, rate limits, the fallback encryption
key - is gone after a restart.

| Component | State | Operations | Talks to |
|---|---|---|---|
| Vendor and monitoring store `monitoring/store.py` | tables vendors, monitoring_configs, score_history, alerts | upsert, update, delete a vendor; set, stop, mark a configuration; record a score, an alert, a delivery | called by the scheduler and the endpoints |
| Scheduler `monitoring/scheduler.py` | none of its own; one coroutine per due vendor, a semaphore | poll for due vendors; per vendor: scan, record, compare, alert, mark | store, orchestrator, notifications |
| Notifications `monitoring/notifications.py` | - | POST a webhook, answered 2xx or not | the alert's webhook URL |
| Detection jobs and inventory endpoints `detector_routes.py` | `_detect_jobs` (memory) | start a job, rescan; edit and delete vendors; start and stop monitoring | store, orchestrator, domain discovery |
| Orchestrator and cache `detectors/orchestrator.py`, `detector_cache.py` | `_cache` (memory, 24 h) | run detectors for one vendor or a batch: look up, scan once, derive, store | base scanner, detectors |
| Assessment jobs and downloads `main.py` | `_jobs` (memory), `generated_reports/*.pdf.enc` | scan, analyse, render, encrypt, file; sweep; download | report store, audit log, encryption, scanner |
| Uploads `main.py`, `ingestion.py`, `domain_discovery.py` | `_rate_buckets` (memory) | limit, read a vendor list or guess a website, start a job | assessment jobs |
| Report store `report_store.py` | tables vendors, vendor_reports | upsert, record, list, delete what expired | assessment jobs, downloads, sweep |
| Encryption `report_encryption.py` | the key, from the environment or made at start-up | encrypt, decrypt | assessment jobs, downloads |
| Audit log `audit_log.py` | table scan_audit_log | started, finished, statistics | assessment jobs |
| Base scanner `scanner/engine.py` | one `ScanResult` under construction | probe the site, TLS, DNS, certificate logs and the CVE feed | public services |
| Scoring, compliance, letter grades | - | pure functions of a scan | both tools |
| Scan-derived detectors `detectors/` | - | conclude from the scan and from look-ups of their own | orchestrator |
| Independent detectors `exploitation.py`, `phishing.py` | `_kev_cache` (memory, 6 h) | fetch a catalogue, search for lookalike domains | orchestrator |
| Executive report `executive_report.py` | - | status, critical count and items of a result or of a score row | detection jobs, history |
| Decks, sheets, PDF layout, narratives, catalogue, pages | - | layout and wording | both tools |

What is hard, and what makes each part correct:

- *Two writers of the inventory.* Jobs upsert vendors while requests rename and delete
  them; a domain must stay unique, and a configuration must belong to a vendor, although
  a scan outlives the vendor it began with.
- *A scheduled run is a sequence of separate commits.* Score, alert, delivery and the
  mark of the run are written one after the other, with a webhook awaited in between;
  other jobs, edits, failures and restarts fall between them. An alert must name two
  neighbouring scores, no drop may go unnoticed, and the delivery must be true. The rows of
  other runs come between its own, so a report made of the history may mix runs.
- *Ids captured before an await.* A job files results under ids it upserted before the
  scan, with several vendors possibly of one domain.
- *Ownership by cookie*, checked in three handlers and not in a fourth, with rows that have
  no owner.
- *The event loop must keep going.* A failing scan or store call must neither stop the
  poll nor leave a job for ever unfinished.
- *Cached answers.* Overlapping calls look up, fetch and store at different times.
- *Report files have a life of their own*: written before the job is filed, removed by
  a sweep that runs beside downloads, surviving restarts that forget the job and perhaps
  the key.
- *A sliding window*, where off-by-one errors show only at its edge, in front of handlers
  that await a file or a series of look-ups between the limit and the job.
- *Partial failure.* Every look-up of a scan may fail on its own, and a failure looks like
  the answer "not there". What that does to the findings, in which direction it moves the
  score, and whether a later report still tells it from a clean result, is easily
  overlooked.
- *Overlapping fetches* of one shared catalogue, whose answers may pass each other.

## 2. The modules and the code

Every action is one stretch of a coroutine without an `await`, or one store call or file
operation of such a stretch when a failure or a stop may fall between two of them. In
the second case a variable `loop` names the coroutine in the middle of its stretch, and
nobody else who needs the loop can move.

| Module | Models | Main variables |
|---|---|---|
| `MonitoringStore` | `monitoring/store.py` as operators on its tables | `vendors`, `configs`, `history`, `alerts`, `alertSeq`, `now` |
| `Monitoring` (extends it) | `scheduler.py`, `notifications.py`, the handlers and jobs of `detector_routes.py`, restarts | `runs[v]`, `jobs[j]`, `loop` |
| `DetectorRuns` | `orchestrator.py` over `detector_cache.py` | `cache[d][t]`, `batches[b]` with its calls, `clock` |
| `ReportStore` | `report_store.py` as operators on its tables | `inventory`, `reports`, `clock` |
| `Assessments` (extends it) | `_run_assessment`, `_cleanup_expired_reports` and the two downloads of `main.py`, with the file system, the key and the audit log | `jobs[j]`, `files[j]`, `plaintext`, `key`, `audit`, `loop`, `gets[g]` |
| `SlidingWindow` | what a rate limit promises, without deques | `accepted`, `rejected`, `now` |
| `RateLimiter` (implements it) | `_check_rate_limit` of `main.py` | `buckets`, `served`, `refused`, `clock` |
| `Uploads` (extends `RateLimiter`) | `start_scan` and `start_single_vendor_scan` of `main.py`, `ingestion.py`, `domain_discovery.py` | `requests[r]` |
| `Compliance` | `compliance/engine.py`, `scoring.py`, the tiers and letter grades, as operators on a scan | |
| `VendorScan` (extends it) | `scanner/engine.py`, the scan-derived detectors and their loop in `orchestrator.py` | `scan`, `probes`, `pending`, `results`, `failed` |
| `KevCatalog` | `_fetch_kev_catalog` of `exploitation.py` | `kevCache`, `fetches[r]` |
| `Lookalikes` | `run_phishing_detector` of `phishing.py`, as operators | |
| `Reporting` (extends the last two) | the adapters of all detectors, what jobs and scheduled runs file, `executive_report.py` and the last-report download | `runs[r]`, `history` |
| `MC...` | small instances: model values, lists, worlds, symmetry | |
| `MonitoringProofs`, `MonitoringRunProofs`, `DetectorRunsProofs`, `AssessmentsProofs`, `RateLimiterProofs`, `UploadsProofs`, `VendorScanProofs`, `ReportingProofs` | theorems and their proofs | |

How state corresponds to code:

- A vendor row is its domain; a deleted id never comes back (`uuid4`). Names, letters,
  summaries and addresses are left out, because no decision reads them. Score rows and
  alerts carry a few *history* fields that are not columns (which run wrote them, about
  which domain, at which threshold); only properties read them.
- In `Monitoring` a run goes `queued` (waiting for the semaphore), `scanning`, then
  `recording`, `alerting`, `posting`, `posted`/`refused` for each result in turn, and is
  idle again after `mark_monitor_run`. A job goes `queued`, `resolving` (one step per
  vendor: discovery, then upsert), `scanning`, `recording`, `complete` or `failed`; after
  a restart it is `lost`. A rescan takes the stored domain, or discovers one, because the job
  cleans the stored domain again and an edit may have stored one that does not clean up.
  The handlers have no `await` between their store calls and
  are one action each, with all early returns as guards.
- In `DetectorRuns` a call keeps the sets the code keeps: `got` (`results`), `missing`
  (`to_fetch`) and the tasks under way. Results say when and by which call they were made.
  A vendor's `asyncio.gather` resumes when all its tasks are through; the batch's when
  all its calls are.
- In `Assessments` `step` is where the coroutine is and `status` what the client sees.
  Rendering and reading a report happen in threads, so they need no loop and may fall
  into anybody's stretch. A half-written file is one whose key is no key. Time is in parts
  of a second, since the tables keep whole seconds and the file system does not.
- `RateLimiter` is one action, because `_check_rate_limit` never awaits. `Uploads` puts it
  in front of both handlers, as the code does; a request is then `reading` (one await, of the
  file), `discovering` (an await per candidate domain) or done, and many are under way at
  once. A cell is its text and the target of its link. The constants say which texts resemble
  an alias and which clean up to a domain, so the string functions are given by what they do. Of the
  others some are `Malformed`: `urlparse` raises a `ValueError` on them, which the code takes
  for nothing else, and the request that meets one is `raised`, that is, answered with a 500.
- In `VendorScan` a record of `Worlds` is what the network holds about a vendor. A
  probe awaits its look-ups in turn and shares no field of the scan with another probe, so it is
  one action that says which of its look-ups failed; `failed` remembers them for the
  properties only. `CheckTls` takes a version the client refuses for a failed connection,
  as the default context of Python does.
- A fetch of the catalogue asks, is served and arrives in three steps, since another call may do
  the same in between; its stamp is taken at the first. A catalogue is the number of its version.
- The lookalike search is a function of the look-ups that fail: its candidates share nothing and
  `gather` keeps their order; the semaphore of eight bounds the load and nothing else.
- In `Reporting` a summary is reduced to the phrase that `_classify_status` searches for, and the
  items of a result to their number. Rows are recorded one at a time. A job keeps the event
  loop (`loop`) from its first row to its last; a scheduled run may let go of it after a row
  that can raise an alert, when it awaits the webhook (`MayAwait`; threshold and webhook are
  left open there and are in `Monitoring`). A restart or an error of the store may fall after any
  row. What a scan-derived detector may say is a small set
  (`Derived`), because `VendorScan` has the detail.
- Loops that build a list, and sums, are given by what they compute, without recursion, so that
  they can be proved about. A filtered list has at its n-th place the n-th of the positions that
  stay (`Nth` in `ParseVendorExcel` and `Answer`). The stable sort of the lookalikes puts a hit
  behind those it exceeds in neither concern nor position (`Ahead`, `Sorted`), the detectors that
  follow a scan are a set out of which the first in order has its turn (`Turn`), and the sum
  of the findings' weights is the number of their `Points`.

Some definitions in the component modules are not used by the specification:
`OldestScore`, `HitAtAnyAge`, `FullOffByOne`, `AwaitsAnyScore` and the like are faulty variants of the
definition that follows them, each a plausible programming mistake. Every property of a
passing run is broken when its variant takes the place of the original; `mutants` in
`PROJECT.json` has the pairs.

## 3. What the runs check

Bounds are small on purpose. What each of them must still allow is named here; a restart
or a failing call is a *fault*, a state-changing request an *edit*.

| Run | Instance | Properties |
|---|---|---|
| `alerts` | one vendor, an unscored and a scored detector, two scores 20 points apart, a job and one that scans its vendor again, a session and requests without one, 3 edits, 1 fault, clock to 2 daily periods | `TypeOK`; `AlertsAreDrops`: an alert names two neighbouring score rows that differ by the run's threshold; `DropsAreAlerted`: without faults every drop from the last score has its alert, but for those right behind the row of a scheduled run that failed; `DeliveryIsTrue`: delivered means the webhook answered 2xx; `OwnerIsBinding` (of steps): only the owner's requests write a configuration that has a real owner, and it ends with its vendor only |
| `inventory` | two domains, a job whose list has a second vendor to be discovered, two vendors due at once with one slot, 3 edits, 1 fault, fair | `UniqueDomains`; `CompleteJobsRecorded`: a complete job has filed every good result under its vendor unless that was deleted; `ConfigNeedsVendor`; `RowsAreOfVendor`; `DueIsServed`; `JobsEnd` |
| `detector_runs` | two batches, one with a domain twice and one slot, all types or one, lifetime 0, clock to 1, a restart, fair | `TypeOK`; `AnswersComplete`: one result per type, in order, of the right domain; `AnswersRecent`: what a call is given was cached no longer than the lifetime before it began; `BatchesEnd` |
| `assessments` | two jobs of two sessions on one domain, one download, a new key at restart, 1 fault, retention 2, clock to 3, fair | `TypeOK`; `CompleteHasReport`; `OnlyOwnersRead`; `RowsUnderOwnVendor`; `AuditMatches`; `FilesExpire`; `AssessmentsEnd` |
| `uploads` | two addresses, 3 requests out of three sheets and three single vendors, one of each with a malformed site, 2 requests per window of 1 unit, clock to 2, restarts, fair | `RateTypeOK`, `WindowBounded`, `RefusedHadTheirShare`; `RefinesWindow`: the deques implement `SlidingWindow`; `UploadTypeOK`; `AdmittedWithinLimit`: what is worked on of one window never exceeds the limit; `ListedVendorsScanned`: a list under the documented headings becomes its vendors, once each, and a 500 exactly when a name has a malformed site; `RequestsAnswered` |
| `scan` | five vendors (sound, middling, bad, late CVE, down), all detectors or two, up to five failed look-ups, fair | `ScanTypeOK`; `DriftExplained`: a finding that is wrong rests on a look-up that failed; `BiasOfOutages`: which failures can lower and which can raise a score; `ClaimsAreTrue`: failures make nothing up; `ScanEnds` |
| `reports` | three runs in the roles of jobs and scheduled runs, lifetime 1, two versions of the catalogue, clock to 1, a history of 2 rows, 3 candidates checked and 1 shown, 1 fault | `CatalogueFresh`; `LastReportLatest`: the last report has what a completed run answered, or what was recorded after it (for a job: after all of it), or a history's length of later rows displaced the type; `ReportsAgree`: it is never harsher than the live report, and equal where score or summary decide; `LeadsShown`: a certificate that was looked up is a lead, and no alarming lead is cut off in favour of one that is not |

*Why these bounds are enough to be of use.* Two vendors (or jobs, or sessions) are the least
that can get in each other's way, and every property is about one or two of them. A drop needs
two rows, and a wrong baseline a third: three runs, or two and a job, within two periods.
Thresholds, sessions and scores are in `alerts`, vendors and lists in `inventory`, where scores
decide nothing. There a job and the scheduled runs of two vendors overlap, in `alerts` two jobs
and the scheduled runs of one vendor; two jobs over two vendors are left to the theorems, which
hold for any number. Three edits allow a vendor to be added by a job, monitored and deleted
during a scan, or a second client to interfere with what a first one set. Two overlapping calls
and a later reader are what it takes to serve a stale entry, and two batches, one of two vendors
of a domain, have them. The clocks pass the lifetime, the retention or the window by at least
one unit, but for the catalogue of `reports`, which is fetched anew at exactly one lifetime. One
fault can fall at any of its places, so each is examined on its own; combinations of two are
not. Look-ups are different: five of them may fail in one scan, enough for a site over both
schemes with a mail record and both selectors. Three requests are one more than the limit. Three
runs let two fetches pass each other with a reader behind them; a job's two rows and two rows of
other runs are enough to fall between, after or out of a history of two. In `Found` the
candidate that matters is last, so the order of the leads is not that of the candidates. The
runs of `reports` with different work in one instance share the catalogue, or are three with
types in common, or are one (`Asked`).

`CHECK_DEADLOCK FALSE` stands where the instance comes to rest (no edits, requests or
time left, a scan done); in such a run the liveness properties say that nothing is left
waiting. Symmetry is used in `reports`, over the runs, and in `alerts`, over the jobs, which no
definition tells apart; the set of plans is closed under permutation for that. Neither run has a
liveness property.

*Fairness.* `inventory` assumes that the poll recurs and that every coroutine which can
go on does (weak fairness of the poll, of each run and of each job). The event loop
serves ready callbacks in order, the poll sleeps a fixed time and catches every exception,
and HTTP and DNS look-ups have timeouts. Nothing is assumed of requests, failures or
restarts; as to faults, the bound says that there are finitely many, without which nobody
could promise an end. `detector_runs` assumes the same of each batch. `assessments` assumes it
of each job, of the sweep and of the clock: a file expires only if time passes. `uploads`
assumes it of each request's handler, and `scan` of the next step of the scan; both wait for
nothing but a file or a look-up with a timeout. No run assumes strong fairness.

## 4. Where the code departs from what the repository says

Each is a run that TLC ends with a trace, and an entry under `findings` with the
quotation.

| Run, property | What happens |
|---|---|
| `missed_drop`, `EveryDropAlerted` | A scheduled run records a detector that failed as a row without a score, and the next run takes that row for the last one: 60, a failure, 40 raises no alert, although 60 is the "last recorded value" (`README.md:480`). No fault is needed. |
| `stranger`, `OnlyOwnersCancel` | Deleting a vendor asks for no session and takes the configuration with it, of which "only that session can modify or cancel it" (`README.md:496`). |
| `scheduled_cached`, `ScheduledFresh` | The scheduler does not pass `use_cache=False`, so scheduled runs may record cached results. |
| `plaintext`, `NoPlaintextLeft` | An exception or a stop between rendering and `os.remove` leaves the plaintext PDF, which no sweep looks for. |
| `inconclusive`, `InconclusiveNotClear` | A lookalike search whose every look-up failed says that this is "not a confirmed absence" (`phishing.py:184`); `to_standard_result` drops the error of a result without findings, so the job records it and the report calls it CLEAR. |

Others were met while modelling and have no run of their own:

- *Monitoring.* A vendor deleted during a scan gets score rows afterwards, although
  `delete_vendor` "removes a vendor and all dependent rows" (`store.py:151`): nobody looks
  for the vendor again, and SQLite does not enforce the foreign keys. The scheduler records
  a row without a score for a detector that failed (`scheduler.py:59-63`), where jobs skip
  it so as not to "pollute history" (`detector_routes.py:381`). A stop or an error between
  `record_score` and `record_alert` loses the alert for good, since the next run compares with
  the new score; `scheduler.py:13-15` promises a later poll "with no special recovery logic
  needed". A run that ends after an edit is given its next time by the old frequency, once.
- *Report files.* The sweep may remove a file between a download's check and its read: a
  500 instead of the promised 410 (`README.md:306` of the repository). It judges a file by
  its modification time but a row by a slightly later, rounded one, so a row may be offered
  one sweep longer than its file exists.
- *Scans.* A DNS outage looks like missing mail records and costs up to 18 points; a failed
  handshake, certificate log or CVE feed can only raise the score. The rule for outdated TLS
  (`engine.py:87` of `compliance`) is out of reach, since the client refuses such a connection
  and the probe then knows nothing. An unreachable site scores on without its headers, and still
  "has no policy" and "no firewall signature". DMARC's `p=None` is not the `none` of the rule.
- *Last report.* A history row has no items, so what a takeover, CORS, DNS, lookalike or
  exploitation result found is CLEAR in the last report, and so is an error of theirs that a
  scheduled run recorded. A vulnerability result with one
  critical CVE keeps a score of 80, which is CLEAR as well.
- *Uploads.* `urlparse` (`ingestion.py:106`) raises a `ValueError` on a text whose host part has
  an unpaired bracket, such as `[n/a]` or `[TBD`. It is not the `IngestionError`
  (`ingestion.py:42`) that `parse_vendor_excel` "Raises ... with a user-facing message on
  failure" (`ingestion.py:139`), and neither `main.py:338` nor `main.py:392` catches it: one
  such cell beside a name ends the upload of the list, however sound the rest, with a 500.
  `ListedVendorsScanned` says exactly when. A banner that resembles both headings ("Vendor
  Website List") is taken for the header, and one cell may serve as both columns. A request that
  is turned away later (wrong file, no website found) still counts against the limit.
- *Lookalikes.* Swapping two equal letters gives the vendor's own domain as a candidate
  (`phishing.py:94`).

## 5. What is proved

Every invariant of a passing run, and the two properties of steps (`OwnerIsBinding`,
`RefinesWindow`), is a theorem: it holds for every value of the constants that satisfies the
modules' `ASSUME`s, with any numbers of vendors, sessions, detectors and jobs, any clock and any
number of faults. The assumptions are these, and TLC evaluates each of them in the runs.

- Types: a period is a positive number, scores are 0 to 100, lists are sequences of what they
  list, a vendor's records have one of the answers the scan knows (`WorldAssumption`).
- Special values are no ordinary ones: no domain is the marker of a deleted row, the scheduler
  is no job, and no session is the empty string. The last holds because a session token is
  random (`main.py:182`) and a request without one is never taken for an owner (`main.py:224`).
- Limits are positive where zero would switch the feature off (the size of a vendor list, the
  slots of a semaphore, the rows of a history, the lifetime of the catalogue).
- The documented headings are among the words that an alias recognises (`NameWords`, `UrlWords`).

Proofs about a component have one shape. An inductive invariant is split into named parts; there
is a lemma for the initial state and one for each action or group of actions, and the
theorems follow from the invariant. What it needs beyond the property is the interesting
part, and the rest of this section names it.

`MonitoringProofs`:

- `TypeCorrect` (`[]TypeOK`). `TypeOK` alone is not inductive: taking the head of a run's
  results, or filing a job's answers vendor by vendor, needs that there is one.
  `TypeInv` adds `CoroutinesWF`, what each coroutine may rely on at each point of its code
  (a run that alerts has a result at hand; the id and domain lists of a job are of one
  length; the cursor is within them). There is one lemma per group of actions.
- `DomainsStayUnique` (`[]UniqueDomains`) and `ConfigsHaveVendors` (`[]ConfigNeedsVendor`)
  share an invariant, `Inventory`. Only four kinds of step touch the tables in question;
  the proof shows that each keeps domains apart and never makes a configuration for a vendor
  that is gone. `mark_monitor_run` is the interesting one: it updates, never inserts.
- `OwnersAreBinding` (`OwnerIsBinding`): each step that rewrites a configuration either
  passed the owner check, finds no owner, or leaves the owner alone; the only one that
  removes it deletes its vendor.
- `AlertsAreRealDrops` (`[]AlertsAreDrops`). The invariant `AlertInv` adds `Pending`: while
  a run is about to alert it holds the event loop, and the last two rows of the history are
  the ones it compared. That is why a job of the same vendor cannot come between the
  record and the alert, and why deleted vendors do no harm. Rows are only ever appended.

`MonitoringRunProofs` builds on `TypeInv`, with an invariant of its own for each theorem:

- `NoDropIsMissed` (`[]DropsAreAlerted`) is inductive next to `AlertInv`: a run that recorded a drop
  keeps the loop until the alert is written, so nothing can fall between the two but a fault. A drop
  is measured from the last *score*, the code's comparison from the last *row*; that the two
  differ only behind a failed scheduled run is `ScoreInv`: no job files a row without a score for
  a detector that has one.
- `RowsFitTheirVendor` (`[]RowsAreOfVendor`). `HeldInv` says that the domain a run or job
  carries is one its vendor *has had*, not one it has: an edit may rename the vendor during the
  scan, and several vendors of a job may be of one domain.
- `CompleteJobsAreRecorded` (`[]CompleteJobsRecorded`). `FiledInv` says that of the vendors up
  to a job's cursor each result is filed, or still to come of the one at the cursor. Rows go only
  with their vendor, and the id of a deleted vendor is never given out again (`IssuedInv`), so
  what was filed for a vendor that is there now stays filed.
- `DeliveryFlagIsTrue` (`[]DeliveryIsTrue`). `PostInv` says of a run that posts an alert that
  no other run posts it, that its row is not marked yet, and that the webhook took it exactly
  when the run believes so.

`DetectorRunsProofs`, from `RunsInv`:

- `RunTypes` (`[]TypeOK`) and `AnswersAreComplete` (`[]AnswersComplete`). `Covered`: while a call
  fetches, each type it was asked for has a result, a task under way, or a scan it will be
  derived from. So nothing is missing when the last task ends, and the answer, a filter of the
  order asked for, leaves no position out.
- `AnswersAreRecent` (`[]AnswersRecent`). `Given` keeps apart what a call fetched and what the
  cache gave it; `Earned` ties each entry of the cache to a call that was over when the
  entry was stamped. A call that is over never changes, so overlapping calls may overwrite
  each other's entries in any order.

`AssessmentsProofs`, from `AssessInv`:

- `AssessmentTypes` (`[]TypeOK`), `CompleteJobsDeliver` (`[]CompleteHasReport`) and
  `LogsAreTrue` (`[]AuditMatches`). For each job `Staged` says which statuses it may show at each
  step of its coroutine and who has the loop, `Filed` which file it has under whose key, and
  `Logged` what the audit log may say. The key of a complete job's file is that of the process
  because a restart forgets the job.
- `ReportsStayPrivate` (`[]OnlyOwnersRead`) and `RowsKeepTheirOwner`
  (`[]RowsUnderOwnVendor`). `Owned` carries the session from the job's start to the vendor row its
  report is filed under, `RowInv` holds it to the rows, and `GetInv` to a download that was
  let in and reads its file later, when the row may be gone.

`RateLimiterProofs`:

- `RateTypes` (`[]RateTypeOK`), `RateIsLimited` (`[]WindowBounded`) and `RefusalsAreDue`
  (`[]RefusedHadTheirShare`), from `RateInv`: the deque is always the end of the history of
  requests let through, and what was popped is older than a window. So a deque that is
  not full says that the request `MaxRequests` before the next one is out of the window,
  and a full one names the requests that used the limit up.
- `DequesImplementWindow` (`RefinesWindow`): every step of the deques is a step of
  `SlidingWindow`, which counts over the whole history. Histories are in time order, so the
  requests of the window that ends now are a tail of the history (`DequeCounts`), and after
  popping the deque is that tail; it is full exactly when the abstract limiter rejects.

`UploadsProofs`:

- `HandlersAreLimited` (`UploadSpec => RateSpec`): both handlers move the limiter only by
  `_check_rate_limit`, so all of the above holds of them, the refinement included.
- `AdmissionsAreLimited` (`[]AdmittedWithinLimit`). The invariant `UploadInv` gives each request
  that passed the limit a place of its own in the limiter's history, at the time it arrived.
  A window of time holds a stretch of that history no longer than the limit
  (`WindowHolds`), so the places of the requests of one window are too few for more.
  Nothing in it depends on what the handlers await, which is why the order of check and
  await matters.
- `UploadTypes` (`[]UploadTypeOK`) and `ListsAreScanned` (`[]ListedVendorsScanned`). Most of the
  second is about `ParseVendorExcel` alone, for sheets of any size: the header is found
  where its author put it, each site is taken at its first row, and `Nth` numbers
  the rows taken without gap or repetition. `AllJudged` carries that through the handlers: a
  request in an end state was judged by the list its sheet holds. `MeantListBreaks` has the
  rows on which `urlparse` raises: those with a name, in the column that is meant.

`VendorScanProofs`, from `ScanInv`. Its part `Answered` says, of each group of fields, that
it is what the look-ups would have said or weaker in a known way, and the former once its probe
has ended without a failure:

- `ScanTypes` (`[]ScanTypeOK`): the findings of a scan are finitely many and weigh 1 to 25 each,
  so their points can be counted, and the tier agrees with the letter at every boundary.
- `DriftIsExplained` (`[]DriftExplained`): the findings fall into parts, each a function of one
  field; two scans that differ in a finding differ in its field, and the look-up failed.
- `OutagesBiasAsKnown` (`[]BiasOfOutages`): the score can only fall when findings are added.
  One case is not of that kind: a lost DMARC record trades the finding "p=none" for the heavier
  "no DMARC", and an injection between the points compares the two (`HeavierFinding`).
- `NothingIsMadeUp` (`[]ClaimsAreTrue`).

`ReportingProofs`:

- `CatalogueIsFresh` (`[]CatalogueFresh`). The invariant `KevInv` ties a time to each version
  under way or in the cache: the next version was published no earlier than that. A fetch is
  stamped when it begins, so the stamp is never later than the moment it was served, and it
  does not matter which of two overlapping fetches writes the cache last. The lifetime must
  be positive; with none, a version published in the same unit would count as stale.
- `LastReportIsLatest` (`[]LastReportLatest`), from `RepInv`: the rows of the history are results of
  runs past their detectors, each once, and all of those of a completed run (`HistoryInv`); the
  rows of a job are next to each other, since it keeps the event loop (`JobsWhole`). So the last row
  of a type is on the last report, or a history's length of rows is behind it (`LastOfType`),
  and a row of the type behind a job's own is behind all of the job.
- `ReportsTellTheSame` (`[]ReportsAgree`): the status of a row follows from what its result
  says, by cases over the detectors; `ResultsInv` adds that the rules always give a score.
- `NoLeadIsHidden` (`[]LeadsShown`): the sort is a permutation that never puts a hit before a
  more alarming one, whatever hits there are, so a cut leaves out the least alarming.

*Only model-checked*: everything under fairness (`DueIsServed`, `JobsEnd`, `BatchesEnd`,
`FilesExpire`, `AssessmentsEnd`, `RequestsAnswered`, `ScanEnds`), which needs reasoning about
enabledness that the prover does not do. The prover has no induction over data either; where a
proof needs one, such as a smallest element, it uses the well-foundedness of the natural
numbers as the library states it for sets, or a bijection. That is the reason for the
definitions without recursion of section 2.

## 6. What is not modelled

- The database and the file system themselves: a store call is atomic and durable, or
  raises without effect. Two processes on one database are not modelled; the service
  runs as one.
- Wording and layout: narratives, decks, spreadsheets, the PDFs beyond status, counts and
  choice of items, the citations and recommendations of a finding, the catalogue of detectors.
- String functions character by character: the spelling of lookalike candidates, the
  matching of a vendor's name with catalogue entries, URL cleaning, aliases. The models take
  what these say as constants.
- Network look-ups, beyond their answering, failing or taking time.
- The cipher: a file can be read with the key it was written with, and with no other.
- `clear_expired`, which nothing calls; `detectors/vulnerability.py`, whose result the
  orchestrator derives itself; statistics, listings and exports, which only read.
- The pages. One that polls for a job does so for ever when a restart forgot the job
  (`index.html:331`). Likewise outside the models' properties: a job entry that stays queued
  when `record_scan_started` raises (`main.py:355`), an audit row that stays at started after a
  restart (`audit_log.py:98`), results with an error cached for a day
  (`orchestrator.py:247`).
- Clocks that go backwards, and the order of two score rows of one second: the code sorts rows
  by a time in whole seconds, the models by the order in which they were written.
- The number of addresses in `_rate_buckets`, from which no address is ever dropped
  (`main.py:230`).

## 7. Plan

Done, in this order: `MonitoringStore` and `Monitoring`, the part with most interleavings
and the longest promises; their proofs; `RateLimiter` and its proofs; `ReportStore` and
`Assessments`; `DetectorRuns`; `SlidingWindow` and the refinement; `Uploads`; `Compliance` and
`VendorScan`; `KevCatalog`, `Lookalikes` and `Reporting`; then the proofs of all invariants.

Next:

1. *An abstract monitor*: per vendor and detector a list of scores and a set of reported
   drops, changed in single steps; `Monitoring` to be shown to implement it, without faults,
   through a mapping that adds the alert a run is about to write.
2. *The spelling of candidates* as a pure algorithm, and the matching of names.
3. *The pages* as clients: the polling loops of `index.html` and `detector.html` against
   jobs that end, expire or are forgotten.
