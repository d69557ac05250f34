-------------------------- MODULE ReportingProofs --------------------------
(***************************************************************************)
(* Four properties of Reporting, for any runs, plans, matches, catalogue   *)
(* lifetime, history limit and order of the answers.                       *)
(*                                                                         *)
(* The catalogue is never staler than its lifetime: the next version was   *)
(* published no earlier than the moment that a fetch, and what a fetch     *)
(* leaves in the cache, bears as its time.  So it does not matter which of *)
(* two overlapping fetches writes the cache last.                          *)
(*                                                                         *)
(* The history is made of results of the runs, each once, and has all that *)
(* a completed run has to record (HistoryInv); a job that records has the  *)
(* event loop, so its rows are next to each other (JobsWhole): what the    *)
(* two reports have in common follows.  What a run keeps of its lookalike  *)
(* search is the outcome of one (SearchInv).                               *)
(***************************************************************************)
EXTENDS Reporting, FiniteSetTheorems, WellFoundedInduction, TLAPS

KevTypeOK ==
    /\ clock \in Nat
    /\ publishedAt \in Seq(Nat) /\ Len(publishedAt) >= 1
    /\ kevCache \in [version : Nat, fetchedAt : Nat]
    /\ fetches \in [Runs -> [at : {"none", "asking", "served", "returned", "failed"},
                             started : Nat, version : Nat]]

\* Version v was the current one at time t or later: it is there, and the next
\* one, if there is one, came no earlier.
CurrentSince(v, t) ==
    /\ v \in 1..Len(publishedAt)
    /\ v < Len(publishedAt) => publishedAt[v + 1] >= t

KevInv ==
    /\ KevTypeOK
    /\ \A i \in 1..Len(publishedAt) : publishedAt[i] <= clock
    /\ kevCache # NoCatalogue => kevCache.fetchedAt <= clock /\ CurrentSince(kevCache.version, kevCache.fetchedAt)
    /\ \A r \in Runs :
          /\ fetches[r].started <= clock
          /\ fetches[r].at = "served" => CurrentSince(fetches[r].version, fetches[r].started)
          /\ fetches[r].at = "returned" =>
                \E t \in Nat : t > fetches[r].started - KevTTL /\ t <= clock /\ CurrentSince(fetches[r].version, t)

LEMMA KevInitially == KevInit => KevInv
BY KevAssumption DEF KevInit, KevInv, KevTypeOK, NoCatalogue, NoFetch, CurrentSince

\* A version keeps its standing when the clock moves or a version is added.
LEMMA StandingKept ==
    ASSUME KevInv, publishedAt' = publishedAt \/ publishedAt' = Append(publishedAt, clock),
           NEW v \in Nat, NEW t \in Nat, t <= clock, CurrentSince(v, t)
    PROVE  CurrentSince(v, t)'
<1>1. publishedAt \in Seq(Nat) /\ clock \in Nat
  BY DEF KevInv, KevTypeOK
<1>2. CASE publishedAt' = publishedAt
  BY <1>2 DEF CurrentSince
<1>3. CASE publishedAt' = Append(publishedAt, clock)
  <2>1. /\ Len(publishedAt') = Len(publishedAt) + 1
        /\ \A i \in 1..Len(publishedAt) : publishedAt'[i] = publishedAt[i]
        /\ publishedAt'[Len(publishedAt) + 1] = clock
    BY <1>1, <1>3
  <2>2. QED
    BY <1>1, <2>1 DEF CurrentSince
<1>4. QED
  BY <1>2, <1>3

\* Steps of a fetch, one call at a time.
LEMMA FetchKeepsInv ==
    ASSUME KevInv, NEW r \in Runs,
           FetchKevCatalog(r) \/ KevServed(r) \/ KevArrives(r) \/ KevFails(r)
    PROVE  KevInv'
<1>1. /\ clock \in Nat /\ publishedAt \in Seq(Nat) /\ Len(publishedAt) \in Nat \ {0}
      /\ fetches \in [Runs -> [at : {"none", "asking", "served", "returned", "failed"},
                               started : Nat, version : Nat]]
      /\ KevTTL \in Nat \ {0}
  BY KevAssumption DEF KevInv, KevTypeOK
<1>2. UNCHANGED <<clock, publishedAt>>
  BY DEF FetchKevCatalog, KevServed, KevArrives, KevFails
<1>3. \A v, t : CurrentSince(v, t)' = CurrentSince(v, t)
  BY <1>2 DEF CurrentSince
<1>4. CASE FetchKevCatalog(r)
  <2>1. kevCache' = kevCache
    BY <1>4 DEF FetchKevCatalog
  <2>2. CASE Cached
    <3>1. fetches' = [fetches EXCEPT ![r] = [at |-> "returned", started |-> clock, version |-> kevCache.version]]
      BY <1>4, <2>2 DEF FetchKevCatalog
    <3>2. /\ kevCache.fetchedAt \in Nat /\ kevCache.version \in Nat
          /\ CurrentSince(kevCache.version, kevCache.fetchedAt)
          /\ kevCache.fetchedAt > clock - KevTTL
      BY <1>1, <2>2 DEF Cached, KevInv, KevTypeOK
    <3>3. \E t \in Nat : t > clock - KevTTL /\ t <= clock /\ CurrentSince(kevCache.version, t)
      BY <2>2, <3>2 DEF Cached, KevInv
    <3>4. \A q \in Runs : fetches'[q] = IF q = r THEN [at |-> "returned", started |-> clock, version |-> kevCache.version]
                                        ELSE fetches[q]
      BY <1>1, <3>1
    <3>5. KevTypeOK'
      BY <1>1, <1>2, <2>1, <3>1, <3>2 DEF KevInv, KevTypeOK
    <3>6. QED
      BY <1>1, <1>2, <1>3, <2>1, <3>3, <3>4, <3>5 DEF KevInv
  <2>3. CASE ~Cached
    <3>1. fetches' = [fetches EXCEPT ![r] = [at |-> "asking", started |-> clock, version |-> 0]]
      BY <1>4, <2>3 DEF FetchKevCatalog
    <3>2. QED
      BY <1>1, <1>2, <1>3, <2>1, <3>1 DEF KevInv, KevTypeOK
  <2>4. QED
    BY <2>2, <2>3
<1>5. CASE KevServed(r)
  <2>1. /\ kevCache' = kevCache
        /\ fetches' = [fetches EXCEPT ![r].at = "served", ![r].version = Len(publishedAt)]
    BY <1>5 DEF KevServed
  <2>2. CurrentSince(Len(publishedAt), fetches[r].started)
    BY <1>1 DEF CurrentSince
  <2>3. QED
    BY <1>1, <1>2, <1>3, <2>1, <2>2 DEF KevInv, KevTypeOK
<1>6. CASE KevArrives(r)
  <2>1. /\ kevCache' = [version |-> fetches[r].version, fetchedAt |-> fetches[r].started]
        /\ fetches' = [fetches EXCEPT ![r].at = "returned"]
        /\ fetches[r].at = "served"
    BY <1>6 DEF KevArrives, Stamp
  <2>2. /\ fetches[r].started \in Nat /\ fetches[r].version \in Nat /\ fetches[r].started <= clock
        /\ CurrentSince(fetches[r].version, fetches[r].started)
        /\ fetches[r].started > fetches[r].started - KevTTL
    BY <1>1, <2>1 DEF KevInv
  <2>3. QED
    BY <1>1, <1>2, <1>3, <2>1, <2>2 DEF KevInv, KevTypeOK
<1>7. CASE KevFails(r)
  <2>1. /\ kevCache' = kevCache
        /\ fetches' = [fetches EXCEPT ![r].at = "failed", ![r].version = 0]
    BY <1>7 DEF KevFails
  <2>2. QED
    BY <1>1, <1>2, <1>3, <2>1 DEF KevInv, KevTypeOK
<1>8. QED
  BY <1>4, <1>5, <1>6, <1>7

\* The world moves: a version is published, or time passes.
LEMMA WorldKeepsInv == KevInv /\ (Publish \/ Tick) => KevInv'
<1> SUFFICES ASSUME KevInv, Publish \/ Tick PROVE KevInv'
  OBVIOUS
<1>1. /\ clock \in Nat /\ publishedAt \in Seq(Nat) /\ Len(publishedAt) \in Nat \ {0}
      /\ kevCache \in [version : Nat, fetchedAt : Nat]
      /\ fetches \in [Runs -> [at : {"none", "asking", "served", "returned", "failed"},
                               started : Nat, version : Nat]]
      /\ KevTTL \in Nat \ {0}
  BY KevAssumption DEF KevInv, KevTypeOK
<1>2. /\ UNCHANGED <<kevCache, fetches>> /\ clock' \in Nat /\ clock' >= clock
      /\ publishedAt' = publishedAt \/ publishedAt' = Append(publishedAt, clock)
  BY <1>1 DEF Publish, Tick
<1>3. /\ publishedAt' \in Seq(Nat) /\ Len(publishedAt') >= 1
      /\ \A i \in 1..Len(publishedAt') : publishedAt'[i] <= clock'
  <2>1. \A i \in 1..Len(publishedAt) : publishedAt[i] \in Nat /\ publishedAt[i] <= clock
    BY <1>1 DEF KevInv
  <2>2. CASE publishedAt' = publishedAt
    BY <1>1, <1>2, <2>1, <2>2
  <2>3. CASE publishedAt' = Append(publishedAt, clock)
    <3>1. /\ Len(publishedAt') = Len(publishedAt) + 1
          /\ \A i \in 1..Len(publishedAt') :
                publishedAt'[i] = IF i = Len(publishedAt) + 1 THEN clock ELSE publishedAt[i]
      BY <1>1, <2>3
    <3>2. publishedAt' \in Seq(Nat) /\ Len(publishedAt') \in Nat
      BY <1>1, <2>3
    <3>3. ASSUME NEW i \in 1..Len(publishedAt') PROVE publishedAt'[i] <= clock'
      <4>1. CASE i = Len(publishedAt) + 1
        BY <1>1, <1>2, <3>1, <4>1
      <4>2. CASE i # Len(publishedAt) + 1
        <5>1. i \in 1..Len(publishedAt)
          BY <1>1, <3>1, <4>2
        <5>2. QED
          BY <1>1, <1>2, <2>1, <3>1, <4>2, <5>1
      <4>3. QED
        BY <4>1, <4>2
    <3>4. QED
      BY <1>1, <3>1, <3>2, <3>3
  <2>4. QED
    BY <1>2, <2>2, <2>3
<1>4. \A v \in Nat, t \in Nat : t <= clock /\ CurrentSince(v, t) => CurrentSince(v, t)'
  BY <1>2, StandingKept
<1>5. kevCache # NoCatalogue => CurrentSince(kevCache.version, kevCache.fetchedAt)'
  BY <1>1, <1>2, <1>4 DEF KevInv
<1>6. ASSUME NEW r \in Runs
      PROVE  /\ fetches[r].at = "served" => CurrentSince(fetches[r].version, fetches[r].started)'
             /\ fetches[r].at = "returned" =>
                   \E t \in Nat : t > fetches[r].started - KevTTL /\ t <= clock /\ CurrentSince(fetches[r].version, t)'
  BY <1>1, <1>2, <1>4 DEF KevInv
<1>7. QED
  BY <1>1, <1>2, <1>3, <1>5, <1>6 DEF KevInv, KevTypeOK

LEMMA RestartKeepsInv == KevInv /\ Restart => KevInv'
BY DEF KevInv, KevTypeOK, Restart, NoCatalogue, CurrentSince

LEMMA KevStep == KevInv /\ [RepNext]_repVars => KevInv'
<1> SUFFICES ASSUME KevInv, [RepNext]_repVars PROVE KevInv'
  OBVIOUS
<1>1. ASSUME UNCHANGED kevVars PROVE KevInv'
  BY <1>1 DEF kevVars, KevInv, KevTypeOK, CurrentSince
<1>2. ASSUME NEW r \in Runs,
             \/ StartRun(r) \/ RunPhishing(r) \/ RunScanDerived(r)
             \/ BeginRecording(r) \/ RecordRow(r) \/ EndRecording(r) \/ RecordingFails(r)
      PROVE  KevInv'
  BY <1>1, <1>2 DEF StartRun, RunPhishing, RunScanDerived, BeginRecording, RecordRow, EndRecording,
                    RecordingFails, kevVars
<1>3. ASSUME NEW r \in Runs, RunExploitation(r) PROVE KevInv'
  BY <1>3, FetchKeepsInv DEF RunExploitation
<1>4. CASE Publish \/ Tick
  BY <1>4, WorldKeepsInv
<1>5. CASE Restart
  BY <1>5, RestartKeepsInv
<1>6. CASE UNCHANGED repVars
  BY <1>1, <1>6 DEF repVars, kevVars
<1>7. QED
  BY <1>2, <1>3, <1>4, <1>5, <1>6 DEF RepNext

\* For any runs, lifetime and order of the answers, no call is given a catalogue
\* that was out of date for a lifetime when the call began (_fetch_kev_catalog).
THEOREM CatalogueIsFresh == RepSpec => []CatalogueFresh
<1>1. KevInv => CatalogueFresh
  <2> SUFFICES ASSUME KevInv, NEW r \in Runs, fetches[r].at = "returned",
                      fetches[r].version + 1 <= Len(publishedAt)
               PROVE  publishedAt[fetches[r].version + 1] > fetches[r].started - KevTTL
    BY DEF CatalogueFresh
  <2>1. /\ fetches[r].version \in Nat /\ fetches[r].started \in Nat
        /\ publishedAt \in Seq(Nat) /\ KevTTL \in Nat
    BY KevAssumption DEF KevInv, KevTypeOK
  <2>2. PICK t \in Nat : t > fetches[r].started - KevTTL /\ CurrentSince(fetches[r].version, t)
    BY DEF KevInv
  <2>3. publishedAt[fetches[r].version + 1] \in Nat
    BY <2>1
  <2>4. publishedAt[fetches[r].version + 1] >= t
    BY <2>1, <2>2 DEF CurrentSince
  <2>5. QED
    BY <2>1, <2>2, <2>3, <2>4
<1>2. RepInit => KevInv
  BY KevInitially DEF RepInit
<1>3. QED
  BY <1>1, <1>2, KevStep, PTL DEF RepSpec
-----------------------------------------------------------------------------
(* The history and the reports made from it.                               *)

IsList(s) == Len(s) \in Nat /\ s = [i \in 1..Len(s) |-> s[i]]

\* A run has its fields and no others.
IsRun(x) ==
    x = [phase |-> x.phase, kind |-> x.kind, types |-> x.types, results |-> x.results,
         phishing |-> x.phishing, lost |-> x.lost]

RunShape == runs = [r \in Runs |-> runs[r]] /\ \A r \in Runs : IsRun(runs[r])

\* A run has one result for each detector, and the rules always give a score.
HasScore(res) == res.detector = "vulnerability" /\ ~res.error => res.score # NoScore

ResultsInv ==
    \A r \in Runs :
        /\ IsFiniteSet(runs[r].results)
        /\ \A a, b \in runs[r].results : a.detector = b.detector => a = b
        /\ \A a \in runs[r].results : HasScore(a)

\* Past its detectors a run keeps its results, of which the history has some,
\* each once, and all of them once the run is complete.
Settled(x) == x.phase \notin {"none", "running"}

HistoryInv ==
    /\ IsList(history)
    /\ \A n \in DOMAIN history : \E r \in Runs :
          Settled(runs[r]) /\ \E res \in Recorded(r) : history[n] = Row(r, res)
    /\ \A r \in Completed : \A res \in Recorded(r) : HasRow(r, res)
    /\ \A m, n \in DOMAIN history : m < n /\ history[m].run = history[n].run =>
          history[m].detector # history[n].detector

\* A job that records has the event loop and the end of the history to itself,
\* so the rows of a job are next to each other.
JobsWhole ==
    /\ \A r \in Runs : runs[r].kind = "job" /\ runs[r].phase = "recording" =>
          /\ loop = r
          /\ \A m, n \in DOMAIN history : m < n /\ history[m].run = r => history[n].run = r
    /\ \A k, m, n \in DOMAIN history :
          k < m /\ m < n /\ history[k].run = history[n].run /\ runs[history[k].run].kind = "job" =>
              history[m].run = history[k].run

\* What a run keeps of its lookalike search is the outcome of one.
Searched(raw, failing) ==
    \/ raw = PhishingRaised
    \/ failing \subseteq Checked /\ \E dead : raw = RunPhishingDetector(failing, dead)

SearchInv ==
    \A r \in Runs : \A a \in runs[r].results :
        a.detector = "phishing" => Searched(runs[r].phishing, runs[r].lost)

RepInv == RunShape /\ ResultsInv /\ HistoryInv /\ JobsWhole /\ SearchInv

LEMMA RepInitially == RepInit => RepInv
<1> SUFFICES ASSUME RepInit PROVE RepInv
  OBVIOUS
<1>1. /\ runs = [r \in Runs |-> NoRun] /\ history = <<>>
      /\ \A r \in Runs : runs[r] = NoRun
  BY DEF RepInit
<1>2. RunShape
  BY <1>1 DEF RunShape, IsRun, NoRun
<1>3. ResultsInv
  BY <1>1, FS_EmptySet DEF ResultsInv, NoRun
<1>4. DOMAIN history = {} /\ IsList(history)
  BY <1>1 DEF IsList
<1>5. HistoryInv
  BY <1>1, <1>4 DEF HistoryInv, Completed, NoRun
<1>6. JobsWhole
  BY <1>1, <1>4 DEF JobsWhole, NoRun
<1>7. SearchInv
  BY <1>1 DEF SearchInv, NoRun
<1>8. QED
  BY <1>2, <1>3, <1>5, <1>6, <1>7 DEF RepInv

\* The history keeps its standing while it is not written, if what is past its
\* detectors stays so, only what has all its rows is completed, and a job that
\* records has the event loop.
LEMMA HistoryKept ==
    ASSUME RepInv, history' = history,
           \A q \in Runs :
               /\ Settled(runs[q]) => /\ runs'[q].results = runs[q].results
                                      /\ runs'[q].kind = runs[q].kind
                                      /\ Settled(runs'[q])
               /\ runs'[q].phase \in {"done", "forgotten"} =>
                      /\ Settled(runs[q])
                      /\ q \in Completed \/ \A res \in Recorded(q) : HasRow(q, res)
               /\ runs'[q].phase = "recording" /\ runs'[q].kind = "job" =>
                      /\ loop' = q
                      /\ runs[q].phase \in {"running", "recording"} /\ runs[q].kind = "job"
    PROVE  HistoryInv' /\ JobsWhole'
<1>1. HistoryInv /\ JobsWhole
  BY DEF RepInv
<1>2. \A q \in Runs : Settled(runs[q]) => Recorded(q)' = Recorded(q)
  BY DEF Recorded
<1>3. \A n \in DOMAIN history : history[n].run \in Runs /\ Settled(runs[history[n].run])
  BY <1>1 DEF HistoryInv, Row
<1>4. HistoryInv'
  <2>1. \A n \in DOMAIN history : \E r \in Runs :
           Settled(runs'[r]) /\ \E res \in Recorded(r)' : history[n] = Row(r, res)
    BY <1>1, <1>2 DEF HistoryInv
  <2>2. ASSUME NEW q \in Runs, runs'[q].phase \in {"done", "forgotten"}, NEW res \in Recorded(q)'
        PROVE  HasRow(q, res)
    <3>1. Settled(runs[q]) /\ (q \in Completed \/ \A x \in Recorded(q) : HasRow(q, x))
      BY <2>2
    <3>2. res \in Recorded(q)
      BY <1>2, <3>1
    <3>3. QED
      BY <1>1, <3>1, <3>2 DEF HistoryInv
  <2>3. \A q \in Completed' : \A res \in Recorded(q)' : \E k \in DOMAIN history : history[k] = Row(q, res)
    BY <2>2 DEF Completed, HasRow
  <2>4. QED
    BY <1>1, <2>1, <2>3 DEF HistoryInv, HasRow, Settled, Row
<1>5. JobsWhole'
  <2>1. ASSUME NEW r \in Runs, runs'[r].kind = "job", runs'[r].phase = "recording"
        PROVE  /\ loop' = r
               /\ \A m, n \in DOMAIN history : m < n /\ history[m].run = r => history[n].run = r
    <3>1. loop' = r /\ runs[r].phase \in {"running", "recording"} /\ runs[r].kind = "job"
      BY <2>1
    <3>2. CASE runs[r].phase = "recording"
      BY <1>1, <3>1, <3>2 DEF JobsWhole
    <3>3. CASE runs[r].phase = "running"
      BY <1>3, <3>1, <3>3 DEF Settled
    <3>4. QED
      BY <3>1, <3>2, <3>3
  <2>2. \A n \in DOMAIN history : runs'[history[n].run].kind = runs[history[n].run].kind
    BY <1>3
  <2>3. QED
    BY <1>1, <2>1, <2>2 DEF JobsWhole
<1>6. QED
  BY <1>4, <1>5

\* A run with new results, and what it then keeps of the lookalike search.
With(r, new, raw, failing) ==
    [phase |-> runs[r].phase, kind |-> runs[r].kind, types |-> runs[r].types,
     results |-> runs[r].results \cup new, phishing |-> raw, lost |-> failing]

\* Either the lookalike search is among the results or nothing of it changes.
Explained(r, new, raw, failing) ==
    \/ Searched(raw, failing)
    \/ /\ raw = runs[r].phishing /\ failing = runs[r].lost
       /\ \A a \in new : a.detector # "phishing"

\* New results of a run that is under way.
LEMMA ResultsAdded ==
    ASSUME RepInv, NEW r \in Runs, NEW new, IsFiniteSet(new), runs[r].phase = "running", history' = history,
           loop' = loop,
           \A a \in new : HasScore(a) /\ Lacking(r, a.detector),
           \A a, b \in new : a.detector = b.detector => a = b,
           NEW raw, NEW failing, Explained(r, new, raw, failing),
           runs' = [runs EXCEPT ![r] = With(r, new, raw, failing)]
    PROVE  RepInv'
<1>1. RunShape /\ ResultsInv /\ JobsWhole
  BY DEF RepInv
<1>2. /\ RunShape' /\ \A q \in Runs : q # r => runs'[q] = runs[q]
      /\ runs'[r].results = runs[r].results \cup new
      /\ runs'[r].phase = runs[r].phase /\ runs'[r].kind = runs[r].kind
      /\ runs'[r].phishing = raw /\ runs'[r].lost = failing
  <2>1. runs = [q \in Runs |-> runs[q]]
    BY <1>1 DEF RunShape
  <2>2. \A q \in Runs : runs'[q] = IF q = r THEN With(r, new, raw, failing) ELSE runs[q]
    BY <2>1
  <2>3. runs' = [q \in Runs |-> runs'[q]]
    BY <2>1
  <2>4. QED
    BY <1>1, <2>2, <2>3 DEF RunShape, IsRun, With
<1>3. ResultsInv'
  <2>1. \A a \in new : \A b \in runs[r].results : a.detector # b.detector
    BY DEF Lacking
  <2>2. IsFiniteSet(runs[r].results \cup new)
    BY <1>1, FS_Union DEF ResultsInv
  <2>3. /\ \A a, b \in runs[r].results \cup new : a.detector = b.detector => a = b
        /\ \A a \in runs[r].results \cup new : HasScore(a)
    BY <1>1, <2>1 DEF ResultsInv
  <2>4. QED
    BY <1>1, <1>2, <2>2, <2>3 DEF ResultsInv, HasScore
<1>4. ~Settled(runs[r])
  BY DEF Settled
<1>5. HistoryInv' /\ JobsWhole'
  <2>1. \A q \in Runs : runs'[q].phase = runs[q].phase /\ runs'[q].kind = runs[q].kind
    BY <1>2
  <2>2. \A q \in Runs : runs[q].phase = "recording" /\ runs[q].kind = "job" => loop' = q
    BY <1>1 DEF JobsWhole
  <2>3. \A q \in Runs : runs[q].phase \in {"done", "forgotten"} => q \in Completed
    BY DEF Completed
  <2>4. QED
    BY <1>2, <1>4, <2>1, <2>2, <2>3, HistoryKept DEF Settled
<1>6. SearchInv'
  <2>1. \A a \in runs[r].results \cup new : a.detector = "phishing" => Searched(raw, failing)
    BY DEF RepInv, SearchInv, Explained
  <2>2. \A q \in Runs : \A a \in runs'[q].results :
           a.detector = "phishing" => Searched(runs'[q].phishing, runs'[q].lost)
    BY <1>2, <2>1 DEF RepInv, SearchInv
  <2>3. QED
    BY <2>2 DEF SearchInv, Searched
<1>7. QED
  BY <1>2, <1>3, <1>5, <1>6 DEF RepInv

LEMMA RunIsRecord ==
    ASSUME RunShape, NEW r \in Runs
    PROVE  /\ runs = [q \in Runs |-> runs[q]]
           /\ \E p, k, t, a, f, l :
                 runs[r] = [phase |-> p, kind |-> k, types |-> t, results |-> a,
                            phishing |-> f, lost |-> l]
BY DEF RunShape, IsRun

LEMMA WithIs ==
    ASSUME RunShape, NEW r \in Runs, NEW new
    PROVE  [runs[r] EXCEPT !.results = runs[r].results \cup new]
              = With(r, new, runs[r].phishing, runs[r].lost)
<1>1. PICK p, k, t, a, f, l :
         runs[r] = [phase |-> p, kind |-> k, types |-> t, results |-> a,
                    phishing |-> f, lost |-> l]
  BY RunIsRecord
<1>2. /\ runs[r].phase = p /\ runs[r].kind = k /\ runs[r].types = t /\ runs[r].results = a
      /\ runs[r].phishing = f /\ runs[r].lost = l
  BY <1>1
<1>3. \A x : [runs[r] EXCEPT !.results = x]
                = [phase |-> p, kind |-> k, types |-> t, results |-> x, phishing |-> f, lost |-> l]
  BY <1>1
<1>4. QED
  BY <1>2, <1>3, Zenon DEF With

LEMMA FiledIs ==
    ASSUME RunShape, NEW r \in Runs, NEW new
    PROVE  Filed(r, new) = [runs EXCEPT ![r] = With(r, new, runs[r].phishing, runs[r].lost)]
<1>1. Filed(r, new) = [runs EXCEPT ![r] = [runs[r] EXCEPT !.results = runs[r].results \cup new]]
  BY RunIsRecord DEF Filed
<1>2. QED
  BY <1>1, WithIs

LEMMA StartKeepsRep == ASSUME RepInv, NEW r \in Runs, StartRun(r) PROVE RepInv'
<1>1. PICK kind \in Kinds, plan \in Plans :
         runs' = [runs EXCEPT ![r].phase = "running", ![r].kind = kind, ![r].types = plan[r]]
  BY DEF StartRun
<1>2. runs[r] = NoRun /\ history' = history
  BY DEF StartRun
<1>3. RunShape /\ ResultsInv /\ runs = [q \in Runs |-> runs[q]]
  BY DEF RepInv, RunShape
<1> DEFINE new == [phase |-> "running", kind |-> kind, types |-> plan[r], results |-> {},
                   phishing |-> NoPhishing, lost |-> {}]
<1>4. runs' = [runs EXCEPT ![r] = new]
  <2> DEFINE a == [NoRun EXCEPT !.phase = "running"]
             b == [a EXCEPT !.kind = kind]
             c == [b EXCEPT !.types = plan[r]]
  <2>1. runs' = [runs EXCEPT ![r] = c]
    BY <1>1, <1>2, <1>3
  <2>2. a = [phase |-> "running", kind |-> "job", types |-> {}, results |-> {},
             phishing |-> NoPhishing, lost |-> {}]
    BY DEF NoRun
  <2> HIDE DEF a
  <2>3. b = [phase |-> "running", kind |-> kind, types |-> {}, results |-> {},
             phishing |-> NoPhishing, lost |-> {}]
    BY <2>2
  <2> HIDE DEF b
  <2>4. c = new
    BY <2>3
  <2> HIDE DEF c
  <2>5. QED
    BY <2>1, <2>4
<1>5. /\ runs' = [q \in Runs |-> runs'[q]]
      /\ \A q \in Runs : runs'[q] = IF q = r THEN new ELSE runs[q]
  BY <1>3, <1>4
<1>6. RunShape'
  BY <1>3, <1>5 DEF RunShape, IsRun
<1>7. ResultsInv'
  <2>1. \A q \in Runs : runs'[q].results = runs[q].results
    BY <1>2, <1>5 DEF NoRun
  <2>2. QED
    BY <1>3, <2>1 DEF ResultsInv, HasScore
<1>8. runs[r].phase = "none" /\ runs'[r].phase = "running" /\ \A q \in Runs : q # r => runs'[q] = runs[q]
  BY <1>2, <1>5 DEF NoRun
<1>9. HistoryInv' /\ JobsWhole'
  <2>1. \A q \in Runs : runs[q].phase = "recording" /\ runs[q].kind = "job" => loop' = q
    BY DEF RepInv, JobsWhole, StartRun
  <2>2. \A q \in Runs : runs[q].phase \in {"done", "forgotten"} => q \in Completed
    BY DEF Completed
  <2>3. QED
    BY <1>2, <1>8, <2>1, <2>2, HistoryKept DEF Settled
<1>10. SearchInv'
  <2>1. \A q \in Runs : \A a \in runs'[q].results :
           a.detector = "phishing" => Searched(runs'[q].phishing, runs'[q].lost)
    BY <1>5 DEF RepInv, SearchInv
  <2>2. QED
    BY <2>1 DEF SearchInv, Searched
<1>11. QED
  BY <1>6, <1>7, <1>9, <1>10 DEF RepInv

LEMMA UnchangedKeepsRep == ASSUME RepInv, UNCHANGED <<runs, history, loop>> PROVE RepInv'
BY DEF RepInv, RunShape, ResultsInv, HasScore, SearchInv, Searched, HistoryInv, JobsWhole, Completed,
       HasRow, Row, Settled, Recorded

LEMMA ExploitationKeepsRep == ASSUME RepInv, NEW r \in Runs, RunExploitation(r) PROVE RepInv'
<1> DEFINE e == Exploitation(r)
<1>1. e.detector = "exploitation"
  BY DEF Exploitation, Failed, Listing, Result
<1>2. history' = history /\ loop' = loop /\ Lacking(r, "exploitation") /\ (runs' = Filed(r, {e}) \/ runs' = runs)
  BY DEF RunExploitation
<1> HIDE DEF e
<1>3. CASE runs' = Filed(r, {e})
  <2>1. runs' = [runs EXCEPT ![r] = With(r, {e}, runs[r].phishing, runs[r].lost)]
    BY <1>3, FiledIs DEF RepInv
  <2>2. IsFiniteSet({e})
    BY FS_Singleton
  <2>3. \A a \in {e} : HasScore(a) /\ Lacking(r, a.detector)
    BY <1>1, <1>2 DEF HasScore
  <2>4. runs[r].phase = "running"
    BY <1>2 DEF Lacking
  <2>5. Explained(r, {e}, runs[r].phishing, runs[r].lost)
    BY <1>1 DEF Explained
  <2>6. QED
    BY <1>2, <2>1, <2>2, <2>3, <2>4, <2>5, ResultsAdded
<1>4. CASE runs' = runs
  BY <1>2, <1>4, UnchangedKeepsRep
<1>5. QED
  BY <1>2, <1>3, <1>4

LEMMA PhishingKeepsRep == ASSUME RepInv, NEW r \in Runs, RunPhishing(r) PROVE RepInv'
<1>1. history' = history /\ loop' = loop /\ Lacking(r, "phishing") /\ RunShape
  BY DEF RunPhishing, RepInv
<1>2. \A raw : Phishing(raw).detector = "phishing"
  BY DEF Phishing, Result
<1>3. ASSUME NEW raw, NEW failing, Searched(raw, failing), runs' = [runs EXCEPT ![r] = With(r, {Phishing(raw)}, raw, failing)]
      PROVE  RepInv'
  <2> DEFINE e == Phishing(raw)
  <2>1. e.detector = "phishing"
    BY <1>2
  <2>2. runs' = [runs EXCEPT ![r] = With(r, {e}, raw, failing)]
    BY <1>3
  <2> HIDE DEF e
  <2>3. IsFiniteSet({e})
    BY FS_Singleton
  <2>4. \A a \in {e} : HasScore(a) /\ Lacking(r, a.detector)
    BY <1>1, <2>1 DEF HasScore
  <2>5. runs[r].phase = "running"
    BY <1>1 DEF Lacking
  <2>6. Explained(r, {e}, raw, failing)
    BY <1>3 DEF Explained
  <2>7. QED
    BY <1>1, <2>2, <2>3, <2>4, <2>5, <2>6, ResultsAdded
<1>4. ASSUME NEW raw, NEW failing, Searched(raw, failing),
             runs' = [runs EXCEPT ![r].results = @ \cup {Phishing(raw)},
                                  ![r].phishing = raw, ![r].lost = failing]
      PROVE  RepInv'
  <2> DEFINE e == Phishing(raw)
             a == [runs[r] EXCEPT !.results = runs[r].results \cup {e}]
             b == [a EXCEPT !.phishing = raw]
             c == [b EXCEPT !.lost = failing]
  <2>1. runs' = [runs EXCEPT ![r] = c]
    BY <1>1, <1>4, RunIsRecord
  <2>2. a = With(r, {e}, runs[r].phishing, runs[r].lost)
    BY <1>1, WithIs
  <2> HIDE DEF a
  <2>3. b = With(r, {e}, raw, runs[r].lost)
    BY <2>2 DEF With
  <2> HIDE DEF b
  <2>4. c = With(r, {e}, raw, failing)
    BY <2>3 DEF With
  <2> HIDE DEF c
  <2>5. QED
    BY <1>3, <1>4, <2>1, <2>4
<1>5. ASSUME NEW raw, \A failing : Searched(raw, failing),
             runs' = [runs EXCEPT ![r].results = @ \cup {Phishing(raw)}, ![r].phishing = raw]
      PROVE  RepInv'
  <2> DEFINE e == Phishing(raw)
             a == [runs[r] EXCEPT !.results = runs[r].results \cup {e}]
             b == [a EXCEPT !.phishing = raw]
  <2>1. runs' = [runs EXCEPT ![r] = b]
    BY <1>1, <1>5, RunIsRecord
  <2>2. a = With(r, {e}, runs[r].phishing, runs[r].lost)
    BY <1>1, WithIs
  <2> HIDE DEF a
  <2>3. b = With(r, {e}, raw, runs[r].lost)
    BY <2>2 DEF With
  <2> HIDE DEF b
  <2>4. QED
    BY <1>3, <1>5, <2>1, <2>3
<1>6. \A failing \in SUBSET Checked : \A dead : Searched(RunPhishingDetector(failing, dead), failing)
  BY DEF Searched
<1>7. \A failing : Searched(PhishingRaised, failing)
  BY DEF Searched
<1>8. CASE \E failing \in SUBSET Checked : \E dead :
              LET raw == RunPhishingDetector(failing, dead)
              IN  runs' = [runs EXCEPT ![r].results = @ \cup {Phishing(raw)},
                                       ![r].phishing = raw, ![r].lost = failing]
  BY <1>4, <1>6, <1>8
<1>9. QED
  BY <1>5, <1>7, <1>8 DEF RunPhishing

LEMMA DerivedResults ==
    /\ IsFiniteSet(ScanDerived)
    /\ \A t \in ScanDerived : \A res \in Derived(t) : res.detector = t /\ HasScore(res)
    /\ \A t \in ScanDerived : Failed(t).detector = t /\ HasScore(Failed(t))
<1>1. IsFiniteSet(ScanDerived)
  <2>1. ScanDerived = (({"vulnerability"} \cup {"subdomain_takeover"}) \cup ({"dns_integrity"} \cup {"waf_absence"}))
                      \cup ({"cors_csp"} \cup {"concentration_risk"})
    BY DEF ScanDerived
  <2>2. \A x : IsFiniteSet({x})
    BY FS_Singleton
  <2>3. \A S, T : IsFiniteSet(S) /\ IsFiniteSet(T) => IsFiniteSet(S \cup T)
    BY FS_Union
  <2>4. QED
    BY <2>1, <2>2, <2>3
<1>2. ASSUME NEW t \in ScanDerived, NEW res \in Derived(t) PROVE res.detector = t /\ HasScore(res)
  <2>1. CASE t = "vulnerability"
    <3>1. PICK a \in Assessed :
             res = Result(t, IF a[1] = 0 THEN "nothing found" ELSE "findings", a[2], a[1], FALSE)
      BY <2>1 DEF Derived
    <3>2. a[2] \in 0..100
      BY ReportingAssumption
    <3>3. res.detector = t /\ res.score = a[2]
      BY <3>1 DEF Result
    <3>4. QED
      BY <3>2, <3>3 DEF HasScore, NoScore
  <2>2. CASE t # "vulnerability"
    <3>1. /\ \A d, n : Listing(d, n).detector = d
          /\ \A d, p, e : Informing(d, p, e).detector = d
          /\ \A d : Failed(d).detector = d
      BY DEF Listing, Informing, Failed, Result
    <3>2. ASSUME t = "subdomain_takeover" PROVE res.detector = t
      <4>1. res \in {Listing(t, n) : n \in 0..1} \cup {Failed(t)}
        BY Zenon, <3>2 DEF Derived
      <4>2. QED
        BY <3>1, <4>1
    <3>3. ASSUME t = "cors_csp" PROVE res.detector = t
      <4>1. res \in {Listing(t, n) : n \in 0..1}
        BY Zenon, <3>3 DEF Derived
      <4>2. QED
        BY <3>1, <4>1
    <3>4. ASSUME t = "dns_integrity" PROVE res.detector = t
      <4>1. res \in {Informing(t, "nothing found", e) : e \in BOOLEAN} \cup {Informing(t, "findings", FALSE)}
        BY Zenon, <3>4 DEF Derived
      <4>2. \E p, e : res = Informing(t, p, e)
        BY Zenon, <4>1
      <4>3. QED
        BY <3>1, <4>2
    <3>5. ASSUME t = "waf_absence" PROVE res.detector = t
      <4>1. res \in {Informing(t, p, FALSE) : p \in {"present", "no signature"}}
        BY Zenon, <3>5 DEF Derived
      <4>2. \E p, e : res = Informing(t, p, e)
        BY Zenon, <4>1
      <4>3. QED
        BY <3>1, <4>2
    <3>6. ASSUME t = "concentration_risk" PROVE res.detector = t
      <4>1. res \in {Informing(t, p, FALSE) : p \in {"hosted on", "undetermined"}} \cup {Informing(t, "failed", TRUE)}
        BY Zenon, <3>6 DEF Derived
      <4>2. \E p, e : res = Informing(t, p, e)
        BY Zenon, <4>1
      <4>3. QED
        BY <3>1, <4>2
    <3>7. res.detector = t
      BY <2>2, <3>2, <3>3, <3>4, <3>5, <3>6 DEF ScanDerived
    <3>8. QED
      BY <2>2, <3>7 DEF HasScore
  <2>3. QED
    BY <2>1, <2>2
<1>3. \A t \in ScanDerived : Failed(t).detector = t /\ HasScore(Failed(t))
  BY DEF Failed, Result, HasScore
<1>4. QED
  BY <1>1, <1>2, <1>3

LEMMA ScanDerivedKeepsRep == ASSUME RepInv, NEW r \in Runs, RunScanDerived(r) PROVE RepInv'
<1> DEFINE lacking == {t \in ScanDerived : Lacking(r, t)}
<1>1. history' = history /\ loop' = loop /\ lacking # {} /\ lacking \subseteq ScanDerived
  BY DEF RunScanDerived
<1>2. runs[r].phase = "running" /\ IsFiniteSet(lacking)
  BY <1>1, DerivedResults, FS_Subset DEF Lacking
<1>3. ASSUME NEW said, \A t \in lacking : said[t].detector = t /\ HasScore(said[t]),
             runs' = Filed(r, {said[t] : t \in lacking})
      PROVE  RepInv'
  <2> DEFINE new == {said[t] : t \in lacking}
  <2>1. runs' = [runs EXCEPT ![r] = With(r, new, runs[r].phishing, runs[r].lost)]
    BY <1>3, FiledIs DEF RepInv
  <2>2. IsFiniteSet(new)
    <3> DEFINE f == [t \in lacking |-> said[t]]
    <3>1. f \in Surjection(lacking, new)
      BY DEF Surjection
    <3>2. QED
      BY <1>2, <3>1, FS_Surjection
  <2>3. \A a \in new : \E t \in lacking : a = said[t] /\ a.detector = t /\ HasScore(a) /\ Lacking(r, t)
    BY <1>3
  <2>4. \A a, b \in new : a.detector = b.detector => a = b
    BY <2>3
  <2> HIDE DEF new
  <2>5. Explained(r, new, runs[r].phishing, runs[r].lost)
    BY <1>1, <2>3 DEF Explained, ScanDerived
  <2>6. QED
    BY <1>1, <1>2, <2>1, <2>2, <2>3, <2>4, <2>5, ResultsAdded
<1>4. CASE \E said \in [lacking -> UNION {Derived(t) : t \in lacking}] :
               /\ \A t \in lacking : said[t] \in Derived(t)
               /\ runs' = Filed(r, {said[t] : t \in lacking})
  <2>1. PICK said : /\ \A t \in lacking : said[t] \in Derived(t)
                    /\ runs' = Filed(r, {said[t] : t \in lacking})
    BY <1>4
  <2>2. \A t \in lacking : said[t].detector = t /\ HasScore(said[t])
    BY <1>1, <2>1, DerivedResults
  <2>3. QED
    BY <1>3, <2>1, <2>2
<1>5. CASE runs' = Filed(r, {Failed(t) : t \in lacking})
  <2> DEFINE said == [t \in lacking |-> Failed(t)]
  <2>1. \A t \in lacking : said[t].detector = t /\ HasScore(said[t])
    BY <1>1, DerivedResults
  <2>2. {said[t] : t \in lacking} = {Failed(t) : t \in lacking}
    OBVIOUS
  <2> HIDE DEF said
  <2>3. QED
    BY <1>3, <1>5, <2>1, <2>2
<1>6. QED
  BY <1>4, <1>5 DEF RunScanDerived

\* A run of which only the phase changes.
LEMMA PhaseOnly ==
    ASSUME RunShape, NEW r \in Runs, NEW phase, NEW y, y = [runs[r] EXCEPT !.phase = phase]
    PROVE  /\ IsRun(y) /\ y.phase = phase
           /\ y.results = runs[r].results /\ y.kind = runs[r].kind
           /\ y.phishing = runs[r].phishing /\ y.lost = runs[r].lost
<1>1. PICK p, k, t, a, f, l :
         runs[r] = [phase |-> p, kind |-> k, types |-> t, results |-> a,
                    phishing |-> f, lost |-> l]
  BY RunIsRecord
<1>2. y = [phase |-> phase, kind |-> k, types |-> t, results |-> a, phishing |-> f, lost |-> l]
  BY <1>1
<1>3. QED
  BY <1>1, <1>2 DEF IsRun

\* Nothing but the phases of runs changes.
PhasesMove ==
    /\ runs' = [r \in Runs |-> runs'[r]]
    /\ \A r \in Runs : /\ IsRun(runs'[r])
                       /\ runs'[r].results = runs[r].results /\ runs'[r].kind = runs[r].kind
                       /\ runs'[r].phishing = runs[r].phishing /\ runs'[r].lost = runs[r].lost

LEMMA PhasesKeep ==
    ASSUME RepInv, PhasesMove
    PROVE  RunShape' /\ ResultsInv' /\ SearchInv'
<1>1. RunShape'
  BY DEF PhasesMove, RunShape, IsRun
<1>2. ResultsInv'
  BY DEF PhasesMove, RepInv, ResultsInv, HasScore
<1>3. SearchInv'
  BY DEF PhasesMove, RepInv, SearchInv, Searched
<1>4. QED
  BY <1>1, <1>2, <1>3

LEMMA OnePhaseMoves ==
    ASSUME RunShape, NEW r \in Runs, NEW phase, runs' = Rephased(r, phase)
    PROVE  PhasesMove /\ runs'[r].phase = phase /\ \A q \in Runs : q # r => runs'[q] = runs[q]
<1> DEFINE y == [runs[r] EXCEPT !.phase = phase]
<1>1. runs = [q \in Runs |-> runs[q]] /\ \A q \in Runs : IsRun(runs[q])
  BY DEF RunShape
<1>2. runs' = [runs EXCEPT ![r] = y]
  BY <1>1 DEF Rephased
<1>3. /\ IsRun(y) /\ y.phase = phase
      /\ y.results = runs[r].results /\ y.kind = runs[r].kind
      /\ y.phishing = runs[r].phishing /\ y.lost = runs[r].lost
  BY PhaseOnly
<1> HIDE DEF y
<1>4. /\ runs' = [q \in Runs |-> runs'[q]] /\ runs'[r] = y
      /\ \A q \in Runs : q # r => runs'[q] = runs[q]
  BY <1>1, <1>2
<1>5. QED
  BY <1>1, <1>3, <1>4 DEF PhasesMove

\* A run begins or ends its recording, or fails at it.
LEMMA RephasingKeepsRep ==
    ASSUME RepInv, NEW r \in Runs, BeginRecording(r) \/ EndRecording(r) \/ RecordingFails(r)
    PROVE  RepInv'
<1>1. RunShape /\ JobsWhole
  BY DEF RepInv
<1>2. PICK phase \in {"recording", "done", "failed"} :
        /\ runs' = Rephased(r, phase) /\ history' = history /\ loop \in {Nobody, r}
        /\ phase = "recording" => runs[r].phase = "running" /\ loop' = r
        /\ phase # "recording" => runs[r].phase = "recording"
        /\ phase = "done" => \A res \in Recorded(r) : HasRow(r, res)
  BY DEF BeginRecording, EndRecording, RecordingFails
<1>3. PhasesMove /\ runs'[r].phase = phase /\ \A q \in Runs : q # r => runs'[q] = runs[q]
  BY <1>1, <1>2, OnePhaseMoves
<1>4. RunShape' /\ ResultsInv' /\ SearchInv'
  BY <1>3, PhasesKeep
<1>5. ASSUME NEW q \in Runs, q # r, runs[q].phase = "recording", runs[q].kind = "job"
      PROVE  FALSE
  BY <1>1, <1>2, <1>5, ReportingAssumption, KevAssumption DEF JobsWhole
<1>6. \A q \in Runs : runs'[q].results = runs[q].results /\ runs'[q].kind = runs[q].kind
  BY <1>3 DEF PhasesMove
<1>7. HistoryInv' /\ JobsWhole'
  <2>1. ASSUME NEW q \in Runs
        PROVE  /\ Settled(runs[q]) => Settled(runs'[q])
               /\ runs'[q].phase \in {"done", "forgotten"} =>
                      Settled(runs[q]) /\ (q \in Completed \/ \A res \in Recorded(q) : HasRow(q, res))
               /\ runs'[q].phase = "recording" /\ runs'[q].kind = "job" =>
                      loop' = q /\ runs[q].phase \in {"running", "recording"} /\ runs[q].kind = "job"
    <3>1. CASE q = r
      BY <1>2, <1>3, <1>6, <3>1 DEF Settled
    <3>2. CASE q # r
      BY <1>3, <1>5, <3>2 DEF Settled, Completed
    <3>3. QED
      BY <3>1, <3>2
  <2>2. QED
    BY <1>2, <1>6, <2>1, HistoryKept
<1>8. QED
  BY <1>4, <1>7 DEF RepInv

LEMMA RestartKeepsRep == ASSUME RepInv, Restart PROVE RepInv'
<1>1. history' = history /\ RunShape /\ runs' = [r \in Runs |-> runs'[r]]
  BY DEF Restart, RepInv
<1>2. \A r \in Runs : \/ runs'[r] = runs[r] /\ runs[r].phase \notin {"running", "recording", "done"}
                      \/ /\ runs'[r] = [runs[r] EXCEPT !.phase = "lost"]
                         /\ runs[r].phase \in {"running", "recording"}
                      \/ runs'[r] = [runs[r] EXCEPT !.phase = "forgotten"] /\ runs[r].phase = "done"
  BY DEF Restart
<1>3. ASSUME NEW r \in Runs
      PROVE  /\ IsRun(runs'[r])
             /\ runs'[r].results = runs[r].results /\ runs'[r].kind = runs[r].kind
             /\ runs'[r].phishing = runs[r].phishing /\ runs'[r].lost = runs[r].lost
             /\ Settled(runs[r]) => Settled(runs'[r])
             /\ runs'[r].phase # "recording"
             /\ runs'[r].phase \in {"done", "forgotten"} => runs[r].phase \in {"done", "forgotten"}
  <2>1. CASE runs'[r] = runs[r] /\ runs[r].phase \notin {"running", "recording", "done"}
    BY <1>1, <2>1 DEF RunShape
  <2>2. CASE runs'[r] = [runs[r] EXCEPT !.phase = "lost"] /\ runs[r].phase \in {"running", "recording"}
    <3>1. /\ IsRun(runs'[r]) /\ runs'[r].phase = "lost"
          /\ runs'[r].results = runs[r].results /\ runs'[r].kind = runs[r].kind
          /\ runs'[r].phishing = runs[r].phishing /\ runs'[r].lost = runs[r].lost
      BY <1>1, <2>2, PhaseOnly
    <3>2. QED
      BY <3>1 DEF Settled
  <2>3. CASE runs'[r] = [runs[r] EXCEPT !.phase = "forgotten"] /\ runs[r].phase = "done"
    <3>1. /\ IsRun(runs'[r]) /\ runs'[r].phase = "forgotten"
          /\ runs'[r].results = runs[r].results /\ runs'[r].kind = runs[r].kind
          /\ runs'[r].phishing = runs[r].phishing /\ runs'[r].lost = runs[r].lost
      BY <1>1, <2>3, PhaseOnly
    <3>2. QED
      BY <2>3, <3>1 DEF Settled
  <2>4. QED
    BY <1>2, <2>1, <2>2, <2>3
<1>4. PhasesMove
  BY <1>1, <1>3 DEF PhasesMove
<1>5. HistoryInv' /\ JobsWhole'
  <2>1. \A q \in Runs : runs[q].phase \in {"done", "forgotten"} => q \in Completed /\ Settled(runs[q])
    BY DEF Completed, Settled
  <2>2. QED
    BY <1>1, <1>3, <2>1, HistoryKept
<1>6. QED
  BY <1>4, <1>5, PhasesKeep DEF RepInv

LEMMA Appended ==
    ASSUME NEW s, IsList(s), NEW row
    PROVE  /\ IsList(Append(s, row)) /\ DOMAIN Append(s, row) = 1..(Len(s) + 1)
           /\ DOMAIN s = 1..Len(s) /\ Len(s) \in Nat
           /\ \A k \in 1..Len(s) : Append(s, row)[k] = s[k]
           /\ Append(s, row)[Len(s) + 1] = row
<1> DEFINE V == {s[k] : k \in 1..Len(s)} \cup {row}
<1>1. s \in Seq(V) /\ row \in V
  <2>1. s \in [1..Len(s) -> V] /\ Len(s) \in Nat
    BY DEF IsList
  <2>2. row \in V
    OBVIOUS
  <2> HIDE DEF V
  <2>3. QED
    BY <2>1, <2>2
<1> HIDE DEF V
<1>2. /\ Append(s, row) \in Seq(V) /\ Len(Append(s, row)) = Len(s) + 1 /\ Len(s) \in Nat
      /\ DOMAIN s = 1..Len(s)
      /\ \A k \in 1..Len(s) : Append(s, row)[k] = s[k]
      /\ Append(s, row)[Len(s) + 1] = row
  BY <1>1
<1>3. IsList(Append(s, row))
  <2> DEFINE u == Append(s, row)
  <2>1. u \in Seq(V)
    BY <1>2
  <2> HIDE DEF u
  <2>2. IsList(u)
    BY <2>1 DEF IsList
  <2>3. QED
    BY <2>2 DEF u
<1>4. QED
  BY <1>2, <1>3 DEF IsList

\* record_score: the new row is of a run that had none of the type, and if a
\* job records, it is that job's.
LEMMA RecordRowKeepsRep == ASSUME RepInv, NEW r \in Runs, RecordRow(r) PROVE RepInv'
<1>1. RunShape /\ ResultsInv /\ HistoryInv /\ JobsWhole
  BY DEF RepInv
<1>2. PICK res \in Recorded(r) :
        /\ ~HasRow(r, res) /\ history' = Append(history, Row(r, res))
        /\ loop' = r \/ (MayAwait(r, res) /\ loop' = Nobody)
  BY DEF RecordRow
<1>3. runs' = runs /\ runs[r].phase = "recording" /\ loop \in {Nobody, r} /\ Nobody \notin Runs
  BY ReportingAssumption DEF RecordRow
<1> DEFINE m == Len(history)
           row == Row(r, res)
<1>4. /\ IsList(history') /\ m \in Nat /\ DOMAIN history = 1..m /\ DOMAIN history' = 1..(m + 1)
      /\ \A k \in 1..m : history'[k] = history[k]
      /\ history'[m + 1] = row
  BY <1>1, <1>2, Appended DEF HistoryInv
<1>5. \A q, x : Row(q, x).run = q /\ Row(q, x).detector = x.detector
  BY DEF Row
<1>6. /\ \A q \in Runs : Recorded(q)' = Recorded(q)
      /\ Completed' = Completed
  BY <1>3 DEF Recorded, Completed
<1>7. row.run = r /\ row.detector = res.detector
  BY <1>5
<1> HIDE DEF m, row
<1>8. \A k \in 1..(m + 1) : k \in 1..m \/ k = m + 1
  BY <1>4
<1>9. HistoryInv'
  <2>1. \A n \in 1..(m + 1) : \E q \in Runs :
           Settled(runs[q]) /\ \E x \in Recorded(q) : history'[n] = Row(q, x)
    <3>1. \A n \in 1..m : \E q \in Runs :
             Settled(runs[q]) /\ \E x \in Recorded(q) : history'[n] = Row(q, x)
      BY <1>1, <1>4 DEF HistoryInv
    <3>2. Settled(runs[r]) /\ history'[m + 1] = Row(r, res)
      BY <1>3, <1>4 DEF Settled, row
    <3>3. QED
      BY <1>8, <3>1, <3>2
  <2>2. ASSUME NEW q \in Completed, NEW x \in Recorded(q)
        PROVE  \E n \in 1..(m + 1) : history'[n] = Row(q, x)
    <3>1. PICK n \in 1..m : history[n] = Row(q, x)
      BY <1>1, <1>4 DEF HistoryInv, HasRow
    <3>2. n \in 1..(m + 1) /\ history'[n] = Row(q, x)
      BY <1>4, <3>1
    <3>3. QED
      BY <3>2
  <2>3. ASSUME NEW k \in 1..m, history[k].run = r
        PROVE  history[k].detector # res.detector
    <3>1. PICK q \in Runs : \E x \in Recorded(q) : history[k] = Row(q, x)
      BY <1>1, <1>4 DEF HistoryInv
    <3>2. PICK x \in Recorded(q) : history[k] = Row(q, x)
      BY <3>1
    <3>3. q = r /\ history[k].detector = x.detector
      BY <1>5, <2>3, <3>2
    <3>4. x # res
      BY <1>2, <1>4, <3>2, <3>3 DEF HasRow
    <3>5. x \in runs[r].results /\ res \in runs[r].results
      BY <3>2, <3>3 DEF Recorded
    <3>6. QED
      BY <1>1, <3>3, <3>4, <3>5 DEF ResultsInv
  <2>4. \A k, n \in 1..(m + 1) : k < n /\ history'[k].run = history'[n].run =>
           history'[k].detector # history'[n].detector
    <3> TAKE k, n \in 1..(m + 1)
    <3> HAVE k < n /\ history'[k].run = history'[n].run
    <3>1. k \in 1..m
      BY <1>4
    <3>2. CASE n \in 1..m
      BY <1>1, <1>4, <3>1, <3>2 DEF HistoryInv
    <3>3. CASE n = m + 1
      BY <1>4, <1>7, <2>3, <3>1, <3>3
    <3>4. QED
      BY <1>8, <3>2, <3>3
  <2>5. /\ \A n \in DOMAIN history' : \E q \in Runs :
              Settled(runs'[q]) /\ \E x \in Recorded(q)' : history'[n] = Row(q, x)
        /\ \A q \in Completed' : \A x \in Recorded(q)' : \E n \in DOMAIN history' : history'[n] = Row(q, x)
    <3>1. \A q \in Completed : q \in Runs
      BY DEF Completed
    <3>2. QED
      BY <1>3, <1>4, <1>6, <2>1, <2>2, <3>1
  <2>6. QED
    BY <1>4, <2>4, <2>5 DEF HistoryInv, HasRow, Row, Settled
<1>10. JobsWhole'
  <2>1. ASSUME NEW q \in Runs, runs[q].kind = "job", runs[q].phase = "recording"
        PROVE  /\ q = r /\ loop' = q
               /\ \A k, n \in 1..(m + 1) : k < n /\ history'[k].run = q => history'[n].run = q
    <3>1. q = r
      BY <1>1, <1>3, <2>1 DEF JobsWhole
    <3>2. loop' = r
      BY <1>2, <2>1, <3>1 DEF MayAwait
    <3>3. \A k, n \in 1..m : k < n /\ history[k].run = r => history[n].run = r
      BY <1>1, <1>4, <2>1, <3>1 DEF JobsWhole
    <3>4. ASSUME NEW k \in 1..(m + 1), NEW n \in 1..(m + 1), k < n, history'[k].run = r
          PROVE  history'[n].run = r
      <4>1. k \in 1..m
        BY <1>4, <3>4
      <4>2. CASE n \in 1..m
        BY <1>4, <3>3, <3>4, <4>1, <4>2
      <4>3. CASE n = m + 1
        BY <1>4, <1>7, <4>3
      <4>4. QED
        BY <1>8, <4>2, <4>3
    <3>5. QED
      BY <3>1, <3>2, <3>4
  <2>2. ASSUME NEW k \in 1..(m + 1), NEW i \in 1..(m + 1), NEW n \in 1..(m + 1), k < i, i < n,
               history'[k].run = history'[n].run, runs[history'[k].run].kind = "job"
        PROVE  history'[i].run = history'[k].run
    <3>1. k \in 1..m /\ i \in 1..m
      BY <1>4, <2>2
    <3>2. CASE n \in 1..m
      BY <1>1, <1>4, <2>2, <3>1, <3>2 DEF JobsWhole
    <3>3. CASE n = m + 1
      <4>1. history'[k].run = r /\ runs[r].kind = "job"
        BY <1>4, <1>7, <2>2, <3>3
      <4>2. QED
        BY <1>3, <2>1, <2>2, <4>1
    <3>4. QED
      BY <1>8, <3>2, <3>3
  <2>3. QED
    BY <1>3, <1>4, <2>1, <2>2 DEF JobsWhole
<1>11. RunShape' /\ ResultsInv' /\ SearchInv'
  BY <1>1, <1>3 DEF RepInv, RunShape, ResultsInv, HasScore, SearchInv, Searched
<1>12. QED
  BY <1>9, <1>10, <1>11 DEF RepInv

LEMMA RepStep == RepInv /\ [RepNext]_repVars => RepInv'
<1> SUFFICES ASSUME RepInv, [RepNext]_repVars PROVE RepInv'
  OBVIOUS
<1>1. ASSUME NEW r \in Runs,
             \/ StartRun(r) \/ RunExploitation(r) \/ RunPhishing(r) \/ RunScanDerived(r)
             \/ BeginRecording(r) \/ RecordRow(r) \/ EndRecording(r) \/ RecordingFails(r)
      PROVE  RepInv'
  BY <1>1, StartKeepsRep, ExploitationKeepsRep, PhishingKeepsRep, ScanDerivedKeepsRep,
     RephasingKeepsRep, RecordRowKeepsRep
<1>2. CASE Restart
  BY <1>2, RestartKeepsRep
<1>3. CASE UNCHANGED <<runs, history, loop>>
  BY <1>3, UnchangedKeepsRep
<1>4. CASE UNCHANGED repVars
  BY <1>3, <1>4 DEF repVars
<1>5. QED
  BY <1>1, <1>2, <1>3, <1>4 DEF RepNext

LEMMA RepInvHolds == RepSpec => []RepInv
BY RepInitially, RepStep, PTL DEF RepSpec

\* How many rows get_score_history returns, and which they are.
ShownRows == IF Len(history) <= HistoryLimit THEN Len(history) ELSE HistoryLimit

LEMMA ScoreHistoryIs ==
    ASSUME IsList(history)
    PROVE  /\ ShownRows \in Nat /\ ShownRows <= Len(history)
           /\ Len(ScoreHistory) = ShownRows /\ DOMAIN ScoreHistory = 1..ShownRows
           /\ \A k \in 1..ShownRows : ScoreHistory[k] = history[Len(history) - k + 1]
<1> DEFINE n == Len(history)
           lo == Max({1, n - HistoryLimit + 1})
           cut == SubSeq(history, lo, n)
<1>1. n \in Nat /\ HistoryLimit \in Nat \ {0}
  BY ReportingAssumption DEF IsList
<1>2. lo = IF n <= HistoryLimit THEN 1 ELSE n - HistoryLimit + 1
  <2> DEFINE x == n - HistoryLimit + 1
  <2>1. x \in Int
    BY <1>1
  <2>2. lo = CHOOSE y \in {1, x} : \A z \in {1, x} : y >= z
    BY DEF Max
  <2>3. \A y \in {1, x} : (\A z \in {1, x} : y >= z) <=> y = (IF n <= HistoryLimit THEN 1 ELSE x)
    BY <1>1
  <2>4. (IF n <= HistoryLimit THEN 1 ELSE x) \in {1, x}
    OBVIOUS
  <2> HIDE DEF x, lo
  <2>5. lo = IF n <= HistoryLimit THEN 1 ELSE x
    BY <2>2, <2>3, <2>4
  <2>6. QED
    BY <2>5 DEF x
<1> HIDE DEF lo
<1>3. /\ ShownRows \in Nat /\ ShownRows <= n /\ ShownRows = n - lo + 1 /\ lo \in 1..(n + 1)
  BY <1>1, <1>2 DEF ShownRows
<1>4. /\ Len(cut) = ShownRows
      /\ \A k \in 1..ShownRows : cut[k] = history[lo + k - 1]
  <2> DEFINE V == {history[k] : k \in 1..n}
  <2>1. history \in Seq(V)
    BY <1>1 DEF IsList
  <2> HIDE DEF V
  <2>2. QED
    BY <1>1, <1>3, <2>1
<1>5. ScoreHistory = Reverse(cut)
  BY DEF ScoreHistory, lo
<1> HIDE DEF cut
<1>6. ScoreHistory = [k \in 1..ShownRows |-> cut[ShownRows - k + 1]]
  BY <1>4, <1>5 DEF Reverse
<1>7. \A k \in 1..ShownRows : ScoreHistory[k] = history[n - k + 1]
  <2> TAKE k \in 1..ShownRows
  <2>1. ShownRows - k + 1 \in 1..ShownRows /\ lo + (ShownRows - k + 1) - 1 = n - k + 1
    BY <1>1, <1>3
  <2>2. QED
    BY <1>4, <1>6, <2>1
<1>8. Len(ScoreHistory) = ShownRows /\ DOMAIN ScoreHistory = 1..ShownRows
  BY <1>3, <1>6
<1>9. QED
  BY <1>3, <1>7, <1>8

\* A row of the last report is a recorded result of a run.
LEMMA ReportRowIs ==
    ASSUME RepInv, NEW row \in LastReport
    PROVE  \E r \in Runs : \E res \in Recorded(r) : row = Row(r, res)
<1>1. IsList(history) /\ HistoryInv
  BY DEF RepInv, HistoryInv
<1>2. PICK k \in DOMAIN ScoreHistory : row = ScoreHistory[k]
  BY DEF LastReport, LatestByType
<1>3. k \in 1..ShownRows /\ row = history[Len(history) - k + 1]
  BY <1>1, <1>2, ScoreHistoryIs
<1>4. Len(history) - k + 1 \in 1..Len(history) /\ DOMAIN history = 1..Len(history)
  BY <1>1, <1>3, ScoreHistoryIs DEF IsList
<1>5. QED
  BY <1>1, <1>3, <1>4 DEF HistoryInv

\* A result and what its row keeps of it count the same.
LEMMA CountOfOne ==
    ASSUME NEW a, NEW b, a.score = b.score
    PROVE  CriticalCount({a}) = CriticalCount({b})
<1>1. CASE a.score # NoScore /\ a.score < 60
  <2>1. /\ {x \in {a} : x.score # NoScore /\ x.score < 60} = {a}
        /\ {x \in {b} : x.score # NoScore /\ x.score < 60} = {b}
    BY <1>1
  <2>2. QED
    BY <2>1, FS_Singleton DEF CriticalCount
<1>2. CASE ~(a.score # NoScore /\ a.score < 60)
  <2>1. /\ {x \in {a} : x.score # NoScore /\ x.score < 60} = {}
        /\ {x \in {b} : x.score # NoScore /\ x.score < 60} = {}
    BY <1>2
  <2>2. QED
    BY <2>1, FS_EmptySet DEF CriticalCount
<1>3. QED
  BY <1>1, <1>2

\* Whatever the detectors find and whoever ran them, a result that is read from
\* the history looks no worse than it did in the job's own report, and where the
\* score or the summary decides, the same (_classify_status, build_executive_pdf,
\* download_vendor_last_report).
THEOREM ReportsTellTheSame == RepSpec => []ReportsAgree
<1>1. RepInv => ReportsAgree
  <2> SUFFICES ASSUME RepInv PROVE ReportsAgree
    OBVIOUS
  <2> DEFINE Harm(x) == CASE ClassifyStatus(x) = "CLEAR" -> 0 [] ClassifyStatus(x) = "INFO" -> 1 [] OTHER -> 2
  <2>1. ASSUME NEW row \in LastReport
        PROVE  LET live == ResultOf(row.run, row.detector)
               IN  /\ Harm(FromRow(row)) <= Harm(live)
                   /\ row.detector \in {"vulnerability", "waf_absence", "concentration_risk"} /\ ~live.error
                         => /\ ClassifyStatus(FromRow(row)) = ClassifyStatus(live)
                            /\ CriticalCount({FromRow(row)}) = CriticalCount({live})
    <3>0. PICK r \in Runs : \E res \in Recorded(r) : row = Row(r, res)
      BY ReportRowIs
    <3>1. PICK res \in Recorded(r) : row = Row(r, res)
      BY <3>0
    <3>2. row.run = r /\ row.detector = res.detector
      BY <3>1 DEF Row
    <3>3. r \in Runs /\ res \in runs[r].results
      BY DEF Recorded
    <3>4. ResultOf(r, res.detector) = res /\ HasScore(res)
      <4>1. \A x \in runs[r].results : x.detector = res.detector <=> x = res
        BY <3>3 DEF RepInv, ResultsInv
      <4>2. QED
        BY <3>3, <4>1 DEF ResultOf, RepInv, ResultsInv
    <3> DEFINE old == FromRow(row)
    <3>5. /\ old.detector = res.detector /\ old.phrase = res.phrase /\ old.score = res.score
          /\ old.items = 0 /\ old.error = FALSE
      BY <3>1 DEF FromRow, Row, Result
    <3> HIDE DEF old
    <3>6. Harm(old) <= Harm(res)
      <4>1. \/ ClassifyStatus(old) = ClassifyStatus(res)
            \/ ClassifyStatus(old) = "CLEAR"
            \/ ClassifyStatus(res) \in {"ERROR", "FINDINGS"}
        <5>1. ASSUME res.error PROVE ClassifyStatus(res) = "ERROR"
          BY <5>1 DEF ClassifyStatus
        <5>2. ASSUME ~res.error, \/ res.phrase = "nothing found" \/ res.score # NoScore
                                 \/ res.phrase = "no signature"
                                 \/ res.detector \in {"waf_absence", "concentration_risk"}
              PROVE  ClassifyStatus(old) = ClassifyStatus(res)
          BY <3>5, <5>2 DEF ClassifyStatus
        <5>3. ASSUME ~res.error, res.phrase # "nothing found", res.score = NoScore,
                     res.phrase # "no signature", res.detector \notin {"waf_absence", "concentration_risk"}
              PROVE  ClassifyStatus(old) = "CLEAR"
          <6>1. ~(old.items > 0)
            BY <3>5
          <6>2. QED
            BY Zenon, <3>5, <5>3, <6>1 DEF ClassifyStatus
        <5>4. QED
          BY <5>1, <5>2, <5>3
      <4>2. \A x : /\ ClassifyStatus(x) = "CLEAR" => Harm(x) = 0
                   /\ ClassifyStatus(x) = "INFO" => Harm(x) = 1
                   /\ ClassifyStatus(x) \notin {"CLEAR", "INFO"} => Harm(x) = 2
        OBVIOUS
      <4> HIDE DEF Harm
      <4>3. \A x : Harm(x) \in 0..2
        BY <4>2
      <4>4. QED
        BY <4>1, <4>2, <4>3
    <3>7. ASSUME res.detector \in {"vulnerability", "waf_absence", "concentration_risk"}, ~res.error
          PROVE  ClassifyStatus(old) = ClassifyStatus(res)
      BY <3>4, <3>5, <3>7 DEF ClassifyStatus, HasScore
    <3>8. CriticalCount({old}) = CriticalCount({res})
      BY <3>5, CountOfOne
    <3>9. QED
      BY <3>2, <3>4, <3>6, <3>7, <3>8 DEF old
  <2>2. QED
    BY <2>1 DEF ReportsAgree
<1>2. QED
  BY <1>1, RepInvHolds, PTL

LEMMA Greatest ==
    ASSUME NEW n \in Nat, NEW S \in SUBSET (1..n), S # {}
    PROVE  \E x \in S : \A y \in S : x >= y
<1> DEFINE R == {p \in Nat \X Nat : p[1] < p[2]}
           T == {m \in Nat : n - m \in S}
<1>1. IsWellFoundedOn(R, Nat)
  BY NatLessThanWellFounded DEF OpToRel
<1>2. \A y \in S : n - y \in T
  OBVIOUS
<1>2a. T \in SUBSET Nat /\ T # {}
  BY <1>2
<1> HIDE DEF R, T
<1>3. PICK t \in T : \A u \in T : <<u, t>> \notin R
  BY <1>1, <1>2a, WFMin
<1>4. PICK x \in S : x = n - t
  BY DEF T
<1>5. ASSUME NEW y \in S PROVE x >= y
  <2>1. n - y \in T /\ n - y \in Nat /\ t \in Nat
    BY <1>2, <1>2a
  <2>2. ~(n - y < t)
    BY <1>3, <2>1 DEF R
  <2>3. QED
    BY <1>4, <2>1, <2>2
<1>6. QED
  BY <1>5

\* The greatest place of the history that something is true of.
LEMMA MaxIs ==
    ASSUME NEW n \in Nat, NEW S \in SUBSET (1..n), S # {}
    PROVE  Max(S) \in S /\ \A y \in S : Max(S) >= y
BY Greatest DEF Max

\* The last row of a type is on the last report, or a history's length of rows
\* follows it and no row of the type is there.
LEMMA LastOfType ==
    ASSUME IsList(history), NEW x \in DOMAIN history, NEW t, history[x].detector = t,
           \A y \in DOMAIN history : history[y].detector = t => x >= y
    PROVE  \/ history[x] \in LastReport
           \/ Len(history) - x >= HistoryLimit /\ \A row \in LastReport : row.detector # t
<1> DEFINE size == Len(history)
<1>1. size \in Nat /\ DOMAIN history = 1..size /\ HistoryLimit \in Nat \ {0}
  BY ReportingAssumption DEF IsList
<1>2. /\ ShownRows \in Nat /\ ShownRows <= size
      /\ DOMAIN ScoreHistory = 1..ShownRows
      /\ \A k \in 1..ShownRows : ScoreHistory[k] = history[size - k + 1]
  BY ScoreHistoryIs
<1>3. ShownRows = IF size <= HistoryLimit THEN size ELSE HistoryLimit
  BY DEF ShownRows
<1> HIDE DEF size
<1>4. CASE size - x + 1 <= ShownRows
  <2> DEFINE k == size - x + 1
  <2>1. k \in 1..ShownRows /\ size - k + 1 = x
    BY <1>1, <1>2, <1>4
  <2> HIDE DEF k
  <2>2. ScoreHistory[k] = history[x]
    BY <1>2, <2>1
  <2>3. ASSUME NEW j \in 1..(k - 1) PROVE ScoreHistory[j].detector # ScoreHistory[k].detector
    <3>1. j \in 1..ShownRows /\ size - j + 1 \in 1..size /\ ~(x >= size - j + 1)
      BY <1>1, <1>2, <2>1
    <3>2. ScoreHistory[j] = history[size - j + 1]
      BY <1>2, <3>1
    <3>3. QED
      BY <1>1, <2>2, <3>1, <3>2
  <2>4. k \in LatestByType
    BY <1>2, <2>1, <2>3 DEF LatestByType
  <2>5. QED
    BY <2>2, <2>4 DEF LastReport
<1>5. CASE ~(size - x + 1 <= ShownRows)
  <2>1. ShownRows = HistoryLimit /\ size - x >= HistoryLimit
    BY <1>1, <1>2, <1>3, <1>5
  <2>2. ASSUME NEW row \in LastReport PROVE row.detector # t
    <3>1. PICK k \in 1..ShownRows : row = ScoreHistory[k]
      BY <1>2 DEF LastReport, LatestByType
    <3>2. size - k + 1 \in 1..size /\ ~(x >= size - k + 1)
      BY <1>1, <1>2, <2>1, <3>1
    <3>3. row = history[size - k + 1]
      BY <1>2, <3>1
    <3>4. QED
      BY <1>1, <3>2, <3>3
  <2>3. QED
    BY <2>1, <2>2 DEF size
<1>6. QED
  BY <1>4, <1>5

\* For any runs, of either kind, any overlap, whatever falls between the rows of
\* a scheduled run and however long the history, the last report has what a
\* completed run answered for a type or an answer recorded after it, and, if the
\* run was a job, after all of it; or a whole history's length of rows follows
\* (get_score_history, download_vendor_last_report, _run_detect_job,
\* _run_one_monitored_vendor).
THEOREM LastReportIsLatest == RepSpec => []LastReportLatest
<1>1. RepInv => LastReportLatest
  <2> SUFFICES ASSUME RepInv, NEW r \in Completed, NEW res \in Recorded(r)
               PROVE  \E k \in DOMAIN history :
                        LET after == IF runs[r].kind = "job"
                                     THEN Max({i \in DOMAIN history : history[i].run = r}) ELSE k
                            fit == {k} \cup {i \in after + 1..Len(history) :
                                                history[i].detector = res.detector}
                        IN  /\ history[k] = Row(r, res)
                            /\ \/ \E i \in fit : history[i] \in LastReport
                               \/ /\ \A row \in LastReport : row.detector # res.detector
                                  /\ \A i \in fit : Len(history) - i >= HistoryLimit
    BY DEF LastReportLatest
  <2>1. HistoryInv /\ JobsWhole /\ IsList(history) /\ r \in Runs
    BY DEF RepInv, HistoryInv, Completed
  <2>2. PICK k \in DOMAIN history : history[k] = Row(r, res)
    BY <2>1 DEF HistoryInv, HasRow
  <2> DEFINE t == res.detector
             size == Len(history)
             own == {i \in 1..size : history[i].run = r}
             typed == {i \in 1..size : history[i].detector = t}
             after == IF runs[r].kind = "job" THEN Max(own) ELSE k
             fit == {k} \cup {i \in after + 1..size : history[i].detector = t}
             x == Max(typed)
  <2>3. size \in Nat /\ DOMAIN history = 1..size /\ HistoryLimit \in Nat
    BY <2>1, ReportingAssumption DEF IsList
  <2>4. history[k].run = r /\ history[k].detector = t
    BY <2>2 DEF Row
  <2> HIDE DEF size, t
  <2>5. k \in own /\ Max(own) \in own /\ \A y \in own : Max(own) >= y
    <3>1. k \in own
      BY <2>3, <2>4
    <3> HIDE DEF own
    <3>2. own \in SUBSET (1..size)
      BY DEF own
    <3>3. QED
      BY <2>3, <3>1, <3>2, MaxIs
  <2>6. k \in typed /\ x \in typed /\ \A y \in typed : x >= y
    <3>1. k \in typed
      BY <2>3, <2>4
    <3> HIDE DEF typed
    <3>2. typed \in SUBSET (1..size)
      BY DEF typed
    <3>3. QED
      BY <2>3, <3>1, <3>2, MaxIs
  <2> DEFINE y == Max(own)
  <2> HIDE DEF x, y
  <2>7. x \in 1..size /\ y \in 1..size /\ k \in 1..size /\ x >= k /\ y >= k
        /\ history[x].detector = t /\ history[y].run = r
    BY <2>5, <2>6 DEF y
  <2>8. ASSUME runs[r].kind = "job", x # k PROVE x > y
    <3>1. SUFFICES ASSUME ~(x > y) PROVE FALSE
      OBVIOUS
    <3>2. k < x /\ (x < y \/ x = y)
      BY <2>3, <2>7, <2>8, <3>1
    <3>3. history[x].run = r
      <4>1. CASE x = y
        BY <2>7, <4>1
      <4>2. CASE x < y
        BY <2>1, <2>3, <2>4, <2>7, <2>8, <3>2, <4>2 DEF JobsWhole
      <4>3. QED
        BY <3>2, <4>1, <4>2
    <3>4. QED
      BY <2>1, <2>3, <2>4, <2>7, <3>2, <3>3 DEF HistoryInv
  <2>9. after = (IF runs[r].kind = "job" THEN y ELSE k) /\ after \in 1..size /\ after >= k
    BY <2>3, <2>7 DEF y
  <2> HIDE DEF after
  <2>10. x \in fit
    <3>1. CASE x = k
      BY <3>1
    <3>2. CASE x # k
      <4>1. x > after
        BY <2>3, <2>7, <2>8, <2>9, <3>2
      <4>2. x \in after + 1..size
        BY <2>3, <2>7, <2>9, <4>1
      <4>3. QED
        BY <2>7, <4>2
    <3>3. QED
      BY <3>1, <3>2
  <2>11. \A i \in fit : i \in typed
    <3>1. \A i \in after + 1..size : i \in 1..size
      BY <2>3, <2>9
    <3>2. QED
      BY <2>6, <3>1
  <2>12. \/ history[x] \in LastReport
         \/ size - x >= HistoryLimit /\ \A row \in LastReport : row.detector # t
    <3>1. \A z \in DOMAIN history : history[z].detector = t => x >= z
      BY <2>3, <2>6
    <3>2. x \in DOMAIN history /\ history[x].detector = t
      BY <2>3, <2>7
    <3>3. QED
      BY <2>1, <3>1, <3>2, LastOfType DEF size
  <2>13. \/ \E i \in fit : history[i] \in LastReport
         \/ /\ \A row \in LastReport : row.detector # t
            /\ \A i \in fit : size - i >= HistoryLimit
    <3>1. CASE history[x] \in LastReport
      BY <2>10, <3>1
    <3>2. CASE size - x >= HistoryLimit /\ \A row \in LastReport : row.detector # t
      <4>1. ASSUME NEW i \in fit PROVE size - i >= HistoryLimit
        <5>1. i \in 1..size /\ x >= i
          BY <2>6, <2>11
        <5>2. QED
          BY <2>3, <2>7, <3>2, <5>1
      <4>2. QED
        BY <3>2, <4>1
    <3>3. QED
      BY <2>12, <3>1, <3>2
  <2>14. QED
    BY <2>2, <2>3, <2>13 DEF size, t, fit, after
<1>2. QED
  BY <1>1, RepInvHolds, PTL

-----------------------------------------------------------------------------
(* The lookalikes on a report.                                             *)

LEMMA SitesRank ==
    /\ IsFiniteSet(Checked) /\ Checked \subseteq Nat
    /\ \A i \in Checked : \A dead : /\ CheckReachability(i, dead) \in Sites
                                     /\ Concern(CheckReachability(i, dead)) \in 0..2
<1>1. IsFiniteSet(Checked) /\ Checked \subseteq Nat
  <2>1. CandidateCap \in Nat
    BY LookalikeAssumption
  <2>2. IsFiniteSet(1..CandidateCap)
    BY <2>1, FS_Interval
  <2>3. QED
    BY <2>1, <2>2, FS_Subset DEF Checked
<1>2. ASSUME NEW i \in Checked, NEW dead PROVE CheckReachability(i, dead) \in Sites
  <2>1. Candidates[i] \in [certificate : BOOLEAN, https : Sites, http : Sites]
    <3> DEFINE R == [certificate : BOOLEAN, https : Sites, http : Sites]
    <3>1. Candidates \in Seq(R) /\ i \in DOMAIN Candidates
      BY LookalikeAssumption DEF Checked
    <3> HIDE DEF R
    <3>2. Candidates[i] \in R
      BY <3>1
    <3>3. QED
      BY <3>2 DEF R
  <2>2. QED
    BY <2>1 DEF CheckReachability, Sites
<1>3. \A site \in Sites : Concern(site) \in 0..2
  BY DEF Sites, Concern
<1>4. QED
  BY <1>1, <1>2, <1>3

\* The sort has every hit once, those of the highest concern first.
LEMMA SortedMeetsEach ==
    ASSUME NEW hits \in SUBSET Checked, NEW dead
    PROVE  /\ Cardinality(hits) \in Nat /\ DOMAIN Sorted(hits, dead) = 1..Cardinality(hits)
           /\ \A k \in 1..Cardinality(hits) : Sorted(hits, dead)[k] \in hits
           /\ \A i \in hits : \E k \in 1..Cardinality(hits) : Sorted(hits, dead)[k] = i
           /\ \A j, k \in 1..Cardinality(hits) : j < k =>
                 Concern(CheckReachability(Sorted(hits, dead)[j], dead))
                    <= Concern(CheckReachability(Sorted(hits, dead)[k], dead))
<1> DEFINE n == Cardinality(hits)
           Key(i) == Concern(CheckReachability(i, dead))
           A(i) == Ahead(hits, dead, i)
           place == [i \in hits |-> Cardinality(A(i)) + 1]
           order == Sorted(hits, dead)
<1>1. IsFiniteSet(hits) /\ n \in Nat /\ hits \subseteq Nat /\ \A i \in hits : Key(i) \in 0..2
  BY SitesRank, FS_Subset, FS_CardinalityType
<1>2. \A i \in hits : A(i) = {h \in hits : Key(h) < Key(i) \/ (Key(h) = Key(i) /\ h < i)}
  BY DEF Ahead
<1>3. order = [k \in 1..n |-> CHOOSE i \in hits : Cardinality(A(i)) = k - 1]
  BY DEF Sorted
<1> HIDE DEF Key, A, order
<1>4. \A i \in hits : A(i) \subseteq hits \ {i} /\ IsFiniteSet(A(i)) /\ Cardinality(A(i)) \in Nat
  <2>1. \A i \in hits : A(i) \subseteq hits \ {i}
    BY <1>1, <1>2
  <2>2. QED
    BY <1>1, <2>1, FS_Subset, FS_CardinalityType
<1>5. ASSUME NEW i \in hits, NEW h \in A(i) PROVE Cardinality(A(h)) < Cardinality(A(i))
  <2>1. h \in hits /\ A(h) \cup {h} \subseteq A(i)
    <3>1. h \in hits
      BY <1>4, <1>5
    <3>2. A(i) = {x \in hits : Key(x) < Key(i) \/ (Key(x) = Key(i) /\ x < i)}
      BY <1>2
    <3>3. A(h) = {x \in hits : Key(x) < Key(h) \/ (Key(x) = Key(h) /\ x < h)}
      BY <1>2, <3>1
    <3>4. /\ \A x \in hits : Key(x) \in Int /\ x \in Int
          /\ Key(h) < Key(i) \/ (Key(h) = Key(i) /\ h < i)
      BY <1>1, <1>5, <3>2
    <3>5. \A x \in A(h) : x \in A(i)
      BY <3>1, <3>2, <3>3, <3>4
    <3>6. QED
      BY <1>5, <3>1, <3>5
  <2>2. h \notin A(h)
    BY <1>4, <2>1
  <2>3. Cardinality(A(h) \cup {h}) = Cardinality(A(h)) + 1
    BY <1>4, <2>1, <2>2, FS_AddElement
  <2>4. Cardinality(A(h) \cup {h}) <= Cardinality(A(i))
    BY <1>4, <2>1, FS_Subset
  <2>5. QED
    BY <1>4, <2>1, <2>3, <2>4
<1>6. \A i, j \in hits : i # j => i \in A(j) \/ j \in A(i)
  BY <1>1, <1>2
<1>7. \A i, j \in hits : Cardinality(A(i)) = Cardinality(A(j)) => i = j
  BY <1>4, <1>5, <1>6
<1>8. place \in Injection(hits, 1..n)
  <2>1. \A i \in hits : Cardinality(A(i)) <= n - 1
    <3> TAKE i \in hits
    <3>1. IsFiniteSet(hits \ {i}) /\ Cardinality(hits \ {i}) = n - 1
      BY <1>1, FS_RemoveElement
    <3>2. QED
      BY <1>4, <3>1, FS_Subset
  <2>2. \A i \in hits : place[i] \in 1..n
    BY <1>1, <1>4, <2>1
  <2>3. \A i, j \in hits : place[i] = place[j] => i = j
    BY <1>4, <1>7
  <2>4. QED
    BY <2>2, <2>3 DEF Injection, IsInjective
<1>9. place \in Surjection(hits, 1..n)
  <2>1. IsFiniteSet(1..n) /\ Cardinality(1..n) = n
    <3>1. IF 1 > n THEN Cardinality(1..n) = 0 ELSE Cardinality(1..n) = n - 1 + 1
      BY <1>1, FS_Interval
    <3>2. QED
      BY <1>1, <3>1, FS_Interval
  <2> HIDE DEF place
  <2>2. QED
    BY <1>8, <2>1, FS_Injection
<1>10. \A k \in 1..n : \E i \in hits : Cardinality(A(i)) = k - 1
  <2> TAKE k \in 1..n
  <2>1. PICK i \in hits : place[i] = k
    BY <1>9 DEF Surjection
  <2>2. Cardinality(A(i)) = k - 1
    BY <1>1, <1>4, <2>1
  <2>3. QED
    BY <2>2
<1>11. \A k \in 1..n : order[k] \in hits /\ Cardinality(A(order[k])) = k - 1
  BY <1>3, <1>10
<1>12. \A i \in hits : \E k \in 1..n : order[k] = i
  <2> TAKE i \in hits
  <2>1. place[i] \in 1..n /\ place[i] - 1 = Cardinality(A(i))
    BY <1>4, <1>8 DEF Injection
  <2> HIDE DEF place
  <2>2. order[place[i]] = i
    BY <1>7, <1>11, <2>1
  <2>3. QED
    BY <2>1, <2>2
<1>13. ASSUME NEW j \in 1..n, NEW k \in 1..n, j < k PROVE Key(order[j]) <= Key(order[k])
  <2>1. order[j] \in hits /\ order[k] \in hits /\ Cardinality(A(order[j])) < Cardinality(A(order[k]))
    BY <1>1, <1>11, <1>13
  <2>2. order[k] \notin A(order[j])
    BY <1>4, <1>5, <2>1
  <2>3. A(order[j]) = {x \in hits : Key(x) < Key(order[j]) \/ (Key(x) = Key(order[j]) /\ x < order[j])}
    BY <1>2, <2>1
  <2>4. ~(Key(order[k]) < Key(order[j]))
    BY <2>1, <2>2, <2>3
  <2>5. \A i \in hits : Key(i) \in Int
    BY <1>1
  <2>6. \A x, y \in Int : ~(y < x) => x <= y
    OBVIOUS
  <2>7. QED
    BY <2>1, <2>4, <2>5, <2>6
<1>14. QED
  BY <1>1, <1>3, <1>11, <1>12, <1>13 DEF Key, order

\* The hits of a search, given the look-ups that failed.
Hits(failing) == {i \in Checked \ failing : Candidates[i].certificate}

LEMMA SearchIs ==
    ASSUME NEW failing \in SUBSET Checked, NEW dead
    PROVE  LET order == Sorted(Hits(failing), dead)
           IN  /\ RunPhishingDetector(failing, dead).leads =
                     [k \in DOMAIN order |->
                         [candidate |-> order[k], site |-> CheckReachability(order[k], dead)]]
               /\ RunPhishingDetector(failing, dead).inconclusive = Cardinality(failing)
<1> DEFINE answer == [i \in Checked |-> CheckCertificateExists(i, failing)]
<1>1. {i \in Checked : answer[i] = "found"} = Hits(failing)
  BY DEF CheckCertificateExists, Hits
<1>2. {i \in Checked : answer[i] = "unknown"} = failing
  BY DEF CheckCertificateExists
<1> HIDE DEF answer
<1>3. QED
  BY <1>1, <1>2 DEF RunPhishingDetector, answer

\* What is promised of a search and of what a report shows of it.
LeadsTell(raw, failing) ==
    LET Alarming(leads) == {k \in DOMAIN leads : leads[k].site = "other"}
    IN  /\ {raw.leads[k].candidate : k \in DOMAIN raw.leads} = Hits(failing)
        /\ raw.inconclusive = Cardinality(failing)
        /\ \/ Cardinality(Alarming(Shown(raw.leads))) = Cardinality(Alarming(raw.leads))
           \/ Alarming(Shown(raw.leads)) = DOMAIN Shown(raw.leads)

LEMMA SearchesTell ==
    ASSUME NEW failing \in SUBSET Checked, NEW dead, NEW raw, raw = RunPhishingDetector(failing, dead)
    PROVE  LeadsTell(raw, failing)
<1> DEFINE hits == Hits(failing)
           n == Cardinality(hits)
           order == Sorted(hits, dead)
           leads == raw.leads
           m == IF n < ShownItems THEN n ELSE ShownItems
           Alarming(x) == {k \in DOMAIN x : x[k].site = "other"}
           Site(k) == CheckReachability(order[k], dead)
<1>1. hits \subseteq Checked
  BY DEF Hits
<1>2. /\ leads = [k \in DOMAIN order |-> [candidate |-> order[k], site |-> Site(k)]]
      /\ raw.inconclusive = Cardinality(failing)
  BY SearchIs
<1> HIDE DEF hits
<1>3. /\ n \in Nat /\ DOMAIN order = 1..n
      /\ \A k \in 1..n : order[k] \in hits
      /\ \A i \in hits : \E k \in 1..n : order[k] = i
      /\ \A j, k \in 1..n : j < k => Concern(Site(j)) <= Concern(Site(k))
  BY <1>1, SortedMeetsEach
<1> HIDE DEF order, Site, leads, n
<1>4. /\ DOMAIN leads = 1..n /\ Len(leads) = n
      /\ \A k \in 1..n : leads[k].candidate = order[k] /\ leads[k].site = Site(k)
  BY <1>2, <1>3
<1>5. {leads[k].candidate : k \in DOMAIN leads} = hits
  BY <1>3, <1>4
<1>6. \A k \in 1..n : Site(k) \in Sites
  BY <1>1, <1>3, SitesRank DEF Site
<1>7. \A j, k \in 1..n : j < k /\ Site(k) = "other" => Site(j) = "other"
  BY <1>3, <1>6 DEF Concern, Sites
<1>8. /\ m \in Nat /\ m <= n /\ DOMAIN Shown(leads) = 1..m
      /\ \A k \in 1..m : Shown(leads)[k] = leads[k]
  <2>1. ShownItems \in Nat
    BY LookalikeAssumption
  <2>2. m \in Nat /\ m <= n
    BY <1>3, <2>1
  <2>3. Shown(leads) = SubSeq(leads, 1, m)
    BY <1>4 DEF Shown
  <2> DEFINE V == {leads[k] : k \in 1..n}
  <2>4. leads \in Seq(V)
    <3>1. leads = [k \in 1..n |-> leads[k]]
      BY <1>2, <1>3
    <3>2. leads \in [1..n -> V]
      BY <3>1
    <3> HIDE DEF V
    <3>3. QED
      BY <1>3, <3>2
  <2> HIDE DEF V, m
  <2>5. QED
    BY <1>4, <2>2, <2>3, <2>4
<1> HIDE DEF m
<1>9. /\ Alarming(leads) = {k \in 1..n : Site(k) = "other"}
      /\ Alarming(Shown(leads)) = {k \in 1..m : Site(k) = "other"}
  BY <1>3, <1>4, <1>8
<1>10. CASE \A k \in 1..n : Site(k) = "other" => k <= m
  <2>1. Alarming(Shown(leads)) = Alarming(leads)
    BY <1>3, <1>8, <1>9, <1>10
  <2>2. QED
    BY <1>2, <1>5, <2>1 DEF leads, hits, LeadsTell
<1>11. CASE \E k \in 1..n : Site(k) = "other" /\ k > m
  <2>1. PICK k \in 1..n : Site(k) = "other" /\ k > m
    BY <1>11
  <2>2. \A j \in 1..m : Site(j) = "other"
    BY <1>3, <1>7, <1>8, <2>1
  <2>3. Alarming(Shown(leads)) = DOMAIN Shown(leads)
    BY <1>8, <1>9, <2>2
  <2>4. QED
    BY <1>2, <1>5, <2>3 DEF leads, hits, LeadsTell
<1>12. QED
  BY <1>3, <1>8, <1>10, <1>11

\* For any candidates, failing look-ups and limits, the leads are the domains
\* with a certificate whose look-up did not fail, the failed ones are counted,
\* and a report that leaves leads out leaves out the least alarming ones
\* (run_phishing_detector, _finding_detail_rows).
THEOREM NoLeadIsHidden == RepSpec => []LeadsShown
<1>1. RepInv => LeadsShown
  <2> SUFFICES ASSUME RepInv, NEW r \in Runs, \E res \in runs[r].results : res.detector = "phishing",
                      runs[r].phishing # PhishingRaised
               PROVE  LeadsTell(runs[r].phishing, runs[r].lost)
    BY DEF LeadsShown, Hits, LeadsTell
  <2>1. /\ runs[r].lost \in SUBSET Checked
        /\ \E dead : runs[r].phishing = RunPhishingDetector(runs[r].lost, dead)
    BY DEF RepInv, SearchInv, Searched
  <2>2. QED
    BY <2>1, SearchesTell
<1>2. QED
  BY <1>1, RepInvHolds, PTL

=============================================================================
