---------------------------- MODULE DetectorRuns ----------------------------
(***************************************************************************)
(* app/detectors/orchestrator.py over app/detector_cache.py: batches of    *)
(* vendors, each vendor's look-ups in the cache, the one base scan and the *)
(* independent detectors that fetch what the cache lacks, and the answer.  *)
(* A detection job is a batch; so is, with one vendor, a rescan and a      *)
(* scheduled run, which calls run_detectors_for_vendor directly.           *)
(*                                                                         *)
(* A vendor is its domain, which is all the cache and the answers go by.   *)
(* A result is reduced to what its answer is judged by: whose it is, when  *)
(* its data were taken and by which call.  No action contains an await.    *)
(***************************************************************************)
EXTENDS Integers, Sequences, FiniteSets, SequencesExt

CONSTANTS
    Batches,     \* ids of batches
    VendorLists, \* the lists of domains, one per vendor, a batch may have
    Derived,     \* _SCAN_DERIVED_TYPES
    Independent, \* _INDEPENDENT_TYPES
    AllTypes,    \* ALL_DETECTOR_TYPES, a list
    Selections,  \* the lists of types a caller may ask for, <<>> for all
    Concurrency, \* vendors of a batch at work at a time
    TTL,         \* CACHE_TTL_SECONDS
    MaxTime,     \* bound on the clock
    MaxRestarts  \* bound on restarts

Types == Derived \cup Independent

Domains == UNION {ToSet(vs) : vs \in VendorLists}

ASSUME DetectorRunsAssumption ==
    /\ Derived \cap Independent = {}
    /\ AllTypes \in Seq(Types) /\ Types = ToSet(AllTypes)
    /\ Selections \subseteq Seq(Types) /\ VendorLists \subseteq Seq(Domains)
    /\ Concurrency \in Nat \ {0}
    /\ TTL \in Nat /\ MaxTime \in Nat /\ MaxRestarts \in Nat

VARIABLES
    cache,    \* _cache: cache[d][t], or NoEntry
    batches,  \* batches[b]: its request, its calls and its answers by domain
    clock,    \* time.time()
    restarts  \* restarts so far

vars == <<cache, batches, clock, restarts>>

NoEntry == [at |-> -1]

NoBatch == [phase |-> "none", scheduled |-> FALSE, vendors |-> <<>>, types |-> <<>>,
            calls |-> <<>>, answers |-> [d \in Domains |-> <<>>]]

\* A call of run_detectors_for_vendor: got is `results`, missing `to_fetch`,
\* todo the independent detectors at work.
NewCall == [phase |-> "waiting", got |-> {}, missing |-> {}, scan |-> "none", scanAt |-> 0,
            todo |-> {}, started |-> 0, ended |-> 0]

Result(b, i, t, made) ==
    [detector |-> t, domain |-> batches[b].vendors[i], made |-> made, by |-> <<b, i>>]

Init ==
    /\ cache = [d \in Domains |-> [t \in Types |-> NoEntry]]
    /\ batches = [b \in Batches |-> NoBatch]
    /\ clock = 0
    /\ restarts = 0

-----------------------------------------------------------------------------

\* run_detectors_for_vendors, or run_detectors_for_vendor for a scheduled run
StartBatch(b) ==
    /\ batches[b].phase = "none"
    /\ \E vs \in VendorLists, ts \in Selections, scheduled \in BOOLEAN :
          /\ scheduled => Len(vs) = 1
          /\ batches' = [batches EXCEPT ![b] =
                [phase |-> "running", scheduled |-> scheduled, vendors |-> vs, types |-> ts,
                 calls |-> [i \in DOMAIN vs |-> NewCall], answers |-> NoBatch.answers]]
    /\ UNCHANGED <<cache, clock, restarts>>

\* The types in the order of the answer.
Ordered(b) == IF batches[b].types = <<>> THEN AllTypes ELSE batches[b].types

\* No caller passes use_cache, the scheduler no more than the others.
UseCache(b) == TRUE

\* a semaphore whose slot a call answered from the cache would not give back
AtWorkOrAnswered(b) == {i \in DOMAIN batches[b].calls : batches[b].calls[i].phase # "waiting"}

AtWork(b) == {i \in DOMAIN batches[b].calls : batches[b].calls[i].phase = "fetching"}

\* a cache that forgets to look at the age of an entry
HitAtAnyAge(d, t) == cache[d][t] # NoEntry

\* get_cached finds an entry that is not too old ...
Hit(d, t) == cache[d][t] # NoEntry /\ clock - cache[d][t].at <= TTL

\* an old entry that is emptied where it stands
EmptiedInPlace(d, asked) ==
    [cache EXCEPT ![d] = [t \in Types |-> IF t \in asked /\ cache[d][t] # NoEntry /\ ~Hit(d, t)
                                          THEN [cache[d][t] EXCEPT !.result = NoEntry]
                                          ELSE cache[d][t]]]

\* ... and deletes one that is.
LookedUp(d, asked) ==
    [cache EXCEPT ![d] = [t \in Types |-> IF t \in asked /\ ~Hit(d, t) THEN NoEntry ELSE cache[d][t]]]

\* The result for type t.
Of(results, t) == CHOOSE r \in results : r.detector = t

\* The n-th of a set of positions.
Nth(there, n) == CHOOSE k \in there : Cardinality({j \in there : j <= k}) = n

\* an answer with what was fetched before what was cached
FetchedFirst(b, call) ==
    LET fetched == SelectSeq(Ordered(b), LAMBDA t : t \in call.missing)
        cached  == SelectSeq(Ordered(b), LAMBDA t : t \notin call.missing)
    IN [k \in DOMAIN Ordered(b) |-> Of(call.got, (fetched \o cached)[k])]

\* "[results[dt] for dt in ordered if dt in results]"
Answer(b, call) ==
    LET there == {k \in DOMAIN Ordered(b) : \E r \in call.got : r.detector = Ordered(b)[k]}
    IN [n \in 1..Cardinality(there) |-> Of(call.got, Ordered(b)[Nth(there, n)])]

\* The entry of call i changes.
CallTo(b, i, call) == [batches EXCEPT ![b].calls[i] = call]

\* Call i returns: results[v.domain] is set, its slot is free again.
Returned(b, i, call) ==
    [batches EXCEPT ![b].calls[i] = [call EXCEPT !.phase = "done", !.ended = clock],
                    ![b].answers[batches[b].vendors[i]] = Answer(b, call)]

\* run_detectors_for_vendor up to asyncio.gather, which it does not reach when
\* the cache has everything.
StartCall(b, i) ==
    /\ batches[b].phase = "running"
    /\ batches[b].calls[i].phase = "waiting"
    /\ Cardinality(AtWork(b)) < Concurrency
    /\ LET d == batches[b].vendors[i]
           asked == ToSet(Ordered(b))
           hits == IF UseCache(b) THEN {t \in asked : Hit(d, t)} ELSE {}
           missing == asked \ hits
           call == [phase |-> "fetching", got |-> {cache[d][t].result : t \in hits},
                    missing |-> missing, todo |-> missing \cap Independent,
                    scan |-> IF missing \cap Derived = {} THEN "none" ELSE "running",
                    scanAt |-> 0, started |-> clock, ended |-> 0]
       IN /\ batches' = IF missing = {} THEN Returned(b, i, call) ELSE CallTo(b, i, call)
          /\ cache' = IF UseCache(b) THEN LookedUp(d, asked) ELSE cache
    /\ UNCHANGED <<clock, restarts>>

\* the results of one scan for every type that derives from it
DerivedResults(b, i, made) == {Result(b, i, t, made) : t \in batches[b].calls[i].missing \cap Derived}

\* scan_vendor answers, or raises: then every derived type has its failure.
ScanAnswers(b, i) ==
    /\ batches[b].phase = "running"
    /\ LET call == batches[b].calls[i] IN
       /\ call.scan = "running"
       /\ \/ batches' = CallTo(b, i, [call EXCEPT !.scan = "deriving", !.scanAt = clock])
          \/ batches' = CallTo(b, i, [call EXCEPT !.scan = "none",
                                                  !.got = @ \cup DerivedResults(b, i, clock)])
    /\ UNCHANGED <<cache, clock, restarts>>

\* The rest of _run_scan_derived_detectors, DNS look-ups included.
Derive(b, i) ==
    /\ batches[b].phase = "running"
    /\ LET call == batches[b].calls[i] IN
       /\ call.scan = "deriving"
       /\ batches' = CallTo(b, i, [call EXCEPT !.scan = "none",
                                               !.got = @ \cup DerivedResults(b, i, call.scanAt)])
    /\ UNCHANGED <<cache, clock, restarts>>

\* _run_one_independent ends, well or not.
IndependentAnswers(b, i, t) ==
    /\ batches[b].phase = "running"
    /\ LET call == batches[b].calls[i] IN
       /\ t \in call.todo
       /\ batches' = CallTo(b, i, [call EXCEPT !.todo = @ \ {t},
                                               !.got = @ \cup {Result(b, i, t, clock)}])
    /\ UNCHANGED <<cache, clock, restarts>>

\* set_cached for each type fetched; no other type of the call is touched.
Stored(d, call) ==
    [cache EXCEPT ![d] = [t \in Types |->
        IF t \in call.missing
        THEN [at |-> clock, result |-> Of(call.got, t)]
        ELSE cache[d][t]]]

\* asyncio.gather has everything: what was fetched is cached and returned.
FinishCall(b, i) ==
    /\ batches[b].phase = "running"
    /\ LET call == batches[b].calls[i] IN
       /\ call.phase = "fetching" /\ call.scan = "none" /\ call.todo = {}
       /\ cache' = IF UseCache(b) THEN Stored(batches[b].vendors[i], call) ELSE cache
       /\ batches' = Returned(b, i, call)
    /\ UNCHANGED <<clock, restarts>>

\* run_detectors_for_vendors returns to its caller.
FinishBatch(b) ==
    /\ batches[b].phase = "running"
    /\ \A i \in DOMAIN batches[b].calls : batches[b].calls[i].phase = "done"
    /\ batches' = [batches EXCEPT ![b].phase = "done"]
    /\ UNCHANGED <<cache, clock, restarts>>

Tick ==
    /\ clock < MaxTime
    /\ clock' = clock + 1
    /\ UNCHANGED <<cache, batches, restarts>>

\* The process starts again: the cache and the coroutines are gone.
Restart ==
    /\ restarts < MaxRestarts
    /\ restarts' = restarts + 1
    /\ cache' = [d \in Domains |-> [t \in Types |-> NoEntry]]
    /\ batches' = [b \in Batches |-> IF batches[b].phase = "running"
                                     THEN [batches[b] EXCEPT !.phase = "lost"] ELSE batches[b]]
    /\ UNCHANGED clock

BatchStep(b) ==
    \/ \E i \in DOMAIN batches[b].calls :
          \/ StartCall(b, i) \/ ScanAnswers(b, i) \/ Derive(b, i) \/ FinishCall(b, i)
          \/ \E t \in Independent : IndependentAnswers(b, i, t)
    \/ FinishBatch(b)

Next ==
    \/ \E b \in Batches : StartBatch(b) \/ BatchStep(b)
    \/ Tick
    \/ Restart

Spec == Init /\ [][Next]_vars

\* Probes have timeouts, and the event loop runs what is ready.
Fairness == \A b \in Batches : WF_vars(BatchStep(b))

FairSpec == Spec /\ Fairness

-----------------------------------------------------------------------------
(* Properties.                                                             *)

ResultType ==
    [detector : Types, domain : Domains, made : Nat, by : Batches \X Nat]

CallType ==
    [phase : {"waiting", "fetching", "done"}, got : SUBSET ResultType, missing : SUBSET Types,
     scan : {"none", "running", "deriving"}, scanAt : Nat, todo : SUBSET Independent,
     started : Nat, ended : Nat]

Entry == [at : Nat, result : ResultType]

BatchType ==
    [phase : {"none", "running", "done", "lost"}, scheduled : BOOLEAN, vendors : Seq(Domains),
     types : Seq(Types), calls : Seq(CallType), answers : [Domains -> Seq(ResultType)]]

\* Every variable has its type.
TypeOK ==
    /\ cache \in [Domains -> [Types -> Entry \cup {NoEntry}]]
    /\ batches \in [Batches -> BatchType]
    /\ clock \in Nat /\ restarts \in Nat

\* Whatever part of it comes from the cache, and however often a domain is in
\* the batch, the answer for every vendor has one result per type asked for, in
\* the order asked for, of the vendor's domain (run_detectors_for_vendor).
AnswersComplete ==
    \A b \in Batches : batches[b].phase = "done" =>
        \A i \in DOMAIN batches[b].vendors :
            LET d == batches[b].vendors[i]
                answer == batches[b].answers[d]
            IN /\ Len(answer) = Len(Ordered(b))
               /\ \A k \in DOMAIN answer : answer[k].detector = Ordered(b)[k] /\ answer[k].domain = d

\* A result is of the call's own making, or of a call that ended no more than
\* the TTL before this one began: neither overlapping calls nor a restart lets
\* an older one through (get_cached, set_cached).
AnswersRecent ==
    \A b \in Batches : \A i \in DOMAIN batches[b].calls : \A r \in batches[b].calls[i].got :
        LET call == batches[b].calls[i]
            maker == batches[r.by[1]].calls[r.by[2]]
        IN IF r.by = <<b, i>> THEN r.made >= call.started
           ELSE maker.phase = "done" /\ call.started - maker.ended <= TTL

\* Every batch comes to its end unless the process does
\* (the semaphore, the gathers of run_detectors_for_vendors).
BatchesEnd ==
    \A b \in Batches : batches[b].phase = "running" ~> batches[b].phase \in {"done", "lost"}

-----------------------------------------------------------------------------
(* What the repository says and the code does not do.                      *)

\* "Continuous monitoring's scheduler passes use_cache=False to always get a
\* fresh data point on each scheduled run" (orchestrator.py:210-212).
ScheduledFresh ==
    \A b \in Batches : batches[b].scheduled =>
        \A i \in DOMAIN batches[b].calls : \A r \in batches[b].calls[i].got : r.by = <<b, i>>
=============================================================================
