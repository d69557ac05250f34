---------------------------- MODULE KevCatalog ----------------------------
(***************************************************************************)
(* The catalogue of exploited vulnerabilities, which is fetched at most    *)
(* every few hours for the whole process: _fetch_kev_catalog in            *)
(* app/detectors/exploitation.py.                                          *)
(*                                                                         *)
(* A catalogue is the number of its version.  A fetch stamps itself, asks, *)
(* is served at some later moment and takes the answer in at a still later *)
(* one; other calls run in between, and their answers may pass each other. *)
(***************************************************************************)
EXTENDS Integers, Sequences

CONSTANTS
    Runs,        \* calls of the exploitation detector
    KevTTL,      \* _KEV_CACHE_TTL_SECONDS
    MaxVersions, \* bound on the versions published
    MaxTime      \* bound on the clock

ASSUME KevAssumption == KevTTL \in Nat \ {0} /\ MaxVersions \in Nat \ {0} /\ MaxTime \in Nat

VARIABLES
    clock,       \* time.time()
    publishedAt, \* when each version was published
    kevCache,    \* _kev_cache
    fetches      \* the calls of _fetch_kev_catalog

kevVars == <<clock, publishedAt, kevCache, fetches>>

NoCatalogue == [version |-> 0, fetchedAt |-> 0]
NoFetch == [at |-> "none", started |-> 0, version |-> 0]

KevInit ==
    /\ clock = 0
    /\ publishedAt = <<0>>
    /\ kevCache = NoCatalogue
    /\ fetches = [r \in Runs |-> NoFetch]

Cached == kevCache # NoCatalogue /\ clock - kevCache.fetchedAt < KevTTL

\* Up to the first await: a fresh catalogue is returned, or one is asked for.
FetchKevCatalog(r) ==
    /\ fetches[r] = NoFetch
    /\ fetches' = [fetches EXCEPT ![r] =
          IF Cached THEN [at |-> "returned", started |-> clock, version |-> kevCache.version]
                    ELSE [at |-> "asking", started |-> clock, version |-> 0]]
    /\ UNCHANGED <<clock, publishedAt, kevCache>>

\* The server answers with the version of the moment.
KevServed(r) ==
    /\ fetches[r].at = "asking"
    /\ fetches' = [fetches EXCEPT ![r].at = "served", ![r].version = Len(publishedAt)]
    /\ UNCHANGED <<clock, publishedAt, kevCache>>

\* a stamp of the moment the answer came in
StampArrival(r) == [version |-> fetches[r].version, fetchedAt |-> clock]

\* The answer replaces the cache, a newer one included, under the time the
\* call began.
Stamp(r) == [version |-> fetches[r].version, fetchedAt |-> fetches[r].started]

KevArrives(r) ==
    /\ fetches[r].at = "served"
    /\ kevCache' = Stamp(r)
    /\ fetches' = [fetches EXCEPT ![r].at = "returned"]
    /\ UNCHANGED <<clock, publishedAt>>

\* A timeout, a status that is none, a body that is no JSON: the cache stays.
KevFails(r) ==
    /\ fetches[r].at \in {"asking", "served"}
    /\ fetches' = [fetches EXCEPT ![r].at = "failed", ![r].version = 0]
    /\ UNCHANGED <<clock, publishedAt, kevCache>>

Publish ==
    /\ Len(publishedAt) < MaxVersions
    /\ publishedAt' = Append(publishedAt, clock)
    /\ UNCHANGED <<clock, kevCache, fetches>>

Tick ==
    /\ clock < MaxTime
    /\ clock' = clock + 1
    /\ UNCHANGED <<publishedAt, kevCache, fetches>>

\* The catalogue of every call was the current one at some moment no further
\* back than the lifetime before the call began, although answers may arrive in
\* any order and an older one may replace a newer one (_fetch_kev_catalog).
CatalogueFresh ==
    \A r \in Runs :
        LET next == fetches[r].version + 1
        IN  fetches[r].at = "returned" /\ next <= Len(publishedAt)
                => publishedAt[next] > fetches[r].started - KevTTL
=============================================================================
