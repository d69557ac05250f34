---------------------------- MODULE RateLimiter ----------------------------
(***************************************************************************)
(* The scan rate limit of app/main.py: per client IP, a deque of the times *)
(* of the accepted requests (_rate_buckets).  _check_rate_limit first pops *)
(* the times that left the window, then refuses when the deque is full,    *)
(* else appends the current time.  It runs without an await, so it is one  *)
(* action; requests of one IP share a deque, those of others do not.       *)
(* The deques live in memory: a restart empties them.                      *)
(*                                                                         *)
(* time.time() is counted in whole units and taken not to go back.         *)
(***************************************************************************)
EXTENDS Integers, Sequences

CONSTANTS
    IPs,        \* client addresses
    Window,     \* RATE_LIMIT_WINDOW_SECONDS
    MaxRequests,\* RATE_LIMIT_MAX_REQUESTS
    MaxTime,    \* bound on the clock
    MaxServed   \* bound on the requests served to one IP

ASSUME RateAssumption ==
    /\ Window \in Nat
    /\ MaxRequests \in Nat \ {0}
    /\ MaxTime \in Nat /\ MaxServed \in Nat

VARIABLES
    clock,     \* time.time()
    buckets,   \* _rate_buckets
    served,    \* history: the times at which each IP was let through ...
    refused    \* ... and was refused, since the process started

rateVars == <<clock, buckets, served, refused>>

RateInit ==
    /\ clock = 0
    /\ buckets = [ip \in IPs |-> <<>>]
    /\ served = [ip \in IPs |-> <<>>]
    /\ refused = [ip \in IPs |-> <<>>]

\* a test that lets a time of exactly one window ago go
OldAtWindow(t) == clock - t >= Window

\* now - bucket[0] > RATE_LIMIT_WINDOW_SECONDS
Old(t) == clock - t > Window

\* a limit that is checked after the append would have made it
FullOffByOne(bucket) == Len(bucket) > MaxRequests

Full(bucket) == Len(bucket) >= MaxRequests

\* popping that is forgotten
PopNothing(bucket, rest) == rest = bucket

\* What the while loop leaves: it stops at the first time inside the window.
Popped(bucket, rest) ==
    \E k \in 0..Len(bucket) :
        /\ \A i \in 1..k : Old(bucket[i])
        /\ k < Len(bucket) => ~Old(bucket[k + 1])
        /\ rest = SubSeq(bucket, k + 1, Len(bucket))

\* _check_rate_limit, which also keeps the popped deque when it refuses.
CheckRateLimit(ip) ==
    /\ Len(served[ip]) + Len(refused[ip]) < MaxServed
    /\ \E rest \in {SubSeq(buckets[ip], k, Len(buckets[ip])) : k \in 1..Len(buckets[ip]) + 1} :
          /\ Popped(buckets[ip], rest)
          /\ \/ /\ Full(rest)
                /\ buckets' = [buckets EXCEPT ![ip] = rest]
                /\ refused' = [refused EXCEPT ![ip] = Append(@, clock)]
                /\ UNCHANGED served
             \/ /\ ~Full(rest)
                /\ buckets' = [buckets EXCEPT ![ip] = Append(rest, clock)]
                /\ served' = [served EXCEPT ![ip] = Append(@, clock)]
                /\ UNCHANGED refused
    /\ UNCHANGED clock

RateTick ==
    /\ clock < MaxTime
    /\ clock' = clock + 1
    /\ UNCHANGED <<buckets, served, refused>>

RateRestart ==
    /\ buckets' = [ip \in IPs |-> <<>>]
    /\ served' = [ip \in IPs |-> <<>>]
    /\ refused' = [ip \in IPs |-> <<>>]
    /\ UNCHANGED clock

RateNext == (\E ip \in IPs : CheckRateLimit(ip)) \/ RateTick \/ RateRestart

RateSpec == RateInit /\ [][RateNext]_rateVars

-----------------------------------------------------------------------------

\* The clock is a time, the deques and histories are lists of times, and no
\* deque outgrows the limit, however many requests are refused.
RateTypeOK ==
    /\ clock \in Nat
    /\ buckets \in [IPs -> Seq(Nat)]
    /\ \A ip \in IPs : Len(buckets[ip]) <= MaxRequests
    /\ served \in [IPs -> Seq(Nat)]
    /\ refused \in [IPs -> Seq(Nat)]

\* No window of time, wherever it is put, holds more than MaxRequests scans
\* let through for one IP: any scan and the one MaxRequests after it are more
\* than a window apart (_check_rate_limit).
WindowBounded ==
    \A ip \in IPs : \A i \in DOMAIN served[ip] :
        i + MaxRequests \in DOMAIN served[ip] =>
            served[ip][i + MaxRequests] - served[ip][i] > Window

\* The limit does not refuse more than it must: whoever is refused was let
\* through MaxRequests times within the window before (_check_rate_limit).
RefusedHadTheirShare ==
    \A ip \in IPs : \A n \in DOMAIN refused[ip] :
        \E i \in DOMAIN served[ip] :
            /\ i + MaxRequests - 1 \in DOMAIN served[ip]
            /\ refused[ip][n] - served[ip][i] \in 0..Window
            /\ served[ip][i + MaxRequests - 1] <= refused[ip][n]

\* The promise the deques are there to keep, with what was let through and
\* refused as the record of it.
Abstract == INSTANCE SlidingWindow WITH now <- clock, accepted <- served, rejected <- refused

\* The limiter decides as if it counted the accepted requests of the window
\* at every request: looking only at the oldest times loses nothing
\* (_check_rate_limit).
RefinesWindow == Abstract!Spec
=============================================================================
