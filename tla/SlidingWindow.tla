-------------------------- MODULE SlidingWindow ---------------------------
(***************************************************************************)
(* What a rate limit promises, without saying how it is kept: a request is *)
(* accepted exactly when fewer than MaxRequests of its address's requests  *)
(* were accepted in the window that ends now, and else rejected.           *)
(* RateLimiter implements it with a deque for each address that is only    *)
(* ever looked at from its old end.                                        *)
(***************************************************************************)
EXTENDS Integers, Sequences, FiniteSets

CONSTANTS
    IPs,        \* client addresses
    Window,     \* length of the window
    MaxRequests,\* how many requests a window may hold
    MaxTime,    \* bound on the clock
    MaxServed   \* bound on the requests of one address

VARIABLES
    now,       \* the time
    accepted,  \* the times at which each address was let through ...
    rejected   \* ... and was turned away

Init ==
    /\ now = 0
    /\ accepted = [ip \in IPs |-> <<>>]
    /\ rejected = [ip \in IPs |-> <<>>]

\* The accepted requests that the window ending now still holds.
Recent(ip) == {i \in 1..Len(accepted[ip]) : now - accepted[ip][i] <= Window}

Accept(ip) ==
    /\ Len(accepted[ip]) + Len(rejected[ip]) < MaxServed
    /\ Cardinality(Recent(ip)) < MaxRequests
    /\ accepted' = [accepted EXCEPT ![ip] = Append(@, now)]
    /\ UNCHANGED <<now, rejected>>

Reject(ip) ==
    /\ Len(accepted[ip]) + Len(rejected[ip]) < MaxServed
    /\ Cardinality(Recent(ip)) >= MaxRequests
    /\ rejected' = [rejected EXCEPT ![ip] = Append(@, now)]
    /\ UNCHANGED <<now, accepted>>

Tick ==
    /\ now < MaxTime
    /\ now' = now + 1
    /\ UNCHANGED <<accepted, rejected>>

\* Nothing is remembered across a restart.
Restart ==
    /\ accepted' = [ip \in IPs |-> <<>>]
    /\ rejected' = [ip \in IPs |-> <<>>]
    /\ UNCHANGED now

Next == (\E ip \in IPs : Accept(ip) \/ Reject(ip)) \/ Tick \/ Restart

Spec == Init /\ [][Next]_<<now, accepted, rejected>>
=============================================================================
