------------------------- MODULE RateLimiterProofs -------------------------
(***************************************************************************)
(* The rate limit holds for every window, limit and set of addresses.      *)
(*                                                                         *)
(* The deque alone does not say what was let through before it; the        *)
(* invariant ties it to the history: it is the history's end, and all the  *)
(* rest of the history has left the window.                                *)
(***************************************************************************)
EXTENDS RateLimiter, FiniteSetTheorems, TLAPS

\* A history s, its deque b and the time t.
EndsWith(s, b, t) ==
    /\ Len(b) <= Len(s) /\ Len(b) <= MaxRequests
    /\ \A i \in 1..Len(b) : b[i] = s[Len(s) - Len(b) + i]
    /\ \A i \in 1..Len(s) : s[i] <= t
    /\ \A i \in 1..(Len(s) - Len(b)) : t - s[i] > Window

SpreadOut(s) ==
    \A i \in 1..Len(s) : i + MaxRequests <= Len(s) => s[i + MaxRequests] - s[i] > Window

\* Somebody refused at time r had their share of s.
HadShare(s, r) ==
    \E i \in 1..Len(s) :
        /\ i + MaxRequests - 1 <= Len(s)
        /\ r - s[i] \in 0..Window
        /\ s[i + MaxRequests - 1] <= r

RateInv ==
    /\ RateTypeOK
    /\ \A ip \in IPs :
          /\ EndsWith(served[ip], buckets[ip], clock)
          /\ SpreadOut(served[ip])
          /\ \A n \in 1..Len(refused[ip]) : HadShare(served[ip], refused[ip][n])

\* Popping old times keeps the tie.
LEMMA PopKeeps ==
    ASSUME NEW s \in Seq(Nat), NEW b \in Seq(Nat), NEW t \in Nat, EndsWith(s, b, t),
           NEW k \in 0..Len(b), \A i \in 1..k : t - b[i] > Window
    PROVE  LET rest == SubSeq(b, k + 1, Len(b)) IN
           /\ rest \in Seq(Nat) /\ Len(rest) = Len(b) - k
           /\ \A i \in 1..Len(rest) : rest[i] = b[k + i]
           /\ EndsWith(s, rest, t)
<1> DEFINE rest == SubSeq(b, k + 1, Len(b))
           ls == Len(s)
           lb == Len(b)
           lr == Len(rest)
<1>1. lb \in Nat /\ ls \in Nat /\ k \in Nat /\ k <= lb /\ lb <= ls /\ lb <= MaxRequests
  BY DEF EndsWith
<1>2. rest \in Seq(Nat) /\ lr = lb - k /\ lr \in Nat
  BY <1>1
<1>3. \A i \in 1..lr : rest[i] = b[k + i]
  BY <1>1, <1>2
<1>4. \A i \in 1..lb : b[i] = s[ls - lb + i]
  BY DEF EndsWith
<1>5. \A i \in 1..(ls - lb) : t - s[i] > Window
  BY DEF EndsWith
<1>6. \A i \in 1..ls : s[i] <= t
  BY DEF EndsWith
<1> HIDE DEF rest, ls, lb, lr
<1>7. lr <= ls /\ lr <= MaxRequests
  BY <1>1, <1>2, RateAssumption
<1>8. \A i \in 1..lr : rest[i] = s[ls - lr + i]
  <2> TAKE i \in 1..lr
  <2>1. k + i \in 1..lb /\ ls - lb + (k + i) = ls - lr + i
    BY <1>1, <1>2
  <2>2. b[k + i] = s[ls - lb + (k + i)]
    BY <1>4, <2>1
  <2>3. QED
    BY <1>3, <2>1, <2>2
<1>9. \A i \in 1..(ls - lr) : t - s[i] > Window
  <2> TAKE i \in 1..(ls - lr)
  <2>1. CASE i <= ls - lb
    BY <1>1, <1>5, <2>1
  <2>2. CASE i > ls - lb
    <3> DEFINE m == i - (ls - lb)
    <3>1. m \in 1..k /\ m \in 1..lb /\ i = ls - lb + m
      BY <1>1, <1>2, <2>2
    <3> HIDE DEF m
    <3>2. b[m] = s[i] /\ t - b[m] > Window
      BY <1>4, <3>1
    <3>3. QED
      BY <3>2
  <2>3. QED
    BY <1>1, <1>2, <2>1, <2>2
<1>10. EndsWith(s, rest, t)
  BY <1>6, <1>7, <1>8, <1>9 DEF EndsWith, ls, lr
<1>11. QED
  BY <1>2, <1>3, <1>10 DEF rest, lr, lb

\* A request that is let through is more than a window after the one
\* MaxRequests before it.
LEMMA AcceptKeeps ==
    ASSUME NEW s \in Seq(Nat), NEW b \in Seq(Nat), NEW t \in Nat, EndsWith(s, b, t),
           SpreadOut(s), Len(b) < MaxRequests
    PROVE  EndsWith(Append(s, t), Append(b, t), t) /\ SpreadOut(Append(s, t))
<1> DEFINE u == Append(s, t)
           c == Append(b, t)
<1>1. /\ Len(u) = Len(s) + 1 /\ Len(c) = Len(b) + 1 /\ Len(s) \in Nat /\ Len(b) \in Nat
      /\ u[Len(s) + 1] = t /\ c[Len(b) + 1] = t
      /\ (\A i \in 1..Len(s) : u[i] = s[i]) /\ (\A i \in 1..Len(b) : c[i] = b[i])
  OBVIOUS
<1> HIDE DEF u, c
<1>2. MaxRequests \in Nat /\ MaxRequests >= 1 /\ Window \in Nat
  BY RateAssumption
<1>3. \A i \in 1..Len(s) : s[i] \in Nat /\ s[i] <= t
  BY DEF EndsWith
<1>4. \A i \in 1..(Len(s) - Len(b)) : t - s[i] > Window
  BY DEF EndsWith
<1>5. \A i \in 1..Len(c) : c[i] = u[Len(u) - Len(c) + i]
  <2> TAKE i \in 1..Len(c)
  <2>1. CASE i = Len(c)
    BY <1>1, <2>1
  <2>2. CASE i # Len(c)
    <3>1. i \in 1..Len(b) /\ Len(s) - Len(b) + i \in 1..Len(s)
          /\ Len(u) - Len(c) + i = Len(s) - Len(b) + i
      BY <1>1, <2>2 DEF EndsWith
    <3>2. b[i] = s[Len(s) - Len(b) + i]
      BY <3>1 DEF EndsWith
    <3>3. QED
      BY <1>1, <3>1, <3>2
  <2>3. QED
    BY <2>1, <2>2
<1>6. \A i \in 1..Len(u) : u[i] <= t
  <2> TAKE i \in 1..Len(u)
  <2>1. i = Len(s) + 1 \/ i \in 1..Len(s)
    BY <1>1
  <2>2. QED
    BY <1>1, <1>3, <2>1
<1>7. \A i \in 1..(Len(u) - Len(c)) : t - u[i] > Window
  <2> TAKE i \in 1..(Len(u) - Len(c))
  <2>1. i \in 1..(Len(s) - Len(b)) /\ i \in 1..Len(s)
    BY <1>1
  <2>2. QED
    BY <1>1, <1>4, <2>1
<1>8. Len(c) <= Len(u) /\ Len(c) <= MaxRequests
  BY <1>1, <1>2 DEF EndsWith
<1>9. SpreadOut(u)
  <2> SUFFICES ASSUME NEW i \in 1..Len(u), i + MaxRequests <= Len(u)
               PROVE  u[i + MaxRequests] - u[i] > Window
    BY DEF SpreadOut
  <2>1. i \in 1..Len(s)
    BY <1>1, <1>2
  <2>2. CASE i + MaxRequests <= Len(s)
    <3>1. i + MaxRequests \in 1..Len(s)
      BY <1>2, <2>2
    <3>2. u[i] = s[i] /\ u[i + MaxRequests] = s[i + MaxRequests]
      BY <1>1, <2>1, <3>1
    <3>3. s[i + MaxRequests] - s[i] > Window
      BY <2>1, <2>2 DEF SpreadOut
    <3>4. QED
      BY <3>2, <3>3
  <2>3. CASE i + MaxRequests = Len(s) + 1
    <3>1. i \in 1..(Len(s) - Len(b))
      BY <1>1, <1>2, <2>3
    <3>2. u[i] = s[i] /\ u[i + MaxRequests] = t
      BY <1>1, <2>1, <2>3
    <3>3. QED
      BY <1>4, <3>1, <3>2
  <2>4. i + MaxRequests <= Len(s) \/ i + MaxRequests = Len(s) + 1
    <3>1. \A n, m \in Nat : n <= m + 1 => n <= m \/ n = m + 1
      OBVIOUS
    <3>2. i + MaxRequests \in Nat /\ i + MaxRequests <= Len(s) + 1
      BY <1>1, <1>2
    <3>3. QED
      BY <1>1, <3>1, <3>2
  <2>5. QED
    BY <2>2, <2>3, <2>4
<1>10. QED
  BY <1>5, <1>6, <1>7, <1>8, <1>9 DEF EndsWith, u, c

\* A request that is refused finds its share in the full deque.
LEMMA RefuseKeeps ==
    ASSUME NEW s \in Seq(Nat), NEW b \in Seq(Nat), NEW t \in Nat, EndsWith(s, b, t),
           Len(b) >= MaxRequests, ~(t - b[1] > Window)
    PROVE  HadShare(s, t)
<1> DEFINE i == Len(s) - Len(b) + 1
<1>1. MaxRequests \in Nat /\ MaxRequests >= 1 /\ Window \in Nat
  BY RateAssumption
<1>2. Len(b) = MaxRequests /\ Len(s) \in Nat /\ Len(b) <= Len(s)
  BY <1>1 DEF EndsWith
<1>3. i \in 1..Len(s) /\ i + MaxRequests - 1 = Len(s) /\ 1 \in 1..Len(b) /\ Len(s) \in 1..Len(s)
  BY <1>1, <1>2
<1>4. b[1] = s[i]
  <2>1. \A n \in 1..Len(b) : b[n] = s[Len(s) - Len(b) + n]
    BY DEF EndsWith
  <2>2. QED
    BY <1>3, <2>1
<1> HIDE DEF i
<1>5. s[i] \in Nat /\ s[i] <= t /\ s[Len(s)] <= t
  BY <1>3 DEF EndsWith
<1>6. t - s[i] \in 0..Window
  <2>1. \A x \in Nat : x <= t /\ ~(t - x > Window) => t - x \in 0..Window
    BY <1>1
  <2>2. ~(t - s[i] > Window)
    BY <1>4
  <2>3. QED
    BY <1>5, <2>1, <2>2
<1>7. QED
  BY <1>3, <1>5, <1>6 DEF HadShare

\* More history takes no share away, and time takes nothing from the tie.
LEMMA ShareStays ==
    ASSUME NEW s \in Seq(Nat), NEW t \in Nat, NEW r \in Nat, HadShare(s, r)
    PROVE  HadShare(Append(s, t), r)
<1> DEFINE u == Append(s, t)
<1>1. /\ Len(u) = Len(s) + 1 /\ Len(s) \in Nat
      /\ \A i \in 1..Len(s) : u[i] = s[i]
  OBVIOUS
<1> HIDE DEF u
<1>2. PICK i \in 1..Len(s) :
         /\ i + MaxRequests - 1 <= Len(s)
         /\ r - s[i] \in 0..Window
         /\ s[i + MaxRequests - 1] <= r
  BY DEF HadShare
<1>3. i + MaxRequests - 1 \in 1..Len(s) /\ i \in 1..Len(u) /\ i + MaxRequests - 1 <= Len(u)
  BY <1>1, <1>2, RateAssumption
<1>4. u[i] = s[i] /\ u[i + MaxRequests - 1] = s[i + MaxRequests - 1]
  BY <1>1, <1>3
<1>5. QED
  BY <1>2, <1>3, <1>4 DEF HadShare, u

\* The tie of a deque to the history outlives the passing of time.
LEMMA TimePasses ==
    ASSUME NEW s \in Seq(Nat), NEW b \in Seq(Nat), NEW t \in Nat, EndsWith(s, b, t)
    PROVE  EndsWith(s, b, t + 1)
<1>1. Len(s) \in Nat /\ Len(b) \in Nat /\ Len(b) <= Len(s) /\ Window \in Nat
  BY RateAssumption DEF EndsWith
<1>2. \A i \in 1..Len(s) : s[i] \in Nat /\ s[i] <= t + 1
  BY DEF EndsWith
<1>3. \A i \in 1..(Len(s) - Len(b)) : t + 1 - s[i] > Window
  <2> TAKE i \in 1..(Len(s) - Len(b))
  <2>1. i \in 1..Len(s) /\ t - s[i] > Window
    BY <1>1 DEF EndsWith
  <2>2. QED
    BY <1>1, <1>2, <2>1
<1>4. QED
  BY <1>2, <1>3 DEF EndsWith

\* Without history there is nothing to tie or to spread out.
LEMMA NothingYet == \A t \in Nat : EndsWith(<<>>, <<>>, t) /\ SpreadOut(<<>>)
<1>1. Len(<<>>) = 0 /\ (\A i \in 1..0 : FALSE) /\ MaxRequests >= 0
  BY RateAssumption
<1>2. QED
  BY <1>1 DEF EndsWith, SpreadOut

\* The invariant holds at first ...
LEMMA InitRate == RateInit => RateInv
<1> SUFFICES ASSUME RateInit PROVE RateInv
  OBVIOUS
<1>1. RateTypeOK
  BY RateAssumption DEF RateInit, RateTypeOK
<1>2. \A ip \in IPs : served[ip] = <<>> /\ buckets[ip] = <<>> /\ refused[ip] = <<>>
  BY DEF RateInit
<1>3. QED
  <2>1. clock \in Nat /\ \A n \in 1..Len(<<>>) : FALSE
    BY <1>1 DEF RateTypeOK
  <2>2. QED
    BY <1>1, <1>2, <2>1, NothingYet DEF RateInv

\* ... and after every step.
LEMMA RateStep == RateInv /\ [RateNext]_rateVars => RateInv'
<1> SUFFICES ASSUME RateInv, [RateNext]_rateVars PROVE RateInv'
  OBVIOUS
<1>1. RateTypeOK
  BY DEF RateInv
<1>2. ASSUME NEW ip \in IPs, CheckRateLimit(ip) PROVE RateInv'
  <2> DEFINE s == served[ip]
             b == buckets[ip]
  <2>1. s \in Seq(Nat) /\ b \in Seq(Nat) /\ refused[ip] \in Seq(Nat) /\ clock \in Nat
    BY <1>1 DEF RateTypeOK
  <2>2. EndsWith(s, b, clock) /\ SpreadOut(s)
        /\ \A n \in 1..Len(refused[ip]) : HadShare(s, refused[ip][n])
    BY DEF RateInv
  <2>3. PICK rest :
          /\ Popped(b, rest)
          /\ \/ /\ Full(rest)
                /\ buckets' = [buckets EXCEPT ![ip] = rest]
                /\ refused' = [refused EXCEPT ![ip] = Append(refused[ip], clock)]
                /\ UNCHANGED served
             \/ /\ ~Full(rest)
                /\ buckets' = [buckets EXCEPT ![ip] = Append(rest, clock)]
                /\ served' = [served EXCEPT ![ip] = Append(s, clock)]
                /\ UNCHANGED refused
    BY <1>2 DEF CheckRateLimit
  <2>4. clock' = clock
    BY <1>2 DEF CheckRateLimit
  <2>5. PICK k \in 0..Len(b) :
          /\ \A i \in 1..k : clock - b[i] > Window
          /\ k < Len(b) => ~(clock - b[k + 1] > Window)
          /\ rest = SubSeq(b, k + 1, Len(b))
    BY <2>3 DEF Popped, Old
  <2> HIDE DEF s, b
  <2>6. /\ rest \in Seq(Nat) /\ Len(rest) = Len(b) - k
        /\ \A i \in 1..Len(rest) : rest[i] = b[k + i]
        /\ EndsWith(s, rest, clock)
    <3>1. LET cut == SubSeq(b, k + 1, Len(b)) IN
          /\ cut \in Seq(Nat) /\ Len(cut) = Len(b) - k
          /\ \A i \in 1..Len(cut) : cut[i] = b[k + i]
          /\ EndsWith(s, cut, clock)
      BY <2>1, <2>2, <2>5, PopKeeps
    <3>2. QED
      BY <2>5, <3>1
  <2>7. CASE /\ Full(rest)
             /\ buckets' = [buckets EXCEPT ![ip] = rest]
             /\ refused' = [refused EXCEPT ![ip] = Append(refused[ip], clock)]
             /\ UNCHANGED served
    <3>1. /\ buckets'[ip] = rest /\ refused'[ip] = Append(refused[ip], clock) /\ served'[ip] = s
          /\ \A other \in IPs \ {ip} : /\ buckets'[other] = buckets[other]
                                       /\ refused'[other] = refused[other]
                                       /\ served'[other] = served[other]
      BY <1>1, <2>7 DEF RateTypeOK, s
    <3>2. Len(rest) >= MaxRequests
      BY <2>7 DEF Full
    <3>3. ~(clock - rest[1] > Window)
      <4>1. Len(rest) \in Nat /\ Len(rest) >= 1 /\ Len(b) \in Nat
        BY <2>1, <2>6, <3>2, RateAssumption
      <4>2. 1 \in 1..Len(rest) /\ k < Len(b)
        BY <2>6, <4>1
      <4>3. rest[1] = b[k + 1]
        BY <2>6, <4>2
      <4>4. QED
        BY <2>5, <4>2, <4>3
    <3>4. HadShare(s, clock)
      BY <2>1, <2>6, <3>2, <3>3, RefuseKeeps
    <3>5. \A n \in 1..Len(refused'[ip]) : HadShare(s, refused'[ip][n])
      <4>1. /\ Len(Append(refused[ip], clock)) = Len(refused[ip]) + 1 /\ Len(refused[ip]) \in Nat
            /\ \A n \in 1..Len(refused[ip]) : Append(refused[ip], clock)[n] = refused[ip][n]
            /\ Append(refused[ip], clock)[Len(refused[ip]) + 1] = clock
        BY <2>1
      <4>2. QED
        BY <2>2, <3>1, <3>4, <4>1
    <3>6. Len(rest) <= MaxRequests
      BY <2>6 DEF EndsWith
    <3>7. RateTypeOK'
      <4>1. buckets' \in [IPs -> Seq(Nat)] /\ served' \in [IPs -> Seq(Nat)]
        BY <1>1, <2>6, <2>7 DEF RateTypeOK
      <4>2. Append(refused[ip], clock) \in Seq(Nat)
        BY <2>1
      <4>3. refused' \in [IPs -> Seq(Nat)]
        BY <1>1, <2>7, <4>2 DEF RateTypeOK
      <4>4. \A other \in IPs : Len(buckets'[other]) <= MaxRequests
        BY <1>1, <3>1, <3>6 DEF RateTypeOK
      <4>5. QED
        BY <2>1, <2>4, <4>1, <4>3, <4>4 DEF RateTypeOK
    <3>8. QED
      BY <2>2, <2>4, <2>6, <3>1, <3>5, <3>7 DEF RateInv
  <2>8. CASE /\ ~Full(rest)
             /\ buckets' = [buckets EXCEPT ![ip] = Append(rest, clock)]
             /\ served' = [served EXCEPT ![ip] = Append(s, clock)]
             /\ UNCHANGED refused
    <3>1. /\ buckets'[ip] = Append(rest, clock) /\ refused'[ip] = refused[ip]
          /\ served'[ip] = Append(s, clock)
          /\ \A other \in IPs \ {ip} : /\ buckets'[other] = buckets[other]
                                       /\ refused'[other] = refused[other]
                                       /\ served'[other] = served[other]
      BY <1>1, <2>8 DEF RateTypeOK
    <3>2. Len(rest) \in Nat /\ MaxRequests \in Nat
      BY <2>6, RateAssumption
    <3>3. Len(rest) < MaxRequests
      BY <2>8, <3>2 DEF Full
    <3>4. EndsWith(Append(s, clock), Append(rest, clock), clock) /\ SpreadOut(Append(s, clock))
      BY <2>1, <2>2, <2>6, <3>3, AcceptKeeps
    <3>5. \A n \in 1..Len(refused[ip]) : HadShare(Append(s, clock), refused[ip][n])
      <4> TAKE n \in 1..Len(refused[ip])
      <4>1. refused[ip][n] \in Nat
        BY <2>1
      <4>2. QED
        BY <2>1, <2>2, <4>1, ShareStays
    <3>6. Append(rest, clock) \in Seq(Nat) /\ Append(s, clock) \in Seq(Nat)
      BY <2>1, <2>6
    <3>7. Len(Append(rest, clock)) <= MaxRequests
      BY <3>4 DEF EndsWith
    <3>8. RateTypeOK'
      BY <1>1, <2>4, <2>8, <3>1, <3>6, <3>7 DEF RateTypeOK
    <3>9. QED
      BY <2>4, <3>1, <3>4, <3>5, <3>8 DEF RateInv
  <2>9. QED
    BY <2>3, <2>7, <2>8
<1>3. CASE RateTick
  <2>1. clock' = clock + 1 /\ UNCHANGED <<buckets, served, refused>>
    BY <1>3 DEF RateTick
  <2>2. RateTypeOK'
    BY <1>1, <2>1 DEF RateTypeOK
  <2>3. \A ip \in IPs : EndsWith(served[ip], buckets[ip], clock + 1)
    BY <1>1, TimePasses DEF RateInv, RateTypeOK
  <2>4. QED
    BY <2>1, <2>2, <2>3 DEF RateInv
<1>4. CASE RateRestart
  <2>1. \A ip \in IPs : served'[ip] = <<>> /\ buckets'[ip] = <<>> /\ refused'[ip] = <<>>
    BY <1>4 DEF RateRestart
  <2>2. RateTypeOK'
    BY <1>1, <1>4, RateAssumption DEF RateTypeOK, RateRestart
  <2>3. QED
    <3>1. clock' \in Nat /\ \A n \in 1..Len(<<>>) : FALSE
      BY <2>2 DEF RateTypeOK
    <3>2. QED
      BY <2>1, <2>2, <3>1, NothingYet DEF RateInv
<1>5. CASE UNCHANGED rateVars
  BY <1>5 DEF RateInv, RateTypeOK, rateVars
<1>6. QED
  BY <1>2, <1>3, <1>4, <1>5 DEF RateNext

\* The deques are of their type and never outgrow the limit.
THEOREM RateTypes == RateSpec => []RateTypeOK
<1>1. RateInv => RateTypeOK
  BY DEF RateInv
<1>2. QED
  BY <1>1, InitRate, RateStep, PTL DEF RateSpec

\* For every window and limit, scans MaxRequests apart are more than a window
\* apart (_check_rate_limit).
THEOREM RateIsLimited == RateSpec => []WindowBounded
<1>1. RateInv => WindowBounded
  <2> SUFFICES ASSUME RateInv, NEW ip \in IPs, NEW i \in DOMAIN served[ip],
                      i + MaxRequests \in DOMAIN served[ip]
               PROVE  served[ip][i + MaxRequests] - served[ip][i] > Window
    BY DEF WindowBounded
  <2>1. served[ip] \in Seq(Nat) /\ SpreadOut(served[ip])
    BY DEF RateInv, RateTypeOK
  <2>2. i \in 1..Len(served[ip]) /\ i + MaxRequests <= Len(served[ip])
    BY <2>1
  <2>3. QED
    BY <2>1, <2>2 DEF SpreadOut
<1>2. QED
  BY <1>1, InitRate, RateStep, PTL DEF RateSpec

\* Nobody is refused before the limit is used up (_check_rate_limit).
THEOREM RefusalsAreDue == RateSpec => []RefusedHadTheirShare
<1>1. RateInv => RefusedHadTheirShare
  <2> SUFFICES ASSUME RateInv, NEW ip \in IPs, NEW n \in DOMAIN refused[ip]
               PROVE  \E i \in DOMAIN served[ip] :
                        /\ i + MaxRequests - 1 \in DOMAIN served[ip]
                        /\ refused[ip][n] - served[ip][i] \in 0..Window
                        /\ served[ip][i + MaxRequests - 1] <= refused[ip][n]
    BY DEF RefusedHadTheirShare
  <2>1. served[ip] \in Seq(Nat) /\ refused[ip] \in Seq(Nat) /\ n \in 1..Len(refused[ip])
    BY DEF RateInv, RateTypeOK
  <2>2. PICK i \in 1..Len(served[ip]) :
          /\ i + MaxRequests - 1 <= Len(served[ip])
          /\ refused[ip][n] - served[ip][i] \in 0..Window
          /\ served[ip][i + MaxRequests - 1] <= refused[ip][n]
    BY <2>1 DEF RateInv, HadShare
  <2>3. i \in DOMAIN served[ip] /\ i + MaxRequests - 1 \in DOMAIN served[ip]
    BY <2>1, <2>2, RateAssumption
  <2>4. QED
    BY <2>2, <2>3
<1>2. QED
  BY <1>1, InitRate, RateStep, PTL DEF RateSpec

-----------------------------------------------------------------------------
\* The deque implements the window.  The abstract limiter counts; the deque is
\* what it would count, for which the history has to be in order: a time that
\* is kept behind one inside the window is inside it too.

InOrder(s) == \A i, j \in 1..Len(s) : i <= j => s[i] <= s[j]

WindowInv == RateInv /\ \A ip \in IPs : InOrder(served[ip])

\* A time not earlier than all the others keeps a history in order.
LEMMA OrderKept ==
    ASSUME NEW s \in Seq(Nat), NEW t \in Nat, InOrder(s), \A i \in 1..Len(s) : s[i] <= t
    PROVE  InOrder(Append(s, t))
<1> DEFINE u == Append(s, t)
<1>1. /\ Len(u) = Len(s) + 1 /\ Len(s) \in Nat /\ u[Len(s) + 1] = t
      /\ \A i \in 1..Len(s) : u[i] = s[i] /\ s[i] \in Nat
  OBVIOUS
<1> HIDE DEF u
<1>2. SUFFICES ASSUME NEW i \in 1..Len(u), NEW j \in 1..Len(u), i <= j PROVE u[i] <= u[j]
  BY DEF InOrder, u
<1>3. CASE j = Len(s) + 1
  <2>1. i = Len(s) + 1 \/ i \in 1..Len(s)
    BY <1>1
  <2>2. QED
    BY <1>1, <1>3, <2>1
<1>4. CASE j # Len(s) + 1
  <2>1. i \in 1..Len(s) /\ j \in 1..Len(s)
    BY <1>1, <1>2, <1>4
  <2>2. QED
    BY <1>1, <1>2, <2>1 DEF InOrder
<1>5. QED
  BY <1>3, <1>4

\* A popped deque is as long as the window is full.
LEMMA DequeCounts ==
    ASSUME NEW s \in Seq(Nat), NEW b \in Seq(Nat), NEW t \in Nat, EndsWith(s, b, t), InOrder(s),
           Len(b) > 0 => ~(t - b[1] > Window)
    PROVE  Cardinality({i \in 1..Len(s) : t - s[i] <= Window}) = Len(b)
<1> DEFINE first == Len(s) - Len(b) + 1
           recent == {i \in 1..Len(s) : t - s[i] <= Window}
<1>1. Len(s) \in Nat /\ Len(b) \in Nat /\ Len(b) <= Len(s) /\ Window \in Nat
  BY RateAssumption DEF EndsWith
<1>2. first \in 1..(Len(s) + 1)
  BY <1>1
<1>3. \A i \in 1..Len(s) : s[i] \in Nat
  OBVIOUS
<1>4. ASSUME NEW i \in 1..Len(s), i < first PROVE ~(t - s[i] <= Window)
  <2>1. i \in 1..(Len(s) - Len(b))
    BY <1>1, <1>4
  <2>2. t - s[i] > Window
    BY <2>1 DEF EndsWith
  <2>3. QED
    BY <1>1, <1>3, <2>2
<1>5. ASSUME NEW i \in 1..Len(s), i >= first PROVE t - s[i] <= Window
  <2>1. Len(b) > 0 /\ 1 \in 1..Len(b) /\ first \in 1..Len(s)
    BY <1>1, <1>2, <1>5
  <2>2. b[1] = s[first]
    <3>1. \A n \in 1..Len(b) : b[n] = s[Len(s) - Len(b) + n]
      BY DEF EndsWith
    <3>2. QED
      BY <2>1, <3>1
  <2>3. s[first] <= s[i]
    BY <1>5, <2>1 DEF InOrder
  <2>4. ~(t - s[first] > Window)
    BY <2>1, <2>2
  <2>5. \A x, y \in Nat : x <= y /\ ~(t - x > Window) => t - y <= Window
    BY <1>1
  <2> HIDE DEF first
  <2>6. s[first] \in Nat /\ s[i] \in Nat
    BY <1>3, <2>1
  <2>7. QED
    BY <2>3, <2>4, <2>5, <2>6
<1>6. recent = first..Len(s)
  <2>1. ASSUME NEW i, i \in recent PROVE i \in first..Len(s)
    BY <1>1, <1>4, <2>1
  <2>2. ASSUME NEW i, i \in first..Len(s) PROVE i \in recent
    BY <1>1, <1>2, <1>5, <2>2
  <2>3. QED
    BY <2>1, <2>2
<1>7. Cardinality(first..Len(s)) = IF first > Len(s) THEN 0 ELSE Len(s) - first + 1
  <2>1. first \in Int /\ Len(s) \in Int
    BY <1>1
  <2> HIDE DEF first
  <2>2. QED
    BY <2>1, FS_Interval
<1>8. (IF first > Len(s) THEN 0 ELSE Len(s) - first + 1) = Len(b)
  BY <1>1
<1> HIDE DEF first
<1>9. Cardinality(recent) = Len(b)
  BY <1>6, <1>7, <1>8
<1>10. QED
  BY <1>9

\* Histories are in order ...
LEMMA WindowStep == WindowInv /\ [RateNext]_rateVars => WindowInv'
<1> SUFFICES ASSUME WindowInv, [RateNext]_rateVars PROVE WindowInv'
  OBVIOUS
<1>1. RateInv /\ RateInv' /\ RateTypeOK
  BY RateStep DEF WindowInv, RateInv
<1>2. ASSUME NEW ip \in IPs, CheckRateLimit(ip) PROVE WindowInv'
  <2>1. served' = served \/ served' = [served EXCEPT ![ip] = Append(served[ip], clock)]
    BY <1>2 DEF CheckRateLimit
  <2>2. InOrder(Append(served[ip], clock))
    <3>1. served[ip] \in Seq(Nat) /\ clock \in Nat /\ EndsWith(served[ip], buckets[ip], clock)
      BY <1>1 DEF RateInv, RateTypeOK
    <3>2. QED
      BY <3>1, OrderKept DEF WindowInv, EndsWith
  <2>3. QED
    BY <1>1, <2>1, <2>2 DEF WindowInv, RateTypeOK
<1>3. CASE RateTick \/ UNCHANGED rateVars
  BY <1>1, <1>3 DEF WindowInv, RateTick, rateVars
<1>4. CASE RateRestart
  <2>1. \A ip \in IPs : served'[ip] = <<>>
    BY <1>4 DEF RateRestart
  <2>2. \A i \in 1..Len(<<>>) : FALSE
    OBVIOUS
  <2>3. QED
    BY <1>1, <2>1, <2>2 DEF WindowInv, InOrder
<1>5. QED
  BY <1>2, <1>3, <1>4 DEF RateNext

\* ... and every step of the deques is a step of the window.
LEMMA StepRefines ==
    WindowInv /\ [RateNext]_rateVars => [Abstract!Next]_<<clock, served, refused>>
<1> SUFFICES ASSUME WindowInv, [RateNext]_rateVars
             PROVE  Abstract!Next \/ UNCHANGED <<clock, served, refused>>
  OBVIOUS
<1>1. RateInv /\ RateTypeOK
  BY DEF WindowInv, RateInv
<1>2. ASSUME NEW ip \in IPs, CheckRateLimit(ip)
      PROVE  Abstract!Accept(ip) \/ Abstract!Reject(ip)
  <2> DEFINE s == served[ip]
             b == buckets[ip]
  <2>1. s \in Seq(Nat) /\ b \in Seq(Nat) /\ clock \in Nat /\ EndsWith(s, b, clock) /\ InOrder(s)
    BY <1>1 DEF WindowInv, RateInv, RateTypeOK
  <2>2. PICK rest :
          /\ Popped(b, rest)
          /\ \/ /\ Full(rest)
                /\ refused' = [refused EXCEPT ![ip] = Append(refused[ip], clock)]
                /\ UNCHANGED served
             \/ /\ ~Full(rest)
                /\ served' = [served EXCEPT ![ip] = Append(s, clock)]
                /\ UNCHANGED refused
    BY <1>2 DEF CheckRateLimit
  <2>3. clock' = clock /\ Len(served[ip]) + Len(refused[ip]) < MaxServed
    BY <1>2 DEF CheckRateLimit
  <2>4. PICK k \in 0..Len(b) :
          /\ \A i \in 1..k : clock - b[i] > Window
          /\ k < Len(b) => ~(clock - b[k + 1] > Window)
          /\ rest = SubSeq(b, k + 1, Len(b))
    BY <2>2 DEF Popped, Old
  <2> HIDE DEF s, b
  <2>5. /\ rest \in Seq(Nat) /\ Len(rest) = Len(b) - k
        /\ \A i \in 1..Len(rest) : rest[i] = b[k + i]
        /\ EndsWith(s, rest, clock)
    <3>1. LET cut == SubSeq(b, k + 1, Len(b)) IN
          /\ cut \in Seq(Nat) /\ Len(cut) = Len(b) - k
          /\ \A i \in 1..Len(cut) : cut[i] = b[k + i]
          /\ EndsWith(s, cut, clock)
      BY <2>1, <2>4, PopKeeps
    <3>2. QED
      BY <2>4, <3>1
  <2>6. Len(rest) > 0 => ~(clock - rest[1] > Window)
    <3>1. Len(b) \in Nat /\ Len(rest) \in Nat
      BY <2>1, <2>5
    <3>2. Len(rest) > 0 => k < Len(b) /\ rest[1] = b[k + 1]
      BY <2>5, <3>1
    <3>3. QED
      BY <2>4, <3>2
  <2>7. Abstract!Cardinality(Abstract!Recent(ip)) = Len(rest) /\ Len(rest) \in Nat
    <3>1. Cardinality({i \in 1..Len(s) : clock - s[i] <= Window}) = Len(rest)
      BY <2>1, <2>5, <2>6, DequeCounts
    <3>2. \A S : Abstract!Cardinality(S) = Cardinality(S)
      BY DEF Abstract!Cardinality, Cardinality
    <3>3. QED
      BY <2>5, <3>1, <3>2 DEF Abstract!Recent, s
  <2> DEFINE count == Abstract!Cardinality(Abstract!Recent(ip))
  <2>8. /\ Full(rest) => count >= MaxRequests
        /\ ~Full(rest) => count < MaxRequests
    <3>1. count = Len(rest)
      BY <2>7
    <3> HIDE DEF count
    <3>2. QED
      BY <2>7, <3>1, RateAssumption DEF Full
  <2>9. CASE Full(rest)
    BY <2>2, <2>3, <2>8, <2>9, Zenon DEF Abstract!Reject
  <2>10. CASE ~Full(rest)
    BY <2>2, <2>3, <2>8, <2>10, Zenon DEF Abstract!Accept, s
  <2>11. QED
    BY <2>9, <2>10
<1>3. CASE RateTick
  BY <1>3 DEF RateTick, Abstract!Tick, Abstract!Next
<1>4. CASE RateRestart
  BY <1>4 DEF RateRestart, Abstract!Restart, Abstract!Next
<1>5. CASE UNCHANGED rateVars
  BY <1>5 DEF rateVars
<1>6. QED
  BY <1>2, <1>3, <1>4, <1>5 DEF RateNext, Abstract!Next

\* For every window, limit and set of addresses, the deques of
\* _check_rate_limit implement the counting limiter.
THEOREM DequesImplementWindow == RateSpec => RefinesWindow
<1>1. RateInit => WindowInv /\ Abstract!Init
  <2>1. RateInit => \A ip \in IPs : served[ip] = <<>>
    BY DEF RateInit
  <2>2. \A i \in 1..Len(<<>>) : FALSE
    OBVIOUS
  <2>3. QED
    BY <2>1, <2>2, InitRate DEF RateInit, WindowInv, InOrder, Abstract!Init
<1>2. QED
  BY <1>1, WindowStep, StepRefines, PTL DEF RateSpec, RefinesWindow, Abstract!Spec
=============================================================================
