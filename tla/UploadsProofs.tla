--------------------------- MODULE UploadsProofs ---------------------------
(***************************************************************************)
(* The scan limit seen from the requests: whatever the handlers await and  *)
(* however long, no window admits more requests of one address than the    *)
(* limit, for any window, limit, addresses, vendor lists and requests.     *)
(*                                                                         *)
(* The handlers move the limiter only as RateLimiter says, so that its     *)
(* theorems carry over.  What ties the requests to it is a place in the    *)
(* limiter's history for each request that passed it, a different one for  *)
(* every two requests of an address.                                       *)
(*                                                                         *)
(* And the vendor lists: whoever words the header of a sheet as the        *)
(* aliases do has each listed site scanned once.  That is a fact about     *)
(* parse_vendor_excel for every sheet, and a small invariant carries it    *)
(* through the handlers.                                                   *)
(***************************************************************************)
EXTENDS Uploads, RateLimiterProofs, WellFoundedInduction

States == {"limited", "rejected", "reading", "discovering", "job", "raised", "lost"}

\* What a request may come to.
Outcomes ==
    {<<>>} \cup {VendorsIn[b] : b \in Bodies}
    \cup {<<[name |-> b.name, domain |-> Cleaned[b.website]]>> : b \in Bodies}
    \cup {<<[name |-> b.name, domain |-> Candidate(b.name, k)]>> : b \in Bodies, k \in Nat}

Handled == [ip : IPs, at : Nat, body : Bodies, state : States, tried : Nat, vendors : Outcomes]

Passed == {r \in DOMAIN requests : requests[r].state \notin {"limited", "lost"}}

\* place gives each request that passed its own entry of the history.
Placed(place) ==
    \A r \in Passed :
        LET s == served[requests[r].ip]
        IN  /\ place[r] \in 1..Len(s)
            /\ s[place[r]] = requests[r].at
            /\ \A q \in Passed : q # r /\ requests[q].ip = requests[r].ip => place[q] # place[r]

UploadInv ==
    /\ WindowInv
    /\ requests \in Seq(Handled)
    /\ \E place \in [1..Len(requests) -> Nat] : Placed(place)

-----------------------------------------------------------------------------

\* A step of the handlers is a step of the limiter or leaves it alone.
LEMMA HandlersLimit == [UploadNext]_uploadVars => [RateNext]_rateVars
<1> SUFFICES ASSUME [UploadNext]_uploadVars PROVE [RateNext]_rateVars
  OBVIOUS
<1>1. ASSUME NEW ip \in IPs, NEW body \in Bodies, Receive(ip, body) PROVE [RateNext]_rateVars
  BY <1>1 DEF Receive, RateNext
<1>2. ASSUME NEW r \in DOMAIN requests, ReadFile(r) \/ Probe(r) PROVE [RateNext]_rateVars
  BY <1>2 DEF ReadFile, Probe
<1>3. CASE UploadTick \/ UploadRestart
  BY <1>3 DEF UploadTick, UploadRestart, RateNext
<1>4. CASE UNCHANGED uploadVars
  BY <1>4 DEF uploadVars
<1>5. QED
  BY <1>1, <1>2, <1>3, <1>4 DEF UploadNext

\* For all addresses, lists and orders of the awaits, the two handlers keep the
\* scan limit (start_scan, start_single_vendor_scan, _check_rate_limit).
THEOREM HandlersAreLimited == UploadSpec => RateSpec
BY HandlersLimit, PTL DEF UploadSpec, UploadInit, RateSpec

LEMMA LimiterInvHolds == UploadSpec => []WindowInv
<1>1. RateInit => WindowInv
  <2>1. RateInit => \A ip \in IPs : served[ip] = <<>>
    BY DEF RateInit
  <2>2. \A i \in 1..Len(<<>>) : FALSE
    OBVIOUS
  <2>3. QED
    BY <2>1, <2>2, InitRate DEF WindowInv, InOrder
<1>2. QED
  BY <1>1, WindowStep, HandlersAreLimited, PTL DEF RateSpec

-----------------------------------------------------------------------------

LEMMA Least ==
    ASSUME NEW T \in SUBSET Nat, T # {}
    PROVE  \E x \in T : \A y \in T : x <= y
<1> DEFINE R == {p \in Nat \X Nat : p[1] < p[2]}
<1>1. IsWellFoundedOn(R, Nat)
  BY NatLessThanWellFounded DEF OpToRel
<1> HIDE DEF R
<1>2. PICK x \in T : \A y \in T : <<y, x>> \notin R
  BY <1>1, WFMin
<1>3. \A y \in T : ~(y < x)
  BY <1>2 DEF R
<1>4. QED
  BY <1>3

\* A window of time holds a stretch of the history no longer than the limit.
LEMMA WindowHolds ==
    ASSUME NEW s \in Seq(Nat), InOrder(s), SpreadOut(s), NEW from \in Nat,
           NEW j \in 1..Len(s), s[j] \in from..from + Window
    PROVE  \E a \in Nat : \A i \in 1..Len(s) :
              s[i] \in from..from + Window => i \in a..a + MaxRequests - 1
<1> DEFINE inside == {i \in 1..Len(s) : s[i] \in from..from + Window}
<1>1. /\ Len(s) \in Nat /\ Window \in Nat /\ MaxRequests \in Nat \ {0}
      /\ \A i \in 1..Len(s) : s[i] \in Nat
  BY RateAssumption
<1>2. inside \in SUBSET Nat /\ inside # {}
  BY <1>1
<1>3. PICK a \in inside : \A i \in inside : a <= i
  BY <1>2, Least
<1>4. ASSUME NEW i \in inside PROVE i <= a + MaxRequests - 1
  <2>1. a \in 1..Len(s) /\ i \in 1..Len(s) /\ s[a] >= from /\ s[i] <= from + Window
    BY <1>1
  <2>2. SUFFICES ASSUME i >= a + MaxRequests PROVE FALSE
    BY <1>1, <2>1
  <2>3. a + MaxRequests \in 1..Len(s)
    BY <1>1, <2>1, <2>2
  <2>4. s[a + MaxRequests] - s[a] > Window /\ s[a + MaxRequests] <= s[i]
    <3>1. s[a + MaxRequests] - s[a] > Window
      BY <1>1, <2>1, <2>3 DEF SpreadOut
    <3>2. s[a + MaxRequests] <= s[i]
      BY <2>1, <2>2, <2>3 DEF InOrder
    <3>3. QED
      BY <3>1, <3>2
  <2>5. s[a] \in Nat /\ s[i] \in Nat /\ s[a + MaxRequests] \in Nat
    BY <1>1, <2>1, <2>3
  <2>6. \A x, y, z \in Nat : x >= from /\ y - x > Window /\ y <= z => ~(z <= from + Window)
    BY <1>1
  <2>7. QED
    BY <2>1, <2>4, <2>5, <2>6
<1>5. a \in Nat /\ \A i \in inside : i \in Nat
  BY <1>2, <1>3
<1>6. \A i \in inside : i \in a..a + MaxRequests - 1
  BY <1>1, <1>3, <1>4, <1>5
<1>7. QED
  BY <1>5, <1>6

LEMMA PlacedIsLimited == UploadInv => AdmittedWithinLimit
<1> SUFFICES ASSUME UploadInv, NEW ip \in IPs, NEW from \in 0..clock
             PROVE  Cardinality({r \in DOMAIN requests :
                        /\ requests[r].ip = ip /\ requests[r].state \in Admitted
                        /\ requests[r].at \in from..from + Window}) <= MaxRequests
  BY DEF AdmittedWithinLimit
<1> DEFINE s == served[ip]
           many == {r \in DOMAIN requests :
                       /\ requests[r].ip = ip /\ requests[r].state \in Admitted
                       /\ requests[r].at \in from..from + Window}
<1>1. /\ s \in Seq(Nat) /\ InOrder(s) /\ SpreadOut(s) /\ from \in Nat
      /\ requests \in Seq(Handled) /\ MaxRequests \in Nat \ {0}
  BY RateAssumption DEF UploadInv, WindowInv, RateInv, RateTypeOK
<1>2. PICK place \in [1..Len(requests) -> Nat] : Placed(place)
  BY DEF UploadInv
<1>3. \A r \in many : /\ r \in Passed /\ r \in 1..Len(requests) /\ requests[r].ip = ip
                      /\ requests[r].at \in from..from + Window
  BY <1>1 DEF Passed, Admitted
<1>4. \A r \in many : place[r] \in 1..Len(s) /\ s[place[r]] \in from..from + Window
  BY <1>2, <1>3 DEF Placed
<1>5. \A r, q \in many : r # q => place[r] # place[q]
  BY <1>2, <1>3 DEF Placed
<1>6. CASE many = {}
  <2>1. Cardinality(many) = 0
    BY <1>6, FS_EmptySet
  <2> HIDE DEF many
  <2>2. Cardinality(many) <= MaxRequests
    BY <1>1, <2>1
  <2>3. QED
    BY <2>2 DEF many
<1>7. CASE many # {}
  <2>1. PICK j \in 1..Len(s) : s[j] \in from..from + Window
    BY <1>4, <1>7
  <2>2. PICK a \in Nat : \A i \in 1..Len(s) : s[i] \in from..from + Window => i \in a..a + MaxRequests - 1
    BY <1>1, <2>1, WindowHolds
  <2> DEFINE T == a..a + MaxRequests - 1
             g == [r \in many |-> place[r]]
  <2>3. g \in Injection(many, T)
    BY <1>4, <1>5, <2>2 DEF Injection, IsInjective
  <2>4. IsFiniteSet(T) /\ Cardinality(T) = MaxRequests
    <3>1. a \in Int /\ a + MaxRequests - 1 \in Int /\ ~(a > a + MaxRequests - 1)
          /\ (a + MaxRequests - 1) - a + 1 = MaxRequests
      BY <1>1
    <3>2. QED
      BY <3>1, FS_Interval
  <2> HIDE DEF g, T, many
  <2>5. Cardinality(many) <= Cardinality(T)
    BY <2>3, <2>4, FS_Injection
  <2>6. QED
    BY <2>4, <2>5 DEF many
<1>8. QED
  BY <1>6, <1>7

-----------------------------------------------------------------------------

\* A request that is received, whatever it asks for.
LEMMA ReceivedRequest ==
    ASSUME UploadInv, NEW ip \in IPs, NEW body \in Bodies
    PROVE  /\ ReceiveFile(ip, body) \in Handled /\ ReceiveSingle(ip, body) \in Handled
           /\ Request(ip, body, "limited", <<>>) \in Handled
           /\ \A q \in {ReceiveFile(ip, body), ReceiveSingle(ip, body)} : q.ip = ip /\ q.at = clock
<1>1. clock \in Nat
  BY DEF UploadInv, WindowInv, RateInv, RateTypeOK
<1>2. \A st \in States, vs \in Outcomes :
         LET q == Request(ip, body, st, vs) IN q \in Handled /\ q.ip = ip /\ q.at = clock
  BY <1>1 DEF Request, Handled
<1>3. /\ {"limited", "rejected", "raised", "reading", "discovering", "job"} \subseteq States
      /\ <<>> \in Outcomes
      /\ <<[name |-> body.name, domain |-> Cleaned[body.website]]>> \in Outcomes
  BY DEF States, Outcomes
<1>4. \E st \in States : ReceiveFile(ip, body) = Request(ip, body, st, <<>>)
  BY <1>3 DEF ReceiveFile
<1>5. \E st \in States, vs \in Outcomes : ReceiveSingle(ip, body) = Request(ip, body, st, vs)
  BY <1>3 DEF ReceiveSingle
<1>6. QED
  BY <1>2, <1>3, <1>4, <1>5

\* A new request takes the new entry of the history, if there is one.
LEMMA ReceiveKeepsPlaces ==
    ASSUME UploadInv, NEW ip \in IPs, NEW body \in Bodies, Receive(ip, body), WindowInv'
    PROVE  UploadInv'
<1> DEFINE n == Len(requests)
           new == IF refused'[ip] # refused[ip] THEN Request(ip, body, "limited", <<>>)
                  ELSE IF body.form = "sheet" THEN ReceiveFile(ip, body) ELSE ReceiveSingle(ip, body)
<1>1. /\ requests \in Seq(Handled) /\ n \in Nat /\ clock \in Nat
      /\ served \in [IPs -> Seq(Nat)] /\ refused \in [IPs -> Seq(Nat)]
  BY DEF UploadInv, WindowInv, RateInv, RateTypeOK
<1>2. PICK place \in [1..n -> Nat] : Placed(place)
  BY DEF UploadInv
<1>3. new \in Handled /\ requests' = Append(requests, new)
  BY ReceivedRequest DEF Receive
<1>4. \/ refused'[ip] # refused[ip] /\ served' = served
      \/ /\ new.ip = ip /\ new.at = clock
         /\ served' = [served EXCEPT ![ip] = Append(@, clock)]
  <2>1. \/ refused' = [refused EXCEPT ![ip] = Append(@, clock)] /\ served' = served
        \/ refused' = refused /\ served' = [served EXCEPT ![ip] = Append(@, clock)]
    BY DEF Receive, CheckRateLimit
  <2>2. Append(refused[ip], clock) # refused[ip]
    BY <1>1
  <2>3. QED
    BY <1>1, <2>1, <2>2, ReceivedRequest
<1>5. refused'[ip] # refused[ip] => new.state = "limited"
  BY DEF Request
<1> HIDE DEF new
<1>6. /\ requests' \in Seq(Handled) /\ Len(requests') = n + 1 /\ requests'[n + 1] = new
      /\ \A r \in 1..n : requests'[r] = requests[r]
      /\ DOMAIN requests = 1..n /\ DOMAIN requests' = 1..(n + 1)
  BY <1>1, <1>3
<1>7. \A r \in 1..n : requests[r].ip \in IPs
  <2>1. \A r \in 1..n : requests[r] \in Handled
    BY <1>1
  <2>2. \A q \in Handled : q.ip \in IPs
    BY DEF Handled
  <2>3. QED
    BY <2>1, <2>2
<1>8. /\ Passed' \subseteq Passed \cup {n + 1} /\ \A r \in Passed' : r # n + 1 => r \in Passed /\ r \in 1..n
      /\ refused'[ip] # refused[ip] => n + 1 \notin Passed'
  BY <1>1, <1>5, <1>6 DEF Passed
<1>9. PICK place2 \in [1..(n + 1) -> Nat] :
         place2[n + 1] = Len(served'[ip]) /\ \A r \in 1..n : place2[r] = place[r]
  <2>1. Len(served'[ip]) \in Nat
    BY DEF WindowInv, RateInv, RateTypeOK
  <2> DEFINE longer == [r \in 1..(n + 1) |-> IF r = n + 1 THEN Len(served'[ip]) ELSE place[r]]
  <2>2. /\ longer \in [1..(n + 1) -> Nat]
        /\ longer[n + 1] = Len(served'[ip]) /\ \A r \in 1..n : longer[r] = place[r]
    BY <1>1, <2>1
  <2>3. QED
    BY <2>2
<1>10. Placed(place2)'
  <2>1. CASE refused'[ip] # refused[ip] /\ served' = served
    <3>1. \A r \in Passed' : /\ r \in Passed /\ r \in 1..n
                             /\ place2[r] = place[r] /\ requests'[r] = requests[r]
      BY <1>6, <1>8, <1>9, <2>1
    <3>2. QED
      BY SMTT(30), <1>2, <2>1, <3>1 DEF Placed
  <2>2. CASE new.ip = ip /\ new.at = clock /\ served' = [served EXCEPT ![ip] = Append(@, clock)]
    <3>1. /\ Len(served'[ip]) = Len(served[ip]) + 1 /\ served'[ip][Len(served[ip]) + 1] = clock
          /\ \A i \in 1..Len(served[ip]) : served'[ip][i] = served[ip][i]
          /\ \A o \in IPs : o # ip => served'[o] = served[o]
          /\ \A o \in IPs : Len(served[o]) \in Nat
      BY <1>1, <2>2
    <3>2. ASSUME NEW r \in Passed', r # n + 1
          PROVE  /\ place2[r] = place[r] /\ requests'[r] = requests[r] /\ requests[r].ip \in IPs
                 /\ place[r] \in 1..Len(served[requests[r].ip])
                 /\ served[requests[r].ip][place[r]] = requests[r].at
      BY <1>1, <1>2, <1>6, <1>7, <1>8, <1>9, <3>2 DEF Placed
    <3>3. ASSUME NEW r \in Passed', r # n + 1
          PROVE  /\ place2[r] \in 1..Len(served'[requests'[r].ip])
                 /\ served'[requests'[r].ip][place2[r]] = requests'[r].at
      <4>1. CASE requests[r].ip = ip
        <5>1. place2[r] \in 1..Len(served[ip]) /\ served[ip][place2[r]] = requests[r].at
          BY <3>2, <3>3, <4>1
        <5>2. served'[ip][place2[r]] = requests[r].at /\ place2[r] \in 1..Len(served'[ip])
          BY <1>1, <3>1, <5>1
        <5>3. requests'[r] = requests[r]
          BY <3>2, <3>3
        <5>4. QED
          BY <4>1, <5>2, <5>3
      <4>2. CASE requests[r].ip # ip
        BY SMTT(30), <3>1, <3>2, <3>3, <4>2
      <4>3. QED
        BY <4>1, <4>2
    <3>4. n + 1 \in Passed' => /\ place2[n + 1] = Len(served[ip]) + 1
                               /\ requests'[n + 1].ip = ip /\ requests'[n + 1].at = clock
      BY <1>1, <1>6, <1>9, <2>2, <3>1
    <3>5. ASSUME NEW r \in Passed', NEW q \in Passed', q # r, requests'[q].ip = requests'[r].ip
          PROVE  place2[q] # place2[r]
      <4>1. CASE r # n + 1 /\ q # n + 1
        <5>1. r \in Passed /\ q \in Passed
          BY <1>8, <4>1
        <5>2. requests[q].ip = requests[r].ip
          BY <3>2, <3>5, <4>1
        <5>3. QED
          BY <1>2, <3>2, <3>5, <4>1, <5>1, <5>2 DEF Placed
      <4>2. CASE r = n + 1 /\ q # n + 1
        <5>1. place2[r] = Len(served[ip]) + 1 /\ requests[q].ip = ip
          BY <3>2, <3>4, <3>5, <4>2
        <5>2. place2[q] \in 1..Len(served[ip])
          BY <3>2, <4>2, <5>1
        <5>3. QED
          BY <3>1, <5>1, <5>2
      <4>3. CASE r # n + 1 /\ q = n + 1
        <5>1. place2[q] = Len(served[ip]) + 1 /\ requests[r].ip = ip
          BY <3>2, <3>4, <3>5, <4>3
        <5>2. place2[r] \in 1..Len(served[ip])
          BY <3>2, <4>3, <5>1
        <5>3. QED
          BY <3>1, <5>1, <5>2
      <4>4. QED
        BY <3>5, <4>1, <4>2, <4>3
    <3>6. n + 1 \in Passed' => /\ place2[n + 1] \in 1..Len(served'[requests'[n + 1].ip])
                               /\ served'[requests'[n + 1].ip][place2[n + 1]] = requests'[n + 1].at
      BY <3>1, <3>4
    <3>7. \A r \in Passed' : /\ place2[r] \in 1..Len(served'[requests'[r].ip])
                             /\ served'[requests'[r].ip][place2[r]] = requests'[r].at
      BY <3>3, <3>6
    <3>8. QED
      BY <3>5, <3>7 DEF Placed
  <2>3. QED
    BY <1>4, <2>1, <2>2
<1>11. QED
  <2>1. Len(requests') = n + 1 /\ \E p \in [1..(n + 1) -> Nat] : Placed(p)'
    BY <1>6, <1>9, <1>10
  <2>2. QED
    BY <1>6, <2>1 DEF UploadInv

\* A handler goes on: the request keeps its place.
LEMMA HandlingKeepsPlaces ==
    ASSUME UploadInv, NEW r \in DOMAIN requests, ReadFile(r) \/ Probe(r), WindowInv'
    PROVE  UploadInv'
<1>1. requests \in Seq(Handled) /\ DOMAIN requests = 1..Len(requests) /\ Len(requests) \in Nat
  BY DEF UploadInv
<1>2. PICK place \in [1..Len(requests) -> Nat] : Placed(place)
  BY DEF UploadInv
<1>3. served' = served /\ requests[r].state \in {"reading", "discovering"} /\ requests[r] \in Handled
  BY <1>1 DEF ReadFile, Probe, rateVars
<1>4. \E q \in Handled : /\ requests' = [requests EXCEPT ![r] = q]
                         /\ q.ip = requests[r].ip /\ q.at = requests[r].at
  <2>1. \A st \in States, k \in Nat, vs \in Outcomes :
           /\ LET q == [requests[r] EXCEPT !.state = st, !.vendors = vs]
              IN  q \in Handled /\ q.ip = requests[r].ip /\ q.at = requests[r].at
           /\ LET q == [requests[r] EXCEPT !.state = st, !.tried = k, !.vendors = vs]
              IN  q \in Handled /\ q.ip = requests[r].ip /\ q.at = requests[r].at
           /\ LET q == [requests[r] EXCEPT !.tried = k, !.state = st]
              IN  q \in Handled /\ q.ip = requests[r].ip /\ q.at = requests[r].at
           /\ LET q == [requests[r] EXCEPT !.state = st]
              IN  q \in Handled /\ q.ip = requests[r].ip /\ q.at = requests[r].at
    BY ZenonT(60), <1>3 DEF Handled
  <2>2. /\ "rejected" \in States /\ "raised" \in States /\ "job" \in States
        /\ requests[r].state \in States
        /\ requests[r].body \in Bodies /\ requests[r].tried + 1 \in Nat
    BY <1>3 DEF States, Handled
  <2>3. VendorsIn[requests[r].body] \in Outcomes
    BY <2>2 DEF Outcomes
  <2>4. <<[name |-> requests[r].body.name, domain |-> Candidate(requests[r].body.name, requests[r].tried + 1)]>> \in Outcomes
    BY <2>2 DEF Outcomes
  <2>5. CASE ReadFile(r)
    <3>1. \/ requests' = [requests EXCEPT ![r] = [requests[r] EXCEPT !.state = "rejected"]]
          \/ requests' = [requests EXCEPT ![r] = [requests[r] EXCEPT !.state = "raised"]]
          \/ requests' = [requests EXCEPT ![r] =
                [requests[r] EXCEPT !.state = "job", !.vendors = VendorsIn[requests[r].body]]]
      BY <1>1, <2>5 DEF ReadFile
    <3>2. QED
      BY ZenonT(60), <2>1, <2>2, <2>3, <3>1
  <2>6. CASE Probe(r)
    <3> DEFINE k == requests[r].tried + 1
               name == requests[r].body.name
    <3>1. k \in Nat /\ <<[name |-> name, domain |-> Candidate(name, k)]>> \in Outcomes
      BY <2>2, <2>4
    <3>2. CASE requests' = [requests EXCEPT ![r] =
                 [requests[r] EXCEPT !.state = "job", !.tried = k,
                                     !.vendors = <<[name |-> name, domain |-> Candidate(name, k)]>>]]
      <4> DEFINE q == [requests[r] EXCEPT !.state = "job", !.tried = k,
                                          !.vendors = <<[name |-> name, domain |-> Candidate(name, k)]>>]
      <4>1. q \in Handled /\ q.ip = requests[r].ip /\ q.at = requests[r].at
        BY ZenonT(60), <2>1, <2>2, <3>1
      <4>2. requests' = [requests EXCEPT ![r] = q]
        BY <3>2
      <4> HIDE DEF q
      <4>3. QED
        BY <4>1, <4>2
    <3>3. ASSUME NEW st \in States,
                 requests' = [requests EXCEPT ![r] = [requests[r] EXCEPT !.tried = k, !.state = st]]
          PROVE  \E q \in Handled : /\ requests' = [requests EXCEPT ![r] = q]
                                    /\ q.ip = requests[r].ip /\ q.at = requests[r].at
      <4> DEFINE q == [requests[r] EXCEPT !.tried = k, !.state = st]
      <4>1. q \in Handled /\ q.ip = requests[r].ip /\ q.at = requests[r].at
        BY <2>1, <3>1
      <4>2. requests' = [requests EXCEPT ![r] = q]
        BY <3>3
      <4> HIDE DEF q
      <4>3. QED
        BY <4>1, <4>2
    <3>4. CASE requests' = [requests EXCEPT ![r] =
                 [requests[r] EXCEPT !.tried = k,
                                     !.state = IF k = Len(CandidateTlds) THEN "rejected" ELSE "discovering"]]
      <4>1. CASE k = Len(CandidateTlds)
        <5>1. requests' = [requests EXCEPT ![r] = [requests[r] EXCEPT !.tried = k, !.state = "rejected"]]
          BY <3>4, <4>1
        <5>2. QED
          BY <2>2, <3>3, <5>1
      <4>2. CASE k # Len(CandidateTlds)
        <5>1. requests' = [requests EXCEPT ![r] = [requests[r] EXCEPT !.tried = k, !.state = "discovering"]]
          BY <3>4, <4>2
        <5>2. "discovering" \in States
          BY DEF States
        <5>3. QED
          BY <3>3, <5>1, <5>2
      <4>3. QED
        BY <4>1, <4>2
    <3>5. PICK answers \in BOOLEAN : requests' = [requests EXCEPT ![r] =
             IF answers
             THEN [@ EXCEPT !.state = "job", !.tried = k,
                            !.vendors = <<[name |-> name, domain |-> Candidate(name, k)]>>]
             ELSE [@ EXCEPT !.tried = k,
                            !.state = IF k = Len(CandidateTlds) THEN "rejected" ELSE "discovering"]]
      BY <2>6 DEF Probe
    <3>6. CASE answers
      BY <3>2, <3>5, <3>6
    <3>7. CASE ~answers
      <4>1. requests' = [requests EXCEPT ![r] =
               [requests[r] EXCEPT !.tried = k,
                                   !.state = IF k = Len(CandidateTlds) THEN "rejected" ELSE "discovering"]]
        BY <3>5, <3>7
      <4>2. QED
        BY <3>4, <4>1
    <3>8. QED
      BY <3>6, <3>7
  <2>7. QED
    BY <2>5, <2>6
<1>5. PICK q \in Handled : /\ requests' = [requests EXCEPT ![r] = q]
                           /\ q.ip = requests[r].ip /\ q.at = requests[r].at
  BY <1>4
<1>6. /\ requests' \in Seq(Handled) /\ Len(requests') = Len(requests) /\ DOMAIN requests' = DOMAIN requests
      /\ \A o \in DOMAIN requests : requests'[o].ip = requests[o].ip /\ requests'[o].at = requests[o].at
      /\ \A o \in DOMAIN requests : o # r => requests'[o] = requests[o]
  BY <1>1, <1>5
<1>7. Passed' \subseteq Passed
  BY <1>3, <1>6 DEF Passed
<1>8. Placed(place)'
  BY <1>2, <1>3, <1>6, <1>7 DEF Placed, Passed
<1>9. QED
  BY <1>2, <1>6, <1>8 DEF UploadInv

LEMMA UploadStep == UploadInv /\ WindowInv' /\ [UploadNext]_uploadVars => UploadInv'
<1> SUFFICES ASSUME UploadInv, WindowInv', [UploadNext]_uploadVars PROVE UploadInv'
  OBVIOUS
<1>1. ASSUME UNCHANGED <<served, requests>> PROVE UploadInv'
  <2>1. Passed' = Passed
    BY <1>1 DEF Passed
  <2>2. \A place : Placed(place) => Placed(place)'
    BY <1>1, <2>1 DEF Placed
  <2>3. QED
    BY <1>1, <2>2 DEF UploadInv
<1>2. ASSUME NEW ip \in IPs, NEW body \in Bodies, Receive(ip, body) PROVE UploadInv'
  BY <1>2, ReceiveKeepsPlaces
<1>3. ASSUME NEW r \in DOMAIN requests, ReadFile(r) \/ Probe(r) PROVE UploadInv'
  BY <1>3, HandlingKeepsPlaces
<1>4. CASE UploadTick
  BY <1>1, <1>4 DEF UploadTick, RateTick
<1>5. CASE UploadRestart
  <2>1. requests \in Seq(Handled) /\ DOMAIN requests = 1..Len(requests) /\ Len(requests) \in Nat
    BY DEF UploadInv
  <2>2. requests' = [r \in DOMAIN requests |-> [requests[r] EXCEPT !.state = "lost"]]
    BY <1>5 DEF UploadRestart
  <2>3. \A q \in Handled : [q EXCEPT !.state = "lost"] \in Handled /\ [q EXCEPT !.state = "lost"].state = "lost"
    BY DEF Handled, States
  <2>4. requests' \in [1..Len(requests) -> Handled] /\ \A r \in 1..Len(requests) : requests'[r].state = "lost"
    <3>1. \A r \in 1..Len(requests) :
             requests[r] \in Handled /\ requests'[r] = [requests[r] EXCEPT !.state = "lost"]
      BY <2>1, <2>2
    <3>2. \A r \in 1..Len(requests) : requests'[r] \in Handled /\ requests'[r].state = "lost"
      BY ZenonT(60), <2>3, <3>1
    <3>3. requests' = [r \in 1..Len(requests) |-> requests'[r]]
      BY <2>1, <2>2
    <3>4. QED
      BY <3>2, <3>3
  <2>5. \A n \in Nat : \A f \in [1..n -> Handled] : f \in Seq(Handled) /\ Len(f) = n /\ DOMAIN f = 1..n
    OBVIOUS
  <2>6. requests' \in Seq(Handled) /\ Len(requests') = Len(requests) /\ DOMAIN requests' = 1..Len(requests)
    BY <2>1, <2>4, <2>5
  <2>7. Passed' = {}
    BY <2>4, <2>6 DEF Passed
  <2>8. PICK place \in [1..Len(requests) -> Nat] : Placed(place)
    BY DEF UploadInv
  <2>9. Placed(place)'
    BY <2>7 DEF Placed
  <2>10. QED
    BY <2>6, <2>8, <2>9 DEF UploadInv
<1>6. CASE UNCHANGED uploadVars
  BY <1>1, <1>6 DEF uploadVars, rateVars
<1>7. QED
  BY <1>2, <1>3, <1>4, <1>5, <1>6 DEF UploadNext

-----------------------------------------------------------------------------

(* Reading a vendor list. *)

\* The least member of a set of positions, as Min picks it.
LEMMA MinIsLeast ==
    ASSUME NEW S \in SUBSET Nat, S # {}
    PROVE  Min(S) \in S /\ \A y \in S : Min(S) <= y
BY Least DEF Min

LEMMA PartOfInterval ==
    ASSUME NEW m \in Nat, NEW T, T \subseteq 1..m
    PROVE  IsFiniteSet(T)
<1>1. IsFiniteSet(1..m)
  BY FS_Interval
<1>2. QED
  BY <1>1, FS_Subset

\* Counting through a finite set of positions meets each once.
LEMMA NthMeetsEach ==
    ASSUME NEW S \in SUBSET Nat, IsFiniteSet(S)
    PROVE  /\ Cardinality(S) \in Nat
           /\ \A k \in 1..Cardinality(S) : Nth(S, k) \in S
           /\ \A i \in S : \E k \in 1..Cardinality(S) : Nth(S, k) = i
<1> DEFINE upTo(i) == {j \in S : j <= i}
           n == Cardinality(S)
           rank == [i \in S |-> Cardinality(upTo(i))]
<1>1. n \in Nat
  BY FS_CardinalityType
<1>2. \A i \in S : IsFiniteSet(upTo(i)) /\ Cardinality(upTo(i)) \in 1..n
  <2> TAKE i \in S
  <2>1. upTo(i) \subseteq S /\ i \in upTo(i)
    OBVIOUS
  <2>2. IsFiniteSet(upTo(i)) /\ Cardinality(upTo(i)) <= n /\ Cardinality(upTo(i)) # 0
    BY <2>1, FS_Subset, FS_EmptySet
  <2>3. Cardinality(upTo(i)) \in Nat
    BY <2>2, FS_CardinalityType
  <2>4. QED
    BY <1>1, <2>2, <2>3
<1>3. \A i, k \in S : i < k => Cardinality(upTo(i)) < Cardinality(upTo(k))
  <2> SUFFICES ASSUME NEW i \in S, NEW k \in S, i < k PROVE Cardinality(upTo(i)) < Cardinality(upTo(k))
    OBVIOUS
  <2>1. upTo(i) \subseteq upTo(k) /\ k \in upTo(k) /\ k \notin upTo(i)
    <3>1. i \in Int /\ k \in Int /\ \A j \in S : j \in Int
      OBVIOUS
    <3>2. k <= k /\ ~(k <= i) /\ \A j \in S : j <= i => j <= k
      BY <3>1
    <3>3. QED
      BY <3>2
  <2>2. Cardinality(upTo(i)) <= Cardinality(upTo(k)) /\ Cardinality(upTo(i)) # Cardinality(upTo(k))
    <3>1. IsFiniteSet(upTo(k)) /\ upTo(i) # upTo(k)
      BY <1>2, <2>1
    <3>2. QED
      BY <2>1, <3>1, FS_Subset
  <2>3. QED
    BY <1>2, <2>2
<1>4. \A i, k \in S : Cardinality(upTo(i)) = Cardinality(upTo(k)) => i = k
  BY <1>2, <1>3
<1> HIDE DEF upTo
<1>5. rank \in Injection(S, 1..n)
  BY <1>2, <1>4 DEF Injection, IsInjective
<1>6. IsFiniteSet(1..n) /\ Cardinality(1..n) = n
  BY <1>1, FS_Interval
<1>7. rank \in Surjection(S, 1..n)
  BY <1>5, <1>6, FS_Injection
<1>8. \A k \in 1..n : \E i \in S : Cardinality(upTo(i)) = k
  BY <1>7 DEF Surjection
<1>9. \A k \in 1..n : Nth(S, k) \in S /\ Cardinality(upTo(Nth(S, k))) = k
  BY <1>8 DEF Nth, upTo
<1>10. \A i \in S : Nth(S, Cardinality(upTo(i))) = i
  BY <1>2, <1>4, <1>9
<1>11. QED
  BY <1>1, <1>2, <1>9, <1>10

\* A row's cells and a sheet's rows are counted from one.
LEMMA SheetsCountFromOne ==
    ASSUME NEW b \in Sheets
    PROVE  /\ b \in Bodies /\ Len(b.rows) \in Nat /\ DOMAIN b.rows = 1..Len(b.rows)
           /\ \A i \in DOMAIN b.rows : DOMAIN b.rows[i] \in SUBSET (Nat \ {0})
<1>1. b \in Bodies /\ b.form = "sheet"
  BY DEF Sheets
<1>2. b.rows \in Seq(Range(b.rows)) /\ \A i \in DOMAIN b.rows : b.rows[i] \in Seq(Range(b.rows[i]))
  BY <1>1, SheetAssumption
<1>3. QED
  BY <1>1, <1>2

\* Exact words decide, and without anything like them there is no column
\* (_find_column_index).
LEMMA ColumnByItsWords ==
    ASSUME NEW row, DOMAIN row \in SUBSET (Nat \ {0}), NEW words, NEW like, words \subseteq like
    PROVE  /\ (\E c \in DOMAIN row : row[c].text \in words) =>
                 /\ FindColumnIndex(row, words, like) = Min({c \in DOMAIN row : row[c].text \in words})
                 /\ FindColumnIndex(row, words, like) \in DOMAIN row
           /\ (\A c \in DOMAIN row : row[c].text \notin like) => FindColumnIndex(row, words, like) = 0
<1> DEFINE exact == {c \in DOMAIN row : row[c].text \in words}
           fuzzy == {c \in DOMAIN row : row[c].text \in like}
<1>1. FindColumnIndex(row, words, like) =
         IF exact # {} THEN Min(exact) ELSE IF fuzzy # {} THEN Min(fuzzy) ELSE 0
  BY DEF FindColumnIndex
<1>2. exact \in SUBSET Nat /\ exact \subseteq fuzzy
  OBVIOUS
<1>3. exact # {} => Min(exact) \in exact
  BY <1>2, MinIsLeast
<1>4. QED
  BY <1>1, <1>2, <1>3

\* The header that is meant is the header that is found (_find_header_row).
LEMMA MeantIsFound ==
    ASSUME NEW b \in Sheets, NEW head \in DOMAIN b.rows, Meant(b.rows, head)
    PROVE  LET row == b.rows[head]
               n == Min({c \in DOMAIN row : row[c].text \in NameWords})
               u == Min({c \in DOMAIN row : row[c].text \in UrlWords})
           IN  /\ HeaderRow(b.rows) = head
               /\ NameColumn(row) = n /\ UrlColumn(row) = u /\ n # 0 /\ u # 0
<1> DEFINE rows == b.rows
           heads == {i \in DOMAIN rows :
                        i <= MaxHeaderRow /\ NameColumn(rows[i]) # 0 /\ UrlColumn(rows[i]) # 0}
<1>1. DOMAIN rows \in SUBSET Nat /\ \A i \in DOMAIN rows : DOMAIN rows[i] \in SUBSET (Nat \ {0})
  BY SheetsCountFromOne
<1>2. NameWords \subseteq NameLike /\ UrlWords \subseteq UrlLike
  BY UploadAssumption
<1>3. /\ NameColumn(rows[head]) = Min({c \in DOMAIN rows[head] : rows[head][c].text \in NameWords})
      /\ NameColumn(rows[head]) \in DOMAIN rows[head]
  <2>1. \E c \in DOMAIN rows[head] : rows[head][c].text \in NameWords
    BY DEF Meant
  <2>2. QED
    BY <1>1, <1>2, <2>1, ColumnByItsWords DEF NameColumn
<1>4. /\ UrlColumn(rows[head]) = Min({c \in DOMAIN rows[head] : rows[head][c].text \in UrlWords})
      /\ UrlColumn(rows[head]) \in DOMAIN rows[head]
  <2>1. \E c \in DOMAIN rows[head] : rows[head][c].text \in UrlWords
    BY DEF Meant
  <2>2. QED
    BY <1>1, <1>2, <2>1, ColumnByItsWords DEF UrlColumn
<1>5. head \in heads
  BY <1>1, <1>3, <1>4 DEF Meant
<1>6. ASSUME NEW i \in heads, i < head PROVE FALSE
  <2>1. i \in 1..head - 1 /\ i \in DOMAIN rows
    BY <1>1, <1>6, SheetsCountFromOne
  <2>2. CASE \A c \in DOMAIN rows[i] : rows[i][c].text \notin NameLike
    <3>1. NameColumn(rows[i]) = 0
      BY <1>1, <1>2, <2>1, <2>2, ColumnByItsWords DEF NameColumn
    <3>2. QED
      BY <1>6, <3>1
  <2>3. CASE \A c \in DOMAIN rows[i] : rows[i][c].text \notin UrlLike
    <3>1. UrlColumn(rows[i]) = 0
      BY <1>1, <1>2, <2>1, <2>3, ColumnByItsWords DEF UrlColumn
    <3>2. QED
      BY <1>6, <3>1
  <2>4. QED
    BY <2>1, <2>2, <2>3 DEF Meant
<1>7. heads \in SUBSET Nat /\ head \in Nat
  BY <1>1
<1> HIDE DEF heads
<1>8. Min(heads) = head
  <2>1. Min(heads) \in heads /\ Min(heads) <= head
    BY <1>5, <1>7, MinIsLeast
  <2>2. Min(heads) \in Nat /\ ~(Min(heads) < head)
    BY <1>6, <1>7, <2>1
  <2>3. QED
    BY <1>7, <2>1, <2>2
<1>9. HeaderRow(rows) = head
  BY <1>5, <1>8 DEF HeaderRow, heads
<1>10. QED
  BY <1>1, <1>3, <1>4, <1>9

LEMMA ListLength ==
    ASSUME NEW m \in Nat, NEW s, s = [k \in 1..m |-> s[k]]
    PROVE  Len(s) = m /\ DOMAIN s = 1..m /\ (s = <<>> <=> m = 0)
<1>1. DOMAIN s = 1..m
  OBVIOUS
<1>2. s \in Seq({s[k] : k \in 1..m})
  OBVIOUS
<1>3. Len(s) \in Nat /\ DOMAIN s = 1..Len(s)
  BY <1>2
<1>4. Len(s) = m
  BY <1>1, <1>3
<1>5. s = <<>> <=> Len(s) = 0
  BY <1>2
<1>6. QED
  BY <1>1, <1>4, <1>5

\* The rows below the header that have a name and a site, and their sites.
Filled(rows, head, n, u) ==
    {i \in head + 1..Len(rows) : rows[i][n].text # Blank /\ HasSite(rows[i][u])}
SitesOf(rows, head, n, u) == {Site(rows[i][u]) : i \in Filled(rows, head, n, u)}

\* One row is taken for each site below the header, the first that names it
\* (parse_vendor_excel).
LEMMA FirstOfEachSite ==
    ASSUME NEW b \in Sheets, NEW head \in DOMAIN b.rows, NEW n, NEW u
    PROVE  /\ Taken(b.rows, head, n, u) \subseteq Filled(b.rows, head, n, u)
           /\ Cardinality(Taken(b.rows, head, n, u)) = Cardinality(SitesOf(b.rows, head, n, u))
           /\ \A d \in SitesOf(b.rows, head, n, u) : \E i \in Taken(b.rows, head, n, u) :
                 /\ Site(b.rows[i][u]) = d
                 /\ \A j \in Filled(b.rows, head, n, u) : Site(b.rows[j][u]) = d => i <= j
<1> DEFINE rows == b.rows
           taken == Taken(rows, head, n, u)
           filled == Filled(rows, head, n, u)
           site(i) == Site(rows[i][u])
           domains == {site(i) : i \in filled}
<1>1. /\ Len(rows) \in Nat /\ DOMAIN rows = 1..Len(rows) /\ head \in 1..Len(rows)
      /\ filled \in SUBSET Nat
  BY SheetsCountFromOne DEF Filled
<1>2. taken = {i \in filled : \A j \in filled : j < i => site(j) # site(i)}
  <2>1. \A i \in DOMAIN rows : i > head /\ Usable(rows[i], n, u) <=> i \in filled
    BY <1>1 DEF Usable, Filled
  <2>2. \A i \in filled : \A j : (j \in head + 1..i - 1 /\ Usable(rows[j], n, u)) <=> (j \in filled /\ j < i)
    <3>1. filled \subseteq head + 1..Len(rows)
      BY DEF Filled
    <3>2. \A i \in head + 1..Len(rows) : \A j \in head + 1..i - 1 : j \in DOMAIN rows /\ j > head /\ j < i
      BY <1>1
    <3>3. \A i, j \in head + 1..Len(rows) : j < i => j \in head + 1..i - 1 /\ j \in DOMAIN rows /\ j > head
      BY <1>1
    <3> HIDE DEF filled, rows
    <3>4. QED
      BY <2>1, <3>1, <3>2, <3>3
  <2>3. filled \subseteq DOMAIN rows
    BY <1>1 DEF Filled
  <2> HIDE DEF filled, site
  <2>4. taken = {i \in DOMAIN rows :
                   /\ i > head /\ Usable(rows[i], n, u)
                   /\ \A j \in head + 1..i - 1 : Usable(rows[j], n, u) => site(j) # site(i)}
    BY DEF Taken, site
  <2>5. QED
    BY <2>1, <2>2, <2>3, <2>4
<1> HIDE DEF filled, site, taken
<1>3. ASSUME NEW d \in domains
      PROVE  \E i \in taken : site(i) = d /\ \A j \in filled : site(j) = d => i <= j
  <2> DEFINE named == {i \in filled : site(i) = d}
  <2>1. named \in SUBSET Nat /\ named # {}
    BY <1>1
  <2>2. PICK i \in named : \A j \in named : i <= j
    BY <2>1, Least
  <2>3. i \in taken
    BY <1>1, <1>2, <2>2
  <2>4. QED
    BY <2>2, <2>3
<1>4. Cardinality(taken) = Cardinality(domains)
  <2> DEFINE f == [i \in taken |-> site(i)]
  <2>1. IsFiniteSet(taken)
    <3>1. taken \subseteq 1..Len(rows)
      BY <1>1, <1>2 DEF filled, Filled
    <3>2. QED
      BY <1>1, <3>1, PartOfInterval
  <2>2. f \in Surjection(taken, domains)
    BY <1>2, <1>3 DEF Surjection
  <2>3. \A i, j \in taken : site(i) = site(j) => i = j
    BY <1>1, <1>2
  <2>4. f \in Injection(taken, domains)
    BY <1>2, <2>3 DEF Injection, IsInjective
  <2>5. QED
    BY <2>1, <2>2, <2>4, FS_Surjection
<1>5. QED
  BY <1>2, <1>3, <1>4 DEF taken, filled, site, SitesOf

\* What parse_vendor_excel returns is as long as the rows it takes are many.
LEMMA ParsedLength ==
    ASSUME NEW b \in Sheets
    PROVE  /\ Len(VendorsIn[b]) \in Nat /\ DOMAIN VendorsIn[b] = 1..Len(VendorsIn[b])
           /\ VendorsIn[b] = <<>> <=> Len(VendorsIn[b]) = 0
<1> DEFINE rows == b.rows
           head == HeaderRow(rows)
           n == NameColumn(rows[head])
           u == UrlColumn(rows[head])
           taken == Taken(rows, head, n, u)
           entry(k) == [name |-> rows[Nth(taken, k)][n].text, domain |-> Site(rows[Nth(taken, k)][u])]
<1>1. VendorsIn[b] = IF Len(rows) < 2 \/ n = 0 \/ u = 0 THEN <<>>
                     ELSE [k \in 1..Cardinality(taken) |-> entry(k)]
  BY DEF VendorsIn, ParseVendorExcel
<1>2. Cardinality(taken) \in Nat
  <2>1. taken \subseteq 1..Len(rows) /\ Len(rows) \in Nat
    BY SheetsCountFromOne DEF Taken
  <2>2. IsFiniteSet(taken)
    BY <2>1, PartOfInterval
  <2>3. QED
    BY <2>2, FS_CardinalityType
<1> HIDE DEF taken, entry, n, u
<1>3. CASE VendorsIn[b] = <<>>
  BY <1>3
<1>4. CASE VendorsIn[b] = [k \in 1..Cardinality(taken) |-> entry(k)]
  <2>1. VendorsIn[b] = [k \in 1..Cardinality(taken) |-> VendorsIn[b][k]]
    BY <1>4
  <2>2. QED
    BY <1>2, <2>1, ListLength
<1>5. QED
  BY <1>1, <1>3, <1>4

\* parse_vendor_excel raises what start_scan does not catch exactly when a name
\* under the header that is meant has a malformed site.
LEMMA MeantListBreaks ==
    ASSUME NEW b \in Sheets, NEW head \in DOMAIN b.rows, Meant(b.rows, head)
    PROVE  b \in Broken <=> Spoilt(b.rows, head)
<1> DEFINE rows == b.rows
           n == Min({c \in DOMAIN rows[head] : rows[head][c].text \in NameWords})
           u == Min({c \in DOMAIN rows[head] : rows[head][c].text \in UrlWords})
           breaks == \E i \in head + 1..Len(rows) : Breaks(rows[i], n, u)
<1>1. /\ HeaderRow(rows) = head /\ NameColumn(rows[head]) = n /\ UrlColumn(rows[head]) = u
      /\ n # 0 /\ u # 0
  BY SMTT(30), MeantIsFound
<1>2. Len(rows) \in Nat /\ head \in 1..Len(rows)
  BY SheetsCountFromOne
<1>3. Spoilt(rows, head) <=> breaks
  BY DEF Spoilt, Breaks
<1>4. breaks => Len(rows) >= 2
  BY <1>2
<1>5. ParseRaises(rows) <=> Len(rows) >= 2 /\ breaks
  <2> HIDE DEF n, u
  <2>1. QED
    BY <1>1 DEF ParseRaises
<1>6. QED
  BY <1>3, <1>4, <1>5 DEF Broken

\* A list under the header that is meant is read as its author would.
LEMMA MeantListIsRead ==
    ASSUME NEW b \in Sheets, NEW head \in DOMAIN b.rows, Meant(b.rows, head)
    PROVE  LET listed == Listed(b.rows, head)
               domains == {v.domain : v \in listed}
               taken == VendorsIn[b]
           IN  /\ Len(taken) = Cardinality(domains)
               /\ \A d \in domains : \E k \in DOMAIN taken : \E v \in listed :
                     /\ taken[k].domain = d /\ v.domain = d /\ taken[k].name = v.name
                     /\ \A w \in listed : w.domain = d => v.row <= w.row
<1> DEFINE rows == b.rows
           n == Min({c \in DOMAIN rows[head] : rows[head][c].text \in NameWords})
           u == Min({c \in DOMAIN rows[head] : rows[head][c].text \in UrlWords})
           filled == Filled(rows, head, n, u)
           vendor(i) == [row |-> i, name |-> rows[i][n].text, domain |-> Site(rows[i][u])]
           listed == Listed(rows, head)
           domains == {v.domain : v \in listed}
           rowsTaken == Taken(rows, head, n, u)
           entry(k) == [name |-> rows[Nth(rowsTaken, k)][n].text,
                        domain |-> Site(rows[Nth(rowsTaken, k)][u])]
<1>1. /\ HeaderRow(rows) = head /\ NameColumn(rows[head]) = n /\ UrlColumn(rows[head]) = u
      /\ n # 0 /\ u # 0
  BY SMTT(30), MeantIsFound
<1>2. Len(rows) \in Nat /\ head \in 1..Len(rows)
  BY SheetsCountFromOne
<1>3. VendorsIn[b] = IF Len(rows) < 2 THEN <<>> ELSE [k \in 1..Cardinality(rowsTaken) |-> entry(k)]
  BY <1>1 DEF VendorsIn, ParseVendorExcel
<1>4. listed = {vendor(i) : i \in filled}
  BY DEF Listed, Filled
<1> HIDE DEF n, u
<1>5. domains = SitesOf(rows, head, n, u)
  <2> HIDE DEF filled, listed
  <2>1. \A i \in filled : vendor(i).domain = Site(rows[i][u])
    OBVIOUS
  <2>2. QED
    BY <1>4, <2>1 DEF SitesOf, filled
<1>6. /\ rowsTaken \subseteq filled /\ Cardinality(rowsTaken) = Cardinality(domains)
      /\ \A d \in domains : \E i \in rowsTaken :
            Site(rows[i][u]) = d /\ \A j \in filled : Site(rows[j][u]) = d => i <= j
  BY <1>5, FirstOfEachSite
<1>7. IsFiniteSet(rowsTaken) /\ rowsTaken \in SUBSET Nat
  <2>1. rowsTaken \subseteq 1..Len(rows)
    BY <1>2, <1>6 DEF Filled
  <2>2. IsFiniteSet(rowsTaken)
    BY <1>2, <2>1, PartOfInterval
  <2>3. QED
    BY <2>1, <2>2
<1>8. /\ Cardinality(rowsTaken) \in Nat
      /\ \A i \in rowsTaken : \E k \in 1..Cardinality(rowsTaken) : Nth(rowsTaken, k) = i
  BY <1>7, NthMeetsEach
<1>9. CASE Len(rows) < 2
  <2>1. filled = {}
    BY <1>2, <1>9 DEF Filled
  <2>2. domains = {} /\ rowsTaken = {}
    BY <1>5, <1>6, <2>1 DEF SitesOf
  <2>3. VendorsIn[b] = <<>> /\ Cardinality(domains) = 0
    BY <1>3, <1>9, <2>2, FS_EmptySet
  <2>4. QED
    BY <2>2, <2>3
<1>10. CASE ~(Len(rows) < 2)
  <2>1. VendorsIn[b] = [k \in 1..Cardinality(rowsTaken) |-> entry(k)]
    BY <1>3, <1>10
  <2>2. \A k \in 1..Cardinality(rowsTaken) : VendorsIn[b][k] = entry(k)
    BY <2>1
  <2>3. VendorsIn[b] = [k \in 1..Cardinality(rowsTaken) |-> VendorsIn[b][k]]
    BY <2>1
  <2>4. Len(VendorsIn[b]) = Cardinality(rowsTaken) /\ DOMAIN VendorsIn[b] = 1..Cardinality(rowsTaken)
    BY <1>8, <2>3, ListLength
  <2> HIDE DEF rowsTaken, filled, listed, domains
  <2>5. ASSUME NEW d \in domains
        PROVE  \E k \in DOMAIN VendorsIn[b] : \E v \in listed :
                  /\ VendorsIn[b][k].domain = d /\ v.domain = d /\ VendorsIn[b][k].name = v.name
                  /\ \A w \in listed : w.domain = d => v.row <= w.row
    <3>1. PICK i \in rowsTaken : Site(rows[i][u]) = d /\ \A j \in filled : Site(rows[j][u]) = d => i <= j
      BY <1>6
    <3>2. PICK k \in 1..Cardinality(rowsTaken) : Nth(rowsTaken, k) = i
      BY <1>8
    <3>3. entry(k) = [name |-> rows[i][n].text, domain |-> Site(rows[i][u])]
      BY <3>2
    <3>4. vendor(i) \in listed
      BY <1>4, <1>6
    <3>5. \A w \in listed : w.domain = d => vendor(i).row <= w.row
      BY <1>4, <3>1
    <3>6. VendorsIn[b][k].domain = d /\ vendor(i).domain = d /\ VendorsIn[b][k].name = vendor(i).name
      BY <2>2, <3>1, <3>3
    <3>7. QED
      BY <2>4, <3>4, <3>5, <3>6
  <2>6. QED
    BY <1>6, <2>4, <2>5 DEF listed, domains
<1>11. QED
  BY <1>9, <1>10

-----------------------------------------------------------------------------

\* A job has vendors and not too many.  A sheet becomes a job with what was read
\* from it, is rejected for one of three reasons, and raises if it is broken.
ReadRight(q) ==
    /\ q.state # "discovering"
    /\ q.state = "reading" => q.vendors = <<>>
    /\ q.state = "raised" => q.vendors = <<>> /\ q.body \in Broken
    /\ q.state = "job" => q.vendors = VendorsIn[q.body] /\ q.body \notin Broken
    /\ q.state = "rejected" =>
          \/ ~q.body.excel \/ q.body.big
          \/ q.body \notin Broken /\ Len(VendorsIn[q.body]) \notin 1..MaxVendors

Judged(q, now) ==
    /\ q.at <= now
    /\ q.state = "job" => Len(q.vendors) \in 1..MaxVendors
    /\ q.state = "reading" => q.body.form = "sheet"
    /\ q.body.form = "sheet" => ReadRight(q)

AllJudged == \A r \in DOMAIN requests : Judged(requests[r], clock)

LEMMA ReceivedIsJudged ==
    ASSUME UploadInv, NEW ip \in IPs, NEW body \in Bodies
    PROVE  /\ Judged(Request(ip, body, "limited", <<>>), clock)
           /\ body.form = "sheet" => Judged(ReceiveFile(ip, body), clock)
           /\ body.form # "sheet" => Judged(ReceiveSingle(ip, body), clock)
<1>1. clock \in Nat /\ MaxVendors \in Nat \ {0}
  BY UploadAssumption DEF UploadInv, WindowInv, RateInv, RateTypeOK
<1>2. \A st, vs : LET q == Request(ip, body, st, vs)
                  IN  q.at = clock /\ q.state = st /\ q.vendors = vs /\ q.body = body
  BY DEF Request
<1>3. Judged(Request(ip, body, "limited", <<>>), clock)
  BY <1>1, <1>2 DEF Judged, ReadRight
<1>4. ASSUME body.form = "sheet" PROVE Judged(ReceiveFile(ip, body), clock)
  <2>1. CASE body.excel
    <3>1. ReceiveFile(ip, body) = Request(ip, body, "reading", <<>>)
      BY <2>1 DEF ReceiveFile
    <3>2. QED
      BY <1>1, <1>2, <1>4, <3>1 DEF Judged, ReadRight
  <2>2. CASE ~body.excel
    <3>1. ReceiveFile(ip, body) = Request(ip, body, "rejected", <<>>)
      BY <2>2 DEF ReceiveFile
    <3>2. QED
      BY <1>1, <1>2, <2>2, <3>1 DEF Judged, ReadRight
  <2>3. QED
    BY <2>1, <2>2
<1>5. ASSUME body.form # "sheet" PROVE Judged(ReceiveSingle(ip, body), clock)
  <2> DEFINE one == <<[name |-> body.name, domain |-> Cleaned[body.website]]>>
  <2>1. Len(one) \in 1..MaxVendors
    BY <1>1
  <2> HIDE DEF one
  <2>2. \/ ReceiveSingle(ip, body) = Request(ip, body, "rejected", <<>>)
        \/ ReceiveSingle(ip, body) = Request(ip, body, "raised", <<>>)
        \/ ReceiveSingle(ip, body) = Request(ip, body, "discovering", <<>>)
        \/ ReceiveSingle(ip, body) = Request(ip, body, "job", one)
    BY DEF ReceiveSingle, one
  <2>3. ASSUME NEW st \in {"rejected", "raised", "discovering"} PROVE Judged(Request(ip, body, st, <<>>), clock)
    <3> DEFINE q == Request(ip, body, st, <<>>)
    <3>1. q.at = clock /\ q.state = st /\ q.body = body
      BY <1>2
    <3> HIDE DEF q
    <3>2. Judged(q, clock)
      BY <1>1, <1>5, <3>1 DEF Judged
    <3>3. QED
      BY <3>2 DEF q
  <2>4. Judged(Request(ip, body, "job", one), clock)
    <3> DEFINE q == Request(ip, body, "job", one)
    <3>1. q.at = clock /\ q.state = "job" /\ q.vendors = one /\ q.body = body
      BY <1>2
    <3> HIDE DEF q
    <3>2. q.at <= clock
      BY <1>1, <3>1
    <3>3. Judged(q, clock)
      BY <1>5, <2>1, <3>1, <3>2 DEF Judged
    <3>4. QED
      BY <3>3 DEF q
  <2>5. QED
    BY <2>2, <2>3, <2>4
<1>6. QED
  BY <1>3, <1>4, <1>5

LEMMA ReadingIsJudged ==
    ASSUME UploadInv, AllJudged, NEW r \in DOMAIN requests, ReadFile(r)
    PROVE  requests' = [requests EXCEPT ![r] = requests'[r]] /\ Judged(requests'[r], clock)
<1> DEFINE q == requests[r]
           vendors == VendorsIn[q.body]
           raises == ~q.body.big /\ q.body \in Broken
<1>1. requests \in Seq(Handled) /\ q \in Handled
  BY DEF UploadInv
<1>2. Judged(q, clock) /\ q.state = "reading" /\ q.body \in Bodies
  BY <1>1 DEF AllJudged, ReadFile, Handled
<1>3. q.body \in Sheets /\ MaxVendors \in Nat \ {0}
  BY <1>2, UploadAssumption DEF Judged, Sheets
<1>4. Len(vendors) \in Nat /\ (vendors = <<>> <=> Len(vendors) = 0)
  BY <1>3, ParsedLength
<1> HIDE DEF vendors
<1>5. CASE raises
  <2> DEFINE new == [q EXCEPT !.state = "raised"]
  <2>1. requests' = [requests EXCEPT ![r] = new]
    BY <1>5 DEF ReadFile
  <2>2. new.state = "raised" /\ new.at = q.at /\ new.body = q.body /\ new.vendors = q.vendors
    BY <1>1 DEF Handled
  <2> HIDE DEF new
  <2>3. requests'[r] = new
    BY <1>1, <2>1
  <2>4. q.vendors = <<>>
    BY <1>2 DEF Judged, ReadRight
  <2>5. QED
    BY <1>2, <1>5, <2>1, <2>2, <2>3, <2>4 DEF Judged, ReadRight
<1>6. CASE ~raises /\ (q.body.big \/ vendors = <<>> \/ Len(vendors) > MaxVendors)
  <2> DEFINE new == [q EXCEPT !.state = "rejected"]
  <2>1. requests' = [requests EXCEPT ![r] = new]
    BY <1>6 DEF ReadFile, vendors
  <2>2. new.state = "rejected" /\ new.at = q.at /\ new.body = q.body
    BY <1>1 DEF Handled
  <2> HIDE DEF new
  <2>3. requests'[r] = new
    BY <1>1, <2>1
  <2>4. q.body.big \/ (q.body \notin Broken /\ Len(vendors) \notin 1..MaxVendors)
    <3>1. vendors = <<>> \/ Len(vendors) > MaxVendors => Len(vendors) \notin 1..MaxVendors
      BY <1>3, <1>4
    <3>2. QED
      BY <1>6, <3>1, Zenon
  <2>5. QED
    BY <1>2, <2>1, <2>2, <2>3, <2>4 DEF Judged, ReadRight, vendors
<1>7. CASE ~raises /\ ~(q.body.big \/ vendors = <<>> \/ Len(vendors) > MaxVendors)
  <2> DEFINE new == [q EXCEPT !.state = "job", !.vendors = vendors]
  <2>1. requests' = [requests EXCEPT ![r] = new]
    BY <1>7 DEF ReadFile, vendors
  <2>2. new.state = "job" /\ new.at = q.at /\ new.body = q.body /\ new.vendors = vendors
    BY <1>1 DEF Handled
  <2> HIDE DEF new
  <2>3. requests'[r] = new
    BY <1>1, <2>1
  <2>4. Len(vendors) \in 1..MaxVendors /\ q.body \notin Broken
    BY <1>3, <1>4, <1>7
  <2>5. QED
    BY <1>2, <2>1, <2>2, <2>3, <2>4 DEF Judged, ReadRight, vendors
<1>8. QED
  BY <1>5, <1>6, <1>7

LEMMA ProbingIsJudged ==
    ASSUME UploadInv, AllJudged, NEW r \in DOMAIN requests, Probe(r)
    PROVE  requests' = [requests EXCEPT ![r] = requests'[r]] /\ Judged(requests'[r], clock)
<1> DEFINE q == requests[r]
           k == q.tried + 1
           one == <<[name |-> q.body.name, domain |-> Candidate(q.body.name, k)]>>
           out == IF k = Len(CandidateTlds) THEN "rejected" ELSE "discovering"
           found == [q EXCEPT !.state = "job", !.tried = k, !.vendors = one]
           missed == [q EXCEPT !.tried = k, !.state = out]
<1>1. requests \in Seq(Handled) /\ q \in Handled
  BY DEF UploadInv
<1>2. q.at <= clock /\ q.body.form # "sheet"
  <2>1. Judged(q, clock) /\ q.state = "discovering"
    BY DEF AllJudged, Probe
  <2>2. QED
    BY <2>1 DEF Judged, ReadRight
<1>3. Len(one) \in 1..MaxVendors /\ out \in {"rejected", "discovering"}
  <2>1. Len(one) = 1 /\ MaxVendors \in Nat \ {0}
    BY UploadAssumption
  <2>2. QED
    BY <2>1
<1>4. \/ requests' = [requests EXCEPT ![r] = found]
      \/ requests' = [requests EXCEPT ![r] = missed]
  BY <1>1 DEF Probe
<1> HIDE DEF one, out
<1>5. found.state = "job" /\ found.at = q.at /\ found.body = q.body /\ found.vendors = one
  BY <1>1 DEF Handled
<1>6. missed.state = out /\ missed.at = q.at /\ missed.body = q.body
  BY <1>1 DEF Handled
<1> HIDE DEF found, missed
<1>7. Judged(found, clock) /\ Judged(missed, clock)
  <2>1. Judged(found, clock)
    BY <1>2, <1>3, <1>5 DEF Judged
  <2>2. Judged(missed, clock)
    BY <1>2, <1>3, <1>6 DEF Judged
  <2>3. QED
    BY <2>1, <2>2
<1>8. QED
  BY <1>1, <1>4, <1>7

LEMMA JudgedStep ==
    UploadInv /\ UploadInv' /\ AllJudged /\ [UploadNext]_uploadVars => AllJudged'
<1> SUFFICES ASSUME UploadInv, UploadInv', AllJudged, [UploadNext]_uploadVars PROVE AllJudged'
  OBVIOUS
<1>1. /\ requests \in Seq(Handled) /\ DOMAIN requests = 1..Len(requests) /\ Len(requests) \in Nat
      /\ clock \in Nat /\ clock' \in Nat
  BY DEF UploadInv, WindowInv, RateInv, RateTypeOK
<1>2. ASSUME NEW ip \in IPs, NEW body \in Bodies, Receive(ip, body) PROVE AllJudged'
  <2> DEFINE new == IF refused'[ip] # refused[ip] THEN Request(ip, body, "limited", <<>>)
                    ELSE IF body.form = "sheet" THEN ReceiveFile(ip, body) ELSE ReceiveSingle(ip, body)
  <2>1. requests' = Append(requests, new) /\ clock' = clock
    BY <1>2 DEF Receive, CheckRateLimit
  <2>2. Judged(new, clock)
    BY ReceivedIsJudged
  <2>3. new \in Handled
    BY ReceivedRequest
  <2> HIDE DEF new
  <2>4. \A o \in DOMAIN requests' : requests'[o] = new \/ (o \in DOMAIN requests /\ requests'[o] = requests[o])
    BY <1>1, <2>1, <2>3
  <2>5. \A o \in DOMAIN requests' : Judged(requests'[o], clock)
    BY <2>2, <2>4 DEF AllJudged
  <2>6. QED
    BY <2>1, <2>5 DEF AllJudged
<1>3. ASSUME NEW r \in DOMAIN requests, ReadFile(r) \/ Probe(r) PROVE AllJudged'
  <2>1. requests' = [requests EXCEPT ![r] = requests'[r]] /\ Judged(requests'[r], clock)
    BY <1>3, ReadingIsJudged, ProbingIsJudged
  <2>2. clock' = clock
    BY <1>3 DEF ReadFile, Probe, rateVars
  <2>3. DOMAIN requests' = DOMAIN requests /\ \A o \in DOMAIN requests : o # r => requests'[o] = requests[o]
    BY <2>1
  <2>4. \A o \in DOMAIN requests' : Judged(requests'[o], clock)
    BY <2>1, <2>3 DEF AllJudged
  <2>5. QED
    BY <2>2, <2>4 DEF AllJudged
<1>4. CASE UploadTick
  <2>1. requests' = requests /\ clock' = clock + 1
    BY <1>4 DEF UploadTick, RateTick
  <2>2. \A r \in DOMAIN requests : requests[r].at \in Nat
    <3>1. \A r \in DOMAIN requests : requests[r] \in Handled
      BY <1>1
    <3>2. \A q \in Handled : q.at \in Nat
      BY DEF Handled
    <3>3. QED
      BY <3>1, <3>2
  <2>3. \A r \in DOMAIN requests : Judged(requests[r], clock + 1)
    BY <1>1, <2>2 DEF AllJudged, Judged
  <2>4. QED
    BY <2>1, <2>3 DEF AllJudged
<1>5. CASE UploadRestart
  <2>1. requests' = [r \in DOMAIN requests |-> [requests[r] EXCEPT !.state = "lost"]] /\ clock' = clock
    BY <1>5 DEF UploadRestart, RateRestart
  <2>2. ASSUME NEW q \in Handled, Judged(q, clock) PROVE Judged([q EXCEPT !.state = "lost"], clock)
    <3> DEFINE new == [q EXCEPT !.state = "lost"]
    <3>1. new.state = "lost" /\ new.at = q.at
      BY DEF Handled
    <3> HIDE DEF new
    <3>2. Judged(new, clock)
      BY <2>2, <3>1 DEF Judged, ReadRight
    <3>3. QED
      BY <3>2 DEF new
  <2>3. \A r \in DOMAIN requests : requests[r] \in Handled /\ Judged(requests[r], clock)
    BY <1>1 DEF AllJudged
  <2>4. DOMAIN requests' = DOMAIN requests
        /\ \A r \in DOMAIN requests : requests'[r] = [requests[r] EXCEPT !.state = "lost"]
    BY <2>1
  <2>5. \A r \in DOMAIN requests' : Judged(requests'[r], clock)
    BY <2>2, <2>3, <2>4
  <2>6. QED
    BY <2>1, <2>5 DEF AllJudged
<1>6. CASE UNCHANGED uploadVars
  BY <1>6 DEF uploadVars, rateVars, AllJudged
<1>7. QED
  BY <1>2, <1>3, <1>4, <1>5, <1>6 DEF UploadNext

LEMMA UploadInvHolds == UploadSpec => [](UploadInv /\ AllJudged)
<1>1. UploadInit /\ WindowInv => UploadInv
  <2> SUFFICES ASSUME UploadInit, WindowInv PROVE UploadInv
    OBVIOUS
  <2>1. requests = <<>> /\ requests \in Seq(Handled) /\ DOMAIN requests = {}
    BY DEF UploadInit
  <2>2. [r \in 1..Len(requests) |-> 0] \in [1..Len(requests) -> Nat]
    OBVIOUS
  <2>3. Placed([r \in 1..Len(requests) |-> 0])
    BY <2>1 DEF Placed, Passed
  <2>4. QED
    BY <2>1, <2>2, <2>3 DEF UploadInv
<1>2. UploadInit => AllJudged
  BY DEF UploadInit, AllJudged
<1>3. QED
  BY <1>1, <1>2, LimiterInvHolds, UploadStep, JudgedStep, PTL DEF UploadSpec

\* However many requests, of whatever kind and however their awaits interleave,
\* one window admits no more of one address than the limit (start_scan,
\* start_single_vendor_scan).
THEOREM AdmissionsAreLimited == UploadSpec => []AdmittedWithinLimit
BY UploadInvHolds, PlacedIsLimited, PTL

\* Requests are what the handlers make of them, and a job that is started has
\* vendors and no more than it may (start_scan, start_single_vendor_scan).
THEOREM UploadTypes == UploadSpec => []UploadTypeOK
<1>1. UploadInv /\ AllJudged => UploadTypeOK
  <2> SUFFICES ASSUME UploadInv, AllJudged, NEW r \in DOMAIN requests
               PROVE  /\ requests[r].ip \in IPs /\ requests[r].at \in 0..clock
                      /\ requests[r].body \in Bodies
                      /\ requests[r].state \in Admitted \cup {"limited", "rejected", "raised", "lost"}
                      /\ requests[r].state = "job" => Len(requests[r].vendors) \in 1..MaxVendors
    BY DEF UploadTypeOK, UploadInv, WindowInv, RateInv
  <2>1. requests[r] \in Handled /\ Judged(requests[r], clock) /\ clock \in Nat
    BY DEF UploadInv, WindowInv, RateInv, RateTypeOK, AllJudged
  <2>2. QED
    BY <2>1 DEF Handled, Judged, States, Admitted
<1>2. QED
  BY <1>1, UploadInvHolds, PTL

\* Whatever sheets are sent, however long, with whatever other columns and rows,
\* a list under the header that is meant is scanned as its author would read it;
\* it is turned away only when it is empty or too long, and ends in a 500 exactly
\* when one of its names has a site that urlparse does not take
\* (parse_vendor_excel, _clean_url, start_scan).
THEOREM ListsAreScanned == UploadSpec => []ListedVendorsScanned
<1>1. UploadInv /\ AllJudged => ListedVendorsScanned
  <2> SUFFICES ASSUME UploadInv, AllJudged, NEW r \in DOMAIN requests, requests[r].body.form = "sheet",
                      NEW head \in DOMAIN requests[r].body.rows, Meant(requests[r].body.rows, head)
               PROVE  LET body == requests[r].body
                          listed == Listed(body.rows, head)
                          domains == {v.domain : v \in listed}
                          taken == requests[r].vendors
                          spoilt == Spoilt(body.rows, head)
                      IN  /\ requests[r].state = "raised" => spoilt /\ taken = <<>>
                          /\ requests[r].state = "job" =>
                                /\ ~spoilt
                                /\ Len(taken) = Cardinality(domains)
                                /\ \A d \in domains : \E k \in DOMAIN taken : \E v \in listed :
                                      /\ taken[k].domain = d /\ v.domain = d /\ taken[k].name = v.name
                                      /\ \A w \in listed : w.domain = d => v.row <= w.row
                          /\ requests[r].state = "rejected" =>
                                \/ ~body.excel \/ body.big
                                \/ ~spoilt /\ Cardinality(domains) \notin 1..MaxVendors
    BY DEF ListedVendorsScanned
  <2> DEFINE body == requests[r].body
             listed == Listed(body.rows, head)
             domains == {v.domain : v \in listed}
             spoilt == Spoilt(body.rows, head)
  <2>1. body \in Sheets /\ ReadRight(requests[r])
    <3>1. requests[r] \in Handled /\ Judged(requests[r], clock)
      BY DEF UploadInv, AllJudged
    <3>2. QED
      BY <3>1 DEF Handled, Judged, Sheets
  <2>2. /\ Len(VendorsIn[body]) = Cardinality(domains)
        /\ \A d \in domains : \E k \in DOMAIN VendorsIn[body] : \E v \in listed :
              /\ VendorsIn[body][k].domain = d /\ v.domain = d /\ VendorsIn[body][k].name = v.name
              /\ \A w \in listed : w.domain = d => v.row <= w.row
    BY <2>1, MeantListIsRead
  <2>3. body \in Broken <=> spoilt
    BY <2>1, MeantListBreaks
  <2>4. /\ requests[r].state = "raised" => requests[r].vendors = <<>> /\ spoilt
        /\ requests[r].state = "job" => requests[r].vendors = VendorsIn[body] /\ ~spoilt
        /\ requests[r].state = "rejected" =>
              \/ ~body.excel \/ body.big
              \/ ~spoilt /\ Len(VendorsIn[body]) \notin 1..MaxVendors
    <3> HIDE DEF spoilt
    <3>1. QED
      BY <2>1, <2>3 DEF ReadRight
  <2> HIDE DEF domains, listed, spoilt
  <2>5. ASSUME requests[r].state = "job"
        PROVE  /\ ~spoilt
               /\ Len(requests[r].vendors) = Cardinality(domains)
               /\ \A d \in domains : \E k \in DOMAIN requests[r].vendors : \E v \in listed :
                     /\ requests[r].vendors[k].domain = d /\ v.domain = d
                     /\ requests[r].vendors[k].name = v.name
                     /\ \A w \in listed : w.domain = d => v.row <= w.row
    <3>1. requests[r].vendors = VendorsIn[body] /\ ~spoilt
      BY <2>4, <2>5
    <3> HIDE DEF body
    <3>2. QED
      BY <2>2, <3>1
  <2>6. requests[r].state = "rejected" =>
           \/ ~body.excel \/ body.big
           \/ ~spoilt /\ Cardinality(domains) \notin 1..MaxVendors
    BY <2>2, <2>4
  <2>7. QED
    <3>1. requests[r].state = "raised" => spoilt /\ requests[r].vendors = <<>>
      BY <2>4, Zenon
    <3>2. requests[r].state = "job" =>
             /\ ~spoilt
             /\ Len(requests[r].vendors) = Cardinality(domains)
             /\ \A d \in domains : \E k \in DOMAIN requests[r].vendors : \E v \in listed :
                   /\ requests[r].vendors[k].domain = d /\ v.domain = d
                   /\ requests[r].vendors[k].name = v.name
                   /\ \A w \in listed : w.domain = d => v.row <= w.row
      BY <2>5
    <3>3. QED
      BY <2>6, <3>1, <3>2 DEF domains, listed, spoilt
<1>2. QED
  BY <1>1, UploadInvHolds, PTL
=============================================================================
