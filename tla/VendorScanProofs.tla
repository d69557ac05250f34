-------------------------- MODULE VendorScanProofs --------------------------
(***************************************************************************)
(* The four invariants of VendorScan, for any vendors, selectors, limits,  *)
(* selections and number of lookups that fail.                             *)
(*                                                                         *)
(* Each group of fields is either what the lookups would have said or      *)
(* weaker in a known way, and the former once its probe has ended without  *)
(* a failure (Answered); from then on nothing writes it.  The findings     *)
(* follow field by field, and the score because it counts points: more     *)
(* points cost more.                                                       *)
(***************************************************************************)
EXTENDS VendorScan, FiniteSetTheorems, TLAPS

\* The fields have their types.
ScanShape ==
    scan \in [reachable : BOOLEAN, https : BOOLEAN, missing : SUBSET SecurityHeaders,
              headers : {NoHeaders, world.headers},
              cert : {"unknown", "valid", "expiring", "invalid"}, tls : {"unknown", "outdated", "current"},
              spf : BOOLEAN, dmarc : {"absent", "none", "enforced"}, dkim : BOOLEAN, mx : BOOLEAN,
              sprawl : SUBSET world.names, cves : SUBSET Range(world.cves)]

StageInv ==
    /\ world \in Worlds /\ selected \in Selections
    /\ stage \in {"http", "probes", "detectors", "done", "raised"}
    /\ probes \subseteq {"tls", "dns", "ct", "cve"}
    /\ stage \in {"detectors", "done"} => probes = {}
    /\ pending \subseteq selected /\ DOMAIN results \subseteq selected
    /\ stage \in {"http", "probes"} => DOMAIN results = {}

\* What a scan says of the site, the certificate, the records, the subdomains
\* and the CVEs, as against the truth.
SameSite(said, true) ==
    /\ said.reachable = true.reachable /\ said.https = true.https /\ said.missing = true.missing

HttpSaid ==
    /\ stage = "http" => ~scan.reachable /\ ~scan.https /\ scan.missing = {}
    /\ stage \in {"probes", "detectors", "done"} /\ {"https", "http"} \cap failed = {} =>
          SameSite(scan, TrueScan)

TlsSaid ==
    /\ \/ scan.cert = "unknown" /\ scan.tls = "unknown"
       \/ scan.cert = TrueScan.cert /\ scan.tls = TrueScan.tls
    /\ "tls" \notin probes /\ "tls" \notin failed => scan.cert = TrueScan.cert /\ scan.tls = TrueScan.tls

DnsSaid ==
    /\ scan.dmarc \in {"absent", TrueScan.dmarc}
    /\ scan.spf => TrueScan.spf
    /\ scan.dkim => TrueScan.dkim
    /\ "dns" \notin probes =>
          /\ "spf" \notin failed => scan.spf = TrueScan.spf
          /\ "dmarc" \notin failed => scan.dmarc = TrueScan.dmarc
          /\ Selectors \cap failed = {} => scan.dkim = TrueScan.dkim

CtSaid ==
    /\ scan.sprawl \in {{}, TrueScan.sprawl}
    /\ "ct" \notin probes /\ "ct" \notin failed => scan.sprawl = TrueScan.sprawl

CveSaid ==
    /\ scan.cves \in {{}, TrueScan.cves}
    /\ "cve" \notin probes /\ "cve" \notin failed => scan.cves = TrueScan.cves

Answered == HttpSaid /\ TlsSaid /\ DnsSaid /\ CtSaid /\ CveSaid

\* The result of the rules is that of the scan as it stands.
Judged == Scored =>
    /\ results["vulnerability"].findings = EvaluateCompliance(scan)
    /\ results["vulnerability"].score = ComputeScore(EvaluateCompliance(scan))
    /\ results["vulnerability"].tier = ClassifyTier(ComputeScore(EvaluateCompliance(scan)))
    /\ results["vulnerability"].letter = ScoreToLetterGrade(ComputeScore(EvaluateCompliance(scan)))

ScanInv == ScanShape /\ StageInv /\ Answered /\ Judged /\ ClaimsAreTrue

-----------------------------------------------------------------------------

\* The truth, field by field.
LEMMA TruthIs ==
    /\ TrueScan.reachable = (world.https \/ world.http)
    /\ TrueScan.https = world.https
    /\ TrueScan.missing = IF world.https \/ world.http THEN SecurityHeaders \ world.security ELSE {}
    /\ TrueScan.cert = IF world.tls # "outdated" THEN world.cert ELSE "unknown"
    /\ TrueScan.tls = IF world.tls # "outdated" /\ world.cert # "invalid" THEN world.tls ELSE "unknown"
    /\ TrueScan.spf = world.spf /\ TrueScan.dmarc = world.dmarc
    /\ TrueScan.dkim = (world.selectors # {}) /\ TrueScan.mx = world.mx
    /\ TrueScan.sprawl = FirstNames(world.names, SprawlCap)
    /\ TrueScan.cves = {world.cves[k] : k \in DOMAIN world.cves \cap 1..CveCap}
BY DEF TrueScan

\* As the vendor stays the same, so does the truth.
LEMMA TruthStays == ASSUME UNCHANGED world PROVE TrueScan' = TrueScan
BY DEF TrueScan, FirstNames

\* The scan is a record, and a step that changes some of its fields leaves the
\* others.
LEMMA ScanIsRecord ==
    ASSUME ScanShape
    PROVE  \E reachable, https, missing, headers, cert, tls, spf, dmarc, dkim, mx, sprawl, cves :
              scan = [reachable |-> reachable, https |-> https, missing |-> missing, headers |-> headers,
                      cert |-> cert, tls |-> tls, spf |-> spf, dmarc |-> dmarc, dkim |-> dkim, mx |-> mx,
                      sprawl |-> sprawl, cves |-> cves]
BY DEF ScanShape

LEMMA SiteChanges ==
    ASSUME ScanShape, NEW b \in BOOLEAN, NEW x \in SUBSET SecurityHeaders, UNCHANGED world,
           scan' = [scan EXCEPT !.reachable = TRUE, !.https = b, !.missing = x, !.headers = world.headers]
    PROVE  /\ ScanShape' /\ scan'.reachable = TRUE /\ scan'.https = b /\ scan'.missing = x
           /\ scan'.cert = scan.cert /\ scan'.tls = scan.tls
           /\ scan'.spf = scan.spf /\ scan'.dmarc = scan.dmarc /\ scan'.dkim = scan.dkim
           /\ scan'.sprawl = scan.sprawl /\ scan'.cves = scan.cves
BY DEF ScanShape

LEMMA TlsChanges ==
    ASSUME ScanShape, NEW c \in {"unknown", "valid", "expiring", "invalid"},
           NEW t \in {"unknown", "outdated", "current"}, UNCHANGED world,
           scan' = [scan EXCEPT !.cert = c, !.tls = t]
    PROVE  /\ ScanShape' /\ scan'.cert = c /\ scan'.tls = t
           /\ SameSite(scan', scan)
           /\ scan'.spf = scan.spf /\ scan'.dmarc = scan.dmarc /\ scan'.dkim = scan.dkim
           /\ scan'.sprawl = scan.sprawl /\ scan'.cves = scan.cves
BY DEF ScanShape, SameSite

LEMMA DnsChanges ==
    ASSUME ScanShape, NEW a \in BOOLEAN, NEW b \in {"absent", "none", "enforced"},
           NEW c \in BOOLEAN, NEW d \in BOOLEAN, UNCHANGED world,
           scan' = [scan EXCEPT !.spf = a, !.dmarc = b, !.dkim = c, !.mx = d]
    PROVE  /\ ScanShape' /\ scan'.spf = a /\ scan'.dmarc = b /\ scan'.dkim = c
           /\ SameSite(scan', scan)
           /\ scan'.cert = scan.cert /\ scan'.tls = scan.tls
           /\ scan'.sprawl = scan.sprawl /\ scan'.cves = scan.cves
BY ZenonT(60) DEF ScanShape, SameSite

LEMMA CtChanges ==
    ASSUME ScanShape, NEW a \in SUBSET world.names, UNCHANGED world, scan' = [scan EXCEPT !.sprawl = a]
    PROVE  /\ ScanShape' /\ scan'.sprawl = a
           /\ SameSite(scan', scan)
           /\ scan'.cert = scan.cert /\ scan'.tls = scan.tls
           /\ scan'.spf = scan.spf /\ scan'.dmarc = scan.dmarc /\ scan'.dkim = scan.dkim
           /\ scan'.cves = scan.cves
BY DEF ScanShape, SameSite

LEMMA CvesChange ==
    ASSUME ScanShape, NEW a \in SUBSET Range(world.cves), UNCHANGED world, scan' = [scan EXCEPT !.cves = a]
    PROVE  /\ ScanShape' /\ scan'.cves = a
           /\ SameSite(scan', scan)
           /\ scan'.cert = scan.cert /\ scan'.tls = scan.tls
           /\ scan'.spf = scan.spf /\ scan'.dmarc = scan.dmarc /\ scan'.dkim = scan.dkim
           /\ scan'.sprawl = scan.sprawl
BY DEF ScanShape, SameSite

LEMMA ScanInitially == ScanInit => ScanInv
<1> SUFFICES ASSUME ScanInit PROVE ScanInv
  OBVIOUS
<1>1. /\ world \in Worlds /\ selected \in Selections /\ stage = "http"
      /\ probes = {"tls", "dns", "ct", "cve"} /\ pending = selected
      /\ DOMAIN results = {} /\ failed = {}
      /\ scan = [reachable |-> FALSE, https |-> FALSE, missing |-> {}, headers |-> NoHeaders,
                 cert |-> "unknown", tls |-> "unknown",
                 spf |-> FALSE, dmarc |-> "absent", dkim |-> FALSE, mx |-> FALSE,
                 sprawl |-> {}, cves |-> {}]
  BY DEF ScanInit, EmptyScan
<1>2. ScanShape
  BY <1>1 DEF ScanShape
<1>3. StageInv
  BY <1>1 DEF StageInv
<1>4. Answered
  BY <1>1 DEF Answered, HttpSaid, TlsSaid, DnsSaid, CtSaid, CveSaid
<1>5. Judged /\ ClaimsAreTrue
  BY <1>1 DEF Judged, Scored, ClaimsAreTrue
<1>6. QED
  BY <1>2, <1>3, <1>4, <1>5 DEF ScanInv

\* Before the detectors there are no results.
LEMMA NothingSaidYet ==
    ASSUME ScanInv, UNCHANGED results, stage \in {"http", "probes"}
    PROVE  Judged' /\ ClaimsAreTrue' /\ DOMAIN results' = {}
<1>1. DOMAIN results' = {}
  BY DEF ScanInv, StageInv
<1>2. QED
  BY <1>1 DEF Judged, Scored, ClaimsAreTrue

LEMMA HttpKeepsScan == ASSUME ScanInv, CheckHttp PROVE ScanInv'
<1>1. PICK down \in SUBSET {"https", "http"} :
         LET https == world.https /\ "https" \notin down
             http == world.http /\ "http" \notin down
         IN  /\ Failing(down)
             /\ scan' = IF https \/ http
                        THEN [scan EXCEPT !.reachable = TRUE, !.https = https,
                                          !.missing = SecurityHeaders \ world.security,
                                          !.headers = world.headers]
                        ELSE scan
  BY DEF CheckHttp
<1> DEFINE https == world.https /\ "https" \notin down
           http == world.http /\ "http" \notin down
<1>2. /\ stage = "http" /\ stage' = "probes" /\ failed' = failed \cup down
      /\ UNCHANGED <<world, selected, probes, pending, results>>
  BY <1>1 DEF CheckHttp, Failing
<1>3. ScanShape /\ StageInv /\ Answered
  BY DEF ScanInv
<1>4. StageInv' /\ Judged' /\ ClaimsAreTrue'
  BY <1>2, <1>3, NothingSaidYet DEF StageInv
<1>5. /\ ScanShape'
      /\ IF https \/ http
         THEN /\ scan'.reachable = TRUE /\ scan'.https = https
              /\ scan'.missing = SecurityHeaders \ world.security
         ELSE SameSite(scan', scan)
      /\ scan'.cert = scan.cert /\ scan'.tls = scan.tls
      /\ scan'.spf = scan.spf /\ scan'.dmarc = scan.dmarc /\ scan'.dkim = scan.dkim
      /\ scan'.sprawl = scan.sprawl /\ scan'.cves = scan.cves
  <2>1. CASE https \/ http
    <3> DEFINE x == SecurityHeaders \ world.security
    <3>1. https \in BOOLEAN /\ x \in SUBSET SecurityHeaders /\ UNCHANGED world
      BY <1>2
    <3>2. scan' = [scan EXCEPT !.reachable = TRUE, !.https = https, !.missing = x,
                               !.headers = world.headers]
      BY <1>1, <2>1
    <3> HIDE DEF https, x
    <3>3. /\ ScanShape' /\ scan'.reachable = TRUE /\ scan'.https = https /\ scan'.missing = x
          /\ scan'.cert = scan.cert /\ scan'.tls = scan.tls
          /\ scan'.spf = scan.spf /\ scan'.dmarc = scan.dmarc /\ scan'.dkim = scan.dkim
          /\ scan'.sprawl = scan.sprawl /\ scan'.cves = scan.cves
      BY <1>3, <3>1, <3>2, SiteChanges
    <3>4. QED
      BY <2>1, <3>3 DEF x
  <2>2. CASE ~(https \/ http)
    BY <1>1, <1>2, <1>3, <2>2 DEF ScanShape, SameSite
  <2>3. QED
    BY <2>1, <2>2
<1>6. TrueScan' = TrueScan
  BY <1>2, TruthStays
<1>7. HttpSaid'
  <2>1. SUFFICES ASSUME {"https", "http"} \cap failed' = {} PROVE SameSite(scan', TrueScan)
    BY <1>2, <1>6 DEF HttpSaid, SameSite
  <2>2. https = (world.https = TRUE) /\ http = (world.http = TRUE)
    BY <1>2, <2>1
  <2>3. world.https \in BOOLEAN /\ world.http \in BOOLEAN
    BY <1>3, WorldAssumption DEF StageInv
  <2>4. /\ ~scan.reachable /\ ~scan.https /\ scan.missing = {}
        /\ scan.reachable \in BOOLEAN /\ scan.https \in BOOLEAN
    BY <1>2, <1>3 DEF Answered, HttpSaid, ScanShape
  <2> HIDE DEF https, http
  <2>5. QED
    BY <1>5, <2>2, <2>3, <2>4, TruthIs DEF SameSite
<1>8. TlsSaid' /\ DnsSaid' /\ CtSaid' /\ CveSaid'
  BY <1>2, <1>3, <1>5, <1>6 DEF Answered, TlsSaid, DnsSaid, CtSaid, CveSaid
<1>9. QED
  BY <1>4, <1>5, <1>7, <1>8 DEF ScanInv, Answered

\* A probe that has ended leaves the site, and what is not its own, as it was.
LEMMA ProbeEnds ==
    ASSUME ScanInv, NEW probe, Finish(probe), SameSite(scan', scan), failed \subseteq failed'
    PROVE  /\ StageInv' /\ Judged' /\ ClaimsAreTrue' /\ HttpSaid'
           /\ TrueScan' = TrueScan /\ UNCHANGED world /\ probes' = probes \ {probe}
<1>1. /\ stage = "probes" /\ probes' = probes \ {probe}
      /\ stage' = IF probes' = {} THEN "detectors" ELSE "probes"
      /\ UNCHANGED <<world, selected, pending, results>>
  BY DEF Finish
<1>2. StageInv /\ HttpSaid
  BY DEF ScanInv, Answered
<1>3. Judged' /\ ClaimsAreTrue' /\ DOMAIN results' = {}
  BY <1>1, NothingSaidYet
<1>4. StageInv'
  BY <1>1, <1>2, <1>3 DEF StageInv
<1>5. TrueScan' = TrueScan
  BY <1>1, TruthStays
<1>6. HttpSaid'
  BY <1>1, <1>2, <1>5 DEF HttpSaid, SameSite
<1>7. QED
  BY <1>1, <1>3, <1>4, <1>5, <1>6

LEMMA TlsKeepsScan == ASSUME ScanInv, CheckTls PROVE ScanInv'
<1>1. PICK down \in SUBSET {"tls"} :
         /\ Failing(down)
         /\ scan' = IF down # {} \/ world.tls = "outdated" THEN scan
                    ELSE [scan EXCEPT !.cert = world.cert,
                                      !.tls = IF world.cert = "invalid" THEN "unknown" ELSE world.tls]
  BY DEF CheckTls
<1>2. ScanShape /\ StageInv /\ Answered /\ Finish("tls") /\ failed' = failed \cup down
  BY <1>1 DEF ScanInv, CheckTls, Failing
<1>3. /\ world.cert \in {"valid", "expiring", "invalid"} /\ world.tls \in {"outdated", "current"}
      /\ UNCHANGED world
  BY <1>2, WorldAssumption DEF StageInv, Finish
<1> DEFINE quiet == down # {} \/ world.tls = "outdated"
           t == IF world.cert = "invalid" THEN "unknown" ELSE world.tls
<1>4. /\ ScanShape' /\ SameSite(scan', scan)
      /\ IF quiet THEN scan'.cert = scan.cert /\ scan'.tls = scan.tls
                  ELSE scan'.cert = world.cert /\ scan'.tls = t
      /\ scan'.spf = scan.spf /\ scan'.dmarc = scan.dmarc /\ scan'.dkim = scan.dkim
      /\ scan'.sprawl = scan.sprawl /\ scan'.cves = scan.cves
  <2>1. CASE quiet
    BY <1>1, <1>2, <1>3, <2>1 DEF ScanShape, SameSite
  <2>2. CASE ~quiet
    <3>1. /\ world.cert \in {"unknown", "valid", "expiring", "invalid"}
          /\ t \in {"unknown", "outdated", "current"}
          /\ scan' = [scan EXCEPT !.cert = world.cert, !.tls = t]
      BY <1>1, <1>3, <2>2
    <3> HIDE DEF quiet, t
    <3>2. QED
      BY <1>2, <1>3, <2>2, <3>1, TlsChanges
  <2>3. QED
    BY <2>1, <2>2
<1>5. /\ StageInv' /\ Judged' /\ ClaimsAreTrue' /\ HttpSaid'
      /\ TrueScan' = TrueScan /\ probes' = probes \ {"tls"}
  BY <1>2, <1>4, ProbeEnds
<1>6. TlsSaid'
  <2>1. /\ TrueScan.cert = IF world.tls # "outdated" THEN world.cert ELSE "unknown"
        /\ TrueScan.tls = IF world.tls # "outdated" /\ world.cert # "invalid" THEN world.tls ELSE "unknown"
    BY TruthIs
  <2>2. \/ scan.cert = "unknown" /\ scan.tls = "unknown"
        \/ scan.cert = TrueScan.cert /\ scan.tls = TrueScan.tls
    BY <1>2 DEF Answered, TlsSaid
  <2>3. down = {} \/ "tls" \in failed'
    BY <1>2
  <2>4. \/ scan'.cert = "unknown" /\ scan'.tls = "unknown"
        \/ scan'.cert = TrueScan.cert /\ scan'.tls = TrueScan.tls
    BY <1>3, <1>4, <2>1, <2>2
  <2>5. "tls" \notin failed' => scan'.cert = TrueScan.cert /\ scan'.tls = TrueScan.tls
    BY <1>3, <1>4, <2>1, <2>2, <2>3
  <2>6. QED
    BY <1>5, <2>4, <2>5 DEF TlsSaid
<1>7. DnsSaid' /\ CtSaid' /\ CveSaid'
  BY <1>2, <1>4, <1>5 DEF Answered, DnsSaid, CtSaid, CveSaid
<1>8. QED
  BY <1>4, <1>5, <1>6, <1>7 DEF ScanInv, Answered

LEMMA DnsKeepsScan == ASSUME ScanInv, CheckDns PROVE ScanInv'
<1>1. PICK down \in SUBSET ({"spf", "dmarc", "mx"} \cup Selectors) :
         /\ Failing(down)
         /\ scan' = [scan EXCEPT
               !.spf = world.spf /\ "spf" \notin down,
               !.dmarc = IF "dmarc" \in down THEN "absent" ELSE world.dmarc,
               !.dkim = world.selectors \ down # {},
               !.mx = world.mx /\ "mx" \notin down]
  BY DEF CheckDns
<1>2. ScanShape /\ StageInv /\ Answered /\ Finish("dns") /\ failed' = failed \cup down
  BY <1>1 DEF ScanInv, CheckDns, Failing
<1>3. /\ world.spf \in BOOLEAN /\ world.dmarc \in {"absent", "none", "enforced"}
      /\ world.selectors \subseteq Selectors /\ UNCHANGED world
  BY <1>2, WorldAssumption DEF StageInv, Finish
<1> DEFINE a == world.spf /\ "spf" \notin down
           b == IF "dmarc" \in down THEN "absent" ELSE world.dmarc
           c == world.selectors \ down # {}
           d == world.mx /\ "mx" \notin down
<1>4. /\ ScanShape' /\ SameSite(scan', scan)
      /\ scan'.spf = a /\ scan'.dmarc = b /\ scan'.dkim = c
      /\ scan'.cert = scan.cert /\ scan'.tls = scan.tls
      /\ scan'.sprawl = scan.sprawl /\ scan'.cves = scan.cves
  <2>1. a \in BOOLEAN /\ b \in {"absent", "none", "enforced"} /\ c \in BOOLEAN /\ d \in BOOLEAN
    BY <1>3
  <2>2. scan' = [scan EXCEPT !.spf = a, !.dmarc = b, !.dkim = c, !.mx = d]
    BY <1>1
  <2> HIDE DEF a, b, c, d
  <2>3. QED
    BY <1>2, <1>3, <2>1, <2>2, DnsChanges
<1>5. /\ StageInv' /\ Judged' /\ ClaimsAreTrue' /\ HttpSaid'
      /\ TrueScan' = TrueScan /\ probes' = probes \ {"dns"}
  BY <1>2, <1>4, ProbeEnds
<1>6. DnsSaid'
  <2>1. TrueScan.spf = world.spf /\ TrueScan.dmarc = world.dmarc /\ TrueScan.dkim = (world.selectors # {})
    BY TruthIs
  <2>2. b \in {"absent", world.dmarc} /\ (a => world.spf) /\ (c => world.selectors # {})
    OBVIOUS
  <2>3. /\ "spf" \notin failed' => a = world.spf
        /\ "dmarc" \notin failed' => b = world.dmarc
        /\ Selectors \cap failed' = {} => c = (world.selectors # {})
    BY <1>2, <1>3
  <2> HIDE DEF a, b, c
  <2>4. QED
    BY <1>4, <1>5, <2>1, <2>2, <2>3 DEF DnsSaid
<1>7. TlsSaid' /\ CtSaid' /\ CveSaid'
  BY <1>2, <1>4, <1>5 DEF Answered, TlsSaid, CtSaid, CveSaid
<1>8. QED
  BY SMTT(30), <1>4, <1>5, <1>6, <1>7 DEF ScanInv, Answered

LEMMA CtKeepsScan == ASSUME ScanInv, CheckCertificateTransparency PROVE ScanInv'
<1> DEFINE a == FirstNames(world.names, SprawlCap)
<1>1. PICK down \in SUBSET {"ct"} :
         Failing(down) /\ scan' = IF down = {} THEN [scan EXCEPT !.sprawl = a] ELSE scan
  BY DEF CheckCertificateTransparency
<1>2. /\ ScanShape /\ StageInv /\ Answered /\ Finish("ct") /\ failed' = failed \cup down /\ UNCHANGED world
  BY <1>1 DEF ScanInv, CheckCertificateTransparency, Failing, Finish
<1>3. a \in SUBSET world.names /\ TrueScan.sprawl = a
  BY TruthIs DEF FirstNames
<1> HIDE DEF a
<1>4. /\ ScanShape' /\ SameSite(scan', scan)
      /\ scan'.sprawl = IF down = {} THEN a ELSE scan.sprawl
      /\ scan'.cert = scan.cert /\ scan'.tls = scan.tls
      /\ scan'.spf = scan.spf /\ scan'.dmarc = scan.dmarc /\ scan'.dkim = scan.dkim
      /\ scan'.cves = scan.cves
  <2>1. CASE down = {}
    BY <1>1, <1>2, <1>3, <2>1, CtChanges
  <2>2. CASE down # {}
    BY <1>1, <1>2, <2>2 DEF ScanShape, SameSite
  <2>3. QED
    BY <2>1, <2>2
<1>5. /\ StageInv' /\ Judged' /\ ClaimsAreTrue' /\ HttpSaid'
      /\ TrueScan' = TrueScan /\ probes' = probes \ {"ct"}
  BY <1>2, <1>4, ProbeEnds
<1>6. CtSaid'
  <2>1. down = {} \/ "ct" \in failed'
    BY <1>2
  <2>2. scan.sprawl \in {{}, TrueScan.sprawl}
    BY <1>2 DEF Answered, CtSaid
  <2>3. QED
    BY <1>3, <1>4, <1>5, <2>1, <2>2 DEF CtSaid
<1>7. TlsSaid' /\ DnsSaid' /\ CveSaid'
  BY <1>2, <1>4, <1>5 DEF Answered, TlsSaid, DnsSaid, CveSaid
<1>8. QED
  BY <1>4, <1>5, <1>6, <1>7 DEF ScanInv, Answered

LEMMA CvesKeepScan == ASSUME ScanInv, CheckCves PROVE ScanInv'
<1> DEFINE a == {world.cves[k] : k \in DOMAIN world.cves \cap 1..CveCap}
<1>1. PICK down \in SUBSET {"cve"} :
         Failing(down) /\ scan' = IF down # {} THEN scan ELSE [scan EXCEPT !.cves = a]
  BY DEF CheckCves
<1>2. /\ ScanShape /\ StageInv /\ Answered /\ Finish("cve") /\ failed' = failed \cup down /\ UNCHANGED world
  BY <1>1 DEF ScanInv, CheckCves, Failing, Finish
<1>3. a \in SUBSET Range(world.cves) /\ TrueScan.cves = a
  BY TruthIs DEF Range
<1> HIDE DEF a
<1>4. /\ ScanShape' /\ SameSite(scan', scan)
      /\ scan'.cves = IF down = {} THEN a ELSE scan.cves
      /\ scan'.cert = scan.cert /\ scan'.tls = scan.tls
      /\ scan'.spf = scan.spf /\ scan'.dmarc = scan.dmarc /\ scan'.dkim = scan.dkim
      /\ scan'.sprawl = scan.sprawl
  <2>1. CASE down = {}
    BY <1>1, <1>2, <1>3, <2>1, CvesChange
  <2>2. CASE down # {}
    BY <1>1, <1>2, <2>2 DEF ScanShape, SameSite
  <2>3. QED
    BY <2>1, <2>2
<1>5. /\ StageInv' /\ Judged' /\ ClaimsAreTrue' /\ HttpSaid'
      /\ TrueScan' = TrueScan /\ probes' = probes \ {"cve"}
  BY <1>2, <1>4, ProbeEnds
<1>6. CveSaid'
  <2>1. down = {} \/ "cve" \in failed'
    BY <1>2
  <2>2. scan.cves \in {{}, TrueScan.cves}
    BY <1>2 DEF Answered, CveSaid
  <2>3. QED
    BY <1>3, <1>4, <1>5, <2>1, <2>2 DEF CveSaid
<1>7. TlsSaid' /\ DnsSaid' /\ CtSaid'
  BY <1>2, <1>4, <1>5 DEF Answered, TlsSaid, DnsSaid, CtSaid
<1>8. QED
  BY <1>4, <1>5, <1>6, <1>7 DEF ScanInv, Answered

-----------------------------------------------------------------------------
(* The detectors.                                                          *)

\* What a result may claim of a vendor, given the lookups that failed.
ClaimTrue(d, r, w, lost) ==
    CASE d = "subdomain_takeover" -> \A n \in r.findings : w.dangling[n] # None
      [] d = "dns_integrity" -> r.nameservers \subseteq w.nameservers
      [] d = "waf_absence" -> r.provider \in {None, WafProvider(w.headers)}
      [] d = "concentration_risk" ->
            /\ r.provider \in {None, w.asn, w.ptr, WafProvider(w.headers)}
            /\ w.asn # None /\ {"a", "asn"} \cap lost = {} => r.provider = w.asn
      [] OTHER -> TRUE

LEMMA ClaimsAre ==
    ClaimsAreTrue <=> (stage # "raised" => \A d \in DOMAIN results : ClaimTrue(d, results[d], world, failed))
BY DEF ClaimsAreTrue, ClaimTrue

LEMMA ClaimStays ==
    ASSUME NEW d, NEW r, NEW w, NEW lost, NEW more, lost \subseteq more, ClaimTrue(d, r, w, lost)
    PROVE  ClaimTrue(d, r, w, more)
BY DEF ClaimTrue

\* A detector whose claim is true, or the rules with their verdict, file it and
\* nothing else.
LEMMA FilingKeepsScan ==
    ASSUME ScanInv, NEW d, NEW r, File(d, r), failed \subseteq failed', ClaimTrue(d, r, world, failed'),
           d = "vulnerability" =>
              /\ r.findings = EvaluateCompliance(scan)
              /\ r.score = ComputeScore(EvaluateCompliance(scan))
              /\ r.tier = ClassifyTier(ComputeScore(EvaluateCompliance(scan)))
              /\ r.letter = ScoreToLetterGrade(ComputeScore(EvaluateCompliance(scan)))
    PROVE  ScanInv'
<1>1. /\ stage = "detectors" /\ d \in pending /\ pending' = pending \ {d}
      /\ stage' \in {"detectors", "done"}
      /\ UNCHANGED <<world, selected, probes, scan>>
      /\ results' = [x \in DOMAIN results \cup {d} |-> IF x = d THEN r ELSE results[x]]
  BY DEF File, Turn
<1>2. ScanShape /\ StageInv /\ Answered /\ Judged /\ ClaimsAreTrue
  BY DEF ScanInv
<1>3. /\ DOMAIN results' = DOMAIN results \cup {d}
      /\ results'[d] = r
      /\ \A x \in DOMAIN results : x # d => results'[x] = results[x]
  BY <1>1
<1>4. ScanShape' /\ StageInv'
  BY <1>1, <1>2, <1>3 DEF ScanShape, StageInv
<1>5. TrueScan' = TrueScan
  BY <1>1, TruthStays
<1>6. Answered'
  BY <1>1, <1>2, <1>5 DEF Answered, HttpSaid, SameSite, TlsSaid, DnsSaid, CtSaid, CveSaid
<1>7. Judged'
  <2> DEFINE v == EvaluateCompliance(scan)
  <2>1. EvaluateCompliance(scan)' = v
    BY <1>1 DEF EvaluateCompliance, TlsFindings, MailFindings, SprawlFindings, CveFindings
  <2>2. SUFFICES ASSUME "vulnerability" \in DOMAIN results'
                 PROVE  /\ results'["vulnerability"].findings = v
                        /\ results'["vulnerability"].score = ComputeScore(v)
                        /\ results'["vulnerability"].tier = ClassifyTier(ComputeScore(v))
                        /\ results'["vulnerability"].letter = ScoreToLetterGrade(ComputeScore(v))
    BY <1>1 DEF Judged, Scored
  <2>3. CASE d = "vulnerability"
    BY <1>3, <2>3
  <2>4. CASE d # "vulnerability"
    <3>1. "vulnerability" \in DOMAIN results /\ results'["vulnerability"] = results["vulnerability"]
      BY <1>3, <2>2, <2>4
    <3>2. QED
      BY <1>1, <1>2, <3>1 DEF Judged, Scored
  <2>5. QED
    BY <2>3, <2>4
<1>8. ClaimsAreTrue'
  <2>1. ASSUME NEW x \in DOMAIN results' PROVE ClaimTrue(x, results'[x], world', failed')
    <3>1. CASE x = d
      BY <1>1, <1>3, <3>1
    <3>2. CASE x # d
      <4>1. x \in DOMAIN results /\ results'[x] = results[x] /\ world' = world
        BY <1>1, <1>3, <2>1, <3>2
      <4>2. ClaimTrue(x, results[x], world, failed)
        BY <1>1, <1>2, <4>1, ClaimsAre
      <4>3. QED
        BY <4>1, <4>2, ClaimStays
    <3>3. QED
      BY <3>1, <3>2
  <2>2. QED
    BY <2>1 DEF ClaimsAreTrue, ClaimTrue
<1>9. QED
  BY <1>4, <1>6, <1>7, <1>8 DEF ScanInv

LEMMA DetectorsKeepScan ==
    ASSUME ScanInv,
           \/ Vulnerability \/ SubdomainTakeover \/ DnsIntegrity
           \/ WafAbsence \/ CorsCsp \/ ConcentrationRisk
    PROVE  ScanInv'
<1>1. ScanShape /\ scan.headers \in {NoHeaders, world.headers} /\ WafProvider(NoHeaders) = None
  BY DEF ScanInv, ScanShape, WafProvider, NoHeaders
<1>2. CASE Vulnerability
  <2> DEFINE v == EvaluateCompliance(scan)
             s == ComputeScore(v)
             r == [findings |-> v, score |-> s, tier |-> ClassifyTier(s), letter |-> ScoreToLetterGrade(s)]
  <2>1. File("vulnerability", r) /\ failed' = failed
    BY <1>2 DEF Vulnerability
  <2>2. r.findings = v /\ r.score = s /\ r.tier = ClassifyTier(s) /\ r.letter = ScoreToLetterGrade(s)
    OBVIOUS
  <2> HIDE DEF r
  <2>3. ClaimTrue("vulnerability", r, world, failed')
    BY DEF ClaimTrue
  <2>4. QED
    BY <2>1, <2>2, <2>3, FilingKeepsScan
<1>3. CASE SubdomainTakeover
  <2> DEFINE asked == FirstNames(scan.sprawl, SprawlCap)
  <2>1. PICK lost \in SUBSET asked :
           /\ Failing(IF lost = {} THEN {} ELSE {"cname"})
           /\ File("subdomain_takeover",
                   [checked |-> Cardinality(asked),
                    findings |-> {n \in asked \ lost : world.dangling[n] # None}])
    BY <1>3 DEF SubdomainTakeover
  <2> DEFINE r == [checked |-> Cardinality(asked),
                   findings |-> {n \in asked \ lost : world.dangling[n] # None}]
  <2>2. ClaimTrue("subdomain_takeover", r, world, failed')
    BY DEF ClaimTrue
  <2>3. File("subdomain_takeover", r) /\ failed \subseteq failed'
    BY <2>1 DEF Failing
  <2> HIDE DEF r
  <2>4. QED
    BY <2>2, <2>3, FilingKeepsScan
<1>4. CASE DnsIntegrity
  <2>1. PICK down \in SUBSET {"ns"} :
           /\ Failing(down)
           /\ File("dns_integrity",
                   [nameservers |-> IF down = {} THEN world.nameservers ELSE {},
                    random |-> Cardinality(scan.sprawl \cap RandomNames), changed |-> FALSE])
    BY <1>4 DEF DnsIntegrity
  <2> DEFINE r == [nameservers |-> IF down = {} THEN world.nameservers ELSE {},
                   random |-> Cardinality(scan.sprawl \cap RandomNames), changed |-> FALSE]
  <2>2. ClaimTrue("dns_integrity", r, world, failed')
    BY DEF ClaimTrue
  <2>3. File("dns_integrity", r) /\ failed \subseteq failed'
    BY <2>1 DEF Failing
  <2> HIDE DEF r
  <2>4. QED
    BY <2>2, <2>3, FilingKeepsScan
<1>5. CASE WafAbsence
  <2> DEFINE r == [provider |-> WafProvider(scan.headers)]
  <2>1. ClaimTrue("waf_absence", r, world, failed')
    BY <1>1 DEF ClaimTrue
  <2>2. File("waf_absence", r) /\ failed \subseteq failed'
    BY <1>5 DEF WafAbsence
  <2> HIDE DEF r
  <2>3. QED
    BY <2>1, <2>2, FilingKeepsScan
<1>6. CASE CorsCsp
  <2>1. PICK r : File("cors_csp", r) /\ failed' = failed
    BY <1>6 DEF CorsCsp
  <2>2. ClaimTrue("cors_csp", r, world, failed')
    BY DEF ClaimTrue
  <2>3. QED
    BY <2>1, <2>2, FilingKeepsScan
<1>7. CASE ConcentrationRisk
  <2>1. PICK down \in SUBSET {"a", "asn", "ptr"} :
           Failing(down) /\ File("concentration_risk", [provider |-> Provider(down)])
    BY <1>7 DEF ConcentrationRisk
  <2> DEFINE r == [provider |-> Provider(down)]
  <2>2. failed' = failed \cup down
    BY <2>1 DEF Failing
  <2>3. /\ Provider(down) \in {None, world.asn, world.ptr, WafProvider(world.headers)}
        /\ world.asn # None /\ {"a", "asn"} \cap failed' = {} => Provider(down) = world.asn
    BY <1>1, <2>2 DEF Provider
  <2>4. ClaimTrue("concentration_risk", r, world, failed')
    BY <2>3 DEF ClaimTrue
  <2>5. File("concentration_risk", r) /\ failed \subseteq failed'
    BY <2>1, <2>2
  <2> HIDE DEF r
  <2>6. QED
    BY <2>4, <2>5, FilingKeepsScan
<1>8. QED
  BY <1>2, <1>3, <1>4, <1>5, <1>6, <1>7

LEMMA ScanStep == ScanInv /\ [ScanNext]_scanVars => ScanInv'
<1> SUFFICES ASSUME ScanInv, [ScanNext]_scanVars PROVE ScanInv'
  OBVIOUS
<1>1. CASE CheckHttp \/ CheckTls \/ CheckDns \/ CheckCertificateTransparency \/ CheckCves
  BY <1>1, HttpKeepsScan, TlsKeepsScan, DnsKeepsScan, CtKeepsScan, CvesKeepScan
<1>2. CASE ScanRaises
  <2>1. /\ stage' = "raised" /\ stage = "http" /\ DOMAIN results' = selected
        /\ UNCHANGED <<world, selected, probes, pending, scan>> /\ failed \subseteq failed'
    BY <1>2 DEF ScanRaises, Failing
  <2>2. TrueScan' = TrueScan
    BY <2>1, TruthStays
  <2>3. ScanShape' /\ StageInv'
    BY <2>1 DEF ScanInv, ScanShape, StageInv
  <2>4. Answered'
    BY <2>1, <2>2 DEF ScanInv, Answered, HttpSaid, TlsSaid, DnsSaid, CtSaid, CveSaid
  <2>5. Judged' /\ ClaimsAreTrue'
    BY <2>1 DEF Judged, Scored, ClaimsAreTrue
  <2>6. QED
    BY <2>3, <2>4, <2>5 DEF ScanInv
<1>3. CASE \/ Vulnerability \/ SubdomainTakeover \/ DnsIntegrity
           \/ WafAbsence \/ CorsCsp \/ ConcentrationRisk
  BY <1>3, DetectorsKeepScan
<1>4. CASE UNCHANGED scanVars
  <2>1. UNCHANGED <<world, selected, stage, probes, pending, scan, results, failed>>
    BY <1>4 DEF scanVars
  <2>2. TrueScan' = TrueScan
    BY <2>1, TruthStays
  <2>3. EvaluateCompliance(scan)' = EvaluateCompliance(scan)
    BY <2>1 DEF EvaluateCompliance, TlsFindings, MailFindings, SprawlFindings, CveFindings
  <2>4. ScanShape' /\ StageInv'
    BY <2>1 DEF ScanInv, ScanShape, StageInv
  <2>5. Answered'
    BY <2>1, <2>2 DEF ScanInv, Answered, HttpSaid, TlsSaid, DnsSaid, CtSaid, CveSaid
  <2>6. Judged'
    BY <2>1, <2>3 DEF ScanInv, Judged, Scored
  <2>7. ClaimsAreTrue'
    BY <2>1 DEF ScanInv, ClaimsAreTrue, WafProvider
  <2>8. QED
    BY <2>4, <2>5, <2>6, <2>7 DEF ScanInv
<1>5. QED
  BY <1>1, <1>2, <1>3, <1>4 DEF ScanNext

LEMMA ScanInvHolds == ScanSpec => []ScanInv
BY ScanInitially, ScanStep, PTL DEF ScanSpec

\* For any vendor and any failing lookups, what the scan-derived detectors name
\* is there, and the hosting provider is the best source's unless that failed
\* (run_subdomain_takeover_check, run_dns_integrity_check,
\* evaluate_waf_presence, run_concentration_check).
THEOREM NothingIsMadeUp == ScanSpec => []ClaimsAreTrue
<1>1. ScanInv => ClaimsAreTrue
  BY DEF ScanInv
<1>2. QED
  BY <1>1, ScanInvHolds, PTL

-----------------------------------------------------------------------------
(* The findings.                                                           *)

\* The fields that the rules read, with their types.
Readable(s) ==
    /\ s.reachable \in BOOLEAN /\ s.https \in BOOLEAN /\ s.missing \subseteq SecurityHeaders
    /\ s.cert \in {"unknown", "valid", "expiring", "invalid"} /\ s.tls \in {"unknown", "outdated", "current"}
    /\ s.spf \in BOOLEAN /\ s.dkim \in BOOLEAN /\ s.dmarc \in {"absent", "none", "enforced"}

LEMMA BothReadable == ScanInv => Readable(scan) /\ Readable(TrueScan)
<1> SUFFICES ASSUME ScanInv PROVE Readable(scan) /\ Readable(TrueScan)
  OBVIOUS
<1>1. Readable(scan)
  BY DEF ScanInv, ScanShape, Readable
<1>2. /\ world.https \in BOOLEAN /\ world.http \in BOOLEAN /\ world.spf \in BOOLEAN
      /\ world.cert \in {"valid", "expiring", "invalid"} /\ world.tls \in {"outdated", "current"}
      /\ world.dmarc \in {"absent", "none", "enforced"}
  BY WorldAssumption DEF ScanInv, StageInv
<1>3. Readable(TrueScan)
  BY <1>2, TruthIs DEF Readable
<1>4. QED
  BY <1>1, <1>3

\* The findings of each field of a scan.
HttpsPart(https) == IF https THEN {} ELSE {Finding("no HTTPS", "critical", 25)}
HeaderPart(missing) == {MissingHeader(header) : header \in missing}
CertPart(cert) ==
    CASE cert = "invalid" -> {Finding("certificate invalid", "critical", 20)}
      [] cert = "expiring" -> {Finding("certificate expires", "medium", 8)}
      [] cert \in {"valid", "unknown"} -> {}
VersionPart(tls) == IF tls = "outdated" THEN {Finding("outdated protocol", "high", 15)} ELSE {}
SpfPart(spf) == IF spf THEN {} ELSE {Finding("no SPF", "medium", 7)}
DmarcPart(dmarc) ==
    CASE dmarc = "absent" -> {Finding("no DMARC", "medium", 7)}
      [] dmarc = "none" -> {Finding("DMARC none", "low", 4)}
      [] dmarc = "enforced" -> {}
DkimPart(dkim) == IF dkim THEN {} ELSE {Finding("no DKIM", "low", 4)}
SprawlPart(sprawl) ==
    IF Cardinality(sprawl) > SprawlLimit THEN {Finding("large footprint", "medium", 6)} ELSE {}
CvePart(cves) ==
    CASE cves = {} -> {}
      [] cves \cap {"CRITICAL", "HIGH"} # {} -> {Finding("high CVE", "critical", 20)}
      [] OTHER -> {Finding("lower CVE", "low", 5)}

SitePart(s) == HttpsPart(s.https) \cup HeaderPart(s.missing)
MailPart(s) == SpfPart(s.spf) \cup DmarcPart(s.dmarc) \cup DkimPart(s.dkim)
OtherPart(s) == CertPart(s.cert) \cup VersionPart(s.tls) \cup SprawlPart(s.sprawl) \cup CvePart(s.cves)

LEMMA FindingsAre ==
    ASSUME NEW s
    PROVE  EvaluateCompliance(s) =
              IF ~s.reachable THEN {Unreachable} ELSE SitePart(s) \cup MailPart(s) \cup OtherPart(s)
<1>1. TlsFindings(s) = CertPart(s.cert) \cup VersionPart(s.tls)
  BY Zenon DEF TlsFindings, CertPart, VersionPart
<1>2. MailFindings(s) = MailPart(s)
  BY Zenon DEF MailFindings, MailPart, SpfPart, DmarcPart, DkimPart
<1>3. SprawlFindings(s) = SprawlPart(s.sprawl) /\ CveFindings(s) = CvePart(s.cves)
  BY Zenon DEF SprawlFindings, SprawlPart, CveFindings, CvePart
<1>4. EvaluateCompliance(s) =
         IF ~s.reachable THEN {Unreachable}
         ELSE HttpsPart(s.https) \cup TlsFindings(s) \cup HeaderPart(s.missing)
              \cup MailFindings(s) \cup SprawlFindings(s) \cup CveFindings(s)
  BY Zenon DEF EvaluateCompliance, HttpsPart, HeaderPart
<1>5. QED
  BY <1>1, <1>2, <1>3, <1>4 DEF SitePart, OtherPart

\* What each part may hold.
LEMMA PartsAre ==
    /\ \A https : HttpsPart(https) \subseteq {Finding("no HTTPS", "critical", 25)}
    /\ \A cert \in {"unknown", "valid", "expiring", "invalid"} :
          CertPart(cert) \subseteq {Finding("certificate invalid", "critical", 20),
                                   Finding("certificate expires", "medium", 8)}
    /\ \A tls : VersionPart(tls) \subseteq {Finding("outdated protocol", "high", 15)}
    /\ \A spf : SpfPart(spf) \subseteq {Finding("no SPF", "medium", 7)}
    /\ \A dmarc \in {"absent", "none", "enforced"} :
          DmarcPart(dmarc) \subseteq {Finding("no DMARC", "medium", 7), Finding("DMARC none", "low", 4)}
    /\ \A dkim : DkimPart(dkim) \subseteq {Finding("no DKIM", "low", 4)}
    /\ \A sprawl : SprawlPart(sprawl) \subseteq {Finding("large footprint", "medium", 6)}
    /\ \A cves : CvePart(cves) \subseteq {Finding("high CVE", "critical", 20), Finding("lower CVE", "low", 5)}
<1>1. \A https, tls, spf, dkim, sprawl, cves :
         /\ HttpsPart(https) \subseteq {Finding("no HTTPS", "critical", 25)}
         /\ VersionPart(tls) \subseteq {Finding("outdated protocol", "high", 15)}
         /\ SpfPart(spf) \subseteq {Finding("no SPF", "medium", 7)}
         /\ DkimPart(dkim) \subseteq {Finding("no DKIM", "low", 4)}
         /\ SprawlPart(sprawl) \subseteq {Finding("large footprint", "medium", 6)}
         /\ CvePart(cves) \subseteq {Finding("high CVE", "critical", 20), Finding("lower CVE", "low", 5)}
  BY Zenon DEF HttpsPart, VersionPart, SpfPart, DkimPart, SprawlPart, CvePart
<1>2. \A cert \in {"unknown", "valid", "expiring", "invalid"} :
          CertPart(cert) \subseteq {Finding("certificate invalid", "critical", 20),
                                   Finding("certificate expires", "medium", 8)}
  BY DEF CertPart
<1>3. \A dmarc \in {"absent", "none", "enforced"} :
          DmarcPart(dmarc) \subseteq {Finding("no DMARC", "medium", 7), Finding("DMARC none", "low", 4)}
  BY DEF DmarcPart
<1>4. QED
  BY <1>1, <1>2, <1>3

\* The rules of each part.
LEMMA RulesAre ==
    /\ \A https : \A f \in HttpsPart(https) : f.rule = "no HTTPS"
    /\ \A cert \in {"unknown", "valid", "expiring", "invalid"} :
          \A f \in CertPart(cert) : f.rule \in {"certificate invalid", "certificate expires"}
    /\ \A tls : \A f \in VersionPart(tls) : f.rule = "outdated protocol"
    /\ \A spf : \A f \in SpfPart(spf) : f.rule = "no SPF"
    /\ \A dmarc \in {"absent", "none", "enforced"} :
          \A f \in DmarcPart(dmarc) : f.rule \in {"no DMARC", "DMARC none"}
    /\ \A dkim : \A f \in DkimPart(dkim) : f.rule = "no DKIM"
    /\ \A sprawl : \A f \in SprawlPart(sprawl) : f.rule = "large footprint"
    /\ \A cves : \A f \in CvePart(cves) : f.rule \in {"high CVE", "lower CVE"}
<1>1. /\ \A f \in {Finding("no HTTPS", "critical", 25)} : f.rule = "no HTTPS"
      /\ \A f \in {Finding("certificate invalid", "critical", 20),
                  Finding("certificate expires", "medium", 8)} :
            f.rule \in {"certificate invalid", "certificate expires"}
      /\ \A f \in {Finding("outdated protocol", "high", 15)} : f.rule = "outdated protocol"
      /\ \A f \in {Finding("no SPF", "medium", 7)} : f.rule = "no SPF"
      /\ \A f \in {Finding("no DMARC", "medium", 7), Finding("DMARC none", "low", 4)} :
            f.rule \in {"no DMARC", "DMARC none"}
      /\ \A f \in {Finding("no DKIM", "low", 4)} : f.rule = "no DKIM"
      /\ \A f \in {Finding("large footprint", "medium", 6)} : f.rule = "large footprint"
      /\ \A f \in {Finding("high CVE", "critical", 20), Finding("lower CVE", "low", 5)} :
            f.rule \in {"high CVE", "lower CVE"}
  BY DEF Finding
<1>2. QED
  BY <1>1, PartsAre, ZenonT(60)

LEMMA HeaderRule == \A header \in SecurityHeaders : MissingHeader(header).rule = header
BY DEF SecurityHeaders, MissingHeader, Finding

LEMMA EvidenceIs ==
    /\ \A rule \in SecurityHeaders : Evidence(rule) = {"https", "http"}
    /\ Evidence("unreachable") = {"https", "http"} /\ Evidence("no HTTPS") = {"https", "http"}
    /\ \A rule \in {"certificate invalid", "certificate expires", "outdated protocol"} :
          Evidence(rule) = {"tls"}
    /\ Evidence("no SPF") = {"spf"}
    /\ \A rule \in {"no DMARC", "DMARC none"} : Evidence(rule) = {"dmarc"}
    /\ Evidence("no DKIM") = Selectors
    /\ Evidence("large footprint") = {"ct"}
    /\ \A rule \in {"high CVE", "lower CVE"} : Evidence(rule) = {"cve"}
BY DEF Evidence, SecurityHeaders

\* When the findings are filed, every lookup that did not fail has said the
\* truth.
LEMMA AllAnswered ==
    ASSUME ScanInv, Scored
    PROVE  /\ {"https", "http"} \cap failed = {} => SameSite(scan, TrueScan)
           /\ "tls" \notin failed => scan.cert = TrueScan.cert /\ scan.tls = TrueScan.tls
           /\ "spf" \notin failed => scan.spf = TrueScan.spf
           /\ "dmarc" \notin failed => scan.dmarc = TrueScan.dmarc
           /\ Selectors \cap failed = {} => scan.dkim = TrueScan.dkim
           /\ "ct" \notin failed => scan.sprawl = TrueScan.sprawl
           /\ "cve" \notin failed => scan.cves = TrueScan.cves
<1>1. probes = {} /\ stage \in {"detectors", "done"}
  BY DEF ScanInv, StageInv, Scored
<1>2. QED
  BY <1>1 DEF ScanInv, Answered, HttpSaid, TlsSaid, DnsSaid, CtSaid, CveSaid

LEMMA DifferenceExplained ==
    ASSUME ScanInv, Scored, NEW s, NEW t, \/ s = scan /\ t = TrueScan
                                          \/ s = TrueScan /\ t = scan,
           s.reachable = t.reachable, NEW f \in EvaluateCompliance(s) \ EvaluateCompliance(t)
    PROVE  Evidence(f.rule) \cap failed # {}
<1>1. Readable(s) /\ Readable(t)
  BY BothReadable
<1>2. /\ f \in SitePart(s) \cup MailPart(s) \cup OtherPart(s)
      /\ f \notin SitePart(t) \cup MailPart(t) \cup OtherPart(t)
  BY FindingsAre
<1>3. /\ {"https", "http"} \cap failed = {} => s.https = t.https /\ s.missing = t.missing
      /\ "tls" \notin failed => s.cert = t.cert /\ s.tls = t.tls
      /\ "spf" \notin failed => s.spf = t.spf
      /\ "dmarc" \notin failed => s.dmarc = t.dmarc
      /\ Selectors \cap failed = {} => s.dkim = t.dkim
      /\ "ct" \notin failed => s.sprawl = t.sprawl
      /\ "cve" \notin failed => s.cves = t.cves
  BY AllAnswered DEF SameSite
<1>4. CASE f \in SitePart(s)
  <2>1. f.rule = "no HTTPS" \/ f.rule \in SecurityHeaders
    <3>1. CASE f \in HttpsPart(s.https)
      BY <3>1, RulesAre, Zenon
    <3>2. CASE f \in HeaderPart(s.missing)
      BY <1>1, <3>2, HeaderRule, ZenonT(60) DEF HeaderPart, Readable
    <3>3. QED
      BY <1>4, <3>1, <3>2 DEF SitePart
  <2>2. ~(s.https = t.https /\ s.missing = t.missing)
    BY <1>2, <1>4, Zenon DEF SitePart
  <2>3. {"https", "http"} \cap failed # {}
    BY <1>3, <2>2, Zenon
  <2>4. Evidence(f.rule) = {"https", "http"}
    BY <2>1, EvidenceIs, Zenon
  <2>5. QED
    BY <2>3, <2>4, Zenon
<1>5. CASE f \in MailPart(s)
  <2>1. CASE f \in SpfPart(s.spf)
    <3>1. f.rule = "no SPF"
      BY <2>1, RulesAre, Zenon
    <3>2. "spf" \in failed
      BY <1>2, <1>3, <2>1, Zenon DEF MailPart
    <3>3. Evidence(f.rule) = {"spf"}
      BY <3>1, EvidenceIs, Zenon
    <3>4. QED
      BY <3>2, <3>3, Zenon
  <2>2. CASE f \in DmarcPart(s.dmarc)
    <3>1. f.rule \in {"no DMARC", "DMARC none"}
      BY <1>1, <2>2, RulesAre, Zenon DEF Readable
    <3>2. "dmarc" \in failed
      BY <1>2, <1>3, <2>2, Zenon DEF MailPart
    <3>3. Evidence(f.rule) = {"dmarc"}
      BY <3>1, EvidenceIs, Zenon
    <3>4. QED
      BY <3>2, <3>3, Zenon
  <2>3. CASE f \in DkimPart(s.dkim)
    <3>1. f.rule = "no DKIM"
      BY <2>3, RulesAre, Zenon
    <3>2. Selectors \cap failed # {}
      BY <1>2, <1>3, <2>3, Zenon DEF MailPart
    <3>3. Evidence(f.rule) = Selectors
      BY <3>1, EvidenceIs, Zenon
    <3>4. QED
      BY <3>2, <3>3, Zenon
  <2>4. QED
    BY <1>5, <2>1, <2>2, <2>3, Zenon DEF MailPart
<1>6. CASE f \in OtherPart(s)
  <2>1. CASE f \in CertPart(s.cert) \cup VersionPart(s.tls)
    <3>1. f.rule \in {"certificate invalid", "certificate expires", "outdated protocol"}
      BY <1>1, <2>1, RulesAre, Zenon DEF Readable
    <3>2. "tls" \in failed
      BY <1>2, <1>3, <2>1, Zenon DEF OtherPart
    <3>3. Evidence(f.rule) = {"tls"}
      BY <3>1, EvidenceIs, Zenon
    <3>4. QED
      BY <3>2, <3>3, Zenon
  <2>2. CASE f \in SprawlPart(s.sprawl)
    <3>1. f.rule = "large footprint"
      BY <2>2, RulesAre, Zenon
    <3>2. "ct" \in failed
      BY <1>2, <1>3, <2>2, Zenon DEF OtherPart
    <3>3. Evidence(f.rule) = {"ct"}
      BY <3>1, EvidenceIs, Zenon
    <3>4. QED
      BY <3>2, <3>3, Zenon
  <2>3. CASE f \in CvePart(s.cves)
    <3>1. f.rule \in {"high CVE", "lower CVE"}
      BY <2>3, RulesAre, Zenon
    <3>2. "cve" \in failed
      BY <1>2, <1>3, <2>3, Zenon DEF OtherPart
    <3>3. Evidence(f.rule) = {"cve"}
      BY <3>1, EvidenceIs, Zenon
    <3>4. QED
      BY <3>2, <3>3, Zenon
  <2>4. QED
    BY <1>6, <2>1, <2>2, <2>3, Zenon DEF OtherPart
<1>7. QED
  BY <1>2, <1>4, <1>5, <1>6

\* For any vendor and any failing lookups, a finding too many or too few rests
\* on a lookup that failed, and a site that answers is unreachable only when it
\* failed to (_check_http, _check_tls, _check_dns, evaluate_compliance).
THEOREM DriftIsExplained == ScanSpec => []DriftExplained
<1>1. ScanInv => DriftExplained
  <2> SUFFICES ASSUME ScanInv, Scored PROVE DriftExplained
    BY DEF DriftExplained
  <2> DEFINE said == EvaluateCompliance(scan)
             true == EvaluateCompliance(TrueScan)
  <2>1. results["vulnerability"].findings = said
    BY DEF ScanInv, Judged
  <2>2. CASE scan.reachable = TrueScan.reachable
    <3>1. \A f \in (said \ true) \cup (true \ said) : Evidence(f.rule) \cap failed # {}
      <4>1. ASSUME NEW f \in said \ true PROVE Evidence(f.rule) \cap failed # {}
        <5> DEFINE s == scan
                   t == TrueScan
        <5>1. /\ s = scan /\ t = TrueScan /\ s.reachable = t.reachable
              /\ f \in EvaluateCompliance(s) \ EvaluateCompliance(t)
          BY <2>2
        <5> HIDE DEF s, t
        <5>2. QED
          BY <5>1, DifferenceExplained
      <4>2. ASSUME NEW f \in true \ said PROVE Evidence(f.rule) \cap failed # {}
        <5> DEFINE s == TrueScan
                   t == scan
        <5>1. /\ s = TrueScan /\ t = scan /\ s.reachable = t.reachable
              /\ f \in EvaluateCompliance(s) \ EvaluateCompliance(t)
          BY <2>2
        <5> HIDE DEF s, t
        <5>2. QED
          BY <5>1, DifferenceExplained
      <4>3. QED
        BY <4>1, <4>2
    <3>2. QED
      BY <2>1, <2>2, <3>1 DEF DriftExplained
  <2>3. CASE scan.reachable # TrueScan.reachable
    <3>1. Evidence("unreachable") \cap failed # {}
      BY <2>3, AllAnswered, EvidenceIs DEF SameSite
    <3>2. QED
      BY <2>3, <3>1 DEF DriftExplained
  <2>4. QED
    BY <2>2, <2>3
<1>2. QED
  BY <1>1, ScanInvHolds, PTL

-----------------------------------------------------------------------------
(* The score.                                                              *)

LEMMA WeightsAre ==
    /\ \A https : \A f \in HttpsPart(https) : f.weight \in 1..25
    /\ \A cert \in {"unknown", "valid", "expiring", "invalid"} : \A f \in CertPart(cert) : f.weight \in 1..25
    /\ \A tls : \A f \in VersionPart(tls) : f.weight \in 1..25
    /\ \A spf : \A f \in SpfPart(spf) : f.weight \in 1..25
    /\ \A dmarc \in {"absent", "none", "enforced"} : \A f \in DmarcPart(dmarc) : f.weight \in 1..25
    /\ \A dkim : \A f \in DkimPart(dkim) : f.weight \in 1..25
    /\ \A sprawl : \A f \in SprawlPart(sprawl) : f.weight \in 1..25
    /\ \A cves : \A f \in CvePart(cves) : f.weight \in 1..25
<1> DEFINE weights == 1..25
<1>1. /\ \A f \in {Finding("no HTTPS", "critical", 25)} : f.weight \in weights
      /\ \A f \in {Finding("certificate invalid", "critical", 20),
                  Finding("certificate expires", "medium", 8)} :
            f.weight \in weights
      /\ \A f \in {Finding("outdated protocol", "high", 15)} : f.weight \in weights
      /\ \A f \in {Finding("no SPF", "medium", 7)} : f.weight \in weights
      /\ \A f \in {Finding("no DMARC", "medium", 7), Finding("DMARC none", "low", 4)} : f.weight \in weights
      /\ \A f \in {Finding("no DKIM", "low", 4)} : f.weight \in weights
      /\ \A f \in {Finding("large footprint", "medium", 6)} : f.weight \in weights
      /\ \A f \in {Finding("high CVE", "critical", 20), Finding("lower CVE", "low", 5)} : f.weight \in weights
  BY DEF Finding
<1> HIDE DEF weights
<1>2. /\ \A https : \A f \in HttpsPart(https) : f.weight \in weights
      /\ \A cert \in {"unknown", "valid", "expiring", "invalid"} :
            \A f \in CertPart(cert) : f.weight \in weights
      /\ \A tls : \A f \in VersionPart(tls) : f.weight \in weights
      /\ \A spf : \A f \in SpfPart(spf) : f.weight \in weights
      /\ \A dmarc \in {"absent", "none", "enforced"} : \A f \in DmarcPart(dmarc) : f.weight \in weights
      /\ \A dkim : \A f \in DkimPart(dkim) : f.weight \in weights
      /\ \A sprawl : \A f \in SprawlPart(sprawl) : f.weight \in weights
      /\ \A cves : \A f \in CvePart(cves) : f.weight \in weights
  BY <1>1, PartsAre, Zenon
<1>3. QED
  BY <1>2 DEF weights

LEMMA HeaderWeight == \A header \in SecurityHeaders : MissingHeader(header).weight \in 1..25
BY DEF SecurityHeaders, MissingHeader, Finding

LEMMA FiniteHeaders ==
    ASSUME NEW missing \in SUBSET SecurityHeaders
    PROVE  IsFiniteSet(HeaderPart(missing))
<1> DEFINE headers == SecurityHeaders
           finding == [header \in missing |-> MissingHeader(header)]
           part == HeaderPart(missing)
<1>1. IsFiniteSet(headers)
  <2>1. SecurityHeaders =
           {"strict-transport-security"} \cup {"content-security-policy"} \cup {"x-content-type-options"}
           \cup {"x-frame-options"} \cup {"referrer-policy"} \cup {"permissions-policy"}
    BY DEF SecurityHeaders
  <2>2. QED
    BY <2>1, FS_Singleton, FS_Union
<1>2. IsFiniteSet(missing)
  BY <1>1, FS_Subset
<1>3. finding \in Surjection(missing, part)
  BY DEF Surjection, HeaderPart
<1> HIDE DEF finding, part
<1>4. IsFiniteSet(part)
  BY <1>2, <1>3, FS_Surjection
<1>5. QED
  BY <1>4 DEF part

\* The findings of a scan are few.
LEMMA FiniteFindings == ASSUME NEW s, Readable(s) PROVE IsFiniteSet(EvaluateCompliance(s))
<1>1. \A a, b : IsFiniteSet({a}) /\ IsFiniteSet({a, b})
  <2> TAKE a, b
  <2>1. IsFiniteSet({a}) /\ IsFiniteSet({b}) /\ {a, b} = {a} \cup {b}
    BY FS_Singleton
  <2>2. IsFiniteSet({a} \cup {b})
    BY <2>1, FS_Union
  <2>3. QED
    BY <2>1, <2>2
<1>2. \A S, T : IsFiniteSet(T) /\ S \subseteq T => IsFiniteSet(S)
  BY FS_Subset
<1>3. \A S, T : IsFiniteSet(S) /\ IsFiniteSet(T) => IsFiniteSet(S \cup T)
  BY FS_Union
<1>4. /\ s.missing \in SUBSET SecurityHeaders /\ s.dmarc \in {"absent", "none", "enforced"}
      /\ s.cert \in {"unknown", "valid", "expiring", "invalid"}
  BY DEF Readable
<1>5. IsFiniteSet(SitePart(s))
  BY <1>1, <1>2, <1>3, <1>4, PartsAre, FiniteHeaders, Zenon DEF SitePart
<1>6. IsFiniteSet(MailPart(s))
  <2>1. IsFiniteSet(SpfPart(s.spf))
    BY <1>1, <1>2, PartsAre, Zenon
  <2>2. IsFiniteSet(DkimPart(s.dkim))
    BY <1>1, <1>2, PartsAre, Zenon
  <2>3. IsFiniteSet(DmarcPart(s.dmarc))
    <3> DEFINE part == DmarcPart(s.dmarc)
               pair == {Finding("no DMARC", "medium", 7),
                        Finding("DMARC none", "low", 4)}
    <3>1. part \subseteq pair
      BY <1>4, PartsAre, Zenon
    <3>2. IsFiniteSet(pair)
      BY <1>1, Zenon
    <3> HIDE DEF part, pair
    <3>3. IsFiniteSet(part)
      BY <3>1, <3>2, <1>2, Zenon
    <3>4. QED
      BY <3>3 DEF part
  <2>4. QED
    BY <1>3, <2>1, <2>2, <2>3, Zenon DEF MailPart
<1>7. IsFiniteSet(OtherPart(s))
  <2>1. IsFiniteSet(CertPart(s.cert))
    <3> DEFINE part == CertPart(s.cert)
               pair == {Finding("certificate invalid", "critical", 20),
                        Finding("certificate expires", "medium", 8)}
    <3>1. part \subseteq pair
      BY <1>4, PartsAre, Zenon
    <3>2. IsFiniteSet(pair)
      BY <1>1, Zenon
    <3> HIDE DEF part, pair
    <3>3. IsFiniteSet(part)
      BY <3>1, <3>2, <1>2, Zenon
    <3>4. QED
      BY <3>3 DEF part
  <2>2. IsFiniteSet(VersionPart(s.tls))
    BY <1>1, <1>2, PartsAre, Zenon
  <2>3. IsFiniteSet(SprawlPart(s.sprawl))
    BY <1>1, <1>2, PartsAre, Zenon
  <2>4. IsFiniteSet(CvePart(s.cves))
    <3> DEFINE part == CvePart(s.cves)
               pair == {Finding("high CVE", "critical", 20),
                        Finding("lower CVE", "low", 5)}
    <3>1. part \subseteq pair
      BY <1>4, PartsAre, Zenon
    <3>2. IsFiniteSet(pair)
      BY <1>1, Zenon
    <3> HIDE DEF part, pair
    <3>3. IsFiniteSet(part)
      BY <3>1, <3>2, <1>2, Zenon
    <3>4. QED
      BY <3>3 DEF part
  <2>5. QED
    BY <1>3, <2>1, <2>2, <2>3, <2>4, Zenon DEF OtherPart
<1>8. QED
  BY <1>1, <1>3, <1>5, <1>6, <1>7, FindingsAre, Zenon

LEMMA FindingsWeigh ==
    ASSUME NEW s, Readable(s), NEW f \in EvaluateCompliance(s) PROVE f.weight \in 1..25
<1> DEFINE weights == 1..25
<1>1. CASE ~s.reachable
  BY <1>1, FindingsAre DEF Unreachable, Finding
<1>2. CASE s.reachable
  <2>1. f \in SitePart(s) \cup MailPart(s) \cup OtherPart(s)
    BY <1>2, FindingsAre, Zenon
  <2>2. /\ s.missing \in SUBSET SecurityHeaders /\ s.dmarc \in {"absent", "none", "enforced"}
        /\ s.cert \in {"unknown", "valid", "expiring", "invalid"}
    BY DEF Readable
  <2>3. f \in SitePart(s) => f.weight \in 1..25
    BY <2>2, WeightsAre, HeaderWeight, Zenon DEF SitePart, HeaderPart
  <2>4. f \in MailPart(s) => f.weight \in 1..25
    BY <2>2, WeightsAre, Zenon DEF MailPart
  <2>5. f \in OtherPart(s) => f.weight \in 1..25
    BY <2>2, WeightsAre, Zenon DEF OtherPart
  <2>6. QED
    BY <2>1, <2>3, <2>4, <2>5, Zenon
<1>3. QED
  BY <1>1, <1>2

\* So the points are, and the score is a percentage.
LEMMA FinitePoints ==
    ASSUME NEW s, Readable(s)
    PROVE  /\ IsFiniteSet(Points(EvaluateCompliance(s)))
           /\ Cardinality(Points(EvaluateCompliance(s))) \in Nat
<1> DEFINE all == EvaluateCompliance(s)
           weights == 1..25
<1>1. Points(all) \subseteq all \X weights
  BY FindingsWeigh DEF Points
<1>2. IsFiniteSet(all)
  BY FiniteFindings
<1>3. IsFiniteSet(weights)
  <2> DEFINE low == 1
             high == 25
  <2>1. low \in Int /\ high \in Int
    OBVIOUS
  <2> HIDE DEF low, high
  <2>2. IsFiniteSet(low..high)
    BY <2>1, FS_Interval
  <2>3. QED
    BY <2>2, Zenon DEF low, high
<1> HIDE DEF all, weights
<1>4. IsFiniteSet(all \X weights)
  BY <1>2, <1>3, FS_Product
<1>5. IsFiniteSet(Points(all))
  BY <1>1, <1>4, FS_Subset
<1>6. QED
  BY <1>5, FS_CardinalityType DEF all

LEMMA ScoreIs ==
    ASSUME NEW s, Readable(s) PROVE ComputeScore(EvaluateCompliance(s)) \in 0..100
<1> DEFINE cost == Cardinality(Points(EvaluateCompliance(s)))
<1>1. cost \in Nat
  BY FinitePoints
<1>2. ComputeScore(EvaluateCompliance(s)) = IF cost > 100 THEN 0 ELSE 100 - cost
  BY Zenon DEF ComputeScore
<1> HIDE DEF cost
<1>3. QED
  BY <1>1, <1>2

LEMMA TierAndLetter ==
    ASSUME NEW score \in 0..100
    PROVE  ClassifyTier(score) =
              CASE ScoreToLetterGrade(score) = "F" -> "Critical Impact"
                [] ScoreToLetterGrade(score) = "E" -> "High Impact"
                [] ScoreToLetterGrade(score) = "D" -> "Medium Impact"
                [] ScoreToLetterGrade(score) \in {"A", "B", "C"} -> "Low Impact"
                [] ScoreToLetterGrade(score) = "A+" -> IF score = 100 THEN "Informational" ELSE "Low Impact"
<1>1. CASE score < 10
  <2>1. ClassifyTier(score) = "Critical Impact" /\ ScoreToLetterGrade(score) = "F"
    BY <1>1 DEF ClassifyTier, ScoreToLetterGrade
  <2>2. QED
    BY <2>1, Zenon
<1>2. CASE score \in 10..29
  <2>1. ClassifyTier(score) = "High Impact" /\ ScoreToLetterGrade(score) = "E"
    BY <1>2 DEF ClassifyTier, ScoreToLetterGrade
  <2>2. QED
    BY <2>1
<1>3. CASE score \in 30..59
  <2>1. ClassifyTier(score) = "Medium Impact" /\ ScoreToLetterGrade(score) = "D"
    BY <1>3 DEF ClassifyTier, ScoreToLetterGrade
  <2>2. QED
    BY <2>1
<1>4. CASE score \in 60..95
  <2>1. ClassifyTier(score) = "Low Impact" /\ ScoreToLetterGrade(score) \in {"A", "B", "C"}
    BY <1>4 DEF ClassifyTier, ScoreToLetterGrade
  <2>2. QED
    BY <2>1
<1>5. CASE score \in 96..99
  <2>1. score # 100 /\ ClassifyTier(score) = "Low Impact" /\ ScoreToLetterGrade(score) = "A+"
    BY <1>5 DEF ClassifyTier, ScoreToLetterGrade
  <2>2. QED
    BY <2>1
<1>6. CASE score = 100
  <2>1. ClassifyTier(score) = "Informational" /\ ScoreToLetterGrade(score) = "A+"
    BY <1>6 DEF ClassifyTier, ScoreToLetterGrade
  <2>2. QED
    BY <1>6, <2>1
<1>7. \/ score < 10 \/ score \in 10..29 \/ score \in 30..59 \/ score \in 60..95
      \/ score \in 96..99 \/ score = 100
  OBVIOUS
<1>8. QED
  BY <1>1, <1>2, <1>3, <1>4, <1>5, <1>6, <1>7, Zenon

\* For any vendor and any failing lookups, each field of the scan is one of the
\* things its probe can say, the score is a percentage and the letter agrees
\* with the tier (scan_vendor, compute_score, classify_tier,
\* score_to_letter_grade).
THEOREM ScanTypes == ScanSpec => []ScanTypeOK
<1>1. ScanInv => ScanTypeOK
  <2> SUFFICES ASSUME ScanInv PROVE ScanTypeOK
    OBVIOUS
  <2> DEFINE score == ComputeScore(EvaluateCompliance(scan))
             letter == ScoreToLetterGrade(score)
  <2>1. /\ world \in Worlds /\ selected \in Selections
        /\ stage \in {"http", "probes", "detectors", "done", "raised"}
        /\ probes \subseteq {"tls", "dns", "ct", "cve"} /\ (stage = "detectors" => probes = {})
        /\ DOMAIN results \subseteq selected
    BY DEF ScanInv, StageInv
  <2>2. ScanShape
    BY DEF ScanInv
  <2>3. ASSUME Scored
        PROVE  /\ results["vulnerability"].score \in 0..100
               /\ results["vulnerability"].tier =
                     CASE results["vulnerability"].letter = "F" -> "Critical Impact"
                       [] results["vulnerability"].letter = "E" -> "High Impact"
                       [] results["vulnerability"].letter = "D" -> "Medium Impact"
                       [] results["vulnerability"].letter \in {"A", "B", "C"} -> "Low Impact"
                       [] results["vulnerability"].letter = "A+" ->
                             IF results["vulnerability"].score = 100 THEN "Informational" ELSE "Low Impact"
    <3>1. /\ results["vulnerability"].score = score
          /\ results["vulnerability"].tier = ClassifyTier(score)
          /\ results["vulnerability"].letter = letter
      BY <2>3 DEF ScanInv, Judged
    <3>2. score \in 0..100
      BY BothReadable, ScoreIs
    <3> HIDE DEF score
    <3>3. QED
      BY <3>1, <3>2, TierAndLetter, Zenon
  <2>4. QED
    BY <2>1, <2>2, <2>3, Zenon DEF ScanTypeOK, ScanShape
<1>2. QED
  BY <1>1, ScanInvHolds, PTL

-----------------------------------------------------------------------------
(* The bias of an outage.                                                  *)

\* More points, a lower score.
LEMMA PointsCost ==
    ASSUME NEW s, NEW t, Readable(s), Readable(t),
           Cardinality(Points(EvaluateCompliance(s))) <= Cardinality(Points(EvaluateCompliance(t)))
    PROVE  ComputeScore(EvaluateCompliance(t)) <= ComputeScore(EvaluateCompliance(s))
<1> DEFINE few == Cardinality(Points(EvaluateCompliance(s)))
           many == Cardinality(Points(EvaluateCompliance(t)))
<1>1. few \in Nat /\ many \in Nat /\ few <= many
  BY FinitePoints
<1>2. /\ ComputeScore(EvaluateCompliance(s)) = IF few > 100 THEN 0 ELSE 100 - few
      /\ ComputeScore(EvaluateCompliance(t)) = IF many > 100 THEN 0 ELSE 100 - many
  BY Zenon DEF ComputeScore
<1> HIDE DEF few, many
<1>3. QED
  BY <1>1, <1>2

LEMMA MoreFindings ==
    ASSUME NEW s, NEW t, Readable(s), Readable(t), EvaluateCompliance(s) \subseteq EvaluateCompliance(t)
    PROVE  ComputeScore(EvaluateCompliance(t)) <= ComputeScore(EvaluateCompliance(s))
<1> DEFINE few == Points(EvaluateCompliance(s))
           many == Points(EvaluateCompliance(t))
<1>1. few \subseteq many
  BY Zenon DEF Points
<1>2. IsFiniteSet(many)
  BY FinitePoints
<1> HIDE DEF few, many
<1>3. Cardinality(few) <= Cardinality(many)
  BY <1>1, <1>2, FS_Subset
<1>4. QED
  BY <1>3, PointsCost DEF few, many

LEMMA PointIs ==
    ASSUME NEW findings, NEW p
    PROVE  p \in Points(findings) <=> \E f \in findings : \E n \in 1..f.weight : p = <<f, n>>
BY DEF Points

\* A finding exchanged for a heavier one costs no less.
LEMMA HeavierFinding ==
    ASSUME NEW s, NEW t, Readable(s), Readable(t), NEW light, NEW heavy,
           heavy \in EvaluateCompliance(s), heavy \notin EvaluateCompliance(t),
           EvaluateCompliance(t) \ {light} \subseteq EvaluateCompliance(s),
           light.weight \in Nat, heavy.weight \in Nat, light.weight <= heavy.weight
    PROVE  ComputeScore(EvaluateCompliance(s)) <= ComputeScore(EvaluateCompliance(t))
<1> DEFINE these == EvaluateCompliance(t)
           those == EvaluateCompliance(s)
           few == Points(these)
           many == Points(those)
           moved == [p \in few |-> IF p[1] = light THEN <<heavy, p[2]>> ELSE p]
<1>1. heavy \in those /\ heavy \notin these /\ these \ {light} \subseteq those
  OBVIOUS
<1>2. IsFiniteSet(many)
  BY FinitePoints
<1>3. /\ \A p \in few : \E f \in these : \E n \in 1..f.weight : p = <<f, n>>
      /\ \A f \in those : \A n \in 1..f.weight : <<f, n>> \in many
  BY PointIs, Zenon
<1> HIDE DEF these, those, few, many
<1>4. \A p \in few : moved[p] \in many
  <2> SUFFICES ASSUME NEW p \in few PROVE moved[p] \in many
    OBVIOUS
  <2>1. PICK f \in these : \E n \in 1..f.weight : p = <<f, n>>
    BY <1>3
  <2>2. PICK n \in 1..f.weight : p = <<f, n>>
    BY <2>1
  <2>3. CASE f = light
    <3>1. moved[p] = <<heavy, n>> /\ n \in 1..heavy.weight
      BY <2>2, <2>3
    <3>2. QED
      BY <1>1, <1>3, <3>1, Zenon
  <2>4. CASE f # light
    <3>1. moved[p] = <<f, n>> /\ f \in those
      BY <1>1, <2>2, <2>4
    <3>2. QED
      BY <1>3, <3>1, Zenon
  <2>5. QED
    BY <2>3, <2>4
<1>5. \A p, q \in few : moved[p] = moved[q] => p = q
  <2> SUFFICES ASSUME NEW p \in few, NEW q \in few, moved[p] = moved[q] PROVE p = q
    OBVIOUS
  <2>1. PICK f \in these : \E n \in 1..f.weight : p = <<f, n>>
    BY <1>3
  <2>2. PICK n : p = <<f, n>>
    BY <2>1
  <2>3. PICK g \in these : \E m \in 1..g.weight : q = <<g, m>>
    BY <1>3
  <2>4. PICK m : q = <<g, m>>
    BY <2>3
  <2>5. /\ moved[p] = <<IF f = light THEN heavy ELSE f, n>>
        /\ moved[q] = <<IF g = light THEN heavy ELSE g, m>>
    BY <2>2, <2>4
  <2>6. QED
    BY <1>1, <2>2, <2>4, <2>5
<1>6. moved = [p \in few |-> moved[p]]
  OBVIOUS
<1> HIDE DEF moved
<1>7. moved \in [few -> many]
  BY <1>4, <1>6
<1>8. moved \in Injection(few, many)
  BY <1>5, <1>7 DEF Injection, IsInjective
<1>9. Cardinality(few) <= Cardinality(many)
  BY <1>2, <1>8, FS_Injection
<1>10. QED
  BY <1>9, PointsCost DEF few, many, these, those

\* A field that its probe left blank has no findings.
LEMMA BlankParts ==
    /\ CertPart("unknown") = {} /\ VersionPart("unknown") = {}
    /\ SprawlPart({}) = {} /\ CvePart({}) = {}
    /\ SpfPart(TRUE) = {} /\ DkimPart(TRUE) = {} /\ DmarcPart("enforced") = {}
    /\ DmarcPart("absent") = {Finding("no DMARC", "medium", 7)}
    /\ DmarcPart("none") = {Finding("DMARC none", "low", 4)}
<1>1. ~(Cardinality({}) > SprawlLimit)
  BY ScanAssumption, FS_EmptySet
<1>2. SprawlPart({}) = {}
  BY <1>1, Zenon DEF SprawlPart
<1>3. /\ CertPart("unknown") = {} /\ VersionPart("unknown") = {} /\ CvePart({}) = {}
      /\ SpfPart(TRUE) = {} /\ DkimPart(TRUE) = {} /\ DmarcPart("enforced") = {}
      /\ DmarcPart("absent") = {Finding("no DMARC", "medium", 7)}
      /\ DmarcPart("none") = {Finding("DMARC none", "low", 4)}
  BY DEF CertPart, VersionPart, CvePart, SpfPart, DkimPart, DmarcPart
<1>4. QED
  BY <1>2, <1>3

\* Failed certificate, transparency and CVE lookups only hide findings.
LEMMA OthersHide ==
    ASSUME ScanInv, Scored, failed \cap ({"https", "http", "spf", "dmarc"} \cup Selectors) = {}
    PROVE  EvaluateCompliance(scan) \subseteq EvaluateCompliance(TrueScan)
<1> DEFINE s == scan
           t == TrueScan
<1>1. /\ {"https", "http"} \cap failed = {} /\ "spf" \notin failed /\ "dmarc" \notin failed
      /\ Selectors \cap failed = {}
  BY Zenon
<1>2. s.reachable = t.reachable /\ s.https = t.https /\ s.missing = t.missing
  BY <1>1, AllAnswered, Zenon DEF SameSite
<1>3. s.spf = t.spf /\ s.dmarc = t.dmarc /\ s.dkim = t.dkim
  BY <1>1, AllAnswered, Zenon
<1>4. /\ \/ s.cert = "unknown" /\ s.tls = "unknown"
         \/ s.cert = t.cert /\ s.tls = t.tls
      /\ s.sprawl \in {{}, t.sprawl} /\ s.cves \in {{}, t.cves}
  BY Zenon DEF ScanInv, Answered, TlsSaid, CtSaid, CveSaid
<1> HIDE DEF s, t
<1>5. SitePart(s) = SitePart(t) /\ MailPart(s) = MailPart(t)
  BY <1>2, <1>3, Zenon DEF SitePart, MailPart
<1>6. OtherPart(s) \subseteq OtherPart(t)
  <2>1. CertPart(s.cert) \subseteq CertPart(t.cert) /\ VersionPart(s.tls) \subseteq VersionPart(t.tls)
    BY <1>4, BlankParts, Zenon
  <2>2. SprawlPart(s.sprawl) \subseteq SprawlPart(t.sprawl)
    BY <1>4, BlankParts, Zenon
  <2>3. CvePart(s.cves) \subseteq CvePart(t.cves)
    BY <1>4, BlankParts, Zenon
  <2>4. QED
    BY <2>1, <2>2, <2>3, Zenon DEF OtherPart
<1>7. EvaluateCompliance(s) \subseteq EvaluateCompliance(t)
  BY <1>2, <1>5, <1>6, FindingsAre, Zenon
<1>8. QED
  BY <1>7 DEF s, t

\* Failed mail lookups only make findings up, but that a DMARC record that is
\* lost hides what the record says.
LEMMA MailAdds ==
    ASSUME ScanInv, Scored, failed \cap {"https", "http", "tls", "ct", "cve"} = {}
    PROVE  ComputeScore(EvaluateCompliance(scan)) <= ComputeScore(EvaluateCompliance(TrueScan))
<1> DEFINE s == scan
           t == TrueScan
           heavy == Finding("no DMARC", "medium", 7)
           light == Finding("DMARC none", "low", 4)
<1>1. Readable(s) /\ Readable(t)
  BY BothReadable
<1>2. {"https", "http"} \cap failed = {} /\ "tls" \notin failed /\ "ct" \notin failed /\ "cve" \notin failed
  BY Zenon
<1>3. s.reachable = t.reachable /\ s.https = t.https /\ s.missing = t.missing
  BY <1>2, AllAnswered, Zenon DEF SameSite
<1>4. s.cert = t.cert /\ s.tls = t.tls /\ s.sprawl = t.sprawl /\ s.cves = t.cves
  BY <1>2, AllAnswered, Zenon
<1>5. s.dmarc \in {"absent", t.dmarc} /\ (s.spf => t.spf) /\ (s.dkim => t.dkim)
  BY Zenon DEF ScanInv, Answered, DnsSaid
<1> HIDE DEF s, t
<1>6. SitePart(s) = SitePart(t) /\ OtherPart(s) = OtherPart(t)
  BY <1>3, <1>4, Zenon DEF SitePart, OtherPart
<1>7. SpfPart(t.spf) \subseteq SpfPart(s.spf) /\ DkimPart(t.dkim) \subseteq DkimPart(s.dkim)
  BY <1>5, Zenon DEF SpfPart, DkimPart
<1>8. CASE ~t.reachable
  <2>1. EvaluateCompliance(t) \subseteq EvaluateCompliance(s)
    BY <1>3, <1>8, FindingsAre, Zenon
  <2>2. QED
    BY <1>1, <2>1, MoreFindings DEF s, t
<1>9. CASE s.dmarc = t.dmarc \/ t.dmarc = "enforced"
  <2>1. DmarcPart(t.dmarc) \subseteq DmarcPart(s.dmarc)
    BY <1>9, BlankParts, Zenon
  <2>2. MailPart(t) \subseteq MailPart(s)
    BY <1>7, <2>1, Zenon DEF MailPart
  <2>3. EvaluateCompliance(t) \subseteq EvaluateCompliance(s)
    BY <1>3, <1>6, <2>2, FindingsAre, Zenon
  <2>4. QED
    BY <1>1, <2>3, MoreFindings DEF s, t
<1>10. CASE t.reachable /\ s.dmarc = "absent" /\ t.dmarc = "none"
  <2>1. DmarcPart(s.dmarc) = {heavy} /\ DmarcPart(t.dmarc) = {light}
    BY <1>10, BlankParts, Zenon
  <2>2. /\ EvaluateCompliance(s) = SitePart(s) \cup MailPart(s) \cup OtherPart(s)
        /\ EvaluateCompliance(t) = SitePart(t) \cup MailPart(t) \cup OtherPart(t)
    BY <1>3, <1>10, FindingsAre, Zenon
  <2>3. /\ light.weight \in Nat /\ heavy.weight \in Nat /\ light.weight <= heavy.weight
        /\ heavy.rule = "no DMARC" /\ light.rule = "DMARC none"
    BY DEF Finding
  <2> HIDE DEF heavy, light
  <2>4. heavy \in EvaluateCompliance(s)
    BY <2>1, <2>2, Zenon DEF MailPart
  <2>5. EvaluateCompliance(t) \ {light} \subseteq EvaluateCompliance(s)
    BY <1>6, <1>7, <2>1, <2>2, Zenon DEF MailPart
  <2>6. heavy \notin EvaluateCompliance(t)
    <3>1. heavy \notin SitePart(t)
      <4>1. heavy \notin HttpsPart(t.https)
        BY <2>3, RulesAre, Zenon
      <4>2. "no DMARC" \notin SecurityHeaders
        BY DEF SecurityHeaders
      <4>3. \A f \in HeaderPart(t.missing) : f.rule \in SecurityHeaders
        BY <1>1, HeaderRule DEF HeaderPart, Readable
      <4>4. QED
        BY <2>3, <4>1, <4>2, <4>3, Zenon DEF SitePart
    <3>2. heavy \notin MailPart(t)
      <4>1. heavy \notin SpfPart(t.spf)
        BY <2>3, RulesAre, Zenon
      <4>2. heavy \notin DkimPart(t.dkim)
        BY <2>3, RulesAre, Zenon
      <4>3. heavy \notin DmarcPart(t.dmarc)
        BY <2>1, <2>3
      <4>4. QED
        BY <4>1, <4>2, <4>3, Zenon DEF MailPart
    <3>3. heavy \notin OtherPart(t)
      <4>1. heavy \notin CertPart(t.cert)
        BY <1>1, <2>3, RulesAre, Zenon DEF Readable
      <4>2. heavy \notin VersionPart(t.tls)
        BY <2>3, RulesAre, Zenon
      <4>3. heavy \notin SprawlPart(t.sprawl)
        BY <2>3, RulesAre, Zenon
      <4>4. heavy \notin CvePart(t.cves)
        BY <2>3, RulesAre, Zenon
      <4>5. QED
        BY <4>1, <4>2, <4>3, <4>4, Zenon DEF OtherPart
    <3>4. QED
      BY <2>2, <3>1, <3>2, <3>3, Zenon
  <2>7. QED
    BY <1>1, <2>3, <2>4, <2>5, <2>6, HeavierFinding, Zenon DEF s, t
<1>11. QED
  BY <1>1, <1>5, <1>8, <1>9, <1>10 DEF Readable

\* For any vendor and any failing lookups, only failed mail and site lookups
\* lower a score, and only failed certificate, transparency, CVE and site
\* lookups raise it (_check_http, _check_tls, _check_dns,
\* _check_certificate_transparency, _check_cves, compute_score).
THEOREM OutagesBiasAsKnown == ScanSpec => []BiasOfOutages
<1>1. ScanInv => BiasOfOutages
  <2> SUFFICES ASSUME ScanInv, Scored PROVE BiasOfOutages
    BY DEF BiasOfOutages
  <2> DEFINE said == ComputeScore(EvaluateCompliance(scan))
             true == ComputeScore(EvaluateCompliance(TrueScan))
  <2>1. results["vulnerability"].score = said
    BY DEF ScanInv, Judged
  <2>2. said \in 0..100 /\ true \in 0..100
    BY BothReadable, ScoreIs
  <2>3. failed \cap ({"https", "http", "spf", "dmarc"} \cup Selectors) = {} => true <= said
    BY OthersHide, BothReadable, MoreFindings, Zenon
  <2>4. failed \cap {"https", "http", "tls", "ct", "cve"} = {} => said <= true
    BY MailAdds, Zenon
  <2> HIDE DEF said, true
  <2>5. /\ said < true => failed \cap ({"https", "http", "spf", "dmarc"} \cup Selectors) # {}
        /\ said > true => failed \cap {"https", "http", "tls", "ct", "cve"} # {}
    BY <2>2, <2>3, <2>4
  <2>6. QED
    BY <2>1, <2>5 DEF BiasOfOutages, said, true
<1>2. QED
  BY <1>1, ScanInvHolds, PTL

=============================================================================
