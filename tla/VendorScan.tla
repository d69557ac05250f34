---------------------------- MODULE VendorScan ----------------------------
(***************************************************************************)
(* The base scan of one vendor and the detectors derived from it:          *)
(* app/scanner/engine.py, the five scan-derived detectors of app/detectors *)
(* and _run_scan_derived_detectors in app/detectors/orchestrator.py.       *)
(*                                                                         *)
(* What the network holds about the vendor is a record of Worlds, which    *)
(* stays the same; each lookup may fail, for at most MaxFaults lookups in  *)
(* all.  First the site is asked, then the four probes run side by side,   *)
(* each writing its own fields of the scan, then the selected detectors    *)
(* follow one another.  A probe awaits its lookups one after another and   *)
(* shares no field, so it is one action that says which of them failed.    *)
(***************************************************************************)
EXTENDS Compliance, Sequences, Functions

CONSTANTS
    Worlds,      \* what may be true of a vendor
    Selections,  \* which detectors may be asked for
    Selectors,   \* DKIM_SELECTORS
    SprawlCap,   \* [:25] of _check_certificate_transparency and of the takeover check
    CveCap,      \* [:5] of _check_cves
    RandomNames, \* subdomains that _looks_random
    MaxFaults    \* bound on the lookups that fail

Detectors == <<"vulnerability", "subdomain_takeover", "dns_integrity",
               "waf_absence", "cors_csp", "concentration_risk">>

ASSUME ScanAssumption ==
    /\ SprawlLimit \in Nat /\ SprawlCap \in Nat /\ CveCap \in Nat /\ MaxFaults \in Nat
    /\ RandomNames \subseteq Nat
    /\ Selections \subseteq SUBSET Range(Detectors) \ {{}}

\* What is asked of a vendor has one of the answers that the scan knows.
ASSUME WorldAssumption ==
    \A w \in Worlds :
        /\ {w.https, w.http, w.spf, w.mx} \subseteq BOOLEAN
        /\ w.cert \in {"valid", "expiring", "invalid"} /\ w.tls \in {"outdated", "current"}
        /\ w.dmarc \in {"absent", "none", "enforced"} /\ w.selectors \subseteq Selectors

VARIABLES
    world,     \* what is true of the vendor
    selected,  \* detector_types
    stage,     \* "http", "probes", "detectors", "done" or "raised"
    probes,    \* the probes that still run
    pending,   \* the detectors that still have to follow
    scan,      \* the ScanResult
    results,   \* detector |-> what its result says
    failed     \* history: the lookups that failed

scanVars == <<world, selected, stage, probes, pending, scan, results, failed>>

None == "none"

\* raw_headers of a site that did not answer; "absent" stands for no policy,
\* the other members of csp for the weak directives of one.
NoHeaders == [signature |-> None, server |-> None, csp |-> {"absent"}, cors |-> FALSE, credentials |-> FALSE]

\* ScanResult before any probe.  The cert and tls fields stand for
\* tls_cert_valid with tls_cert_expires_days, and tls_version.
EmptyScan == [reachable |-> FALSE, https |-> FALSE, missing |-> {}, headers |-> NoHeaders,
              cert |-> "unknown", tls |-> "unknown",
              spf |-> FALSE, dmarc |-> "absent", dkim |-> FALSE, mx |-> FALSE,
              sprawl |-> {}, cves |-> {}]

ScanInit ==
    /\ world \in Worlds /\ selected \in Selections
    /\ stage = "http" /\ probes = {"tls", "dns", "ct", "cve"}
    /\ pending = selected
    /\ scan = EmptyScan /\ results = <<>> /\ failed = {}

\* These lookups fail, those that turn out not to be needed among them.
Failing(down) ==
    /\ Cardinality(failed \cup down) <= MaxFaults
    /\ failed' = failed \cup down

\* _check_http: https, then http; the first answer's headers are taken.
CheckHttp ==
    /\ stage = "http"
    /\ \E down \in SUBSET {"https", "http"} :
          LET https == world.https /\ "https" \notin down
              http == world.http /\ "http" \notin down
          IN  /\ Failing(down)
              /\ scan' = IF https \/ http
                         THEN [scan EXCEPT !.reachable = TRUE, !.https = https,
                                           !.missing = SecurityHeaders \ world.security,
                                           !.headers = world.headers]
                         ELSE scan
    /\ stage' = "probes"
    /\ UNCHANGED <<world, selected, probes, pending, results>>

\* An exception other than httpx.HTTPError leaves _check_http, and with it
\* scan_vendor: every selected detector has an error for its result.
ScanRaises ==
    /\ stage = "http"
    /\ Failing({"scan"})
    /\ stage' = "raised"
    /\ results' = [d \in selected |-> [error |-> TRUE]]
    /\ UNCHANGED <<world, selected, probes, pending, scan>>

\* A probe has come to its end; with the last the detectors begin.
Finish(probe) ==
    /\ stage = "probes" /\ probe \in probes
    /\ probes' = probes \ {probe}
    /\ stage' = IF probes' = {} THEN "detectors" ELSE stage
    /\ UNCHANGED <<world, selected, pending, results>>

\* a gather that the first failure ends for all
CheckTlsEndsAll ==
    /\ stage = "probes" /\ "tls" \in probes
    /\ \E down \in SUBSET {"tls"} :
          /\ Failing(down)
          /\ probes' = IF down = {} THEN probes \ {"tls"} ELSE {}
          /\ scan' = IF down # {} \/ world.tls = "outdated" THEN scan
                     ELSE [scan EXCEPT !.cert = world.cert,
                                       !.tls = IF world.cert = "invalid" THEN "unknown" ELSE world.tls]
    /\ stage' = IF probes' = {} THEN "detectors" ELSE stage
    /\ UNCHANGED <<world, selected, pending, results>>

\* _check_tls: the default context refuses outdated versions, which looks like
\* any failed connection; a certificate that does not verify says nothing of
\* the version.
CheckTls ==
    /\ Finish("tls")
    /\ \E down \in SUBSET {"tls"} :
          /\ Failing(down)
          /\ scan' = IF down # {} \/ world.tls = "outdated" THEN scan
                     ELSE [scan EXCEPT !.cert = world.cert,
                                       !.tls = IF world.cert = "invalid" THEN "unknown" ELSE world.tls]

\* one answer for both text records
CheckDnsOnce ==
    /\ Finish("dns")
    /\ \E down \in SUBSET ({"spf"} \cup Selectors) :
          /\ Failing(down)
          /\ scan' = [scan EXCEPT
                !.spf = world.spf /\ "spf" \notin down,
                !.dmarc = IF "spf" \in down THEN "absent" ELSE world.dmarc,
                !.dkim = world.selectors \ down # {}, !.mx = world.mx]

\* _check_dns: a lookup that fails looks like a record that is not there; the
\* selectors are asked until one answers.
CheckDns ==
    /\ Finish("dns")
    /\ \E down \in SUBSET ({"spf", "dmarc", "mx"} \cup Selectors) :
          /\ Failing(down)
          /\ scan' = [scan EXCEPT
                !.spf = world.spf /\ "spf" \notin down,
                !.dmarc = IF "dmarc" \in down THEN "absent" ELSE world.dmarc,
                !.dkim = world.selectors \ down # {},
                !.mx = world.mx /\ "mx" \notin down]

\* The first of some names in order.
FirstNames(names, n) == {s \in names : Cardinality({t \in names : t < s}) < n}

\* _check_certificate_transparency
CheckCertificateTransparency ==
    /\ Finish("ct")
    /\ \E down \in SUBSET {"ct"} :
          /\ Failing(down)
          /\ scan' = IF down = {} THEN [scan EXCEPT !.sprawl = FirstNames(world.names, SprawlCap)] ELSE scan

\* _check_cves
CheckCves ==
    /\ Finish("cve")
    /\ \E down \in SUBSET {"cve"} :
          /\ Failing(down)
          /\ scan' = IF down # {} THEN scan
                     ELSE [scan EXCEPT !.cves = {world.cves[k] : k \in DOMAIN world.cves \cap 1..CveCap}]

-----------------------------------------------------------------------------
(* The detectors, one after another in this order. *)

\* It is this detector's turn, and then the next one's.
Turn(detector) ==
    /\ stage = "detectors" /\ detector \in pending
    /\ \E n \in DOMAIN Detectors :
          Detectors[n] = detector /\ \A k \in 1..n - 1 : Detectors[k] \notin pending
    /\ pending' = pending \ {detector}
    /\ stage' = IF pending' = {} THEN "done" ELSE stage

\* _run_scan_derived_detectors files one result and goes on.
File(detector, result) ==
    /\ Turn(detector)
    /\ results' = [d \in DOMAIN results \cup {detector} |->
                      IF d = detector THEN result ELSE results[d]]
    /\ UNCHANGED <<world, selected, probes, scan>>

\* The score, the tier and the letter, and the findings.
Vulnerability ==
    LET findings == EvaluateCompliance(scan)
        score == ComputeScore(findings)
    IN  /\ File("vulnerability", [findings |-> findings, score |-> score,
                                  tier |-> ClassifyTier(score), letter |-> ScoreToLetterGrade(score)])
        /\ UNCHANGED failed

\* run_subdomain_takeover_check: subdomains whose CNAME ends in a service's
\* pattern; a lookup that fails is a subdomain without one.
SubdomainTakeover ==
    LET asked == FirstNames(scan.sprawl, SprawlCap)
    IN  \E lost \in SUBSET asked :
          /\ Failing(IF lost = {} THEN {} ELSE {"cname"})
          /\ File("subdomain_takeover",
                  [checked |-> Cardinality(asked),
                   findings |-> {n \in asked \ lost : world.dangling[n] # None}])

\* no result without nameservers
DnsIntegrityOrNothing ==
    /\ Turn("dns_integrity")
    /\ UNCHANGED <<world, selected, probes, scan, results, failed>>

\* run_dns_integrity_check, which the orchestrator calls without the previous
\* nameservers, so that no change is ever detected.
DnsIntegrity ==
    \E down \in SUBSET {"ns"} :
        /\ Failing(down)
        /\ File("dns_integrity",
                [nameservers |-> IF down = {} THEN world.nameservers ELSE {},
                 random |-> Cardinality(scan.sprawl \cap RandomNames), changed |-> FALSE])

\* evaluate_waf_presence: a provider's header, else its name in "server".
WafProvider(headers) ==
    IF headers.signature # None THEN headers.signature ELSE headers.server

WafAbsence == File("waf_absence", [provider |-> WafProvider(scan.headers)]) /\ UNCHANGED failed

\* evaluate_cors_csp; no headers at all look like a missing policy.
CorsCsp ==
    LET csp == {[finding |-> weak, severity |-> "medium"] : weak \in scan.headers.csp}
        any == IF ~scan.headers.cors THEN {}
               ELSE {[finding |-> "any origin",
                      severity |-> IF scan.headers.credentials THEN "high" ELSE "medium"]}
    IN  File("cors_csp", [findings |-> csp \cup any]) /\ UNCHANGED failed

\* the name behind the address before the network's owner
PtrFirst(down) ==
    IF "a" \in down THEN None
    ELSE IF world.ptr # None /\ "ptr" \notin down THEN world.ptr
    ELSE IF world.asn # None /\ "asn" \notin down THEN world.asn
    ELSE WafProvider(scan.headers)

\* run_concentration_check: who announces the address, else the name behind
\* it, else what the headers say.
Provider(down) ==
    IF "a" \in down THEN None
    ELSE IF world.asn # None /\ "asn" \notin down THEN world.asn
    ELSE IF world.ptr # None /\ "ptr" \notin down THEN world.ptr
    ELSE WafProvider(scan.headers)

ConcentrationRisk ==
    \E down \in SUBSET {"a", "asn", "ptr"} :
        /\ Failing(down)
        /\ File("concentration_risk", [provider |-> Provider(down)])

ScanNext ==
    \/ CheckHttp \/ ScanRaises
    \/ CheckTls \/ CheckDns \/ CheckCertificateTransparency \/ CheckCves
    \/ Vulnerability \/ SubdomainTakeover \/ DnsIntegrity
    \/ WafAbsence \/ CorsCsp \/ ConcentrationRisk

\* Every lookup has a timeout, and a scan is never left standing.
ScanSpec == ScanInit /\ [][ScanNext]_scanVars /\ WF_scanVars(ScanNext)

-----------------------------------------------------------------------------

\* What the scan is when every lookup answers.
TrueScan ==
    LET up == world.https \/ world.http
        handshake == world.tls # "outdated"
    IN  [reachable |-> up, https |-> world.https,
         missing |-> IF up THEN SecurityHeaders \ world.security ELSE {},
         headers |-> IF up THEN world.headers ELSE NoHeaders,
         cert |-> IF handshake THEN world.cert ELSE "unknown",
         tls |-> IF handshake /\ world.cert # "invalid" THEN world.tls ELSE "unknown",
         spf |-> world.spf, dmarc |-> world.dmarc, dkim |-> world.selectors # {}, mx |-> world.mx,
         sprawl |-> FirstNames(world.names, SprawlCap),
         cves |-> {world.cves[k] : k \in DOMAIN world.cves \cap 1..CveCap}]

\* The lookups a rule's verdict rests on.
Evidence(rule) ==
    CASE rule \in {"unreachable", "no HTTPS"} \cup SecurityHeaders -> {"https", "http"}
      [] rule \in {"certificate invalid", "certificate expires", "outdated protocol"} -> {"tls"}
      [] rule = "no SPF" -> {"spf"}
      [] rule \in {"no DMARC", "DMARC none"} -> {"dmarc"}
      [] rule = "no DKIM" -> Selectors
      [] rule = "large footprint" -> {"ct"}
      [] rule \in {"high CVE", "lower CVE"} -> {"cve"}

Scored == stage \in {"detectors", "done"} /\ "vulnerability" \in DOMAIN results

\* A scan writes each field from its own probe, and whatever the findings, the
\* score is a percentage with a tier, and the letter never contradicts the
\* tier (compute_score, classify_tier, score_to_letter_grade).
ScanTypeOK ==
    /\ world \in Worlds /\ selected \in Selections
    /\ stage \in {"http", "probes", "detectors", "done", "raised"}
    /\ probes \subseteq {"tls", "dns", "ct", "cve"} /\ (stage = "detectors" => probes = {})
    /\ scan \in [reachable : BOOLEAN, https : BOOLEAN, missing : SUBSET SecurityHeaders,
                 headers : {NoHeaders, world.headers},
                 cert : {"unknown", "valid", "expiring", "invalid"}, tls : {"unknown", "outdated", "current"},
                 spf : BOOLEAN, dmarc : {"absent", "none", "enforced"}, dkim : BOOLEAN, mx : BOOLEAN,
                 sprawl : SUBSET world.names, cves : SUBSET Range(world.cves)]
    /\ DOMAIN results \subseteq selected
    /\ Scored => LET r == results["vulnerability"] IN
          /\ r.score \in 0..100
          /\ r.tier = CASE r.letter = "F" -> "Critical Impact" [] r.letter = "E" -> "High Impact"
                         [] r.letter = "D" -> "Medium Impact" [] r.letter \in {"A", "B", "C"} -> "Low Impact"
                         [] r.letter = "A+" -> IF r.score = 100 THEN "Informational" ELSE "Low Impact"

\* One probe's failure stays its own: a finding that is there without a cause,
\* or missing although there is one, rests on a lookup that failed, and a site
\* that answers is not called unreachable unless it failed to (_check_*,
\* evaluate_compliance).
DriftExplained ==
    Scored =>
        LET said == results["vulnerability"].findings
            true == EvaluateCompliance(TrueScan)
        IN  IF scan.reachable = TrueScan.reachable
            THEN \A f \in (said \ true) \cup (true \ said) : Evidence(f.rule) \cap failed # {}
            ELSE Evidence("unreachable") \cap failed # {}

\* The bias of an outage is known: only failed mail and site lookups can lower
\* a score, and only failed certificate, transparency, CVE and site lookups
\* can raise it (evaluate_compliance, compute_score).
BiasOfOutages ==
    Scored =>
        LET said == results["vulnerability"].score
            true == ComputeScore(EvaluateCompliance(TrueScan))
        IN  /\ said < true => failed \cap ({"https", "http", "spf", "dmarc"} \cup Selectors) # {}
            /\ said > true => failed \cap {"https", "http", "tls", "ct", "cve"} # {}

\* Failures hide things and make none up: every dangling subdomain, nameserver,
\* firewall and hosting provider that a detector names is there, and the
\* provider is the best source's unless that one failed (the scan-derived
\* detectors).
ClaimsAreTrue ==
    stage # "raised" =>
        \A d \in DOMAIN results : LET r == results[d] IN
            CASE d = "subdomain_takeover" -> \A n \in r.findings : world.dangling[n] # None
              [] d = "dns_integrity" -> r.nameservers \subseteq world.nameservers
              [] d = "waf_absence" -> r.provider \in {None, WafProvider(world.headers)}
              [] d = "concentration_risk" ->
                    /\ r.provider \in {None, world.asn, world.ptr, WafProvider(world.headers)}
                    /\ world.asn # None /\ {"a", "asn"} \cap failed = {} => r.provider = world.asn
              [] OTHER -> TRUE

\* Every scan comes to an end, with a result for each selected detector,
\* whichever lookups fail (_run_scan_derived_detectors).
ScanEnds == <>(stage \in {"done", "raised"} /\ DOMAIN results = selected)
=============================================================================
