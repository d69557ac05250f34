---------------------------- MODULE Compliance ----------------------------
(***************************************************************************)
(* The rules that turn a scan into a score: app/compliance/engine.py and   *)
(* app/scoring.py, and the letter grade of app/detectors/registry.py.      *)
(*                                                                         *)
(* A finding is its rule with the severity and the weight it deducts; the  *)
(* citations and recommendations are left out, and so is the order in      *)
(* which deduplicate_and_cap lists them.  A scan is the record of the      *)
(* fields of ScanResult that the rules read.                               *)
(***************************************************************************)
EXTENDS Integers, FiniteSets

CONSTANT SprawlLimit   \* above this many subdomains the footprint is large

Finding(rule, severity, weight) == [rule |-> rule, severity |-> severity, weight |-> weight]

Unreachable == Finding("unreachable", "high", 15)

\* header_weights
MissingHeader(header) ==
    CASE header = "strict-transport-security" -> Finding(header, "high", 8)
      [] header = "content-security-policy" -> Finding(header, "medium", 6)
      [] header \in {"x-content-type-options", "x-frame-options"} -> Finding(header, "low", 3)
      [] header \in {"referrer-policy", "permissions-policy"} -> Finding(header, "info", 2)

SecurityHeaders ==
    {"strict-transport-security", "content-security-policy", "x-content-type-options",
     "x-frame-options", "referrer-policy", "permissions-policy"}

\* tls_cert_valid False, else tls_cert_expires_days < 30; and the version.
TlsFindings(scan) ==
    (CASE scan.cert = "invalid" -> {Finding("certificate invalid", "critical", 20)}
       [] scan.cert = "expiring" -> {Finding("certificate expires", "medium", 8)}
       [] scan.cert \in {"valid", "unknown"} -> {})
    \cup (IF scan.tls = "outdated" THEN {Finding("outdated protocol", "high", 15)} ELSE {})

MailFindings(scan) ==
    (IF scan.spf THEN {} ELSE {Finding("no SPF", "medium", 7)})
    \cup (CASE scan.dmarc = "absent" -> {Finding("no DMARC", "medium", 7)}
            [] scan.dmarc = "none" -> {Finding("DMARC none", "low", 4)}
            [] scan.dmarc = "enforced" -> {})
    \cup (IF scan.dkim THEN {} ELSE {Finding("no DKIM", "low", 4)})

SprawlFindings(scan) ==
    IF Cardinality(scan.sprawl) > SprawlLimit THEN {Finding("large footprint", "medium", 6)} ELSE {}

CveFindings(scan) ==
    CASE scan.cves = {} -> {}
      [] scan.cves \cap {"CRITICAL", "HIGH"} # {} -> {Finding("high CVE", "critical", 20)}
      [] OTHER -> {Finding("lower CVE", "low", 5)}

\* evaluate_compliance: an unreachable site is that one finding and no more.
EvaluateCompliance(scan) ==
    IF ~scan.reachable
    THEN {Unreachable}
    ELSE (IF scan.https THEN {} ELSE {Finding("no HTTPS", "critical", 25)})
         \cup TlsFindings(scan)
         \cup {MissingHeader(header) : header \in scan.missing}
         \cup MailFindings(scan) \cup SprawlFindings(scan) \cup CveFindings(scan)

\* The points that the findings cost, each its weight: counted, not added up, as
\* more is known of a count than of a sum.
Points(findings) == UNION {{f} \X (1..f.weight) : f \in findings}

\* a clamp that is left out
UnclampedScore(findings) == 100 - Cardinality(Points(findings))

\* compute_score
ComputeScore(findings) ==
    LET deduction == Cardinality(Points(findings))
    IN  IF deduction > 100 THEN 0 ELSE 100 - deduction

\* TIERS, classify_tier
ClassifyTier(score) ==
    CASE score \in 0..9 -> "Critical Impact"
      [] score \in 10..29 -> "High Impact"
      [] score \in 30..59 -> "Medium Impact"
      [] score \in 60..99 -> "Low Impact"
      [] score = 100 -> "Informational"
      [] OTHER -> "Unknown"

\* score_to_letter_grade
ScoreToLetterGrade(score) ==
    CASE score >= 96 -> "A+"
      [] score \in 90..95 -> "A"
      [] score \in 80..89 -> "B"
      [] score \in 60..79 -> "C"
      [] score \in 30..59 -> "D"
      [] score \in 10..29 -> "E"
      [] score < 10 -> "F"
=============================================================================
