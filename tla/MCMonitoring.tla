--------------------------- MODULE MCMonitoring ---------------------------
(***************************************************************************)
(* Small instances of Monitoring for TLC.                                  *)
(***************************************************************************)
EXTENDS Monitoring, TLC

CONSTANTS v1, v2, d1, d2, s1, s2, vuln, dns, j1, j2

ScoredTypes == {vuln}

\* A job, and the one that scans its vendor again, in either role.
AnyJob == Permutations(Jobs)

\* One scored detector alone, or after one without a score.
VulnOnly == {<<vuln>>}
BothDetectors == {<<dns, vuln>>}

\* Vendor lists: one vendor; two, the second one without a domain.
OneVendor == {<<d1>>}
OneMissing == {<<d2, Unknown>>}
=============================================================================
