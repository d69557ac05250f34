--------------------------- MODULE MCReporting ---------------------------
(***************************************************************************)
(* Small instances of Reporting for TLC.                                   *)
(***************************************************************************)
EXTENDS Reporting, TLC

CONSTANTS r1, r2, r3

Domain(certificate, https, http) == [certificate |-> certificate, https |-> https, http |-> http]

\* Leads of every kind, the alarming one last, one past the cap, and a domain
\* nobody has.
Found == <<Domain(TRUE, "vendor's", "silent"), Domain(FALSE, "other", "other"),
           Domain(TRUE, "silent", "other"), Domain(TRUE, "other", "other")>>

\* The vendor enters the catalogue with its second version, three times.
Entries == <<0, 3>>

\* A finding that leaves a good score, and findings with a bad one.
Assessments == {<<1, 80>>, <<2, 55>>}

Vulnerability == {"vulnerability", "subdomain_takeover"}
Alone == {{"phishing"}, {"dns_integrity", "waf_absence"}, {"cors_csp", "concentration_risk"}}

AnyRun == Permutations(Runs)

\* Three runs that share the catalogue, or of which one has both types of two
\* others; the catalogue beside other rows; and the other types by themselves.
\* In each, the roles are dealt in any way.
Asked ==
    {[r \in Runs |-> plan[role[r]]] : role \in AnyRun, plan \in
        {(r1 :> {"exploitation"} @@ r2 :> {"exploitation"} @@ r3 :> {"exploitation"}),
         (r1 :> {"vulnerability"} @@ r2 :> Vulnerability @@ r3 :> {"subdomain_takeover"}),
         (r1 :> {"exploitation"} @@ r2 :> Vulnerability @@ r3 :> {})}
        \cup {(r1 :> types @@ r2 :> {} @@ r3 :> {}) : types \in Alone}}
AskedPhishing == {(r1 :> {"phishing"})}
=============================================================================
