---------------------------- MODULE Lookalikes ----------------------------
(***************************************************************************)
(* The search for lookalike domains as a function of what the network      *)
(* holds and of the look-ups that fail: run_phishing_detector in           *)
(* app/detectors/phishing.py.  The candidates are looked up side by side   *)
(* and share nothing, and gather keeps their order, so the outcome does    *)
(* not depend on who is first; the spelling of a candidate is left out.    *)
(***************************************************************************)
EXTENDS Integers, Sequences, FiniteSets

CONSTANTS
    Candidates,   \* what _generate_candidates returns, in order: what is true of each domain
    CandidateCap, \* max_candidates_to_check
    ShownItems    \* [:8] of _finding_detail_rows

\* A site that answers is the vendor's own or another one.
Sites == {"silent", "vendor's", "other"}

ASSUME LookalikeAssumption ==
    /\ Candidates \in Seq([certificate : BOOLEAN, https : Sites, http : Sites])
    /\ CandidateCap \in Nat \ {0} /\ ShownItems \in Nat \ {0}

Checked == DOMAIN Candidates \cap 1..CandidateCap

\* a look-up that fails and one that finds nothing told apart by nobody
TwoAnswers(i, lost) == IF Candidates[i].certificate /\ i \notin lost THEN "found" ELSE "absent"

\* _check_certificate_exists: True, False or None
CheckCertificateExists(i, lost) ==
    IF i \in lost THEN "unknown" ELSE IF Candidates[i].certificate THEN "found" ELSE "absent"

\* _check_reachability: the first scheme that answers.
CheckReachability(i, dead) ==
    LET c == Candidates[i]
    IN  IF c.https # "silent" /\ <<i, "https">> \notin dead THEN c.https
        ELSE IF c.http # "silent" /\ <<i, "http">> \notin dead THEN c.http
        ELSE "silent"

\* sites out of reach before the others
DarkFirst(site) == CASE site = "silent" -> 0 [] site = "other" -> 1 [] site = "vendor's" -> 2

\* The key of the sort: "live + not redirecting to the real domain (highest
\* concern) first".
Concern(site) == CASE site = "other" -> 0 [] site = "vendor's" -> 1 [] site = "silent" -> 2

\* The hits that come before one of them: the sort is stable.
Ahead(hits, dead, i) ==
    LET Key(h) == Concern(CheckReachability(h, dead))
    IN  {h \in hits : Key(h) < Key(i) \/ (Key(h) = Key(i) /\ h < i)}

Sorted(hits, dead) ==
    [k \in 1..Cardinality(hits) |-> CHOOSE i \in hits : Cardinality(Ahead(hits, dead, i)) = k - 1]

\* The whole run, given the certificate look-ups that are lost and the sites
\* that do not answer although they are there.
RunPhishingDetector(lost, dead) ==
    LET answer == [i \in Checked |-> CheckCertificateExists(i, lost)]
        order == Sorted({i \in Checked : answer[i] = "found"}, dead)
        unknown == {i \in Checked : answer[i] = "unknown"}
    IN  [leads |-> [k \in DOMAIN order |->
                       [candidate |-> order[k], site |-> CheckReachability(order[k], dead)]],
         inconclusive |-> Cardinality(unknown),
         error |-> Checked # {} /\ unknown = Checked]

\* an exception: nothing but the error is kept
PhishingRaised == [leads |-> <<>>, inconclusive |-> 0, error |-> TRUE]

NoPhishing == [leads |-> <<>>, inconclusive |-> 0, error |-> FALSE]

\* What a report prints of the leads.
Shown(leads) == SubSeq(leads, 1, IF Len(leads) < ShownItems THEN Len(leads) ELSE ShownItems)
=============================================================================
