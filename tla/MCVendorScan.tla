--------------------------- MODULE MCVendorScan ---------------------------
(***************************************************************************)
(* A small instance of VendorScan: a sound vendor, a bad one that scores   *)
(* nothing, one in between whose site has no https, and one that is down.  *)
(***************************************************************************)
EXTENDS VendorScan, TLC

Headers(signature, csp, cors, credentials) ==
    [signature |-> signature, server |-> "Akamai", csp |-> csp, cors |-> cors, credentials |-> credentials]

Sound ==
    [https |-> TRUE, http |-> TRUE, security |-> SecurityHeaders, headers |-> Headers("Cloudflare", {}, FALSE, FALSE),
     cert |-> "valid", tls |-> "current", spf |-> TRUE, dmarc |-> "enforced", selectors |-> {"default", "google"},
     mx |-> TRUE, names |-> {1}, cves |-> <<>>, dangling |-> (1 :> None),
     nameservers |-> {"ns1"}, asn |-> "Cloudflare Inc", ptr |-> "AWS"]

Middling ==
    [Sound EXCEPT !.cert = "expiring", !.security = {"referrer-policy"}, !.dmarc = "none", !.selectors = {"google"},
                  !.headers = Headers(None, {"absent"}, TRUE, FALSE), !.names = {1, 2, 3},
                  !.dangling = (1 :> None @@ 2 :> "Heroku" @@ 3 :> "AWS S3"),
                  !.cves = <<"LOW", "MEDIUM">>, !.asn = None]

Bad ==
    [Middling EXCEPT !.https = FALSE, !.security = {}, !.cert = "invalid", !.spf = FALSE, !.dmarc = "absent",
                     !.selectors = {}, !.cves = <<"LOW", "MEDIUM", "CRITICAL">>,
                     !.headers = Headers(None, {"unsafe-eval"}, TRUE, TRUE)]

\* A critical CVE that is the fourth of four, of which three are taken.
LateCve == [Sound EXCEPT !.cves = <<"LOW", "MEDIUM", "LOW", "CRITICAL">>, !.tls = "outdated", !.ptr = None, !.asn = None]

Down == [Bad EXCEPT !.http = FALSE]

AllWorlds == {Sound, Middling, Bad, LateCve, Down}
AllSelections == {Range(Detectors), {"vulnerability", "concentration_risk"}}
=============================================================================
