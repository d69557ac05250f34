-------------------------- MODULE MCDetectorRuns --------------------------
(***************************************************************************)
(* Small instances of DetectorRuns for TLC.                                *)
(***************************************************************************)
EXTENDS DetectorRuns, TLC

CONSTANTS b1, b2, d1, d2, waf, exploitation

\* A list with a domain that two vendors have, and another domain.
Lists == {<<d1, d1>>, <<d2>>}
OneVendor == {<<d1>>}

\* All types in the registry's order, or part of them.
Asked == {<<>>, <<exploitation>>}
AskedOne == {<<exploitation>>}
Registry == <<exploitation, waf>>
=============================================================================
