--------------------------- MODULE MCAssessments --------------------------
(***************************************************************************)
(* Small instances of Assessments for TLC.                                 *)
(***************************************************************************)
EXTENDS Assessments, TLC

CONSTANTS j1, j2, s1, s2, d1, d2, v1, v2, g1

OneVendor == {<<d1>>}
=============================================================================
