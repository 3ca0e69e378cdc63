---------------------------- MODULE MCAdmission -----------------------------
(* Three requests at once and limits below, at and above what they reach.  *)
EXTENDS Admission

MCLimits == 0 .. 2
=============================================================================
