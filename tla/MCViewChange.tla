----------------------------- MODULE MCViewChange -----------------------------
(* Small instances of ViewChange for TLC.                                   *)
EXTENDS ViewChange, TLC

CONSTANTS s1, s2, s3

\* The servers of a cluster that can be reached, in the order in which they lead
\* its views.  The fourth one is the failure that F = 1 allows.
Members == <<s1, s2, s3>>
=============================================================================
