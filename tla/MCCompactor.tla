----------------------------- MODULE MCCompactor -----------------------------
(* Small instances of Compactor for TLC. *)
EXTENDS Compactor

\* Below and above the threshold, and what a gateway reports that counts nothing.
ReportedUsages == {-1, 0, 200, 800}
=============================================================================
