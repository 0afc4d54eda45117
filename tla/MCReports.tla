------------------------------ MODULE MCReports ------------------------------
(***************************************************************************)
(* An instance of Reports for TLC: iterations are few, ids are two.        *)
(***************************************************************************)
EXTENDS Reports
=============================================================================
