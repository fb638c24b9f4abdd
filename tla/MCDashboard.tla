---------------------------- MODULE MCDashboard ----------------------------
(***************************************************************************)
(* Instances of Dashboard for TLC: three requests and two connections.     *)
(***************************************************************************)
EXTENDS Dashboard

CONSTANTS r1, r2, r3
=============================================================================
