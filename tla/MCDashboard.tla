---------------------------- MODULE MCDashboard ----------------------------
(* TLC instance of Dashboard; the values of the constants are in the .cfg. *)
EXTENDS Dashboard
=============================================================================
