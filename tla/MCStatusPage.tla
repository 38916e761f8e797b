---------------------------- MODULE MCStatusPage ----------------------------
(* The instance of StatusPage that TLC checks.                              *)
EXTENDS StatusPage

AllFaults == FaultKinds
=============================================================================
