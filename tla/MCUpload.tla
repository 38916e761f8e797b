------------------------------ MODULE MCUpload ------------------------------
(* The instances of Upload that TLC checks.                                  *)
EXTENDS Upload

AllFaults  == FaultKinds
OnlyRefuse == {"refuse"}
=============================================================================
