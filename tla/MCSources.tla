----------------------------- MODULE MCSources ------------------------------
(* The instance of Sources that TLC checks.                                  *)
EXTENDS Sources
=============================================================================
