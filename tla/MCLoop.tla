------------------------------- MODULE MCLoop -------------------------------
(* The instances of Loop that TLC checks.                                    *)
EXTENDS Loop
=============================================================================
