----------------------------- MODULE MCSaneScan -----------------------------
(* The instance of SaneScan that TLC checks.                                 *)
EXTENDS SaneScan
=============================================================================
