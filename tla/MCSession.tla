------------------------------ MODULE MCSession ------------------------------
(* The instances of Session that TLC checks: what may fail in each.          *)
EXTENDS SessionProperties, SessionRefinement

NothingFails == {}

\* With crashes: the failures that shape what a restart finds.
RecoveryFaults == {"process", "merge", "remove"}

AllFaults == FaultKinds

OnlyAddPage   == {"add-page"}
=============================================================================
