-------------------------- MODULE SessionRefinement --------------------------
(***************************************************************************)
(* Session implements SessionLifecycle: the abstract life of a session is  *)
(* the status of its row, its document what the named file holds.  Goes    *)
(* for runs in which no database or directory operation fails; crashes,    *)
(* failing scans, conversions, merges and uploads are stuttering steps.    *)
(***************************************************************************)
EXTENDS Session

LifeOf == [s \in Sessions |-> rowStatus[s]]

DocumentOf ==
    [s \in Sessions |->
        IF rowStatus[s] = "saved" THEN docs[rowOutput[s]].content ELSE << >>]

Lifecycle == INSTANCE SessionLifecycle WITH
    Sessions <- Sessions, Images <- Images, Broken <- Torn,
    life <- LifeOf, taken <- taken, document <- DocumentOf,
    stopped <- crashes > 0

\* The manager, its database and its disk, crashes included, are one state
\* machine of sessions that end once, with all their pages.
ImplementsLifecycle == Lifecycle!Spec
=============================================================================
