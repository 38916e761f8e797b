-------------------------- MODULE SessionLifecycle --------------------------
(***************************************************************************)
(* What scantool promises of its sessions, with no process, disk or crash  *)
(* in sight: one session is open at a time, it collects pages, and it ends *)
(* once, saved as a document of exactly these pages, failed, or discarded. *)
(* Only after the daemon was stopped may a document of one page be broken. *)
(***************************************************************************)
EXTENDS Naturals, Sequences

CONSTANTS
    Sessions, Images,   \* sets of numbers
    Broken              \* a page that was cut short

VARIABLES
    life,      \* where each session is in its life
    taken,     \* the pages it has collected, in order
    document,  \* the document it ended as, empty for none
    stopped    \* the daemon has been stopped

vars == <<life, taken, document, stopped>>

Init ==
    /\ life = [s \in Sessions |-> "none"]
    /\ taken = [s \in Sessions |-> << >>]
    /\ document = [s \in Sessions |-> << >>]
    /\ stopped = FALSE

\* Sessions are numbered in the order they are opened.
Open(s) ==
    /\ life[s] = "none"
    /\ \A t \in Sessions : life[t] # "active" /\ (t < s => life[t] # "none")
    /\ life' = [life EXCEPT ![s] = "active"]
    /\ UNCHANGED <<taken, document, stopped>>

\* An image becomes a page once.
Take(s, k) ==
    /\ life[s] = "active"
    /\ \A t \in Sessions : \A i \in 1..Len(taken[t]) : taken[t][i] # k
    /\ taken' = [taken EXCEPT ![s] = Append(@, k)]
    /\ UNCHANGED <<life, document, stopped>>

Save(s) ==
    /\ life[s] = "active" /\ taken[s] # << >>
    /\ life' = [life EXCEPT ![s] = "saved"]
    /\ \/ document' = [document EXCEPT ![s] = taken[s]]
       \/ /\ stopped /\ Len(taken[s]) = 1
          /\ document' = [document EXCEPT ![s] = <<Broken>>]
    /\ UNCHANGED <<taken, stopped>>

Drop(s, end) ==
    /\ life[s] = "active"
    /\ life' = [life EXCEPT ![s] = end]
    /\ UNCHANGED <<taken, document, stopped>>

Stop == stopped' = TRUE /\ UNCHANGED <<life, taken, document>>

Next ==
    \/ Stop
    \/ \E s \in Sessions :
           \/ Open(s) \/ Save(s)
           \/ Drop(s, "failed") \/ Drop(s, "discarded")
           \/ \E k \in Images : Take(s, k)

Spec == Init /\ [][Next]_vars
=============================================================================
