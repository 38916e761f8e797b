----------------------------- MODULE StatusPage -----------------------------
(***************************************************************************)
(* The status page: internal/web/web.go reads sessions and entries of the  *)
(* action log, one query after the other, while the daemon goes on writing *)
(* and attaching them, and internal/web/render.go makes blocks of what it  *)
(* read.                                                                   *)
(*                                                                         *)
(* One request at a time: requests only read.  Blocks are sets of entries; *)
(* the order of and in them goes by id and time, and is not modelled.      *)
(***************************************************************************)
EXTENDS ActionLog, FiniteSets

CONSTANTS SessionLimit, ActionsLimit   \* Options.Limit and ActionsLimit

ASSUME PageAssumption == SessionLimit \in Nat \ {0} /\ ActionsLimit \in Nat \ {0}

VARIABLES
    stage,    \* of the request: "idle", "loading", "read"
    listed,   \* sessions, what RecentSessions returned
    todo,     \* those of them whose entries have not been read
    blocks,   \* what the page will show
    begin     \* history: the log when the request began

pageVars == <<stage, listed, todo, blocks, begin>>

Block == [session : Sessions \cup {None}, entries : SUBSET (1..MaxEntries)]

PageReset ==
    /\ stage' = "idle" /\ listed' = {} /\ todo' = {} /\ blocks' = {}
    /\ begin' = << >>

RecentSessions == {s \in 1..lastSession : s > lastSession - SessionLimit}

SessionActions(s) == {i \in trimmed + 1..Len(log) : log[i] = s}

\* Of the log l: the mutations need another one.
RecentActions(l) == {i \in trimmed + 1..Len(l) : i > Len(l) - ActionsLimit}

\* Mutation of SystemRuns: the newest entry begins no run.
SystemRunsUnbegun(l) ==
    LET Alone(i) == i \in RecentActions(l) /\ l[i] = None
    IN  {{j \in RecentActions(l) : j <= i /\ \A k \in j..i : Alone(k)} :
            i \in {k \in 1..Len(l) - 1 : Alone(k) /\ ~Alone(k + 1)}}

\* The runs of entries without a session, each from its newest entry on.
SystemRuns(l) ==
    LET Alone(i) == i \in RecentActions(l) /\ l[i] = None
    IN  {{j \in RecentActions(l) : j <= i /\ \A k \in j..i : Alone(k)} :
            i \in {k \in 1..Len(l) : Alone(k) /\ ~Alone(k + 1)}}

LoadSessions ==
    /\ Serving /\ stage = "idle" /\ stage' = "loading"
    /\ listed' = RecentSessions /\ todo' = RecentSessions
    /\ blocks' = {} /\ begin' = log
    /\ UNCHANGED logVars

LoadActions(s) ==
    /\ stage = "loading" /\ s \in todo /\ \A t \in todo : t <= s
    /\ todo' = todo \ {s}
    /\ blocks' = blocks \cup {[session |-> s, entries |-> SessionActions(s)]}
    /\ UNCHANGED <<logVars, stage, listed, begin>>

\* Mutation of LoadRecent: the recent entries are read first of all.
LoadRecentFirst ==
    /\ stage = "loading" /\ todo = {} /\ stage' = "read"
    /\ blocks' = blocks \cup
           {[session |-> None, entries |-> run] : run \in SystemRuns(begin)}
    /\ UNCHANGED <<logVars, listed, todo, begin>>

LoadRecent ==
    /\ stage = "loading" /\ todo = {} /\ stage' = "read"
    /\ blocks' = blocks \cup
           {[session |-> None, entries |-> run] : run \in SystemRuns(log)}
    /\ UNCHANGED <<logVars, listed, todo, begin>>

\* The page is rendered, or a query failed and the request with it.
Respond == stage # "idle" /\ PageReset /\ UNCHANGED logVars

\* The daemon goes on; when it stops, so does the request.
DaemonStep ==
    /\ LogNext
    /\ IF Serving' THEN UNCHANGED pageVars ELSE PageReset

Next ==
    \/ DaemonStep
    \/ LoadSessions \/ (\E s \in Sessions : LoadActions(s)) \/ LoadRecent
    \/ Respond

vars == <<logVars, pageVars>>

PageInit ==
    /\ Init
    /\ stage = "idle" /\ listed = {} /\ todo = {} /\ blocks = {} /\ begin = << >>

Spec == PageInit /\ [][Next]_vars

-----------------------------------------------------------------------------

\* Every variable has its type.
PageType ==
    /\ stage \in {"idle", "loading", "read"}
    /\ todo \subseteq listed /\ listed \subseteq 1..lastSession
    /\ blocks \subseteq Block
    /\ begin \in Seq(Sessions \cup {None}) /\ Len(begin) <= Len(log)
TypeOK == LogTypeOK /\ PageType

\* No entry is shown twice, although entries move into a session between the
\* queries: whoever reads the session first finds it gone from the rest.
ShownOnce ==
    stage = "read" =>
        \A a, b \in blocks : a # b => a.entries \cap b.entries = {}

\* Of the recent entries the page shows those that were there when it began,
\* stayed where they were, and belong to a session it lists or to none.
RecentShown ==
    [][stage = "loading" /\ stage' = "read" =>
           \A i \in RecentActions(log) \cap 1..Len(begin) :
               log[i] = begin[i] /\ log[i] \in listed \cup {None}
               => \E b \in blocks' : i \in b.entries]_vars
=============================================================================
