------------------------------ MODULE ActionLog ------------------------------
(***************************************************************************)
(* The action log: the entries of internal/store/store.go, who writes them *)
(* in internal/session/session.go, and how DoLogged brings the key press   *)
(* or click that triggers an action into the session it opens.             *)
(*                                                                         *)
(* Session has what an action does; here it only opens, ends, and writes.  *)
(***************************************************************************)
EXTENDS Integers, Sequences

CONSTANTS
    KeepActions,  \* --keep-actions
    MaxEntries, MaxSessions, MaxStops, MaxFaults,   \* bounds
    Faults        \* the kinds of operation that may fail

FaultKinds == {"append", "attach", "create", "mkdir", "finish", "trim", "find"}

ASSUME LogAssumption ==
    /\ KeepActions \in Nat
    /\ MaxEntries \in Nat /\ MaxSessions \in Nat
    /\ MaxStops \in Nat /\ MaxFaults \in Nat
    /\ Faults \subseteq FaultKinds

Sessions == 1..MaxSessions
None     == 0   \* no session, no entry

Actions == {"none", "scan-new", "scan-page", "finish"}  \* discard ends it too

VARIABLES
    log,          \* entries in order of id, and of each the session it names
    trimmed,      \* those up to this id have been deleted
    lastSession,  \* the id of the newest session
    ended,        \* the sessions whose row says they have ended
    current,      \* State().SessionID
    pc,           \* where the loop is
    action,       \* what the loop is asked to do
    entry, pre,   \* DoLogged's actionID and preSessionID
    opened,       \* history: the session the action has opened
    stops, faults

sessionVars == <<lastSession, ended>>
actionVars  == <<action, entry, pre, opened>>
logVars == <<log, trimmed, sessionVars, current, pc, actionVars, stops, faults>>

Init ==
    /\ log = << >> /\ trimmed = 0
    /\ lastSession = 0 /\ ended = {} /\ current = None
    /\ pc = "trim" /\ action = "none"
    /\ entry = None /\ pre = None /\ opened = None
    /\ stops = 0 /\ faults = 0

Fault(k) == k \in Faults /\ faults < MaxFaults /\ faults' = faults + 1

Written(s) ==
    /\ Len(log) < MaxEntries
    /\ log' = Append(log, s)

\* An entry that cannot be written is only warned about, its id is 0.
Record(s) ==
    \/ Written(s) /\ UNCHANGED faults
    \/ Fault("append") /\ UNCHANGED log

-----------------------------------------------------------------------------
(* DoLogged, and the actions without a trigger.                            *)

\* A key press or a click is written down before it is acted on.
Trigger ==
    /\ pc = "idle" /\ pc' = "do" /\ action' \in Actions \ {"none"}
    /\ Record(current)
    /\ entry' = IF log' = log THEN None ELSE Len(log')
    /\ pre' = current /\ opened' = None
    /\ UNCHANGED <<trimmed, sessionVars, current, stops>>

\* The idle timer's entry belongs to the session it is going to finish.
IdleTimeout ==
    /\ pc = "idle" /\ current # None /\ pc' = "do" /\ action' = "finish"
    /\ Record(current)
    /\ entry' = None /\ pre' = current /\ opened' = None
    /\ UNCHANGED <<trimmed, sessionVars, current, stops>>

IgnoreKey ==
    /\ pc = "idle" /\ Record(current)
    /\ UNCHANGED <<trimmed, sessionVars, current, pc, actionVars, stops>>

\* scan-new finishes first, if the session has pages.
FinishSession ==
    /\ pc = "do" /\ action \in {"finish", "scan-new"} /\ pc' = "clear"
    /\ current # None /\ opened = None
    /\ \/ /\ Written(current) /\ UNCHANGED faults
          /\ ended' = ended \cup {current}
       \/ Fault("finish") /\ UNCHANGED <<log, ended>>
    /\ UNCHANGED <<trimmed, lastSession, current, actionVars, stops>>

Clear ==
    /\ pc = "clear" /\ pc' = "do" /\ current' = None
    /\ UNCHANGED <<log, trimmed, sessionVars, actionVars, stops, faults>>

Starting == pc = "do" /\ action # "finish" /\ current = None /\ opened = None

CreateSession ==
    /\ Starting /\ pc' = "mkdir"
    /\ lastSession < MaxSessions /\ lastSession' = lastSession + 1
    /\ opened' = lastSession'
    /\ Written(lastSession')
    /\ UNCHANGED <<trimmed, ended, current, action, entry, pre, stops, faults>>

CreateSessionFails ==
    /\ Starting /\ pc' = "attach" /\ Fault("create")
    /\ UNCHANGED <<log, trimmed, sessionVars, current, actionVars, stops>>

MakeWorkDir ==
    /\ pc = "mkdir"
    /\ \/ pc' = "do" /\ current' = opened /\ UNCHANGED faults
       \/ pc' = "attach" /\ UNCHANGED current /\ Fault("mkdir")
    /\ UNCHANGED <<log, trimmed, sessionVars, actionVars, stops>>

\* With a session that a page was scanned for; without one that it has ended,
\* or could not be stored, which scan-new does not go on from.
Return ==
    /\ pc = "do" /\ pc' = "attach"
    /\ IF action = "finish" THEN current = None
       ELSE current # None \/ (action = "scan-new" /\ pre # None)
    /\ UNCHANGED <<log, trimmed, sessionVars, current, actionVars, stops, faults>>

\* Mutation of SetActionSessionID: every entry from it on.
SetActionSessionIDOnwards(id, s) ==
    log' = [i \in DOMAIN log |->
               IF id > trimmed /\ i >= id THEN s ELSE log[i]]

\* It only touches entries without a session, and none that are gone.
SetActionSessionID(id, s) ==
    log' = IF id > trimmed /\ log[id] = None
           THEN [log EXCEPT ![id] = s] ELSE log

\* Mutation of Attach: to the newest session, whether the action opened it or not.
AttachToNewest ==
    /\ pc = "attach" /\ pc' = "idle"
    /\ IF pre = None /\ lastSession # None
       THEN \/ SetActionSessionID(entry, lastSession) /\ UNCHANGED faults
            \/ Fault("attach") /\ UNCHANGED log
       ELSE UNCHANGED <<log, faults>>
    /\ UNCHANGED <<trimmed, sessionVars, current, actionVars, stops>>

Attach ==
    /\ pc = "attach" /\ pc' = "idle"
    /\ IF pre = None /\ current # None
       THEN \/ SetActionSessionID(entry, current) /\ UNCHANGED faults
            \/ Fault("attach") /\ UNCHANGED log
       ELSE UNCHANGED <<log, faults>>
    /\ UNCHANGED <<trimmed, sessionVars, current, actionVars, stops>>

-----------------------------------------------------------------------------
(* Beside it, stops and starts.                                            *)

Serving == pc \notin {"trim", "recover"}

\* Pages of the open session, by the loop or a goroutine; uploads of ended
\* ones, by the loop or a retry.
SessionEvent(s) ==
    /\ Serving
    /\ s \in ended \/ (s = current /\ s # None)
    /\ Written(s)
    /\ UNCHANGED <<trimmed, sessionVars, current, pc, actionVars, stops, faults>>

RecordStopped ==
    /\ pc = "idle" /\ pc' = "stopping" /\ Record(None)
    /\ UNCHANGED <<trimmed, sessionVars, current, actionVars, stops>>

\* The process is gone, after RecordStopped or at any time.
Stop ==
    /\ stops < MaxStops /\ stops' = stops + 1 /\ pc' = "trim"
    /\ current' = None /\ action' = "none"
    /\ entry' = None /\ pre' = None /\ opened' = None
    /\ UNCHANGED <<log, trimmed, sessionVars, faults>>

Kept(n) == IF n > 0 /\ Len(log) - trimmed > n THEN Len(log) - n ELSE trimmed

\* Mutation of TrimActions: the offset counts from one.
TrimActionsShort ==
    /\ pc = "trim" /\ pc' = "recover"
    /\ \/ trimmed' = Kept(KeepActions - 1) /\ UNCHANGED faults
       \/ Fault("trim") /\ UNCHANGED trimmed
    /\ UNCHANGED <<log, sessionVars, current, actionVars, stops>>

TrimActions ==
    /\ pc = "trim" /\ pc' = "recover"
    /\ \/ trimmed' = Kept(KeepActions) /\ UNCHANGED faults
       \/ Fault("trim") /\ UNCHANGED trimmed
    /\ UNCHANGED <<log, sessionVars, current, actionVars, stops>>

\* ActiveSession: the newest session whose row does not say it has ended.
IsActiveSession(s) ==
    /\ s \in 1..lastSession \ ended
    /\ \A t \in 1..lastSession \ ended : t <= s

\* New resumes it, or ends it when its directory is gone.
Recover ==
    /\ pc = "recover" /\ pc' = "start"
    /\ \/ /\ 1..lastSession \subseteq ended
          /\ UNCHANGED <<log, ended, current, faults>>
       \/ Fault("find") /\ UNCHANGED <<log, ended, current>>
       \/ \E s \in Sessions :
              /\ IsActiveSession(s)
              /\ \/ current' = s /\ UNCHANGED <<log, ended, faults>>
                 \/ /\ Written(s) /\ ended' = ended \cup {s}
                    /\ UNCHANGED <<current, faults>>
                 \/ Fault("finish") /\ UNCHANGED <<log, ended, current>>
    /\ UNCHANGED <<trimmed, lastSession, actionVars, stops>>

RecordStarted ==
    /\ pc = "start" /\ pc' = "idle" /\ Record(None)
    /\ UNCHANGED <<trimmed, sessionVars, current, actionVars, stops>>

-----------------------------------------------------------------------------

LogNext ==
    \/ Trigger \/ IdleTimeout \/ IgnoreKey
    \/ FinishSession \/ Clear \/ CreateSession \/ CreateSessionFails
    \/ MakeWorkDir \/ Return \/ Attach
    \/ \E s \in Sessions : SessionEvent(s)
    \/ RecordStopped \/ Stop \/ TrimActions \/ Recover \/ RecordStarted

\* Every variable has its type.
EntriesType ==
    /\ log \in Seq(Sessions \cup {None}) /\ Len(log) <= MaxEntries
    /\ trimmed \in 0..Len(log) /\ entry \in 0..Len(log)
SessionsType ==
    /\ lastSession \in 0..MaxSessions /\ ended \subseteq 1..lastSession
    /\ current \in 0..lastSession /\ pre \in 0..lastSession
    /\ opened \in 0..lastSession
ControlType ==
    /\ pc \in {"trim", "recover", "start", "idle", "do", "clear", "mkdir",
               "attach", "stopping"}
    /\ action \in Actions
CountersType == stops \in 0..MaxStops /\ faults \in 0..MaxFaults
LogTypeOK == EntriesType /\ SessionsType /\ ControlType /\ CountersType

\* An action's trigger is in the session that was open, or in the one the
\* action opened, and in no other; it is left in none only if something failed.
TriggerIsInSession ==
    pc = "idle" /\ entry # None =>
        LET s == log[entry]
        IN  \/ s = IF pre # None THEN pre ELSE opened
            \/ s = None /\ faults > 0

\* Trimming keeps the newest entries, as many as it was told to.
NewestKept == trimmed = 0 \/ trimmed + KeepActions <= Len(log)

\* An entry's session, once it has one, is its session for good.
SessionIsFinal ==
    [][\A i \in 1..Len(log) :
           log[i] # None => log'[i] = log[i]]_logVars
=============================================================================
