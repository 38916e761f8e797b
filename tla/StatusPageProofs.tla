-------------------------- MODULE StatusPageProofs --------------------------
(***************************************************************************)
(* Theorems about the action log and the page that shows it, for any       *)
(* number of sessions and entries, any failures, stops and limits.         *)
(***************************************************************************)
EXTENDS StatusPage, TLAPS, FiniteSetTheorems

-----------------------------------------------------------------------------
(* What a step of the daemon makes of the log.                             *)

\* An attached entry: the one DoLogged has just written, unless it has a session.
Attached(s) ==
    /\ Attach /\ pre = None /\ s = current /\ s # None
    /\ entry > trimmed /\ log[entry] = None /\ log' = [log EXCEPT ![entry] = s]

\* Every step leaves the log as it is, appends to it, or attaches an entry.
LEMMA LogStep ==
    ASSUME SessionsType, LogNext
    PROVE  \/ log' = log
           \/ \E s \in Sessions \cup {None} : Written(s)
           \/ \E s \in Sessions : Attached(s)
  <1> DEFINE Appends == log' = log \/ \E s \in Sessions \cup {None} : Written(s)
  <1>1. current \in Sessions \cup {None} /\ None \in Sessions \cup {None}
    BY LogAssumption DEF SessionsType, Sessions, None
  <1>2. ASSUME NEW s \in Sessions \cup {None}, Record(s)  PROVE Appends
    BY <1>2 DEF Record
  <1>3. ASSUME Trigger \/ IdleTimeout \/ IgnoreKey  PROVE Appends
    BY <1>1, <1>2, <1>3 DEF Trigger, IdleTimeout, IgnoreKey
  <1>4. ASSUME RecordStopped \/ RecordStarted  PROVE Appends
    BY <1>1, <1>2, <1>4 DEF RecordStopped, RecordStarted
  <1>5. ASSUME FinishSession  PROVE Appends
    BY <1>1, <1>5 DEF FinishSession
  <1>6. ASSUME CreateSession  PROVE Appends
    <2>1. lastSession \in Nat /\ lastSession < MaxSessions
      BY <1>6, LogAssumption DEF CreateSession, SessionsType
    <2>2. lastSession + 1 \in Sessions
      BY <2>1, LogAssumption DEF Sessions
    <2> QED  BY <1>6, <2>2 DEF CreateSession
  <1>7. ASSUME NEW s \in Sessions, SessionEvent(s)  PROVE Appends
    BY <1>7 DEF SessionEvent
  <1>8. ASSUME Recover  PROVE Appends
    BY <1>8 DEF Recover
  <1>9. ASSUME \/ Clear \/ CreateSessionFails \/ MakeWorkDir \/ Return \/ Stop
               \/ TrimActions
        PROVE  Appends
    BY <1>9 DEF Clear, CreateSessionFails, MakeWorkDir, Return, Stop, TrimActions
  <1>10. ASSUME Attach  PROVE log' = log \/ \E s \in Sessions : Attached(s)
    <2>1. current # None => current \in Sessions
      BY <1>1
    <2> QED  BY <1>10, <2>1 DEF Attach, Attached, SetActionSessionID
  <1> QED
    BY <1>3, <1>4, <1>5, <1>6, <1>7, <1>8, <1>9, <1>10 DEF LogNext

\* So it never shrinks, and an entry that has a session keeps it.
LEMMA LogStays ==
    ASSUME EntriesType, SessionsType, LogNext
    PROVE  /\ log' \in Seq(Sessions \cup {None})
           /\ Len(log) <= Len(log') /\ Len(log') <= MaxEntries
           /\ \A i \in 1..Len(log) : log[i] # None => log'[i] = log[i]
           /\ \A i \in 1..Len(log) :
                  log'[i] = log[i] \/ (i = entry /\ Attached(log'[i]))
  <1> DEFINE E == Sessions \cup {None}
  <1>1. log \in Seq(E) /\ Len(log) \in Nat /\ Len(log) <= MaxEntries
    BY DEF EntriesType
  <1> HIDE DEF E
  <1>2. ASSUME NEW s \in E, Written(s)
        PROVE  /\ log' \in Seq(E) /\ Len(log') = Len(log) + 1
               /\ Len(log) < MaxEntries
               /\ \A i \in 1..Len(log) : log'[i] = log[i]
    <2>1. log' = Append(log, s) /\ Len(log) < MaxEntries
      BY <1>2 DEF Written
    <2> QED  BY <1>1, <2>1
  <1>3. ASSUME NEW s \in Sessions, Attached(s)
        PROVE  /\ log' \in Seq(E) /\ Len(log') = Len(log)
               /\ \A i \in 1..Len(log) : i # entry => log'[i] = log[i]
               /\ log[entry] = None /\ log'[entry] = s
    <2>1. log' = [log EXCEPT ![entry] = s] /\ s \in E /\ log[entry] = None
      BY <1>3 DEF Attached, E
    <2>2. entry \in 1..Len(log)
      BY <1>3 DEF Attached, EntriesType
    <2> QED  BY <1>1, <2>1, <2>2
  <1>4. CASE log' = log
    BY <1>1, <1>4 DEF E
  <1>5. CASE \E s \in E : Written(s)
    <2>1. PICK s \in E : Written(s)
      BY <1>5
    <2> QED  BY <1>1, <1>2, <2>1, LogAssumption DEF E
  <1>6. CASE \E s \in Sessions : Attached(s)
    <2>1. PICK s \in Sessions : Attached(s)
      BY <1>6
    <2> QED  BY <1>1, <1>3, <2>1 DEF E
  <1> QED
    BY <1>4, <1>5, <1>6, LogStep DEF E
-----------------------------------------------------------------------------
(* Types.                                                                  *)

LEMMA KeptType ==
    ASSUME EntriesType, NEW n \in Nat
    PROVE  Kept(n) \in 0..Len(log)
  <1>1. log \in Seq(Sessions \cup {None}) /\ trimmed \in 0..Len(log)
    BY DEF EntriesType
  <1>2. Len(log) \in Nat
    BY <1>1
  <1> QED  BY <1>1, <1>2 DEF Kept

LEMMA EntriesTypeStep ==
    ASSUME EntriesType, SessionsType, LogNext
    PROVE  EntriesType'
  <1>1. /\ log' \in Seq(Sessions \cup {None})
        /\ Len(log) <= Len(log') /\ Len(log') <= MaxEntries
    BY LogStays
  <1>2. /\ Len(log) \in Nat /\ Len(log') \in Nat
        /\ trimmed \in 0..Len(log) /\ entry \in 0..Len(log)
    BY <1>1 DEF EntriesType
  <1>3. trimmed' = trimmed \/ trimmed' \in 0..Len(log)
    <2>1. ASSUME TrimActions  PROVE trimmed' = trimmed \/ trimmed' \in 0..Len(log)
      BY <2>1, KeptType, LogAssumption DEF TrimActions
    <2>2. ASSUME LogNext, ~TrimActions  PROVE trimmed' = trimmed
      BY <2>2 DEF LogNext, Trigger, IdleTimeout, IgnoreKey, FinishSession, Clear,
           CreateSession, CreateSessionFails, MakeWorkDir, Return, Attach,
           SessionEvent, RecordStopped, Stop, Recover, RecordStarted
    <2> QED  BY <2>1, <2>2
  <1>4. entry' = entry \/ entry' = 0 \/ entry' = Len(log')
    BY DEF LogNext, Trigger, IdleTimeout, IgnoreKey, FinishSession, Clear,
         CreateSession, CreateSessionFails, MakeWorkDir, Return, Attach,
         SessionEvent, RecordStopped, Stop, TrimActions, Recover, RecordStarted,
         actionVars, None
  <1>5. trimmed' \in 0..Len(log') /\ entry' \in 0..Len(log')
    BY <1>1, <1>2, <1>3, <1>4
  <1> QED  BY <1>1, <1>5 DEF EntriesType

LEMMA SessionsTypeStep ==
    ASSUME SessionsType, LogNext
    PROVE  SessionsType'
  <1> DEFINE Known == 1..lastSession
  <1>1. /\ lastSession \in 0..MaxSessions /\ ended \subseteq Known
        /\ current \in Known \cup {0} /\ pre \in Known \cup {0}
        /\ opened \in Known \cup {0}
    BY DEF SessionsType
  <1>2. \/ lastSession' = lastSession
        \/ lastSession' = lastSession + 1 /\ lastSession < MaxSessions
    BY DEF LogNext, Trigger, IdleTimeout, IgnoreKey, FinishSession, Clear,
         CreateSession, CreateSessionFails, MakeWorkDir, Return, Attach,
         SessionEvent, RecordStopped, Stop, TrimActions, Recover, RecordStarted,
         sessionVars
  <1>3. lastSession' \in 0..MaxSessions /\ Known \subseteq 1..lastSession'
    BY <1>1, <1>2, LogAssumption
  <1> HIDE DEF Known
  <1>4. ended' \subseteq Known /\ current' \in Known \cup {0}
    <2>1. ASSUME NEW s \in Sessions, IsActiveSession(s)  PROVE s \in Known
      BY <2>1 DEF IsActiveSession, Known
    <2>2. CASE Recover
      BY <1>1, <2>1, <2>2 DEF Recover, None
    <2>3. CASE FinishSession
      BY <1>1, <2>3 DEF FinishSession, None
    <2>4. CASE MakeWorkDir
      BY <1>1, <2>4 DEF MakeWorkDir, sessionVars
    <2>5. CASE CreateSession
      BY <1>1, <2>5 DEF CreateSession
    <2>6. CASE \/ Trigger \/ IdleTimeout \/ IgnoreKey \/ Clear \/ CreateSessionFails
               \/ Return \/ Attach \/ RecordStopped \/ Stop \/ TrimActions
               \/ RecordStarted \/ \E s \in Sessions : SessionEvent(s)
      BY <1>1, <2>6 DEF Trigger, IdleTimeout, IgnoreKey, Clear, CreateSessionFails,
           Return, Attach, RecordStopped, Stop, TrimActions, RecordStarted,
           SessionEvent, sessionVars, None
    <2> QED  BY <2>2, <2>3, <2>4, <2>5, <2>6 DEF LogNext
  <1>5. /\ pre' \in Known \cup {0}
        /\ opened' \in Known \cup {0} \/ opened' = lastSession'
    BY <1>1 DEF LogNext, Trigger, IdleTimeout, IgnoreKey, FinishSession, Clear,
         CreateSession, CreateSessionFails, MakeWorkDir, Return, Attach,
         SessionEvent, RecordStopped, Stop, TrimActions, Recover, RecordStarted,
         actionVars, None
  <1>6. \A n : n \in Known \cup {0} => n \in 0..lastSession'
    BY <1>3
  <1>7. lastSession' \in 0..lastSession'
    BY <1>3
  <1>8. ended' \subseteq 1..lastSession'
    BY <1>3, <1>4
  <1> QED  BY <1>3, <1>4, <1>5, <1>6, <1>7, <1>8 DEF SessionsType

LEMMA ControlTypeStep ==
    ASSUME ControlType, LogNext
    PROVE  ControlType'
  BY DEF ControlType, LogNext, Trigger, IdleTimeout, IgnoreKey, FinishSession,
     Clear, CreateSession, CreateSessionFails, MakeWorkDir, Return, Attach,
     SessionEvent, RecordStopped, Stop, TrimActions, Recover, RecordStarted,
     actionVars, Actions

LEMMA CountersTypeStep ==
    ASSUME CountersType, LogNext
    PROVE  CountersType' /\ faults <= faults'
  <1>1. stops \in 0..MaxStops /\ faults \in 0..MaxFaults
    BY DEF CountersType
  <1>2. faults' = faults \/ (faults < MaxFaults /\ faults' = faults + 1)
    BY DEF LogNext, Trigger, IdleTimeout, IgnoreKey, FinishSession, Clear,
       CreateSession, CreateSessionFails, MakeWorkDir, Return, Attach,
       SessionEvent, RecordStopped, Stop, TrimActions, Recover, RecordStarted,
       Record, Fault
  <1>3. stops' = stops \/ (stops < MaxStops /\ stops' = stops + 1)
    BY DEF LogNext, Trigger, IdleTimeout, IgnoreKey, FinishSession, Clear,
       CreateSession, CreateSessionFails, MakeWorkDir, Return, Attach,
       SessionEvent, RecordStopped, Stop, TrimActions, Recover, RecordStarted
  <1>4. faults' \in 0..MaxFaults /\ faults <= faults'
    BY <1>1, <1>2, LogAssumption
  <1>5. stops' \in 0..MaxStops
    BY <1>1, <1>3, LogAssumption
  <1> QED  BY <1>4, <1>5 DEF CountersType

LEMMA LogTypeStep ==
    ASSUME LogTypeOK, [LogNext]_logVars
    PROVE  LogTypeOK'
  <1>1. CASE LogNext
    BY <1>1, EntriesTypeStep, SessionsTypeStep, ControlTypeStep, CountersTypeStep
       DEF LogTypeOK
  <1>2. CASE UNCHANGED logVars
    BY <1>2 DEF LogTypeOK, EntriesType, SessionsType, ControlType, CountersType,
         logVars, sessionVars, actionVars
  <1> QED  BY <1>1, <1>2

\* The daemon's side of a step of the whole.
LEMMA NextIsLogNext ==
    ASSUME [Next]_vars
    PROVE  [LogNext]_logVars
  BY DEF Next, vars, DaemonStep, LoadSessions, LoadActions, LoadRecent, Respond

\* Queries return entries of the log.
LEMMA QueriesType ==
    ASSUME EntriesType
    PROVE  /\ \A s \in Sessions :
                  [session |-> s, entries |-> SessionActions(s)] \in Block
           /\ \A run \in SystemRuns(log) :
                  [session |-> None, entries |-> run] \in Block
  <1>1. /\ log \in Seq(Sessions \cup {None}) /\ Len(log) <= MaxEntries
        /\ trimmed \in 0..Len(log)
    BY DEF EntriesType
  <1>2. Len(log) \in Nat
    BY <1>1
  <1>3. \A i \in trimmed + 1..Len(log) : i \in 1..MaxEntries
    BY <1>1, <1>2, LogAssumption
  <1>4. \A s \in Sessions : SessionActions(s) \subseteq 1..MaxEntries
    BY <1>3 DEF SessionActions
  <1>5. RecentActions(log) \subseteq 1..MaxEntries
    BY <1>3 DEF RecentActions
  <1>6. \A run \in SystemRuns(log) : run \subseteq 1..MaxEntries
    BY <1>5 DEF SystemRuns
  <1> QED  BY <1>4, <1>6 DEF Block

LEMMA PageTypeStep ==
    ASSUME LogTypeOK, PageType, [Next]_vars
    PROVE  PageType'
  <1>1. EntriesType /\ SessionsType
    BY DEF LogTypeOK
  <1>2. log \in Seq(Sessions \cup {None}) /\ Len(log) \in Nat /\ lastSession \in Nat
    BY <1>1, LogAssumption DEF EntriesType, SessionsType
  <1>3. CASE DaemonStep
    <2>1. CASE PageReset
      <3>1. Len(log') \in Nat
        BY <1>1, <1>3, LogStays DEF DaemonStep
      <3> QED  BY <2>1, <3>1 DEF PageReset, PageType
    <2>2. CASE UNCHANGED pageVars
      <3>1. Len(log) <= Len(log') /\ Len(log') \in Nat
        BY <1>1, <1>3, LogStays DEF DaemonStep
      <3>2. lastSession' = lastSession \/ lastSession' = lastSession + 1
        BY <1>3 DEF DaemonStep, LogNext, Trigger, IdleTimeout, IgnoreKey,
             FinishSession, Clear, CreateSession, CreateSessionFails, MakeWorkDir,
             Return, Attach, SessionEvent, RecordStopped, Stop, TrimActions,
             Recover, RecordStarted, sessionVars
      <3>3. 1..lastSession \subseteq 1..lastSession'
        BY <1>2, <3>2
      <3>4. Len(begin) \in Nat /\ Len(begin) <= Len(log)
        BY DEF PageType
      <3>5. Len(begin) <= Len(log')
        BY <1>2, <3>1, <3>4
      <3> QED  BY <2>2, <3>3, <3>5 DEF PageType, pageVars
    <2> QED  BY <1>3, <2>1, <2>2 DEF DaemonStep
  <1>4. CASE LoadSessions
    <2>1. RecentSessions \subseteq 1..lastSession
      BY DEF RecentSessions
    <2>2. Len(log) <= Len(log)
      BY <1>2
    <2> QED  BY <1>2, <1>4, <2>1, <2>2
               DEF LoadSessions, PageType, logVars, sessionVars
  <1>5. ASSUME NEW s \in Sessions, LoadActions(s)  PROVE PageType'
    BY <1>1, <1>5, QueriesType DEF LoadActions, PageType, logVars, sessionVars
  <1>6. CASE LoadRecent
    BY <1>1, <1>6, QueriesType
      DEF LoadRecent, PageType, logVars, sessionVars
  <1>7. CASE Respond
    BY <1>2, <1>7 DEF Respond, PageReset, PageType, logVars
  <1>8. CASE UNCHANGED vars
    BY <1>8 DEF vars, logVars, sessionVars, pageVars, PageType
  <1> QED
    BY <1>3, <1>4, <1>5, <1>6, <1>7, <1>8 DEF Next

-----------------------------------------------------------------------------
(* The trigger of an action ends up in its session.                        *)

\* What DoLogged knows while the action runs: where its entry is, and how the
\* session it finds in the state came about.
TriggerInv ==
    /\ pc \in {"do", "clear", "mkdir", "attach"} /\ entry # None =>
           trimmed < entry /\ log[entry] = pre
    /\ pc \in {"trim", "recover", "start"} => entry = None
    /\ pc = "do" => current = opened \/ (opened = None /\ current = pre)
    /\ pc = "clear" => opened = None
    /\ pc = "mkdir" => current = None
    /\ pc = "attach" =>
           \/ current = opened
           \/ opened = None /\ current = pre
           \/ current = None /\ faults > 0

\* An entry that is where it was, of an action that is where it was.
LEMMA EntryStays ==
    ASSUME EntriesType, SessionsType, LogNext, ~Attach, entry # None
    PROVE  log'[entry] = log[entry]
  <1>1. entry \in 1..Len(log)
    BY DEF EntriesType, None
  <1> QED  BY <1>1, LogStays DEF Attached

LEMMA TriggerWrites ==
    ASSUME EntriesType, SessionsType, Trigger, entry' # None
    PROVE  trimmed' < entry' /\ log'[entry'] = pre'
  <1>1. log \in Seq(Sessions \cup {None}) /\ trimmed \in 0..Len(log)
    BY DEF EntriesType
  <1>2. current \in Sessions \cup {None}
    BY LogAssumption DEF SessionsType, Sessions, None
  <1>3. log' = Append(log, current) /\ entry' = Len(log')
        /\ UNCHANGED trimmed /\ pre' = current
    BY DEF Trigger, Record, Written
  <1>4. Len(log') = Len(log) + 1 /\ log'[Len(log) + 1] = current /\ Len(log) \in Nat
    BY <1>1, <1>2, <1>3
  <1> QED  BY <1>1, <1>3, <1>4

LEMMA TriggerInvStep ==
    ASSUME LogTypeOK, TriggerInv, LogNext
    PROVE  TriggerInv'
  <1>1. EntriesType /\ SessionsType /\ CountersType
    BY DEF LogTypeOK
  <1>2. /\ pc' \in {"do", "clear", "mkdir", "attach"} /\ entry' # None =>
               trimmed' < entry' /\ log'[entry'] = pre'
        /\ pc' \in {"trim", "recover", "start"} => entry' = None
    <2>1. CASE Trigger
      BY <1>1, <2>1, TriggerWrites DEF Trigger
    <2>2. CASE IdleTimeout \/ Stop
      BY <2>2 DEF IdleTimeout, Stop
    <2>3. CASE TrimActions \/ Recover \/ RecordStarted \/ RecordStopped \/ Attach
               \/ IgnoreKey
      BY <2>3 DEF TrimActions, Recover, RecordStarted, RecordStopped, Attach,
           IgnoreKey, actionVars, TriggerInv
    <2>4. CASE FinishSession \/ Clear \/ CreateSession \/ CreateSessionFails
               \/ MakeWorkDir \/ Return \/ \E s \in Sessions : SessionEvent(s)
      <3>1. /\ UNCHANGED <<entry, pre, trimmed>>
            /\ pc' = pc \/ {pc, pc'} \subseteq {"do", "clear", "mkdir", "attach"}
            /\ ~Attach
        BY <2>4 DEF FinishSession, Clear, CreateSession, CreateSessionFails,
             MakeWorkDir, Return, SessionEvent, Starting, actionVars, Attach
      <3> QED  BY <1>1, <3>1, EntryStays DEF TriggerInv
    <2> QED  BY <2>1, <2>2, <2>3, <2>4 DEF LogNext
  <1>3. /\ pc' = "do" => current' = opened' \/ (opened' = None /\ current' = pre')
        /\ pc' = "clear" => opened' = None
        /\ pc' = "mkdir" => current' = None
    BY DEF TriggerInv, LogNext, Trigger, IdleTimeout, IgnoreKey, FinishSession,
       Clear, CreateSession, CreateSessionFails, MakeWorkDir, Return, Attach,
       SessionEvent, RecordStopped, Stop, TrimActions, Recover, RecordStarted,
       Starting, actionVars
  <1>4. pc' = "attach" =>
            \/ current' = opened'
            \/ opened' = None /\ current' = pre'
            \/ current' = None /\ faults' > 0
    <2>1. faults \in Nat /\ faults' \in Nat /\ faults <= faults'
      BY <1>1, CountersTypeStep DEF CountersType
    <2>2. faults > 0 => faults' > 0
      BY <2>1
    <2>3. faults' = faults + 1 => faults' > 0
      BY <2>1
    <2>4. CASE MakeWorkDir
      BY <2>3, <2>4 DEF MakeWorkDir, Fault, TriggerInv, actionVars
    <2>5. CASE Return \/ CreateSessionFails
      BY <2>5 DEF Return, CreateSessionFails, Starting, TriggerInv, actionVars
    <2>6. CASE \E s \in Sessions : SessionEvent(s)
      BY <2>2, <2>6 DEF SessionEvent, TriggerInv, actionVars
    <2>7. CASE ~(MakeWorkDir \/ Return \/ CreateSessionFails
                 \/ \E s \in Sessions : SessionEvent(s))
      BY <2>7 DEF LogNext, Trigger, IdleTimeout, IgnoreKey, FinishSession, Clear,
           CreateSession, Attach, RecordStopped, Stop, TrimActions, Recover,
           RecordStarted
    <2> QED  BY <2>4, <2>5, <2>6, <2>7
  <1> QED  BY <1>2, <1>3, <1>4 DEF TriggerInv

LEMMA TriggerIsInSessionStep ==
    ASSUME LogTypeOK, TriggerInv, TriggerIsInSession, LogNext
    PROVE  TriggerIsInSession'
  <1>1. EntriesType /\ SessionsType /\ CountersType
    BY DEF LogTypeOK
  <1>2. faults \in Nat /\ faults' \in Nat /\ faults <= faults'
    BY <1>1, CountersTypeStep DEF CountersType
  <1>3. SUFFICES ASSUME pc' = "idle", entry' # None
                 PROVE  \/ log'[entry'] = IF pre' # None THEN pre' ELSE opened'
                        \/ log'[entry'] = None /\ faults' > 0
    BY DEF TriggerIsInSession
  <1>4. CASE Attach
    <2>1. UNCHANGED actionVars /\ pc = "attach" /\ log[entry] = pre /\ trimmed < entry
      BY <1>3, <1>4 DEF Attach, TriggerInv, actionVars
    <2>2. entry \in 1..Len(log) /\ log \in Seq(Sessions \cup {None})
      BY <1>1, <1>3, <2>1 DEF EntriesType, None, actionVars
    <2>3. CASE pre = None /\ current # None
      <3>1. \/ current = opened \/ (opened = None /\ current = pre)
        BY <2>1, <2>3 DEF TriggerInv
      <3>2. \/ log' = [log EXCEPT ![entry] = current]
            \/ log' = log /\ faults' = faults + 1
        BY <1>4, <2>1, <2>2, <2>3 DEF Attach, SetActionSessionID, Fault
      <3>3. log'[entry] = current \/ (log'[entry] = None /\ faults' = faults + 1)
        BY <2>1, <2>2, <2>3, <3>2
      <3>4. faults' = faults + 1 => faults' > 0
        BY <1>2
      <3> QED  BY <2>1, <2>3, <3>1, <3>3, <3>4 DEF actionVars
    <2>4. CASE ~(pre = None /\ current # None)
      <3>1. log' = log /\ faults' = faults
        BY <1>4, <2>4 DEF Attach
      <3>2. pre # None \/ opened = None \/ faults > 0
        BY <2>1, <2>4 DEF TriggerInv
      <3> QED  BY <2>1, <3>1, <3>2 DEF actionVars
    <2> QED  BY <2>3, <2>4
  <1>5. CASE ~Attach
    <2>1. pc = "idle" /\ UNCHANGED actionVars
      BY <1>3, <1>5 DEF LogNext, Trigger, IdleTimeout, IgnoreKey, FinishSession,
           Clear, CreateSession, CreateSessionFails, MakeWorkDir, Return,
           SessionEvent, RecordStopped, Stop, TrimActions, Recover, RecordStarted,
           TriggerInv, actionVars
    <2>2. log'[entry] = log[entry] /\ entry # None
      BY <1>1, <1>3, <1>5, <2>1, EntryStays DEF actionVars
    <2>3. faults > 0 => faults' > 0
      BY <1>2
    <2> QED  BY <2>1, <2>2, <2>3 DEF TriggerIsInSession, actionVars
  <1> QED  BY <1>4, <1>5

\* Trimming counts from the newest entry, and the log only grows.
LEMMA NewestKeptStep ==
    ASSUME EntriesType, SessionsType, NewestKept, LogNext
    PROVE  NewestKept'
  <1>1. /\ Len(log) \in Nat /\ Len(log') \in Nat /\ Len(log) <= Len(log')
        /\ trimmed \in Nat /\ KeepActions \in Nat
    <2>1. log \in Seq(Sessions \cup {None}) /\ trimmed \in 0..Len(log)
      BY DEF EntriesType
    <2> QED  BY <2>1, LogStays, LogAssumption
  <1>2. CASE TrimActions
    BY <1>1, <1>2 DEF TrimActions, Kept, NewestKept
  <1>3. CASE ~TrimActions
    <2>1. trimmed' = trimmed
      BY <1>3 DEF LogNext, Trigger, IdleTimeout, IgnoreKey, FinishSession, Clear,
           CreateSession, CreateSessionFails, MakeWorkDir, Return, Attach,
           SessionEvent, RecordStopped, Stop, Recover, RecordStarted
    <2> QED  BY <1>1, <2>1 DEF NewestKept
  <1> QED  BY <1>2, <1>3

-----------------------------------------------------------------------------
(* Blocks share no entry.                                                  *)

\* While the page is loading every block is a session's, one for each that has
\* been read, and its entries are in that session to stay.
ShownInv ==
    stage = "loading" =>
        /\ \A b \in blocks :
               /\ b.session \notin todo /\ b.session # None
               /\ \A i \in b.entries : i \in 1..Len(log) /\ log[i] = b.session
        /\ \A a, b \in blocks : a.session = b.session => a = b

LEMMA RunsAreDisjoint ==
    ASSUME NEW l \in Seq(Sessions \cup {None}), trimmed \in Nat
    PROVE  /\ \A run \in SystemRuns(l) : \A i \in run : l[i] = None
           /\ \A r, q \in SystemRuns(l) : r # q => r \cap q = {}
  <1> DEFINE Recent == RecentActions(l)
             Alone(i) == i \in Recent /\ l[i] = None
             Run(i)   == {j \in Recent : j <= i /\ \A k \in j..i : Alone(k)}
             Begins(i) == i \in 1..Len(l) /\ Alone(i) /\ ~Alone(i + 1)
  <1>1. \A i \in Recent : i \in Nat
    BY DEF RecentActions
  <1>2. \A run \in SystemRuns(l) : \E i : Begins(i) /\ run = Run(i)
    BY DEF SystemRuns
  <1> HIDE DEF Recent
  <1>3. \A i, j : Begins(i) /\ j \in Run(i) => i \in Nat /\ j \in Nat /\ j <= i /\ Alone(j)
    BY <1>1
  <1>4. ASSUME NEW i, NEW n, NEW j, Begins(i), Begins(n), j \in Run(i), j \in Run(n),
               i < n
        PROVE  FALSE
    <2>1. i \in Nat /\ n \in Nat /\ j \in Nat /\ j <= i
      BY <1>3, <1>4
    <2>2. i + 1 \in j..n
      BY <1>4, <2>1
    <2> QED  BY <1>4, <2>2
  <1>5. ASSUME NEW r \in SystemRuns(l), NEW q \in SystemRuns(l), NEW j,
               j \in r, j \in q
        PROVE  r = q
    <2>1. PICK i : Begins(i) /\ r = Run(i)
      BY <1>2
    <2>2. PICK n : Begins(n) /\ q = Run(n)
      BY <1>2
    <2>3. i \in Nat /\ n \in Nat
      BY <1>3, <1>5, <2>1, <2>2
    <2>4. ~(i < n) /\ ~(n < i)
      BY <1>4, <1>5, <2>1, <2>2
    <2>5. i = n
      BY <2>3, <2>4
    <2> QED  BY <2>1, <2>2, <2>5
  <1> QED  BY <1>2, <1>3, <1>5

LEMMA ShownInvStep ==
    ASSUME LogTypeOK, PageType, ShownInv, [Next]_vars
    PROVE  ShownInv'
  <1>1. EntriesType /\ SessionsType
    BY DEF LogTypeOK
  <1>2. CASE DaemonStep
    <2>1. CASE PageReset
      BY <2>1 DEF PageReset, ShownInv
    <2>2. CASE UNCHANGED pageVars
      <3>1. LogNext
        BY <1>2 DEF DaemonStep
      <3>2. Len(log) \in Nat /\ Len(log') \in Nat
        <4>1. log \in Seq(Sessions \cup {None}) /\ log' \in Seq(Sessions \cup {None})
          BY <1>1, <3>1, LogStays DEF EntriesType
        <4> QED  BY <4>1
      <3>3. ASSUME NEW i \in 1..Len(log), log[i] # None
            PROVE  i \in 1..Len(log') /\ log'[i] = log[i]
        <4>1. log'[i] = log[i] /\ Len(log) <= Len(log')
          BY <1>1, <3>1, <3>3, LogStays
        <4> QED  BY <3>2, <4>1
      <3> QED  BY <2>2, <3>3 DEF ShownInv, pageVars
    <2> QED  BY <1>2, <2>1, <2>2 DEF DaemonStep
  <1>3. CASE LoadSessions
    BY <1>3 DEF LoadSessions, ShownInv
  <1>4. ASSUME NEW s \in Sessions, LoadActions(s)  PROVE ShownInv'
    <2>1. \A i \in SessionActions(s) : i \in 1..Len(log) /\ log[i] = s
      <3>1. log \in Seq(Sessions \cup {None}) /\ trimmed \in 0..Len(log)
        BY <1>1 DEF EntriesType
      <3>2. Len(log) \in Nat
        BY <3>1
      <3> QED  BY <3>1, <3>2 DEF SessionActions
    <2>2. s # None
      BY LogAssumption DEF Sessions, None
    <2>3. /\ s \in todo /\ todo' = todo \ {s} /\ UNCHANGED log /\ stage = "loading"
          /\ blocks' = blocks \cup {[session |-> s, entries |-> SessionActions(s)]}
      BY <1>4 DEF LoadActions, logVars
    <2> DEFINE new == [session |-> s, entries |-> SessionActions(s)]
    <2>4. \A b \in blocks : b.session # s
      BY <2>3 DEF ShownInv
    <2>5. new.session = s /\ new.entries = SessionActions(s)
      OBVIOUS
    <2> HIDE DEF new
    <2>6. blocks' = blocks \cup {new}
      BY <2>3 DEF new
    <2> QED  BY <2>1, <2>2, <2>3, <2>4, <2>5, <2>6 DEF ShownInv
  <1>5. CASE LoadRecent \/ Respond
    BY <1>5 DEF LoadRecent, Respond, PageReset, ShownInv
  <1>6. CASE UNCHANGED vars
    BY <1>6 DEF vars, logVars, pageVars, ShownInv
  <1> QED
    BY <1>2, <1>3, <1>4, <1>5, <1>6 DEF Next

LEMMA ShownOnceStep ==
    ASSUME LogTypeOK, PageType, ShownInv, ShownOnce, [Next]_vars
    PROVE  ShownOnce'
  <1>1. CASE LoadRecent
    <2>1. log \in Seq(Sessions \cup {None}) /\ trimmed \in Nat
      BY DEF LogTypeOK, EntriesType
    <2>2. /\ stage = "loading"
          /\ blocks' = blocks \cup
                 {[session |-> None, entries |-> run] : run \in SystemRuns(log)}
      BY <1>1 DEF LoadRecent
    <2>3. ASSUME NEW a \in blocks', NEW b \in blocks', a # b
          PROVE  a.entries \cap b.entries = {}
      <3>1. ASSUME NEW c \in blocks'
            PROVE  \/ /\ c \in blocks /\ c.session # None
                      /\ \A i \in c.entries : log[i] = c.session
                   \/ /\ c.entries \in SystemRuns(log) /\ c.session = None
                      /\ c = [session |-> None, entries |-> c.entries]
                      /\ \A i \in c.entries : log[i] = None
        <4>1. CASE c \in blocks
          BY <2>2, <4>1 DEF ShownInv
        <4>2. CASE c \notin blocks
          <5>1. PICK run \in SystemRuns(log) : c = [session |-> None, entries |-> run]
            BY <2>2, <4>2
          <5> QED  BY <2>1, <5>1, RunsAreDisjoint
        <4> QED  BY <4>1, <4>2
      <3>2. CASE a \in blocks /\ b \in blocks
        <4>1. a.session # b.session
          BY <2>2, <2>3, <3>2 DEF ShownInv
        <4>2. /\ \A i \in a.entries : log[i] = a.session
              /\ \A i \in b.entries : log[i] = b.session
          BY <2>2, <3>2 DEF ShownInv
        <4> QED  BY <4>1, <4>2
      <3>3. CASE a.session = None /\ b.session = None
        <4>1. a.entries \in SystemRuns(log) /\ b.entries \in SystemRuns(log)
          BY <3>1, <3>3
        <4>2. a.entries # b.entries
          BY <2>3, <3>1, <3>3
        <4> QED  BY <2>1, <4>1, <4>2, RunsAreDisjoint
      <3>4. CASE a.session # b.session
        BY <3>1, <3>4
      <3> QED  BY <3>1, <3>2, <3>3, <3>4
    <2> QED  BY <1>1, <2>3 DEF ShownOnce
  <1>2. CASE DaemonStep
    BY <1>2 DEF DaemonStep, PageReset, pageVars, ShownOnce
  <1>3. CASE LoadSessions \/ Respond \/ \E s \in Sessions : LoadActions(s)
    BY <1>3 DEF LoadSessions, Respond, PageReset, LoadActions, ShownOnce
  <1>4. CASE UNCHANGED vars
    BY <1>4 DEF vars, pageVars, ShownOnce
  <1> QED
    BY <1>1, <1>2, <1>3, <1>4 DEF Next

-----------------------------------------------------------------------------
(* What stays where it was is on the page.                                 *)

LEMMA LeastNatural ==
    ASSUME NEW T \in SUBSET Nat, T # {}
    PROVE  \E m \in T : \A k \in T : m <= k
  <1> DEFINE X == {0..k : k \in T}
  <1>1. X \subseteq FiniteSubsetsOf(Nat)
    <2>1. \A k \in T : IsFiniteSet(0..k) /\ 0..k \subseteq Nat
      BY FS_Interval
    <2> QED  BY <2>1 DEF FiniteSubsetsOf
  <1>2. X # {}
    OBVIOUS
  <1> HIDE DEF X
  <1>3. PICK x \in X : \A y \in X : ~(<<y, x>> \in StrictSubsetOrdering(Nat))
    BY <1>1, <1>2, FS_StrictSubsetOrderingWellFounded, WFMin
  <1>4. PICK m \in T : x = 0..m
    BY DEF X
  <1>5. ASSUME NEW k \in T, k < m  PROVE FALSE
    <2>1. 0..k \subseteq 0..m /\ m \in 0..m /\ m \notin 0..k /\ 0..k \in X
      BY <1>5 DEF X
    <2>2. <<0..k, 0..m>> \in StrictSubsetOrdering(Nat)
      BY <2>1 DEF StrictSubsetOrdering
    <2> QED  BY <1>3, <1>4, <2>1, <2>2
  <1> QED  BY <1>5

\* An entry without a session is in one of the runs the recent ones fall into.
LEMMA RunsCover ==
    ASSUME NEW l \in Seq(Sessions \cup {None}), trimmed \in Nat,
           NEW i \in RecentActions(l), l[i] = None
    PROVE  \E run \in SystemRuns(l) : i \in run
  <1> DEFINE Alone(k) == k \in RecentActions(l) /\ l[k] = None
             T == {k \in i..Len(l) : ~Alone(k + 1)}
             Run(m) == {j \in RecentActions(l) : j <= m /\ \A k \in j..m : Alone(k)}
  <1>1. Len(l) \in Nat /\ i \in Nat /\ i \in 1..Len(l)
    BY DEF RecentActions
  <1>2. T # {}
    <2>1. Len(l) \in i..Len(l) /\ ~(Len(l) + 1 \in RecentActions(l))
      BY <1>1 DEF RecentActions
    <2> QED  BY <2>1
  <1>3. T \in SUBSET Nat
    BY <1>1
  <1>4. PICK m \in T : \A k \in T : m <= k
    BY <1>2, <1>3, LeastNatural
  <1>5. m \in i..Len(l) /\ ~Alone(m + 1) /\ m \in Nat
    BY <1>1
  <1>6. \A j \in i..m : Alone(j)
    <2> TAKE j \in i..m
    <2>1. CASE j = i
      BY <2>1
    <2>2. CASE j # i
      <3>1. j - 1 \in i..Len(l) /\ ~(m <= j - 1) /\ (j - 1) + 1 = j
        BY <1>1, <1>5, <2>2
      <3>2. j - 1 \notin T
        BY <1>4, <3>1
      <3>3. Alone((j - 1) + 1)
        BY <3>1, <3>2
      <3> QED  BY <3>1, <3>3
    <2> QED  BY <2>1, <2>2
  <1>7. i \in Run(m)
    BY <1>1, <1>5, <1>6
  <1>8. m \in {k \in 1..Len(l) : Alone(k) /\ ~Alone(k + 1)}
    <2>1. m \in i..m /\ m \in 1..Len(l)
      BY <1>1, <1>5
    <2> QED  BY <1>5, <1>6, <2>1
  <1>9. Run(m) \in SystemRuns(l)
    BY <1>8 DEF SystemRuns
  <1> QED  BY <1>7, <1>9

\* While the page is loading, entries keep the session they had when it began,
\* and those of the sessions that have been read are in their blocks.
LoadedInv ==
    stage = "loading" =>
        /\ \A i \in 1..Len(begin) :
               begin[i] # None => i \in 1..Len(log) /\ log[i] = begin[i]
        /\ \A s \in listed \ todo : \E b \in blocks :
               \A i \in trimmed + 1..Len(begin) :
                   begin[i] = s => i \in b.entries

LEMMA LoadedInvStep ==
    ASSUME LogTypeOK, PageType, LoadedInv, [Next]_vars
    PROVE  LoadedInv'
  <1>1. EntriesType /\ SessionsType
    BY DEF LogTypeOK
  <1>2. /\ log \in Seq(Sessions \cup {None}) /\ Len(log) \in Nat
        /\ trimmed \in Nat /\ begin \in Seq(Sessions \cup {None})
        /\ Len(begin) \in Nat
    BY <1>1 DEF EntriesType, PageType
  <1>3. CASE DaemonStep
    <2>1. CASE PageReset
      BY <2>1 DEF PageReset, LoadedInv
    <2>2. CASE Serving' /\ UNCHANGED pageVars
      <3>1. LogNext
        BY <1>3 DEF DaemonStep
      <3>2. trimmed' = trimmed
        BY <2>2, <3>1 DEF Serving, LogNext, Trigger, IdleTimeout, IgnoreKey,
             FinishSession, Clear, CreateSession, CreateSessionFails,
             MakeWorkDir, Return, Attach, SessionEvent, RecordStopped, Stop,
             TrimActions, Recover, RecordStarted
      <3>3. ASSUME NEW i \in 1..Len(log), log[i] # None
            PROVE  i \in 1..Len(log') /\ log'[i] = log[i]
        <4>1. log'[i] = log[i] /\ Len(log) <= Len(log')
          BY <1>1, <3>1, <3>3, LogStays
        <4>2. log' \in Seq(Sessions \cup {None})
          BY <1>1, <3>1, LogStays
        <4>3. Len(log') \in Nat
          BY <4>2
        <4> QED  BY <1>2, <4>1, <4>3
      <3> QED  BY <2>2, <3>2, <3>3 DEF LoadedInv, pageVars
    <2> QED  BY <1>3, <2>1, <2>2 DEF DaemonStep
  <1>4. CASE LoadSessions
    BY <1>2, <1>4 DEF LoadSessions, LoadedInv, logVars
  <1>5. ASSUME NEW s \in Sessions, LoadActions(s)  PROVE LoadedInv'
    <2> DEFINE new == [session |-> s, entries |-> SessionActions(s)]
    <2>1. /\ todo' = todo \ {s} /\ blocks' = blocks \cup {new}
          /\ UNCHANGED <<log, trimmed, stage, listed, begin>>
          /\ stage = "loading"
      BY <1>5 DEF LoadActions, logVars
    <2>2. ASSUME NEW i \in trimmed + 1..Len(begin), begin[i] = s
          PROVE  i \in new.entries
      <3>1. i \in 1..Len(begin) /\ s # None
        BY <1>2, LogAssumption DEF Sessions, None
      <3>2. i \in 1..Len(log) /\ log[i] = s
        BY <2>1, <2>2, <3>1 DEF LoadedInv
      <3> QED  BY <1>2, <3>2 DEF SessionActions
    <2> HIDE DEF new
    <2>3. ASSUME NEW t \in listed' \ todo'
          PROVE  \E b \in blocks' : \A i \in trimmed' + 1..Len(begin') :
                     begin'[i] = t => i \in b.entries
      <3>1. CASE t = s
        BY <2>1, <2>2, <3>1
      <3>2. CASE t # s
        <4>1. t \in listed \ todo
          BY <2>1, <3>2
        <4>2. PICK b \in blocks : \A i \in trimmed + 1..Len(begin) :
                     begin[i] = t => i \in b.entries
          BY <2>1, <4>1 DEF LoadedInv
        <4> QED  BY <2>1, <4>2
      <3> QED  BY <3>1, <3>2
    <2> QED  BY <2>1, <2>3 DEF LoadedInv
  <1>6. CASE LoadRecent \/ Respond
    BY <1>6 DEF LoadRecent, Respond, PageReset, LoadedInv
  <1>7. CASE UNCHANGED vars
    BY <1>7 DEF vars, logVars, pageVars, LoadedInv
  <1> QED
    BY <1>3, <1>4, <1>5, <1>6, <1>7 DEF Next

-----------------------------------------------------------------------------
(* The theorems.                                                           *)

StatusPageInv ==
    TypeOK /\ TriggerInv /\ TriggerIsInSession /\ NewestKept /\ ShownInv /\ ShownOnce

LEMMA StatusPageInvHolds == Spec => []StatusPageInv
  <1>1. PageInit => StatusPageInv
    <2> SUFFICES ASSUME PageInit  PROVE StatusPageInv
      OBVIOUS
    <2>1. log = << >> /\ Len(log) = 0
      BY DEF Init, PageInit
    <2>2. EntriesType /\ SessionsType /\ CountersType
      BY <2>1, LogAssumption
         DEF Init, PageInit, EntriesType, SessionsType, CountersType, None
    <2>3. ControlType
      BY DEF Init, PageInit, ControlType, Actions
    <2>4. begin = << >> /\ Len(begin) = 0 /\ lastSession = 0
      BY DEF Init, PageInit
    <2>5. PageType
      BY <2>1, <2>4 DEF PageInit, PageType
    <2>6. TriggerInv /\ TriggerIsInSession /\ NewestKept
      BY DEF Init, PageInit, TriggerInv, TriggerIsInSession, NewestKept
    <2>7. ShownInv /\ ShownOnce
      BY DEF PageInit, ShownInv, ShownOnce
    <2> QED
      BY <2>2, <2>3, <2>5, <2>6, <2>7 DEF StatusPageInv, TypeOK, LogTypeOK
  <1>2. StatusPageInv /\ [Next]_vars => StatusPageInv'
    <2> SUFFICES ASSUME StatusPageInv, [Next]_vars  PROVE StatusPageInv'
      OBVIOUS
    <2>1. [LogNext]_logVars
      BY NextIsLogNext
    <2>2. LogTypeOK /\ PageType /\ EntriesType /\ SessionsType
      BY DEF StatusPageInv, TypeOK, LogTypeOK
    <2>3. TypeOK'
      BY <2>1, <2>2, LogTypeStep, PageTypeStep DEF TypeOK
    <2>4. TriggerInv' /\ TriggerIsInSession' /\ NewestKept'
      <3>1. CASE LogNext
        BY <2>2, <3>1, TriggerInvStep, TriggerIsInSessionStep, NewestKeptStep
           DEF StatusPageInv
      <3>2. CASE UNCHANGED logVars
        BY <3>2 DEF StatusPageInv, TriggerInv, TriggerIsInSession, NewestKept,
             logVars, actionVars
      <3> QED  BY <2>1, <3>1, <3>2
    <2>5. ShownInv' /\ ShownOnce'
      BY <2>2, ShownInvStep, ShownOnceStep DEF StatusPageInv
    <2> QED  BY <2>3, <2>4, <2>5 DEF StatusPageInv
  <1> QED  BY <1>1, <1>2, PTL DEF Spec

\* Every variable keeps its type, whatever fails and whenever the daemon stops.
THEOREM TypeCorrect == Spec => []TypeOK
  BY StatusPageInvHolds, PTL DEF StatusPageInv

\* The key press or click DoLogged wrote down ends up in the session its action
\* met or opened, and without one only when something failed.
THEOREM TriggersFindTheirSession == Spec => []TriggerIsInSession
  BY StatusPageInvHolds, PTL DEF StatusPageInv

\* TrimActions keeps the newest --keep-actions entries.
THEOREM NewestEntriesAreKept == Spec => []NewestKept
  BY StatusPageInvHolds, PTL DEF StatusPageInv

\* No entry is in two blocks of the page, whatever is written and attached
\* between its queries.
THEOREM EntriesAreShownOnce == Spec => []ShownOnce
  BY StatusPageInvHolds, PTL DEF StatusPageInv

\* Attaching never moves an entry from one session to another.
THEOREM SessionsOfEntriesAreFinal == Spec => SessionIsFinal
  <1>1. ASSUME TypeOK, [Next]_vars
        PROVE  [\A i \in 1..Len(log) :
                    log[i] # None => log'[i] = log[i]]_logVars
    <2>1. [LogNext]_logVars
      BY <1>1, NextIsLogNext
    <2> QED  BY <1>1, <2>1, LogStays DEF TypeOK, LogTypeOK
  <1> QED  BY <1>1, TypeCorrect, PTL DEF Spec, SessionIsFinal

\* Of the recent entries the page shows those that stayed where they were while
\* it was read and belong to a session it lists or to none (web.go:
\* loadIndexData; render.go: buildBlocks).
THEOREM RecentEntriesAreShown == Spec => RecentShown
  <1>1. Spec => []LoadedInv
    <2>1. PageInit => LoadedInv
      BY DEF PageInit, LoadedInv
    <2>2. TypeOK /\ LoadedInv /\ [Next]_vars => LoadedInv'
      BY LoadedInvStep DEF TypeOK
    <2> QED  BY <2>1, <2>2, TypeCorrect, PTL DEF Spec
  <1>2. ASSUME TypeOK, LoadedInv, [Next]_vars,
               stage = "loading", stage' = "read",
               NEW i \in RecentActions(log) \cap 1..Len(begin),
               log[i] = begin[i], log[i] \in listed \cup {None}
        PROVE  \E b \in blocks' : i \in b.entries
    <2>1. /\ log \in Seq(Sessions \cup {None}) /\ Len(log) \in Nat
          /\ trimmed \in Nat /\ listed \subseteq 1..lastSession
      BY <1>2 DEF TypeOK, LogTypeOK, EntriesType, PageType
    <2>2. LoadRecent
      BY <1>2 DEF Next, DaemonStep, PageReset, LoadSessions, LoadActions,
           Respond, vars, pageVars
    <2>3. CASE log[i] \in listed
      <3>1. log[i] \in listed \ todo
        BY <2>2, <2>3 DEF LoadRecent
      <3>2. PICK b \in blocks : \A k \in trimmed + 1..Len(begin) :
                begin[k] = log[i] => k \in b.entries
        BY <1>2, <3>1 DEF LoadedInv
      <3>3. i \in trimmed + 1..Len(begin)
        BY <1>2, <2>1 DEF RecentActions
      <3>4. i \in b.entries
        BY <1>2, <3>2, <3>3
      <3> QED  BY <2>2, <3>4 DEF LoadRecent
    <2>4. CASE log[i] = None
      <3>1. PICK r \in SystemRuns(log) : i \in r
        BY <1>2, <2>1, <2>4, RunsCover
      <3>2. [session |-> None, entries |-> r] \in blocks'
        BY <2>2 DEF LoadRecent
      <3> QED  BY <3>1, <3>2
    <2> QED  BY <1>2, <2>3, <2>4
  <1>3. TypeOK /\ LoadedInv /\ [Next]_vars =>
          [stage = "loading" /\ stage' = "read" =>
             \A i \in RecentActions(log) \cap 1..Len(begin) :
               log[i] = begin[i] /\ log[i] \in listed \cup {None}
               => \E b \in blocks' : i \in b.entries]_vars
    BY <1>2
  <1> QED  BY <1>1, <1>3, TypeCorrect, PTL DEF Spec, RecentShown
=============================================================================
