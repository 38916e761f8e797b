--------------------------- MODULE SaneScanProofs ---------------------------
(***************************************************************************)
(* Theorems about the scanner's child processes, for any timeout, grace    *)
(* period and number of runs, and whatever the tools and their helpers do. *)
(*                                                                         *)
(* All of them rest on the order of two timers.  A cancellation sets both: *)
(* SIGKILL comes one tick before WaitDelay ends, so that nobody in the     *)
(* group is alive when Run gives up (KillInv), and what follows, the       *)
(* removal of a half written page above all, is final (StrayInv,           *)
(* WriterInv).                                                             *)
(***************************************************************************)
EXTENDS SaneScan, TLAPS

-----------------------------------------------------------------------------
(* One lemma for each part of the invariant.                               *)

\* Calls and processes.
LEMMA ProcessTypesStep ==
    ASSUME ProcessTypes, RunInv, [Next]_vars
    PROVE  ProcessTypes'
  <1> USE SaneScanAssumption
      DEF ProcessTypes, RunInv, Runs, HelperKinds, Running, LeaderRuns
  <1>1. ASSUME NEW c \in {"acquire", "process"},
               NEW first \in {"scanimage", "magick"},
               c = "process" <=> first = "magick", Begin(c, first)
        PROVE  ProcessTypes'
    BY <1>1 DEF Begin, runVars, timerVars
  <1>2. CASE StartTool
    BY <1>2 DEF StartTool, runVars, timerVars
  <1>3. CASE StartFails \/ RunReturns
    BY <1>3 DEF StartFails, FailCall, RunReturns, Convert, Deliver,
                DeliverImage, DeliverPage, RunSucceeds, runVars, timerVars
  <1>4. CASE RunGivesUp
    BY <1>4 DEF RunGivesUp, FailCall, runVars, timerVars
  <1>5. ASSUME NEW k \in HelperKinds, StartHelper(k)
        PROVE  ProcessTypes'
    BY <1>5 DEF StartHelper, runVars, timerVars
  <1>6. ASSUME NEW h \in helpers, HelperExits(h)
        PROVE  ProcessTypes'
    BY <1>6 DEF HelperExits, runVars, timerVars
  <1>7. ASSUME NEW code \in {"ok", "failed"}, Write \/ LeaderExits(code)
        PROVE  ProcessTypes'
    BY <1>7 DEF Write, LeaderExits, runVars, timerVars
  <1>8. CASE Cancel
    BY <1>8 DEF Cancel, runVars, timerVars
  <1>9. ASSUME NEW r \in Runs, Kill(r)
        PROVE  ProcessTypes'
    BY <1>9 DEF Kill, runVars, timerVars
  <1>10. CASE Reap
    BY <1>10 DEF Reap, runVars, timerVars
  <1>11. CASE Tick
    BY <1>11 DEF Tick, runVars, timerVars
  <1>12. CASE StopDaemon \/ UNCHANGED vars
    BY <1>12 DEF StopDaemon, vars, runVars, timerVars
  <1> QED
    BY <1>1, <1>2, <1>3, <1>4, <1>5, <1>6, <1>7, <1>8,
       <1>9, <1>10, <1>11, <1>12
    DEF Next, CallStep, AcquireImage, ProcessImage

\* Timers.
LEMMA TimerTypesStep ==
    ASSUME ProcessTypes, TimerTypes, [Next]_vars
    PROVE  TimerTypes'
  <1> USE SaneScanAssumption
      DEF TimerTypes, Runs, WaitDelay, Off, Fired, Less, Running
  <1>1. ASSUME NEW c \in {"acquire", "process"},
               NEW first \in {"scanimage", "magick"},
               c = "process" <=> first = "magick", Begin(c, first)
        PROVE  TimerTypes'
    BY <1>1 DEF Begin, runVars, timerVars
  <1>2. CASE StartTool
    BY <1>2 DEF StartTool, runVars, timerVars
  <1>3. CASE StartFails \/ RunReturns
    BY <1>3 DEF StartFails, FailCall, RunReturns, Convert, Deliver,
                DeliverImage, DeliverPage, RunSucceeds, runVars, timerVars
  <1>4. CASE RunGivesUp
    BY <1>4 DEF RunGivesUp, FailCall, runVars, timerVars
  <1>5. ASSUME NEW k \in HelperKinds, StartHelper(k)
        PROVE  TimerTypes'
    BY <1>5 DEF StartHelper, runVars, timerVars
  <1>6. ASSUME NEW h \in helpers, HelperExits(h)
        PROVE  TimerTypes'
    BY <1>6 DEF HelperExits, runVars, timerVars
  <1>7. ASSUME NEW code \in {"ok", "failed"}, Write \/ LeaderExits(code)
        PROVE  TimerTypes'
    BY <1>7 DEF Write, LeaderExits, runVars, timerVars
  <1>8. CASE Cancel
    <2>1. KillGrace \in {Off, Fired} \cup 0..KillGrace
      OBVIOUS
    <2>2. WaitDelay \in {Off} \cup 0..WaitDelay
      OBVIOUS
    <2> QED  BY <1>8, <2>1, <2>2 DEF Cancel, runVars
  <1>9. ASSUME NEW r \in Runs, Kill(r)
        PROVE  TimerTypes'
    BY <1>9 DEF Kill, runVars, timerVars
  <1>10. CASE Reap
    BY <1>10 DEF Reap, runVars, timerVars
  <1>11. CASE Tick
    BY <1>11 DEF Tick, runVars, timerVars
  <1>12. CASE StopDaemon \/ UNCHANGED vars
    BY <1>12 DEF StopDaemon, vars, runVars, timerVars
  <1> QED
    BY <1>1, <1>2, <1>3, <1>4, <1>5, <1>6, <1>7, <1>8,
       <1>9, <1>10, <1>11, <1>12
    DEF Next, CallStep, AcquireImage, ProcessImage

\* The page and what is left behind.
LEMMA PageTypesStep ==
    ASSUME ProcessTypes, RunInv, PageTypes, [Next]_vars
    PROVE  PageTypes'
  <1> USE SaneScanAssumption
      DEF ProcessTypes, PageTypes, Files, RunInv, Running, Runs
  <1>1. ASSUME NEW c \in {"acquire", "process"},
               NEW first \in {"scanimage", "magick"},
               c = "process" <=> first = "magick", Begin(c, first)
        PROVE  PageTypes'
    BY <1>1 DEF Begin, runVars, timerVars
  <1>2. CASE StartTool
    BY <1>2 DEF StartTool, runVars, timerVars
  <1>3. CASE StartFails \/ RunReturns
    BY <1>3 DEF StartFails, FailCall, RunReturns, Convert, Deliver,
                DeliverImage, DeliverPage, RunSucceeds, runVars, timerVars
  <1>4. CASE RunGivesUp
    BY <1>4 DEF RunGivesUp, FailCall, runVars, timerVars
  <1>5. ASSUME NEW k \in HelperKinds, StartHelper(k)
        PROVE  PageTypes'
    BY <1>5 DEF StartHelper, runVars, timerVars
  <1>6. ASSUME NEW h \in helpers, HelperExits(h)
        PROVE  PageTypes'
    BY <1>6 DEF HelperExits, runVars, timerVars
  <1>7. ASSUME NEW code \in {"ok", "failed"}, Write \/ LeaderExits(code)
        PROVE  PageTypes'
    BY <1>7 DEF Write, LeaderExits, runVars, timerVars
  <1>8. CASE Cancel
    BY <1>8 DEF Cancel, runVars, timerVars
  <1>9. ASSUME NEW r \in Runs, Kill(r)
        PROVE  PageTypes'
    BY <1>9 DEF Kill, runVars, timerVars
  <1>10. CASE Reap
    BY <1>10 DEF Reap, runVars, timerVars
  <1>11. CASE Tick
    BY <1>11 DEF Tick, runVars, timerVars
  <1>12. CASE StopDaemon \/ UNCHANGED vars
    BY <1>12 DEF StopDaemon, vars, runVars, timerVars
  <1> QED
    BY <1>1, <1>2, <1>3, <1>4, <1>5, <1>6, <1>7, <1>8,
       <1>9, <1>10, <1>11, <1>12
    DEF Next, CallStep, AcquireImage, ProcessImage

\* A new run is one no timer, helper or stray belongs to.
LEMMA RunStep ==
    ASSUME TypeOK, RunInv, [Next]_vars
    PROVE  RunInv'
  <1> USE SaneScanAssumption
      DEF TypeOK, ProcessTypes, TimerTypes, PageTypes, RunInv, Runs, Off,
          Fired, Less, Running, LeaderRuns, Cancelled, HelperKinds, Group
  <1>1. ASSUME NEW c \in {"acquire", "process"},
               NEW first \in {"scanimage", "magick"},
               c = "process" <=> first = "magick", Begin(c, first)
        PROVE  RunInv'
    BY <1>1 DEF Begin, runVars, timerVars
  <1>2. CASE StartTool
    BY <1>2 DEF StartTool, runVars, timerVars
  <1>3. CASE StartFails \/ RunReturns
    BY <1>3 DEF StartFails, FailCall, RunReturns, Convert, Deliver,
                DeliverImage, DeliverPage, RunSucceeds, runVars, timerVars
  <1>4. CASE RunGivesUp
    BY <1>4 DEF RunGivesUp, FailCall, runVars, timerVars
  <1>5. ASSUME NEW k \in HelperKinds, StartHelper(k)
        PROVE  RunInv'
    BY <1>5 DEF StartHelper, runVars, timerVars
  <1>6. ASSUME NEW h \in helpers, HelperExits(h)
        PROVE  RunInv'
    BY <1>6 DEF HelperExits, runVars, timerVars
  <1>7. ASSUME NEW code \in {"ok", "failed"}, Write \/ LeaderExits(code)
        PROVE  RunInv'
    BY <1>7 DEF Write, LeaderExits, runVars, timerVars
  <1>8. CASE Cancel
    BY <1>8 DEF Cancel, runVars, timerVars
  <1>9. ASSUME NEW r \in Runs, Kill(r)
        PROVE  RunInv'
    BY <1>9 DEF Kill, runVars, timerVars
  <1>10. CASE Reap
    BY <1>10 DEF Reap, runVars, timerVars
  <1>11. CASE Tick
    BY <1>11 DEF Tick, runVars, timerVars
  <1>12. CASE StopDaemon \/ UNCHANGED vars
    BY <1>12 DEF StopDaemon, vars, runVars, timerVars
  <1> QED
    BY <1>1, <1>2, <1>3, <1>4, <1>5, <1>6, <1>7, <1>8,
       <1>9, <1>10, <1>11, <1>12
    DEF Next, CallStep, AcquireImage, ProcessImage

\* A run that is started has no timer yet, and is no stray.
LEMMA FreshRun ==
    ASSUME ProcessTypes, RunInv, StartTool
    PROVE  run + 1 \in Runs /\ killIn[run + 1] = Off /\ run + 1 \notin strays
  <1>1. run + 1 \in Runs /\ run + 1 > run
    BY SaneScanAssumption DEF ProcessTypes, StartTool, Runs
  <1> QED  BY <1>1 DEF RunInv

\* The SIGKILL timer and WaitDelay run down together, the first ahead.
LEMMA KillStep ==
    ASSUME TypeOK, RunInv, KillInv, [Next]_vars
    PROVE  KillInv'
  <1> USE SaneScanAssumption
      DEF TypeOK, ProcessTypes, TimerTypes, PageTypes, RunInv, KillInv,
          Runs, Off, Fired, Less, WaitDelay, Running, LeaderRuns,
          Cancelled, HelperKinds, Group, Due
  <1>1. ASSUME NEW c \in {"acquire", "process"},
               NEW first \in {"scanimage", "magick"},
               c = "process" <=> first = "magick", Begin(c, first)
        PROVE  KillInv'
    BY <1>1 DEF Begin, runVars, timerVars
  <1>2. CASE StartTool
    BY <1>2, FreshRun DEF StartTool, runVars, timerVars
  <1>3. CASE StartFails \/ RunReturns
    BY <1>3 DEF StartFails, FailCall, RunReturns, Convert, Deliver,
                DeliverImage, DeliverPage, RunSucceeds, runVars, timerVars
  <1>4. CASE RunGivesUp
    BY <1>4 DEF RunGivesUp, FailCall, runVars, timerVars
  <1>5. ASSUME NEW k \in HelperKinds, StartHelper(k)
        PROVE  KillInv'
    BY <1>5 DEF StartHelper, runVars, timerVars
  <1>6. ASSUME NEW h \in helpers, HelperExits(h)
        PROVE  KillInv'
    BY <1>6 DEF HelperExits, runVars, timerVars
  <1>7. ASSUME NEW code \in {"ok", "failed"}, Write \/ LeaderExits(code)
        PROVE  KillInv'
    BY <1>7 DEF Write, LeaderExits, runVars, timerVars
  <1>8. CASE Cancel
    BY <1>8 DEF Cancel, runVars, timerVars
  <1>9. ASSUME NEW r \in Runs, Kill(r)
        PROVE  KillInv'
    BY <1>9 DEF Kill, runVars, timerVars
  <1>10. CASE Reap
    BY <1>10 DEF Reap, runVars, timerVars
  <1>11. CASE Tick
    BY <1>11 DEF Tick, runVars, timerVars
  <1>12. CASE StopDaemon \/ UNCHANGED vars
    BY <1>12 DEF StopDaemon, vars, runVars, timerVars
  <1> QED
    BY <1>1, <1>2, <1>3, <1>4, <1>5, <1>6, <1>7, <1>8,
       <1>9, <1>10, <1>11, <1>12
    DEF Next, CallStep, AcquireImage, ProcessImage

\* When Run gives up, the timer of a cancelled run has fired.
LEMMA StrayStep ==
    ASSUME TypeOK, RunInv, KillInv, StrayInv, [Next]_vars
    PROVE  StrayInv'
  <1> USE SaneScanAssumption
      DEF TypeOK, ProcessTypes, TimerTypes, PageTypes, RunInv, KillInv,
          StrayInv, Runs, Off, Fired, Less, WaitDelay, Running, LeaderRuns,
          Cancelled, HelperKinds, Group
  <1>1. ASSUME NEW c \in {"acquire", "process"},
               NEW first \in {"scanimage", "magick"},
               c = "process" <=> first = "magick", Begin(c, first)
        PROVE  StrayInv'
    BY <1>1 DEF Begin, runVars, timerVars
  <1>2. CASE StartTool
    BY <1>2, FreshRun DEF StartTool, runVars, timerVars
  <1>3. CASE StartFails \/ RunReturns
    BY <1>3 DEF StartFails, FailCall, RunReturns, Convert, Deliver,
                DeliverImage, DeliverPage, RunSucceeds, runVars, timerVars
  <1>4. CASE RunGivesUp
    <2>1. run \in Runs /\ killIn[run] \in {Off, Fired}
      BY <1>4 DEF RunGivesUp
    <2>2. <<run, "worker">> \in helpers => ~Cancelled(run)
      BY <2>1
    <2> QED  BY <1>4, <2>1, <2>2 DEF RunGivesUp, FailCall, runVars, timerVars
  <1>5. ASSUME NEW k \in HelperKinds, StartHelper(k)
        PROVE  StrayInv'
    BY <1>5 DEF StartHelper, runVars, timerVars
  <1>6. ASSUME NEW h \in helpers, HelperExits(h)
        PROVE  StrayInv'
    BY <1>6 DEF HelperExits, runVars, timerVars
  <1>7. ASSUME NEW code \in {"ok", "failed"}, Write \/ LeaderExits(code)
        PROVE  StrayInv'
    BY <1>7 DEF Write, LeaderExits, runVars, timerVars
  <1>8. CASE Cancel
    BY <1>8 DEF Cancel, runVars, timerVars
  <1>9. ASSUME NEW r \in Runs, Kill(r)
        PROVE  StrayInv'
    BY <1>9 DEF Kill, runVars, timerVars
  <1>10. CASE Reap
    BY <1>10 DEF Reap, runVars, timerVars
  <1>11. CASE Tick
    BY <1>11 DEF Tick, runVars, timerVars
  <1>12. CASE StopDaemon \/ UNCHANGED vars
    BY <1>12 DEF StopDaemon, vars, runVars, timerVars
  <1> QED
    BY <1>1, <1>2, <1>3, <1>4, <1>5, <1>6, <1>7, <1>8,
       <1>9, <1>10, <1>11, <1>12
    DEF Next, CallStep, AcquireImage, ProcessImage

\* Until it is cancelled a run is not overdue.
LEMMA DelayStep ==
    ASSUME TypeOK, RunInv, KillInv, DelayInv, [Next]_vars
    PROVE  DelayInv'
  <1> USE SaneScanAssumption
      DEF TypeOK, ProcessTypes, TimerTypes, PageTypes, RunInv, KillInv,
          DelayInv, Runs, Off, Fired, Less, WaitDelay, Running, Cancelled,
          Due, ContextDone
  <1>1. ASSUME NEW c \in {"acquire", "process"},
               NEW first \in {"scanimage", "magick"},
               c = "process" <=> first = "magick", Begin(c, first)
        PROVE  DelayInv'
    BY <1>1 DEF Begin, runVars, timerVars
  <1>2. CASE StartTool
    BY <1>2 DEF StartTool, runVars, timerVars
  <1>3. CASE StartFails \/ RunReturns
    BY <1>3 DEF StartFails, FailCall, RunReturns, Convert, Deliver,
                DeliverImage, DeliverPage, RunSucceeds, runVars, timerVars
  <1>4. CASE RunGivesUp
    BY <1>4 DEF RunGivesUp, FailCall, runVars, timerVars
  <1>5. ASSUME NEW k \in HelperKinds, StartHelper(k)
        PROVE  DelayInv'
    BY <1>5 DEF StartHelper, runVars, timerVars
  <1>6. ASSUME NEW h \in helpers, HelperExits(h)
        PROVE  DelayInv'
    BY <1>6 DEF HelperExits, runVars, timerVars
  <1>7. ASSUME NEW code \in {"ok", "failed"}, Write \/ LeaderExits(code)
        PROVE  DelayInv'
    BY <1>7 DEF Write, LeaderExits, runVars, timerVars
  <1>8. CASE Cancel
    BY <1>8 DEF Cancel, runVars, timerVars
  <1>9. ASSUME NEW r \in Runs, Kill(r)
        PROVE  DelayInv'
    BY <1>9 DEF Kill, runVars, timerVars
  <1>10. CASE Reap
    BY <1>10 DEF Reap, runVars, timerVars
  <1>11. CASE Tick
    BY <1>11 DEF Tick, runVars, timerVars
  <1>12. CASE StopDaemon \/ UNCHANGED vars
    BY <1>12 DEF StopDaemon, vars, runVars, timerVars
  <1> QED
    BY <1>1, <1>2, <1>3, <1>4, <1>5, <1>6, <1>7, <1>8,
       <1>9, <1>10, <1>11, <1>12
    DEF Next, CallStep, AcquireImage, ProcessImage

\* A call returns when nobody writes the page any more.
LEMMA WriterStep ==
    ASSUME TypeOK, RunInv, StrayInv, WriterInv, [Next]_vars
    PROVE  WriterInv'
  <1> USE SaneScanAssumption
      DEF TypeOK, ProcessTypes, TimerTypes, PageTypes, RunInv, StrayInv,
          WriterInv, Converting, Runs, Running, LeaderRuns, Cancelled, HelperKinds,
          Group, OutputHeld, Holders
  <1>1. ASSUME NEW c \in {"acquire", "process"},
               NEW first \in {"scanimage", "magick"},
               c = "process" <=> first = "magick", Begin(c, first)
        PROVE  WriterInv'
    BY <1>1 DEF Begin, runVars, timerVars
  <1>2. CASE StartTool
    BY <1>2 DEF StartTool, runVars, timerVars
  <1>3. CASE StartFails \/ RunReturns
    <2>1. CASE StartFails
      BY <2>1 DEF StartFails, FailCall, runVars, timerVars
    <2>2. CASE RunReturns /\ RunSucceeds /\ Convert
      BY <2>2 DEF RunReturns, Convert, timerVars
    <2>3. CASE RunReturns /\ RunSucceeds /\ Deliver
      <3>1. /\ at = "drain" /\ at' = "idle" /\ ~OutputHeld
            /\ UNCHANGED <<call, tool, run, helpers, writer, strays>>
            /\ call = "process" => tool = "img2pdf" /\ writer = run
        BY <2>3 DEF RunReturns, Deliver, DeliverImage, DeliverPage
      <3>2. call = "process" => <<writer, "worker">> \notin helpers
        BY <3>1
      <3>3. call = "process" => writer # 0 /\ writer \notin strays
        BY <3>1
      <3> QED  BY <3>1, <3>2, <3>3
    <2>4. CASE RunReturns /\ ~RunSucceeds
      <3>1. call = "process" => <<writer, "worker">> \notin helpers
        BY <2>4 DEF RunReturns
      <3> QED  BY <2>4, <3>1 DEF RunReturns, FailCall, timerVars
    <2> QED  BY <1>3, <2>1, <2>2, <2>3, <2>4 DEF RunReturns
  <1>4. CASE RunGivesUp
    BY <1>4 DEF RunGivesUp, FailCall, runVars, timerVars
  <1>5. ASSUME NEW k \in HelperKinds, StartHelper(k)
        PROVE  WriterInv'
    <2>1. /\ UNCHANGED <<call, at, tool, run, dest, writer, outcome, strays>>
          /\ helpers' = helpers \cup {<<run, k>>}
          /\ LeaderRuns \/ <<run, "worker">> \in helpers \/ k # "worker"
      BY <1>5 DEF StartHelper
    <2>2. ~Converting /\ writer \notin strays =>
              <<writer, "worker">> \notin helpers'
      BY <2>1
    <2> QED  BY <2>1, <2>2
  <1>6. ASSUME NEW h \in helpers, HelperExits(h)
        PROVE  WriterInv'
    BY <1>6 DEF HelperExits, runVars, timerVars
  <1>7. ASSUME NEW code \in {"ok", "failed"}, Write \/ LeaderExits(code)
        PROVE  WriterInv'
    BY <1>7 DEF Write, LeaderExits, runVars, timerVars
  <1>8. CASE Cancel
    BY <1>8 DEF Cancel, runVars, timerVars
  <1>9. ASSUME NEW r \in Runs, Kill(r)
        PROVE  WriterInv'
    BY <1>9 DEF Kill, runVars, timerVars
  <1>10. CASE Reap
    BY <1>10 DEF Reap, runVars, timerVars
  <1>11. CASE Tick
    BY <1>11 DEF Tick, runVars, timerVars
  <1>12. CASE StopDaemon \/ UNCHANGED vars
    BY <1>12 DEF StopDaemon, vars, runVars, timerVars
  <1> QED
    BY <1>1, <1>2, <1>3, <1>4, <1>5, <1>6, <1>7, <1>8,
       <1>9, <1>10, <1>11, <1>12
    DEF Next, CallStep, AcquireImage, ProcessImage

\* A file that stays is what img2pdf left when it succeeded.
LEMMA PageStep ==
    ASSUME TypeOK, RunInv, WriterInv, PageOrNothing, [Next]_vars
    PROVE  PageOrNothing'
  <1> USE SaneScanAssumption
      DEF TypeOK, ProcessTypes, TimerTypes, PageTypes, RunInv, WriterInv,
          PageOrNothing, Converting, Runs, Running, LeaderRuns
  <1>1. ASSUME NEW c \in {"acquire", "process"},
               NEW first \in {"scanimage", "magick"},
               c = "process" <=> first = "magick", Begin(c, first)
        PROVE  PageOrNothing'
    BY <1>1 DEF Begin, runVars, timerVars
  <1>2. CASE StartTool
    BY <1>2 DEF StartTool, runVars, timerVars
  <1>3. CASE StartFails \/ RunReturns
    BY <1>3 DEF StartFails, FailCall, RunReturns, Convert, Deliver,
                DeliverImage, DeliverPage, RunSucceeds, runVars, timerVars
  <1>4. CASE RunGivesUp
    BY <1>4 DEF RunGivesUp, FailCall, runVars, timerVars
  <1>5. ASSUME NEW k \in HelperKinds, StartHelper(k)
        PROVE  PageOrNothing'
    BY <1>5 DEF StartHelper, runVars, timerVars
  <1>6. ASSUME NEW h \in helpers, HelperExits(h)
        PROVE  PageOrNothing'
    BY <1>6 DEF HelperExits, runVars, timerVars
  <1>7. ASSUME NEW code \in {"ok", "failed"}, Write \/ LeaderExits(code)
        PROVE  PageOrNothing'
    BY <1>7 DEF Write, LeaderExits, runVars, timerVars
  <1>8. CASE Cancel
    BY <1>8 DEF Cancel, runVars, timerVars
  <1>9. ASSUME NEW r \in Runs, Kill(r)
        PROVE  PageOrNothing'
    BY <1>9 DEF Kill, runVars, timerVars
  <1>10. CASE Reap
    BY <1>10 DEF Reap, runVars, timerVars
  <1>11. CASE Tick
    BY <1>11 DEF Tick, runVars, timerVars
  <1>12. CASE StopDaemon \/ UNCHANGED vars
    BY <1>12 DEF StopDaemon, vars, runVars, timerVars
  <1> QED
    BY <1>1, <1>2, <1>3, <1>4, <1>5, <1>6, <1>7, <1>8,
       <1>9, <1>10, <1>11, <1>12
    DEF Next, CallStep, AcquireImage, ProcessImage

\* Only a run that was not cancelled succeeds.
LEMMA AbortStep ==
    ASSUME TypeOK, RunInv, AbortedCallFails, [Next]_vars
    PROVE  AbortedCallFails'
  <1> USE SaneScanAssumption
      DEF TypeOK, ProcessTypes, TimerTypes, PageTypes, RunInv,
          AbortedCallFails, Runs, Running, Cancelled, Off, Fired, Less
  <1>1. ASSUME NEW c \in {"acquire", "process"},
               NEW first \in {"scanimage", "magick"},
               c = "process" <=> first = "magick", Begin(c, first)
        PROVE  AbortedCallFails'
    BY <1>1 DEF Begin, runVars, timerVars
  <1>2. CASE StartTool
    BY <1>2 DEF StartTool, runVars, timerVars
  <1>3. CASE StartFails \/ RunReturns
    BY <1>3 DEF StartFails, FailCall, RunReturns, Convert, Deliver,
                DeliverImage, DeliverPage, RunSucceeds, runVars, timerVars
  <1>4. CASE RunGivesUp
    BY <1>4 DEF RunGivesUp, FailCall, runVars, timerVars
  <1>5. ASSUME NEW k \in HelperKinds, StartHelper(k)
        PROVE  AbortedCallFails'
    BY <1>5 DEF StartHelper, runVars, timerVars
  <1>6. ASSUME NEW h \in helpers, HelperExits(h)
        PROVE  AbortedCallFails'
    BY <1>6 DEF HelperExits, runVars, timerVars
  <1>7. ASSUME NEW code \in {"ok", "failed"}, Write \/ LeaderExits(code)
        PROVE  AbortedCallFails'
    BY <1>7 DEF Write, LeaderExits, runVars, timerVars
  <1>8. CASE Cancel
    BY <1>8 DEF Cancel, runVars, timerVars
  <1>9. ASSUME NEW r \in Runs, Kill(r)
        PROVE  AbortedCallFails'
    BY <1>9 DEF Kill, runVars, timerVars
  <1>10. CASE Reap
    BY <1>10 DEF Reap, runVars, timerVars
  <1>11. CASE Tick
    BY <1>11 DEF Tick, runVars, timerVars
  <1>12. CASE StopDaemon \/ UNCHANGED vars
    BY <1>12 DEF StopDaemon, vars, runVars, timerVars
  <1> QED
    BY <1>1, <1>2, <1>3, <1>4, <1>5, <1>6, <1>7, <1>8,
       <1>9, <1>10, <1>11, <1>12
    DEF Next, CallStep, AcquireImage, ProcessImage

-----------------------------------------------------------------------------

LEMMA InitInv == ASSUME Init PROVE SaneScanInv
  <1> USE SaneScanAssumption DEF Init
  <1>1. TypeOK
    <2>1. ProcessTypes /\ PageTypes
      BY DEF ProcessTypes, PageTypes, Files
    <2>2. TimerTypes
      <3>1. killIn \in [Runs -> {Off, Fired} \cup 0..KillGrace]
        OBVIOUS
      <3>2. 0 \in 0..Timeout /\ Off \in {Off} \cup 0..WaitDelay
        OBVIOUS
      <3> QED  BY <3>1, <3>2 DEF TimerTypes
    <2> QED  BY <2>1, <2>2 DEF TypeOK
  <1>2. RunInv /\ StrayInv
    BY DEF RunInv, StrayInv, Running, Runs
  <1>3. KillInv
    BY DEF KillInv, Running, LeaderRuns, Runs, Off, Fired
  <1>4. DelayInv
    BY DEF DelayInv, Running, WaitDelay
  <1>5. WriterInv /\ PageOrNothing /\ AbortedCallFails
    BY DEF WriterInv, Converting, Running, PageOrNothing, AbortedCallFails
  <1> QED  BY <1>1, <1>2, <1>3, <1>4, <1>5 DEF SaneScanInv

LEMMA StepInv == ASSUME SaneScanInv, [Next]_vars PROVE SaneScanInv'
  <1>1. TypeOK'
    BY ProcessTypesStep, TimerTypesStep, PageTypesStep DEF SaneScanInv, TypeOK
  <1>2. RunInv' /\ KillInv' /\ StrayInv'
    BY RunStep, KillStep, StrayStep DEF SaneScanInv
  <1>3. DelayInv' /\ WriterInv'
    BY DelayStep, WriterStep DEF SaneScanInv
  <1>4. PageOrNothing' /\ AbortedCallFails'
    BY PageStep, AbortStep DEF SaneScanInv
  <1> QED  BY <1>1, <1>2, <1>3, <1>4 DEF SaneScanInv

\* The invariant is inductive.
THEOREM SaneScanInvariant == Spec => []SaneScanInv
  <1> QED  BY InitInv, StepInv, PTL DEF Spec

\* Every variable has its type.
THEOREM SaneScanTypes == Spec => []TypeOK
  <1>1. SaneScanInv => TypeOK
    BY DEF SaneScanInv
  <1> QED  BY <1>1, SaneScanInvariant, PTL

\* setupProcessGroup and cmd.Run: a call whose tool was cancelled fails,
\* whatever the tool's exit status, and leaves none of its workers behind.
THEOREM AbortsAreClean == Spec => []AbortIsClean
  <1>1. SaneScanInv => AbortIsClean
    BY DEF SaneScanInv, StrayInv, AbortIsClean, AbortLeavesNoWorker
  <1> QED  BY <1>1, SaneScanInvariant, PTL

\* ProcessImage: success leaves what img2pdf left, failure nothing of it.
THEOREM PagesAreWhole == Spec => []PageOrNothing
  <1>1. SaneScanInv => PageOrNothing
    BY DEF SaneScanInv
  <1> QED  BY <1>1, SaneScanInvariant, PTL

\* cmd.WaitDelay: a call returns within it once its context is done.
THEOREM ReturnsAreTimely == Spec => []ReturnsInTime
  <1>1. SaneScanInv => ReturnsInTime
    BY DEF SaneScanInv, DelayInv, ReturnsInTime
  <1> QED  BY <1>1, SaneScanInvariant, PTL

-----------------------------------------------------------------------------
(* A call is one step of its caller.                                       *)

\* A tool that runs or is about to run does not touch what the caller knows.
LEMMA HiddenStep ==
    ASSUME SaneScanInv, UNCHANGED <<call, outcome, strays>>, writer' = writer,
           at # "idle" <=> at' # "idle", dest' = dest
    PROVE  UNCHANGED Caller!vars
  BY DEF Caller!vars

\* ProcessImage and AcquireImage return once.
LEMMA ReturnStep ==
    ASSUME SaneScanInv, at # "idle", at' = "idle", UNCHANGED call,
           writer' = writer, strays' \in {strays, strays \cup {run}},
           strays' # strays => Running /\ outcome' = "failed",
           outcome' \in {"ok", "failed"},
           call # "process" => dest' = dest,
           call = "process" /\ outcome' = "ok" =>
               dest # "absent" /\ dest' = "kept",
           call = "process" /\ outcome' = "failed" =>
               dest' = "absent" \/ (dest' = dest /\ dest \in {"absent", "old"})
    PROVE  Caller!Succeed \/ Caller!Fail
  <1>2. CASE outcome' = "ok"
    BY <1>2 DEF Caller!Succeed
  <1>3. CASE outcome' = "failed"
    <2>1. \/ call = "process" /\ writer \in strays'
          \/ (writer \in strays') <=> (writer \in strays)
      <3>1. CASE call = "process"
        BY <3>1
      <3>2. CASE call # "process"
        <4>1. Running => writer # run
          BY <3>2 DEF SaneScanInv, WriterInv, TypeOK, ProcessTypes, PageTypes
        <4> QED  BY <3>2, <4>1
      <3> QED  BY <3>1, <3>2
    <2>2. CASE call = "process"
      <3>1. (writer \in strays') = TRUE \/ (writer \in strays') = (writer \in strays)
        BY <2>1
      <3>2. dest' = "absent" \/ (dest' = dest /\ dest \in {"absent", "old"})
        BY <1>3, <2>2
      <3> QED
        BY <1>3, <2>2, <3>1, <3>2 DEF Caller!Fail, Caller!Untouched
    <2>3. CASE call # "process"
      BY <1>3, <2>1, <2>3 DEF Caller!Fail
    <2> QED  BY <2>2, <2>3
  <1> QED  BY <1>2, <1>3

\* Each step of the processes and of os/exec is a step of the caller's or none.
LEMMA CallerStep ==
    ASSUME SaneScanInv, Next
    PROVE  Caller!Next \/ UNCHANGED Caller!vars
  <1>0. /\ writer \in 0..MaxRuns /\ run \in 0..MaxRuns /\ strays \subseteq Runs
        /\ tool \in {"none", "scanimage", "magick", "thumbnail", "img2pdf"}
        /\ call \in {"none", "acquire", "process"}
        /\ at # "idle" => (call = "process" <=> tool # "scanimage")
        /\ call = "process" /\ at = "next" => writer = 0
        /\ \A r \in Runs : r > run => r \notin strays
        /\ call = "process" /\ writer = 0 => dest \in {"absent", "old"}
    BY DEF SaneScanInv, TypeOK, ProcessTypes, PageTypes, WriterInv, RunInv
  <1>1. ASSUME NEW c \in {"acquire", "process"}, NEW first, Begin(c, first)
        PROVE  Caller!Next
    <2>2. 0 \notin strays
      BY <1>0, SaneScanAssumption DEF Runs
    <2>3. Caller!Begin(c)
      BY <1>1, <2>2 DEF Begin, Caller!Begin
    <2> QED  BY <2>3 DEF Caller!Next
  <1>2. CASE StartTool
    <2>1. /\ UNCHANGED <<call, outcome, strays, dest>>
          /\ at # "idle" /\ at' # "idle" /\ run' = run + 1
          /\ writer' = IF tool = "img2pdf" THEN run' ELSE writer
      BY <1>2 DEF StartTool
    <2>2. (writer' \in strays') <=> (writer \in strays)
      <3>1. CASE tool = "img2pdf"
        <4>1. call = "process" /\ writer = 0 /\ writer' = run + 1
          BY <1>0, <1>2, <2>1, <3>1 DEF StartTool
        <4>2. run + 1 \notin strays /\ 0 \notin strays
          BY <1>0, SaneScanAssumption DEF Runs
        <4> QED  BY <2>1, <4>1, <4>2
      <3> QED  BY <2>1, <3>1
    <2> QED  BY <2>1, <2>2 DEF Caller!vars
  <1>3. CASE StartFails
    <2>1. /\ at = "next" /\ FailCall
          /\ UNCHANGED <<call, tool, writer, strays>>
      BY <1>3 DEF StartFails, runVars
    <2>2. call = "process" =>
              dest' = "absent" \/ (dest' = dest /\ dest \in {"absent", "old"})
      BY <1>0, <2>1 DEF FailCall
    <2>3. call # "process" => dest' = dest
      BY <1>0, <2>1 DEF FailCall
    <2>4. at # "idle" /\ at' = "idle" /\ outcome' = "failed"
      BY <2>1 DEF FailCall
    <2> QED  BY <2>1, <2>2, <2>3, <2>4, ReturnStep DEF Caller!Next
  <1>4. CASE RunReturns
    <2>1. at = "drain" /\ UNCHANGED <<call, writer, strays>>
      BY <1>4 DEF RunReturns
    <2>2. CASE Convert
      BY <1>4, <2>1, <2>2, HiddenStep DEF Convert
    <2>3. CASE Deliver
      <3>1. /\ tool \in {"scanimage", "img2pdf"} /\ at' = "idle"
            /\ outcome' \in {"ok", "failed"}
            /\ tool = "scanimage" => dest' = dest
            /\ tool = "img2pdf" /\ outcome' = "ok" =>
                   dest # "absent" /\ dest' = "kept"
            /\ tool = "img2pdf" /\ outcome' = "failed" => dest' = "absent"
        BY <2>3 DEF Deliver, DeliverImage, DeliverPage
      <3> QED  BY <1>0, <2>1, <3>1, ReturnStep DEF Caller!Next
    <2>4. CASE FailCall /\ UNCHANGED tool
      <3>1. /\ at' = "idle" /\ outcome' = "failed"
            /\ dest' = IF tool = "img2pdf" THEN "absent" ELSE dest
        BY <2>4 DEF FailCall
      <3>2. call = "process" =>
                dest' = "absent" \/ (dest' = dest /\ dest \in {"absent", "old"})
        BY <1>0, <2>1, <3>1 DEF SaneScanInv, WriterInv, Running
      <3> QED  BY <1>0, <2>1, <3>1, <3>2, ReturnStep DEF Caller!Next
    <2> QED  BY <1>4, <2>2, <2>3, <2>4 DEF RunReturns
  <1>5. CASE RunGivesUp
    <2>1. /\ Running /\ at' = "idle" /\ outcome' = "failed"
          /\ strays' \in {strays, strays \cup {run}}
          /\ UNCHANGED <<call, writer>>
          /\ dest' = IF tool = "img2pdf" THEN "absent" ELSE dest
      BY <1>5 DEF RunGivesUp, FailCall
    <2>2. call = "process" =>
              dest' = "absent" \/ (dest' = dest /\ dest \in {"absent", "old"})
      BY <1>0, <2>1 DEF SaneScanInv, WriterInv, Running
    <2>3. at # "idle"
      BY <2>1 DEF Running
    <2> QED  BY <1>0, <2>1, <2>2, <2>3, ReturnStep DEF Caller!Next
  <1>6. CASE Write
    <2>1. /\ UNCHANGED <<call, at, writer, outcome, strays>>
          /\ dest' \in {"empty", "partial"}
          /\ (writer = run /\ LeaderRuns) \/ <<writer, "worker">> \in helpers
      BY <1>6 DEF Write, runVars
    <2>2. CASE Converting
      BY <2>1, <2>2 DEF Converting, Caller!Write, Caller!Next
    <2>3. CASE ~Converting
      <3>1. ~(writer = run /\ LeaderRuns)
        BY <1>0, <2>3 DEF SaneScanInv, WriterInv, LeaderRuns, Running, Converting
      <3>2. writer \in strays
        BY <2>1, <2>3, <3>1 DEF SaneScanInv, WriterInv
      <3>3. Caller!LateWrite
        BY <2>1, <3>2 DEF Caller!LateWrite
      <3> QED  BY <3>3 DEF Caller!Next
    <2> QED  BY <2>2, <2>3
  <1>7. CASE \/ Cancel \/ Reap \/ (\E r \in Runs : Kill(r))
             \/ (\E k \in HelperKinds : StartHelper(k))
             \/ (\E h \in helpers : HelperExits(h))
             \/ (\E code \in {"ok", "failed"} : LeaderExits(code))
             \/ StopDaemon \/ Tick
    BY <1>7, HiddenStep
    DEF Cancel, Reap, Kill, StartHelper, HelperExits, LeaderExits, StopDaemon,
        Tick
  <1> QED
    BY <1>1, <1>2, <1>3, <1>4, <1>5, <1>6, <1>7
    DEF Next, CallStep, AcquireImage, ProcessImage

\* AcquireImage and ProcessImage are what Session takes them for: a file that may
\* be seen while it is written, and one step that succeeds with a page which stays
\* as it is, or fails and leaves nothing of it
\* (sane.go: AcquireImage, ProcessImage; proc_unix.go: setupProcessGroup).
THEOREM SaneScanImplementsPageCall == Spec => ImplementsPageCall
  <1>1. Init => Caller!Init
    <2> SUFFICES ASSUME Init PROVE Caller!Init
      OBVIOUS
    <2>1. (at # "idle") = FALSE /\ (writer \in strays) = FALSE
      BY DEF Init
    <2> QED  BY <2>1 DEF Init, Caller!Init
  <1>2. SaneScanInv /\ [Next]_vars => [Caller!Next]_(Caller!vars)
    <2>1. SaneScanInv /\ Next => Caller!Next \/ UNCHANGED Caller!vars
      BY CallerStep
    <2>2. UNCHANGED vars => UNCHANGED Caller!vars
      BY DEF vars, Caller!vars
    <2> QED  BY <2>1, <2>2
  <1> QED
    BY <1>1, <1>2, SaneScanInvariant, PTL
    DEF Spec, ImplementsPageCall, Caller!Spec
=============================================================================
