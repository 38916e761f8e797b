------------------------------ MODULE SaneScan ------------------------------
(***************************************************************************)
(* The scanner's child processes: AcquireImage and ProcessImage of         *)
(* internal/scan/sane.go, and the process group internal/scan/proc_unix.go *)
(* gives each tool they run, as os/exec waits for it.  Session knows a     *)
(* call only by its outcome.                                               *)
(*                                                                         *)
(* A tool has a process of its own, the leader, which may start helpers    *)
(* in its group: scanimage behind a wrapper script.  A cancelled run       *)
(* signals the group, waits KillGrace and kills it.  Run returns when the  *)
(* leader is gone and the tool's output is closed, at the latest WaitDelay *)
(* after the cancellation or the leader's exit.  Calls are taken one after *)
(* the other: concurrent ones share nothing.                               *)
(*                                                                         *)
(* Time passes in ticks, and what is due happens within its tick.          *)
(***************************************************************************)
EXTENDS Integers

CONSTANTS
    Timeout,    \* ticks a call may take; 0 is no timeout
    KillGrace,  \* killGrace, in ticks
    MaxRuns     \* bound: tools ever started

ASSUME SaneScanAssumption ==
    /\ Timeout \in Nat
    /\ KillGrace \in Nat \ {0}
    /\ MaxRuns \in Nat \ {0}

Runs == 1..MaxRuns       \* the tools started, in order; no pid is reused

\* A worker does its tool's work and holds its output open, a quiet helper
\* has closed the output, and an escaped one has left the group with it.
HelperKinds == {"worker", "quiet", "escaped"}
Group       == {"worker", "quiet"}
Holders     == {"worker", "escaped"}

Off   == -1              \* a timer that was never set
Fired == -2

\* Mutation of WaitDelay: no second beyond the grace period.
WaitDelayTight == KillGrace

WaitDelay == KillGrace + 1

VARIABLES
    call,      \* the call under way, or the last one
    at,        \* "next" tool, "wait" for its exit, "drain" its output, "idle"
    tool,      \* the tool that runs, or runs next
    run,       \* the latest run
    exit,      \* how its leader ended
    helpers,   \* <<run, kind>> for the helpers that are alive
    killIn,    \* the SIGKILL timer of a run, set when it is cancelled
    waitLeft,  \* the WaitDelay timer of the latest run
    timeLeft,  \* until the call's timeout
    stopped,   \* the daemon's context is done
    overdue,   \* ticks since the call's context was done
    dest,      \* the file at req.Dest, see Files
    writer,    \* the run that writes it, 0 before it is started
    outcome,   \* what the call returned
    strays     \* runs left behind with a worker of theirs alive

timerVars == <<killIn, waitLeft, timeLeft, stopped, overdue>>
runVars   == <<tool, run, exit, helpers>>
vars == <<call, at, runVars, timerVars, dest, writer, outcome, strays>>

Init ==
    /\ call = "none" /\ at = "idle" /\ tool = "none"
    /\ run = 0 /\ exit = "ok" /\ helpers = {}
    /\ killIn = [r \in Runs |-> Off] /\ waitLeft = Off /\ timeLeft = 0
    /\ stopped = FALSE /\ overdue = 0
    /\ dest = "absent" /\ writer = 0 /\ outcome = "none" /\ strays = {}

\* Mutation of ContextDone: the tools are given the caller's context.
ContextDoneUntimed == at # "idle" /\ call = "acquire" /\ stopped

\* ctx of the call: scans stop with the daemon, conversions do not.
ContextDone ==
    /\ at # "idle"
    /\ \/ Timeout > 0 /\ timeLeft = 0
       \/ call = "acquire" /\ stopped

Running == at \in {"wait", "drain"}

LeaderRuns == at = "wait" /\ exit = "running"

Cancelled(r) == killIn[r] # Off

\* Mutation of OutputHeld: the output is a file, for whose end nobody waits.
OutputHeldByNone == FALSE

OutputHeld == \E k \in Holders : <<run, k>> \in helpers

-----------------------------------------------------------------------------
(* The calls and their tools.                                              *)

\* What may be at req.Dest: nothing, what a page of this number left there before
\* a restart of the daemon, an empty file or a part of a page that img2pdf has got
\* to so far, and what it left when it reported success.
Files == {"absent", "old", "empty", "partial", "kept"}

\* Every call to ProcessImage has its req.Dest.
Begin(c, first) ==
    /\ at = "idle" /\ run < MaxRuns
    /\ call' = c /\ at' = "next" /\ tool' = first
    /\ timeLeft' = Timeout /\ overdue' = 0 /\ outcome' = "none"
    /\ IF c = "process" THEN dest' \in {"absent", "old"} /\ writer' = 0
       ELSE UNCHANGED <<dest, writer>>
    /\ UNCHANGED <<run, exit, helpers, killIn, waitLeft, stopped, strays>>

AcquireImage == Begin("acquire", "scanimage")
ProcessImage == Begin("process", "magick")

\* Only what img2pdf may have touched is removed.
FailCall ==
    /\ at' = "idle" /\ outcome' = "failed"
    /\ dest' = IF tool = "img2pdf" THEN "absent" ELSE dest

\* Start: nothing is started once the context is done.
StartTool ==
    /\ at = "next" /\ ~ContextDone /\ run < MaxRuns
    /\ at' = "wait" /\ run' = run + 1 /\ exit' = "running"
    /\ waitLeft' = Off
    /\ writer' = IF tool = "img2pdf" THEN run' ELSE writer
    /\ UNCHANGED <<call, tool, helpers, killIn, timeLeft, stopped, overdue,
                   dest, outcome, strays>>

\* The same for a temporary directory that cannot be made.
StartFails ==
    /\ at = "next" /\ FailCall
    /\ UNCHANGED <<call, runVars, timerVars, writer, strays>>

\* A thumbnail is made when the request names a file for it.
Convert ==
    /\ tool \in {"magick", "thumbnail"} /\ at' = "next"
    /\ \/ tool = "magick" /\ tool' = "thumbnail"
       \/ tool' = "img2pdf"
    /\ UNCHANGED <<dest, outcome>>

\* scanimage may report success without an image.
DeliverImage ==
    /\ tool = "scanimage" /\ outcome' \in {"ok", "failed"}
    /\ UNCHANGED dest

\* Of what img2pdf made, ProcessImage looks at the size: any but an empty file is
\* taken for the page.
DeliverPage ==
    /\ tool = "img2pdf"
    /\ IF dest \in {"absent", "empty"}
       THEN outcome' = "failed" /\ dest' = "absent"
       ELSE outcome' = "ok" /\ dest' = "kept"

Deliver == (DeliverImage \/ DeliverPage) /\ at' = "idle" /\ UNCHANGED tool

-----------------------------------------------------------------------------
(* What the processes do.                                                  *)

\* A quiet helper has no output to hand on.
StartHelper(k) ==
    /\ \/ LeaderRuns
       \/ <<run, "worker">> \in helpers
       \/ k = "quiet" /\ <<run, "quiet">> \in helpers
    /\ helpers' = helpers \cup {<<run, k>>}
    /\ UNCHANGED <<call, at, tool, run, exit, timerVars, dest, writer,
                   outcome, strays>>

HelperExits(h) ==
    /\ h \in helpers
    /\ helpers' = helpers \ {h}
    /\ UNCHANGED <<call, at, tool, run, exit, timerVars, dest, writer,
                   outcome, strays>>

\* img2pdf, or the worker behind it, creates the file or writes more of it.
Write ==
    /\ (writer = run /\ LeaderRuns) \/ <<writer, "worker">> \in helpers
    /\ dest' \in {"empty", "partial"}
    /\ UNCHANGED <<call, at, runVars, timerVars, writer, outcome, strays>>

LeaderExits(code) ==
    /\ LeaderRuns
    /\ exit' = code
    /\ UNCHANGED <<call, at, tool, run, helpers, timerVars, dest, writer,
                   outcome, strays>>

-----------------------------------------------------------------------------
(* os/exec: the goroutine that watches the context, and Wait.              *)

\* Mutation of Cancel: SIGTERM is all that is sent.
CancelPolitely ==
    /\ at = "wait" /\ ContextDone /\ ~Cancelled(run)
    /\ killIn' = [killIn EXCEPT ![run] = Fired]
    /\ waitLeft' = WaitDelay
    /\ UNCHANGED <<call, at, runVars, timeLeft, stopped, overdue, dest,
                   writer, outcome, strays>>

\* cmd.Cancel: SIGTERM, which a process may ignore, and a timer for SIGKILL.
\* It may find that the leader has just exited.
Cancel ==
    /\ at = "wait" /\ ContextDone /\ ~Cancelled(run)
    /\ killIn' = [killIn EXCEPT ![run] = KillGrace]
    /\ waitLeft' = WaitDelay
    /\ UNCHANGED <<call, at, runVars, timeLeft, stopped, overdue, dest,
                   writer, outcome, strays>>

\* The timer's SIGKILL reaches what is left of the group, whoever waits.
Kill(r) ==
    /\ killIn[r] = 0
    /\ killIn' = [killIn EXCEPT ![r] = Fired]
    /\ helpers' = helpers \ ({r} \X Group)
    /\ exit' = IF r = run /\ LeaderRuns THEN "failed" ELSE exit
    /\ UNCHANGED <<call, at, tool, run, waitLeft, timeLeft, stopped, overdue,
                   dest, writer, outcome, strays>>

\* Mutation of Reap: WaitDelay is set by a cancellation only.
ReapOnly ==
    /\ at = "wait" /\ exit # "running"
    /\ at' = "drain"
    /\ UNCHANGED <<call, runVars, timerVars, dest, writer, outcome, strays>>

\* The leader is gone: its output may stay open for WaitDelay at most.
Reap ==
    /\ at = "wait" /\ exit # "running"
    /\ at' = "drain"
    /\ waitLeft' = IF Cancelled(run) THEN waitLeft ELSE WaitDelay
    /\ UNCHANGED <<call, runVars, killIn, timeLeft, stopped, overdue, dest,
                   writer, outcome, strays>>

\* A run that was cancelled fails, even if its leader exits with status 0.
RunSucceeds == exit = "ok" /\ ~Cancelled(run)

\* The output is closed and Run returns.
RunReturns ==
    /\ at = "drain" /\ ~OutputHeld
    /\ \/ RunSucceeds /\ (Convert \/ Deliver)
       \/ ~RunSucceeds /\ FailCall /\ UNCHANGED tool
    /\ UNCHANGED <<call, run, exit, helpers, timerVars, writer, strays>>

\* ErrWaitDelay: Run returns although somebody holds the output.
RunGivesUp ==
    /\ Running /\ waitLeft = 0
    /\ exit' = IF exit = "running" THEN "failed" ELSE exit
    /\ strays' = IF <<run, "worker">> \in helpers
                 THEN strays \cup {run} ELSE strays
    /\ FailCall
    /\ UNCHANGED <<call, tool, run, helpers, timerVars, writer>>

-----------------------------------------------------------------------------

StopDaemon ==
    /\ ~stopped /\ stopped' = TRUE
    /\ UNCHANGED <<call, at, runVars, killIn, waitLeft, timeLeft, overdue,
                   dest, writer, outcome, strays>>

\* Something is due: a timer, the watcher, Wait or the next tool.
Due ==
    \/ at = "next"
    \/ at = "wait" /\ (exit # "running" \/ (ContextDone /\ ~Cancelled(run)))
    \/ at = "drain" /\ ~OutputHeld
    \/ Running /\ waitLeft = 0
    \/ \E r \in Runs : killIn[r] = 0

Less(timer) == IF timer > 0 THEN timer - 1 ELSE timer

\* overdue is history: it is not read by the code.
Tick ==
    /\ ~Due
    /\ killIn' = [r \in Runs |-> Less(killIn[r])]
    /\ waitLeft' = IF Running THEN Less(waitLeft) ELSE waitLeft
    /\ timeLeft' = IF at = "idle" THEN timeLeft ELSE Less(timeLeft)
    /\ overdue' = IF ContextDone THEN overdue + 1 ELSE overdue
    /\ UNCHANGED <<call, at, runVars, stopped, dest, writer, outcome, strays>>

CallStep ==
    \/ StartTool \/ StartFails \/ Cancel
    \/ Reap \/ RunReturns \/ RunGivesUp

Next ==
    \/ AcquireImage \/ ProcessImage
    \/ CallStep
    \/ \E r \in Runs : Kill(r)
    \/ \E k \in HelperKinds : StartHelper(k)
    \/ \E h \in helpers : HelperExits(h)
    \/ Write
    \/ \E code \in {"ok", "failed"} : LeaderExits(code)
    \/ StopDaemon
    \/ Tick

Spec == Init /\ [][Next]_vars

\* The calls and the kill timers go on, and time does not stand still, however
\* many helpers come and go and calls fail within a tick.  No process has to
\* exit, to obey SIGTERM or to close its output.
FairSpec ==
    /\ Spec
    /\ WF_vars(CallStep)
    /\ WF_vars(\E r \in Runs : Kill(r))
    /\ SF_vars(Tick)

-----------------------------------------------------------------------------

ProcessTypes ==
    /\ call \in {"none", "acquire", "process"}
    /\ at \in {"idle", "next", "wait", "drain"}
    /\ tool \in {"none", "scanimage", "magick", "thumbnail", "img2pdf"}
    /\ run \in 0..MaxRuns /\ exit \in {"running", "ok", "failed"}
    /\ helpers \subseteq Runs \X HelperKinds

TimerTypes ==
    /\ killIn \in [Runs -> {Off, Fired} \cup 0..KillGrace]
    /\ waitLeft \in {Off} \cup 0..WaitDelay /\ timeLeft \in 0..Timeout
    /\ stopped \in BOOLEAN /\ overdue \in Nat

PageTypes ==
    /\ dest \in Files
    /\ writer \in 0..MaxRuns /\ outcome \in {"none", "ok", "failed"}
    /\ strays \subseteq Runs

\* Every variable has its type.
TypeOK == ProcessTypes /\ TimerTypes /\ PageTypes

\* When Run gives up on the output of a cancelled run, the group has been
\* killed: none of its workers is left behind.
AbortLeavesNoWorker == \A r \in strays : ~Cancelled(r)

\* An aborted scan is never taken for a page, although scanimage, told to
\* stop, may exit with status 0 and half an image.
AbortedCallFails ==
    at = "idle" /\ run # 0 /\ Cancelled(run) => outcome = "failed"

\* Aborting a call fails it and, as README.md:127 says, "kills the whole
\* process group, so a hanging scanimage cannot keep the scanner busy".
AbortIsClean == AbortLeavesNoWorker /\ AbortedCallFails

\* ProcessImage that succeeds leaves what img2pdf left, and one that fails nothing
\* of it: what img2pdf still writes after the first signal is written before the
\* file is removed.  A file that was there stays if img2pdf was not started.
PageOrNothing ==
    call = "process" /\ at = "idle" =>
        /\ outcome = "ok" => dest = "kept"
        /\ outcome = "failed" /\ writer \notin strays =>
               dest = "absent" \/ (writer = 0 /\ dest = "old")

\* A call returns at most WaitDelay after its context is done, whatever its
\* tools and their helpers do with signals and with their output.
ReturnsInTime == overdue <= WaitDelay

\* With a timeout, every call returns: the loop and the goroutines of the
\* pages are never stuck in a tool.
CallsReturn == at # "idle" ~> at = "idle"

\* What a cancelled run started in its group is gone in the end, the helpers
\* nobody waits for included.
GroupDies ==
    \A r \in Runs :
        Cancelled(r) ~> \A k \in Group : <<r, k>> \notin helpers

Converting == call = "process" /\ at # "idle"

\* An empty file is a part of a page as well.
Caller == INSTANCE PageCall WITH
    busy <- at # "idle",
    page <- IF dest = "empty" THEN "partial" ELSE dest,
    abandoned <- writer \in strays

\* Processes, signals and timers are out of the caller's sight: it sees a file
\* that grows while the call runs, and one step that succeeds with a page that
\* nobody touches afterwards, whatever else is scanned, or fails without.
ImplementsPageCall == Caller!Spec

-----------------------------------------------------------------------------
(* The inductive invariant: what the properties above rest on.             *)

\* Runs come in order, and a run has its tool to itself.
RunInv ==
    /\ Running => run \in Runs
    /\ at = "drain" => exit # "running"
    /\ \A r \in Runs : r > run =>
           /\ killIn[r] = Off /\ r \notin strays
           /\ \A k \in HelperKinds : <<r, k>> \notin helpers

\* SIGKILL comes before WaitDelay ends, and nobody in the group survives it.
KillInv ==
    /\ at = "wait" => (waitLeft = Off <=> ~Cancelled(run))
    /\ at = "drain" => waitLeft # Off
    /\ Running /\ killIn[run] >= 0 => killIn[run] < waitLeft
    /\ \A r \in Runs : killIn[r] = Fired =>
           /\ \A k \in Group : <<r, k>> \notin helpers
           /\ ~(r = run /\ LeaderRuns)

\* A run that left a worker behind was not cancelled, and is over.
StrayInv == \A r \in strays : ~Cancelled(r) /\ ~(r = run /\ Running)

\* What is overdue and what WaitDelay leaves do not exceed it.
DelayInv ==
    /\ overdue <= WaitDelay
    /\ overdue > 0 /\ at # "idle" => ContextDone
    /\ Running => overdue + waitLeft <= WaitDelay
    /\ at = "wait" /\ waitLeft = Off => overdue = 0

\* img2pdf alone writes the page, and only while a call waits for it.
WriterInv ==
    /\ writer <= run
    /\ at # "idle" => (call = "process" <=> tool # "scanimage")
    /\ call = "process" /\ writer = 0 => dest \in {"absent", "old"}
    /\ call = "process" /\ at = "next" => writer = 0
    /\ call = "process" /\ Running =>
           writer = IF tool = "img2pdf" THEN run ELSE 0
    /\ call # "process" /\ Running => writer < run
    /\ ~Converting /\ writer \notin strays =>
           <<writer, "worker">> \notin helpers
    /\ call = "process" /\ at = "idle" /\ outcome = "ok" =>
           writer \notin strays

SaneScanInv ==
    /\ TypeOK
    /\ RunInv /\ KillInv /\ StrayInv /\ DelayInv /\ WriterInv
    /\ PageOrNothing /\ AbortedCallFails
=============================================================================
