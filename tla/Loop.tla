-------------------------------- MODULE Loop --------------------------------
(***************************************************************************)
(* The action loop of main.go: one select over key presses, web clicks,    *)
(* the idle timer, the end of the key source and the stop signal, with the *)
(* source that feeds it through keys.send.                                 *)
(*                                                                         *)
(* Time passes in ticks, and only once everybody has done what he can do   *)
(* at once.  An action takes as long as it likes; of what it does, only    *)
(* whether a document is open afterwards matters here (Session has it).    *)
(***************************************************************************)
EXTENDS Integers, Sequences

CONSTANTS
    IdleTimeout,  \* ticks; 0 disables it
    SendTimeout,  \* ticks send waits for the loop
    MaxInputs     \* bound: key presses and web clicks

ASSUME LoopAssumption ==
    /\ IdleTimeout \in Nat
    /\ SendTimeout \in Nat \ {0}
    /\ MaxInputs \in Nat

\* What an action may make of the open document.
Whats == {"scan", "close"}

VARIABLES
    loop,       \* waiting in select, busy with an action, in the upload that
                \* finishing a document ends with, or returned
    doing,      \* that action
    open,       \* State().SessionActive
    idleLeft,   \* ticks until the idle timer fires, 0 once it did
    fired,      \* idleTimer.C is ready
    typed,      \* the presses no one has read yet, by the ticks since
    source,     \* reading, in send, or returned
    held,       \* the ticks since the press in send was made
    sendLeft,   \* ticks until send gives up
    cancelled,  \* ctx is done
    inputs,
    sinceInput  \* history: ticks, up to IdleTimeout, since an action was taken

timerVars  == <<idleLeft, fired>>
sourceVars == <<typed, source, held, sendLeft>>
vars == <<loop, doing, open, timerVars, sourceVars, cancelled, inputs,
          sinceInput>>

Late == SendTimeout + 1   \* ticks are not told apart from here on

Init ==
    /\ loop = "select" /\ doing = "none"
    /\ open \in BOOLEAN          \* a document the last run left open
    /\ idleLeft = IdleTimeout /\ fired = FALSE
    /\ typed = << >> /\ source = "read" /\ held = 0 /\ sendLeft = 0
    /\ cancelled = FALSE /\ inputs = 0
    /\ sinceInput = 0

-----------------------------------------------------------------------------
(* The key source.                                                         *)

Input == inputs < MaxInputs /\ inputs' = inputs + 1

\* A user presses a key; the device keeps it until it is read.
Press ==
    /\ Input
    /\ typed' = Append(typed, 0)
    /\ UNCHANGED <<loop, doing, open, timerVars, source, held, sendLeft,
                   cancelled, sinceInput>>

\* Those that were read together are sent one after the other.
ReadKey ==
    /\ source = "read" /\ typed # << >>
    /\ source' = "send" /\ sendLeft' = SendTimeout
    /\ held' = Head(typed) /\ typed' = Tail(typed)
    /\ UNCHANGED <<loop, doing, open, timerVars, cancelled, inputs,
                   sinceInput>>

\* send returns: its timer is stopped.
SendReturns == sendLeft' = 0 /\ held' = 0

SendTimesOut ==
    /\ source = "send" /\ sendLeft = 0
    /\ source' = "read" /\ SendReturns
    /\ UNCHANGED <<loop, doing, open, timerVars, typed, cancelled, inputs,
                   sinceInput>>

\* Run returns: the input ended or failed, Ctrl-C was read, or ctx is done.
SourceEnds ==
    /\ source = "read" \/ (source = "send" /\ cancelled)
    /\ source' = "gone" /\ SendReturns
    /\ UNCHANGED <<loop, doing, open, timerVars, typed, cancelled, inputs,
                   sinceInput>>

-----------------------------------------------------------------------------
(* The loop.                                                               *)

\* Mutation of Reset: a fire nobody has received survives it.
ResetKeepsStale == idleLeft' = IdleTimeout /\ UNCHANGED fired

\* Mutation of Reset: the timer is only stopped.
ResetStops == idleLeft' = 0 /\ fired' = FALSE

\* Reset of a timer drops a fire that was not received (Go 1.23 and later).
Reset == idleLeft' = IdleTimeout /\ fired' = FALSE

Take(what) ==
    /\ loop = "select" /\ Reset
    /\ loop' = "busy" /\ doing' = what
    /\ sinceInput' = 0

\* HandleKey: a key without an action changes nothing but the timer.
TakeKey(what) ==
    /\ source = "send" /\ source' = "read" /\ SendReturns
    /\ Take(what)
    /\ UNCHANGED <<open, typed, cancelled, inputs>>

\* submit: a click is taken at once or refused, which changes nothing.
TakeClick(what) ==
    /\ Input /\ Take(what)
    /\ UNCHANGED <<open, sourceVars, cancelled>>

\* Mutation of IdleFires: the timer is only set again for an open document.
IdleFiresOnce ==
    /\ loop = "select" /\ fired
    /\ IF open THEN loop' = "busy" /\ doing' = "idle-finish" /\ Reset
       ELSE fired' = FALSE /\ UNCHANGED <<loop, doing, idleLeft>>
    /\ UNCHANGED <<open, sourceVars, cancelled, inputs, sinceInput>>

IdleFires ==
    /\ loop = "select" /\ fired /\ Reset
    /\ IF open THEN loop' = "busy" /\ doing' = "idle-finish"
       ELSE UNCHANGED <<loop, doing>>
    /\ UNCHANGED <<open, sourceVars, cancelled, inputs, sinceInput>>

\* finish uploads what it has saved, when there is a server to upload to; a new
\* document finishes the one before it first.
BeginUpload ==
    /\ loop = "busy" /\ open /\ doing # "ignore"
    /\ loop' = "upload"
    /\ UNCHANGED <<doing, open, timerVars, sourceVars, cancelled, inputs,
                   sinceInput>>

\* The server has answered, or ctx is done.  Nothing else ends an upload.
EndUpload ==
    /\ loop = "upload" /\ loop' = "busy" /\ open' = FALSE
    /\ UNCHANGED <<doing, timerVars, sourceVars, cancelled, inputs, sinceInput>>

\* A scan may fail to open a document, or fail after closing the one before.
\* Saved, failed or discarded, a document is closed in the end.
ActionEnds ==
    /\ loop = "busy" /\ loop' = "select" /\ doing' = "none"
    /\ CASE doing = "scan"   -> open' \in BOOLEAN
         [] doing = "ignore" -> UNCHANGED open
         [] OTHER            -> open' = FALSE
    /\ UNCHANGED <<timerVars, sourceVars, cancelled, inputs, sinceInput>>

\* Mutation of LoopReturns: an input that ended without an error is ignored.
LoopReturnsOnSignal ==
    /\ loop = "select" /\ cancelled
    /\ loop' = "stopped"
    /\ UNCHANGED <<doing, open, timerVars, sourceVars, cancelled, inputs,
                   sinceInput>>

LoopReturns ==
    /\ loop = "select" /\ (cancelled \/ source = "gone")
    /\ loop' = "stopped"
    /\ UNCHANGED <<doing, open, timerVars, sourceVars, cancelled, inputs,
                   sinceInput>>

Signal ==
    /\ ~cancelled /\ cancelled' = TRUE
    /\ UNCHANGED <<loop, doing, open, timerVars, sourceVars, inputs,
                   sinceInput>>

-----------------------------------------------------------------------------
(* Time.                                                                   *)

LoopSettled == loop = "select" => ~cancelled /\ ~fired /\ source = "read"
SendSettled == source = "send" => sendLeft > 0 /\ ~cancelled
ReadSettled == source = "read" => typed = << >> /\ ~cancelled

Later(t, last) == IF t < last THEN t + 1 ELSE last
Sooner(t)      == IF t > 0 THEN t - 1 ELSE 0

Pass ==
    /\ loop # "stopped" /\ LoopSettled /\ SendSettled
    /\ idleLeft' = Sooner(idleLeft)
    /\ fired' = (fired \/ idleLeft = 1)
    /\ sendLeft' = Sooner(sendLeft)
    /\ held' = IF source = "send" THEN Later(held, Late) ELSE held
    /\ typed' = [i \in 1..Len(typed) |-> Later(typed[i], Late)]
    /\ sinceInput' = Later(sinceInput, IdleTimeout)
    /\ UNCHANGED <<loop, doing, open, source, cancelled, inputs>>

Tick == ReadSettled /\ Pass

SourceStep == ReadKey \/ SendTimesOut \/ SourceEnds

TakeStep == \E what \in Whats : TakeKey(what) \/ TakeClick(what)
LoopStep == TakeStep \/ TakeKey("ignore") \/ IdleFires \/ LoopReturns
ActionStep == BeginUpload \/ EndUpload \/ ActionEnds

Next ==
    \/ Press \/ Signal
    \/ SourceStep \/ LoopStep \/ ActionStep
    \/ Tick

Spec == Init /\ [][Next]_vars

-----------------------------------------------------------------------------

\* Every variable has its type.
TypeOK ==
    /\ loop \in {"select", "busy", "upload", "stopped"}
    /\ doing \in Whats \cup {"none", "ignore", "idle-finish"}
    /\ open \in BOOLEAN /\ fired \in BOOLEAN /\ cancelled \in BOOLEAN
    /\ idleLeft \in 0..IdleTimeout
    /\ typed \in Seq(0..Late) /\ held \in 0..Late
    /\ source \in {"read", "send", "gone"}
    /\ sendLeft \in 0..SendTimeout
    /\ inputs \in 0..MaxInputs
    /\ sinceInput \in 0..IdleTimeout

\* The idle timer is running or about to be heard, whatever the loop did with
\* it last: no document stays open because it was not set again.
TimerRuns == IdleTimeout > 0 => idleLeft > 0 \/ fired

\* The idle timer finishes a document only when no action was taken for its
\* whole time: a fire that lost the race against an action is forgotten.
IdleFinishIsDue ==
    [][doing' = "idle-finish" /\ doing # "idle-finish" =>
           sinceInput = IdleTimeout]_vars

\* "A key press waits up to keys.sendTimeout for the loop to become free
\* before being dropped": none is acted on later than that.
KeyInTime ==
    [][source = "send" /\ source' = "read" /\ loop' # loop =>
           held <= SendTimeout]_vars

\* A forgotten document is finished, and on its way to the server when there is
\* one.
OpenIsFinished == open ~> (~open \/ loop \in {"upload", "stopped"})

-----------------------------------------------------------------------------
(* The inductive invariant: the timer never runs ahead of the last input.  *)

TimerInv ==
    /\ ~fired => sinceInput + idleLeft >= IdleTimeout
    /\ fired => sinceInput = IdleTimeout

LoopInv == TypeOK /\ TimerRuns /\ TimerInv
=============================================================================
