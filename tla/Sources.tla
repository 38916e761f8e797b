------------------------------ MODULE Sources ------------------------------
(***************************************************************************)
(* The key sources that feed the loop, in the daemon they belong to:       *)
(* internal/keys/stdin.go with its reader goroutine and decoder, and       *)
(* internal/keys/libinput.go with its child process.  Loop has the other   *)
(* end, send and the select; a device (Evdev) is read as it reads one.     *)
(*                                                                         *)
(* The input of stdin is a sequence of bytes, that of libinput one of      *)
(* lines.  Bytes are keys, quit (Ctrl-C and Ctrl-D), and what may or may   *)
(* not be a part of a longer rune.  typed, of Loop, still has an age for   *)
(* every press of a key that Run has not got yet.                          *)
(***************************************************************************)
EXTENDS Loop, FiniteSets

CONSTANTS
    UTFMax,    \* utf8.UTFMax: the bytes that make a rune for certain
    ReadSize   \* the bytes the reader goroutine takes at a time

ASSUME SourcesAssumption ==
    /\ UTFMax \in Nat /\ UTFMax >= 2
    /\ ReadSize \in Nat \ {0}

Kinds == {"device", "stdin", "libinput"}
Bytes == {"key", "quit", "lead", "cont"}   \* "lead" "cont" is one rune
Lines == {"key", "other", "long"}          \* "long" is too long for a Scanner
Items(k) == CASE k = "stdin" -> Bytes [] k = "libinput" -> Lines [] OTHER -> {}
Runes == {"key", "quit", "other", "end", "fail"}   \* the last two are errors

VARIABLES
    kind,      \* the source that was configured
    input,     \* what it has not read: the terminal's bytes, the pipe's lines
    closed,    \* nobody writes to the input: libinput has exited
    buf,       \* runeReader.buf
    offer,     \* what the reader goroutine has in hand for Run
    draining,  \* ScanLibinput has returned
    ending     \* why Run returned

inputVars == <<input, closed>>
ownVars   == <<inputVars, buf, offer, draining, ending>>
loopVars  == <<loop, doing, open, timerVars, cancelled, sinceInput>>
allVars   == <<vars, kind, ownVars>>

SourcesInit ==
    /\ Init
    /\ kind \in Kinds
    /\ input = << >> /\ closed = FALSE
    /\ buf = << >> /\ offer = << >> /\ draining = FALSE
    /\ ending = "none"

-----------------------------------------------------------------------------
(* The other end of the input.                                             *)

PressKey ==
    /\ ~closed /\ Press
    /\ input' = IF kind = "device" THEN input ELSE Append(input, "key")
    /\ UNCHANGED <<kind, closed, buf, offer, draining, ending>>

\* Bytes and lines that are no press of a key.
Arrive(item) ==
    /\ ~closed /\ Input
    /\ item \in Items(kind) \ {"key"}
    /\ input' = Append(input, item)
    /\ UNCHANGED <<loopVars, sourceVars, kind, closed, buf, offer, draining,
                   ending>>

\* The input is at its end, or libinput exits.
Close ==
    /\ kind # "device" /\ ~closed
    /\ closed' = TRUE
    /\ UNCHANGED <<vars, kind, input, buf, offer, draining, ending>>

-----------------------------------------------------------------------------
(* runeReader.next, in the reader goroutine.                               *)

\* DecodeRune finds a rune at the front.
Decodes(b) ==
    /\ b # << >>
    /\ \/ b[1] \in {"key", "quit"}
       \/ b[1] = "lead" /\ Len(b) > 1 /\ b[2] = "cont"

Size(b) == IF b[1] = "lead" THEN 2 ELSE 1

Reads == kind = "stdin" /\ offer = << >> /\ source # "gone"

\* The goroutine waits in Read, and closing the input is all that ends it.
Starved == Reads /\ ~Decodes(buf) /\ Len(buf) < UTFMax

DecodeRune ==
    /\ Reads /\ Decodes(buf)
    /\ offer' = <<IF Size(buf) = 1 THEN buf[1] ELSE "other">>
    /\ buf' = SubSeq(buf, Size(buf) + 1, Len(buf))
    /\ UNCHANGED <<vars, kind, inputVars, draining, ending>>

\* Mutation of DropByte: the bytes behind the broken one go with it.
DropBytes ==
    /\ Reads /\ ~Decodes(buf) /\ Len(buf) >= UTFMax
    /\ buf' = << >>
    /\ UNCHANGED <<vars, kind, inputVars, offer, draining, ending>>

DropByte ==
    /\ Reads /\ ~Decodes(buf) /\ Len(buf) >= UTFMax
    /\ buf' = Tail(buf)
    /\ UNCHANGED <<vars, kind, inputVars, offer, draining, ending>>

\* Read returns what there is, or a part of it, and never more than ReadSize.
ReadChunk ==
    /\ Starved
    /\ \E n \in 1..ReadSize :
           /\ n <= Len(input)
           /\ buf' = buf \o SubSeq(input, 1, n)
           /\ input' = SubSeq(input, n + 1, Len(input))
    /\ UNCHANGED <<vars, kind, closed, offer, draining, ending>>

\* Mutation of ReadEnd: what is left in the buffer is forgotten.
ReadEndAtOnce ==
    /\ Starved /\ input = << >> /\ closed
    /\ offer' = <<"end">>
    /\ UNCHANGED <<vars, kind, inputVars, buf, draining, ending>>

\* What is left is flushed byte by byte before the end is reported.
ReadEnd ==
    /\ Starved /\ input = << >> /\ closed
    /\ IF buf = << >> THEN offer' = <<"end">> /\ UNCHANGED buf
       ELSE offer' = <<"other">> /\ buf' = Tail(buf)
    /\ UNCHANGED <<vars, kind, inputVars, draining, ending>>

\* A terminal that hangs up: what is left in the buffer is lost.
ReadFails ==
    /\ Starved /\ offer' = <<"fail">>
    /\ UNCHANGED <<vars, kind, inputVars, buf, draining, ending>>

ReaderStep == DecodeRune \/ DropByte \/ ReadChunk \/ ReadEnd

-----------------------------------------------------------------------------
(* Stdin.Run.                                                              *)

End(why) ==
    /\ SourceEnds /\ ending' = why

\* A rune that is no key of the daemon is sent like one.
SendOther ==
    /\ source = "read"
    /\ source' = "send" /\ sendLeft' = SendTimeout /\ held' = 0
    /\ UNCHANGED <<loopVars, typed, inputs>>

\* Mutation of ReceiveQuit: Ctrl-C is sent as a key.
ReceiveQuitAsKey ==
    /\ offer = <<"quit">> /\ SendOther /\ UNCHANGED ending

ReceiveQuit == offer = <<"quit">> /\ End("quit")

Receive ==
    /\ kind = "stdin" /\ source = "read" /\ offer' = << >>
    /\ \/ offer = <<"end">> /\ End("end")
       \/ offer = <<"fail">> /\ End("failed")
       \/ ReceiveQuit
       \/ offer = <<"key">> /\ ReadKey /\ UNCHANGED ending
       \/ offer = <<"other">> /\ SendOther /\ UNCHANGED ending
    /\ UNCHANGED <<kind, inputVars, buf, draining>>

\* A device that cannot be watched any more ends Run as well.
Leave ==
    /\ kind # "libinput"
    /\ cancelled \/ kind = "device"
    /\ End(IF cancelled THEN "cancelled" ELSE "failed")
    /\ UNCHANGED <<kind, inputVars, buf, offer, draining>>

-----------------------------------------------------------------------------
(* Libinput.Run and ScanLibinput.                                          *)

Scans == kind = "libinput" /\ source = "read" /\ ~draining

\* context.AfterFunc: a cancellation kills the process.
KillChild ==
    /\ kind = "libinput" /\ cancelled /\ ~closed
    /\ closed' = TRUE
    /\ UNCHANGED <<vars, kind, input, buf, offer, draining, ending>>

ScanPress ==
    /\ Scans /\ ~cancelled /\ input # << >> /\ Head(input) = "key"
    /\ ReadKey /\ input' = Tail(input)
    /\ UNCHANGED <<kind, closed, buf, offer, draining, ending>>

\* A release, another device's event, a key without a name, masked keys.
SkipLine ==
    /\ Scans /\ ~cancelled /\ input # << >> /\ Head(input) = "other"
    /\ input' = Tail(input)
    /\ UNCHANGED <<vars, kind, closed, buf, offer, draining, ending>>

\* Scan finds the end of the input or a line too long for it, or a line when the
\* context is done.
StopScanning ==
    /\ Scans
    /\ \/ input # << >> /\ (cancelled \/ Head(input) = "long")
       \/ input = << >> /\ closed
    /\ draining' = TRUE
    /\ UNCHANGED <<vars, kind, inputVars, buf, offer, ending>>

\* send reports that the context is done.
SendStops ==
    /\ kind = "libinput" /\ source = "send" /\ cancelled
    /\ source' = "read" /\ draining' = TRUE /\ SendReturns
    /\ UNCHANGED <<loopVars, typed, inputs, kind, inputVars, buf, offer,
                   ending>>

\* io.Copy discards what libinput still prints, for as long as it lives.
Drain ==
    /\ draining /\ source = "read" /\ input # << >>
    /\ input' = << >> /\ typed' = << >>
    /\ UNCHANGED <<loopVars, source, held, sendLeft, inputs, kind, closed,
                   buf, offer, draining, ending>>

\* cmd.Wait returns.
Exited ==
    /\ draining /\ input = << >> /\ closed
    /\ End(IF cancelled THEN "cancelled" ELSE "failed")
    /\ UNCHANGED <<kind, inputVars, buf, offer, draining>>

LibinputStep ==
    ScanPress \/ SkipLine \/ StopScanning \/ SendStops \/ Drain \/ Exited

-----------------------------------------------------------------------------

\* Steps of Loop, the reading of a device among them, which have no part in
\* the sources of this module.
DeviceReads == kind = "device" /\ ReadKey /\ UNCHANGED <<kind, ownVars>>
LoopSteps ==
    /\ LoopStep \/ SendTimesOut \/ ActionStep \/ Signal
    /\ UNCHANGED <<kind, ownVars>>

\* Nothing that was typed is on its way to the loop.
SourceSettled ==
    CASE kind = "device" -> ReadSettled
      [] kind = "stdin"  ->
            source = "read" =>
                /\ offer = << >> /\ ~cancelled
                /\ Starved /\ input = << >> /\ ~closed
      [] OTHER           ->
            source = "read" => input = << >> /\ ~closed /\ ~cancelled

SourcesTick == SourceSettled /\ Pass /\ UNCHANGED <<kind, ownVars>>

SourcesNext ==
    \/ PressKey \/ Close
    \/ \E item \in Bytes \cup Lines : Arrive(item)
    \/ ReaderStep \/ ReadFails \/ Receive \/ Leave
    \/ KillChild \/ LibinputStep
    \/ DeviceReads \/ LoopSteps \/ SourcesTick

SourcesSpec == SourcesInit /\ [][SourcesNext]_allVars

\* Goroutines that can run do, those of the sources included; Read and Wait
\* return when there is something to return.  select picks none of its ready
\* cases for good at the expense of the end, and time passes.  An action ends,
\* but for its upload: no timeout bounds that, and only the end of ctx is sure
\* to end it.
SourcesFairness ==
    /\ WF_allVars(ReaderStep) /\ WF_allVars(Receive)
    /\ WF_allVars(cancelled /\ Leave)
    /\ WF_allVars(KillChild) /\ WF_allVars(LibinputStep)
    /\ WF_allVars(DeviceReads)
    /\ WF_allVars(SendTimesOut /\ UNCHANGED <<kind, ownVars>>)
    /\ WF_allVars(/\ IdleFires \/ LoopReturns
                     \/ \E what \in Whats \cup {"ignore"} : TakeKey(what)
                  /\ UNCHANGED <<kind, ownVars>>)
    /\ WF_allVars(ActionEnds /\ UNCHANGED <<kind, ownVars>>)
    /\ WF_allVars(cancelled /\ EndUpload /\ UNCHANGED <<kind, ownVars>>)
    /\ WF_allVars(SourcesTick)

SourcesFairSpec == SourcesSpec /\ SourcesFairness

-----------------------------------------------------------------------------

InputTypes ==
    /\ kind \in Kinds /\ closed \in BOOLEAN /\ draining \in BOOLEAN
    /\ input \in Seq(Items(kind)) /\ buf \in Seq(Bytes)
    /\ offer = << >> \/ \E r \in Runes : offer = <<r>>
    /\ ending \in {"none", "end", "quit", "cancelled", "failed"}

\* Every variable has its type.
SourcesTypeOK == TypeOK /\ InputTypes

Presses(s) == Cardinality({i \in 1..Len(s) : s[i] = "key"})

\* No press of a key is lost, doubled or made up between the terminal and Run,
\* whatever bytes come before, after and between: only a press that libinput
\* printed after its scan ended is thrown away.  An input that ends loses none.
NoPressLost ==
    /\ kind # "device" =>
           Len(typed) = Presses(input) + Presses(buf) + Presses(offer)
    /\ ending = "end" => typed = << >>

QuitTyped ==
    /\ kind = "stdin"
    /\ \E s \in {offer, buf, input} : \E i \in 1..Len(s) : s[i] = "quit"

\* Neither bytes that never make a rune, nor the flush at the end of the input,
\* nor keys that nobody takes swallow a Ctrl-C: it is on its way until Run
\* returns.
QuitIsKept == [][QuitTyped => QuitTyped' \/ source' = "gone"]_allVars

\* Everything typed so far waits behind a byte that may begin a rune.
HeldBack == Starved /\ buf # << >> /\ input = << >>

\* The loop waits for the server for good.
Hangs == [](loop = "upload")

\* Ctrl-C on a raw terminal stops the daemon, although no signal is sent for
\* it and keys that nobody takes are in its way, unless the decoder holds it
\* back or the server never answers an upload.
QuitIsHeard == QuitTyped ~> (loop = "stopped" \/ HeldBack \/ Hangs)

\* A signal stops the daemon, an upload that hangs included.  It does not outlive
\* its input either, and the service manager can start it again: it stops when
\* the input ends, when libinput exits and when Run returns for whatever reason,
\* unless the server never answers an upload.
DaemonStops ==
    /\ cancelled ~> (loop = "stopped")
    /\ (closed \/ source = "gone") ~> (loop = "stopped" \/ Hangs)

-----------------------------------------------------------------------------
(* The inductive invariant: nothing comes in once the end was reported.    *)

InputInv ==
    /\ kind # "stdin" => buf = << >> /\ offer = << >>
    /\ draining => kind = "libinput"
    /\ offer = <<"end">> => closed /\ input = << >> /\ buf = << >>
    /\ ending # "none" => source = "gone"
    /\ ending = "end" => kind = "stdin" /\ closed

SourcesInv == LoopInv /\ InputTypes /\ InputInv /\ NoPressLost
=============================================================================
