----------------------------- MODULE LoopProofs -----------------------------
(***************************************************************************)
(* LoopInv is an inductive invariant of Loop for all timeouts, and with it *)
(* the idle timer never finishes a document before its time.  What holds   *)
(* of the loop with a source that may do anything holds of the daemon with *)
(* its real ones: every step of Sources is one of Loop, as far as the      *)
(* loop's own variables go, or touches none of them.                       *)
(***************************************************************************)
EXTENDS Sources, TLAPS, SequenceTheorems, FiniteSetTheorems

-----------------------------------------------------------------------------
(* The loop with any source.                                               *)

\* What the steps do to the timer: they leave it alone, set it again, or let a
\* tick pass.
TimerKept  == UNCHANGED <<idleLeft, fired, sinceInput>>
TimerTaken == Reset /\ sinceInput' = 0
TimerAgain == Reset /\ fired /\ UNCHANGED sinceInput
TimerTicks ==
    /\ idleLeft' = Sooner(idleLeft)
    /\ fired' = (fired \/ idleLeft = 1)
    /\ sinceInput' = Later(sinceInput, IdleTimeout)

TimerTypes ==
    /\ idleLeft \in 0..IdleTimeout /\ sinceInput \in 0..IdleTimeout
    /\ fired \in BOOLEAN

\* Every step does one of these.
LEMMA TimerSteps ==
  ASSUME [Next]_vars \/ Pass
  PROVE  TimerKept \/ TimerTaken \/ TimerAgain \/ TimerTicks
<1> USE DEF TimerKept, timerVars
<1>1. CASE Press \/ Signal
  BY <1>1 DEF Press, Signal
<1>2. CASE SourceStep
  BY <1>2 DEF SourceStep, ReadKey, SendTimesOut, SourceEnds
<1>3. ASSUME NEW what, TakeKey(what) \/ TakeClick(what) PROVE TimerTaken
  BY <1>3 DEF TakeKey, TakeClick, Take, TimerTaken
<1>4. CASE IdleFires
  BY <1>4 DEF IdleFires, TimerAgain
<1>5. CASE LoopReturns
  BY <1>5 DEF LoopReturns
<1>6. CASE ActionStep
  BY <1>6 DEF ActionStep, BeginUpload, EndUpload, ActionEnds
<1>7. CASE Pass
  BY <1>7 DEF Pass, TimerTicks
<1>8. CASE UNCHANGED vars
  BY <1>8 DEF vars
<1> QED
  BY <1>1, <1>2, <1>3, <1>4, <1>5, <1>6, <1>7, <1>8
     DEF Next, LoopStep, TakeStep, Tick

\* The timer's part of the invariant follows from these alone.
LEMMA TimerStep ==
  ASSUME TimerTypes, TimerRuns, TimerInv,
         TimerKept \/ TimerTaken \/ TimerAgain \/ TimerTicks
  PROVE  TimerTypes' /\ TimerRuns' /\ TimerInv'
<1>1. IdleTimeout \in Nat
  BY LoopAssumption
<1>2. CASE TimerKept
  BY <1>2 DEF TimerKept, TimerTypes, TimerRuns, TimerInv
<1>3. ASSUME idleLeft' = IdleTimeout, fired' = FALSE, sinceInput' \in 0..IdleTimeout
      PROVE  TimerTypes' /\ TimerRuns' /\ TimerInv'
  <2>1. idleLeft' \in 0..IdleTimeout /\ sinceInput' + idleLeft' >= IdleTimeout
    <3>1. \A n \in Nat : \A m \in 0..n : n \in 0..n /\ m + n >= n
      OBVIOUS
    <3> QED
      BY <1>1, <1>3, <3>1
  <2>2. IdleTimeout > 0 => idleLeft' > 0
    BY <1>3
  <2> QED
    BY <1>3, <2>1, <2>2 DEF TimerTypes, TimerRuns, TimerInv
<1>4. CASE TimerTaken
  <2>1. idleLeft' = IdleTimeout /\ fired' = FALSE /\ sinceInput' = 0
    BY <1>4 DEF TimerTaken, Reset
  <2>2. 0 \in 0..IdleTimeout
    BY <1>1
  <2> QED
    BY <1>3, <2>1, <2>2
<1>5. CASE TimerAgain
  <2>1. idleLeft' = IdleTimeout /\ fired' = FALSE /\ sinceInput' = sinceInput
    BY <1>5 DEF TimerAgain, Reset
  <2> QED
    BY <1>3, <2>1 DEF TimerTypes
<1>6. CASE TimerTicks
  <2>1. CASE idleLeft = 1
    <3>1. idleLeft' = 0
      BY <1>6, <2>1 DEF TimerTicks, Sooner
    <3>2. fired'
      BY <1>6, <2>1, Zenon DEF TimerTicks
    <3>3. idleLeft' \in 0..IdleTimeout /\ IdleTimeout \in 0..IdleTimeout
      BY <1>1, <3>1
    <3>4. sinceInput >= IdleTimeout - 1
      BY <1>1, <2>1 DEF TimerInv, TimerTypes
    <3>5. sinceInput' = IdleTimeout
      BY <1>1, <1>6, <3>4 DEF TimerTicks, Later, TimerTypes
    <3>6. fired' \in BOOLEAN
      BY <1>6 DEF TimerTicks
    <3> QED
      BY <3>3, <3>5, <3>6, <3>2 DEF TimerTypes, TimerRuns, TimerInv
  <2>2. CASE idleLeft # 1
    <3>1. fired' = fired
      BY <1>6, <2>2 DEF TimerTicks, TimerTypes
    <3>2. idleLeft' = IF idleLeft > 0 THEN idleLeft - 1 ELSE 0
      BY <1>6 DEF TimerTicks, Sooner
    <3>3. sinceInput' = IF sinceInput < IdleTimeout THEN sinceInput + 1 ELSE IdleTimeout
      BY <1>6 DEF TimerTicks, Later
    <3>4. idleLeft \in 0..IdleTimeout /\ sinceInput \in 0..IdleTimeout
      BY DEF TimerTypes
    <3>5. idleLeft' \in 0..IdleTimeout /\ sinceInput' \in 0..IdleTimeout
      BY <1>1, <3>2, <3>3, <3>4
    <3>6. TimerTypes'
      BY <3>1, <3>5 DEF TimerTypes
    <3>7. CASE fired
      <4>1. sinceInput' = IdleTimeout
        BY <1>1, <3>3, <3>7 DEF TimerInv
      <4> QED
        BY <3>1, <3>6, <3>7, <4>1 DEF TimerRuns, TimerInv
    <3>8. CASE ~fired
      <4>1. sinceInput + idleLeft >= IdleTimeout
        BY <3>8 DEF TimerInv
      <4>2. sinceInput' + idleLeft' >= IdleTimeout
        BY <1>1, <3>2, <3>3, <3>4, <4>1
      <4>3. IdleTimeout > 0 => idleLeft' > 0
        <5>1. IdleTimeout > 0 => idleLeft > 1
          BY <2>2, <3>4, <3>8 DEF TimerRuns
        <5> QED
          BY <1>1, <3>2, <3>4, <5>1
      <4> QED
        BY <3>1, <3>6, <3>8, <4>2, <4>3 DEF TimerRuns, TimerInv
    <3> QED
      BY <3>7, <3>8
  <2> QED
    BY <2>1, <2>2
<1> QED
  BY <1>2, <1>4, <1>5, <1>6

\* The remaining variables keep their types.
OtherTypes ==
    /\ loop \in {"select", "busy", "upload", "stopped"}
    /\ doing \in Whats \cup {"none", "ignore", "idle-finish"}
    /\ open \in BOOLEAN /\ cancelled \in BOOLEAN
    /\ typed \in Seq(0..Late) /\ held \in 0..Late
    /\ source \in {"read", "send", "gone"}
    /\ sendLeft \in 0..SendTimeout
    /\ inputs \in 0..MaxInputs

\* So they do under every step.
LEMMA OtherStep ==
  ASSUME OtherTypes, [Next]_vars \/ Pass
  PROVE  OtherTypes'
<1>1. IdleTimeout \in Nat /\ SendTimeout \in Nat /\ MaxInputs \in Nat /\ Late \in Nat
  BY LoopAssumption DEF Late
<1>2. /\ inputs \in 0..MaxInputs
      /\ typed \in Seq(0..Late) /\ held \in 0..Late /\ sendLeft \in 0..SendTimeout
  BY DEF OtherTypes
<1>3. 0 \in 0..Late /\ 0 \in 0..IdleTimeout /\ SendTimeout \in 0..SendTimeout
  BY <1>1
<1>4. ASSUME Input PROVE inputs' \in 0..MaxInputs
  BY <1>1, <1>2, <1>4 DEF Input
<1>5. CASE Press
  <2>1. typed' \in Seq(0..Late)
    BY <1>2, <1>3, <1>5 DEF Press
  <2> QED
    BY <1>4, <1>5, <2>1 DEF Press, OtherTypes
<1>6. CASE ReadKey
  <2>1. typed # << >> /\ held' = Head(typed) /\ typed' = Tail(typed)
    BY <1>6 DEF ReadKey
  <2>2. held' \in 0..Late /\ typed' \in Seq(0..Late)
    <3>1. typed \in Seq(0..Late)
      BY <1>2
    <3>2. Head(typed) \in 0..Late /\ Tail(typed) \in Seq(0..Late)
      <4> HIDE DEF Late
      <4>1. \A S : typed \in Seq(S) => Head(typed) \in S /\ Tail(typed) \in Seq(S)
        BY <2>1
      <4> QED
        BY <3>1, <4>1
    <3> QED
      BY <2>1, <3>2
  <2> QED
    BY <1>3, <1>6, <2>2 DEF ReadKey, OtherTypes
<1>4a. ASSUME SendReturns PROVE held' \in 0..Late /\ sendLeft' \in 0..SendTimeout
  BY <1>1, <1>4a DEF SendReturns
<1>7. CASE SendTimesOut \/ SourceEnds
  BY <1>7, <1>4a DEF SendTimesOut, SourceEnds, OtherTypes
<1>8. ASSUME NEW what \in Whats \cup {"ignore"}, TakeKey(what) PROVE OtherTypes'
  BY <1>8, <1>4a DEF TakeKey, Take, OtherTypes
<1>9. ASSUME NEW what \in Whats, TakeClick(what) PROVE OtherTypes'
  BY <1>4, <1>9 DEF TakeClick, Take, sourceVars, OtherTypes
<1>10. CASE IdleFires
  BY <1>10 DEF IdleFires, sourceVars, OtherTypes
<1>11. CASE ActionStep
  <2>1. open' \in BOOLEAN
    BY <1>11 DEF ActionStep, BeginUpload, EndUpload, ActionEnds, OtherTypes
  <2> QED
    BY <1>11, <2>1
       DEF ActionStep, BeginUpload, EndUpload, ActionEnds, sourceVars, OtherTypes
<1>12. CASE LoopReturns \/ Signal
  BY <1>12 DEF LoopReturns, Signal, sourceVars, OtherTypes
<1>13. CASE Pass
  <2>1. \A t \in 0..Late : Later(t, Late) \in 0..Late
    BY <1>1 DEF Later
  <2>2. held' \in 0..Late
    BY <1>2, <1>13, <2>1 DEF Pass
  <2>3. typed' = [i \in 1..Len(typed) |-> Later(typed[i], Late)]
    BY <1>13 DEF Pass
  <2> HIDE DEF Later
  <2>4. typed' \in Seq(0..Late)
    <3>1. Len(typed) \in Nat /\ \A i \in 1..Len(typed) : typed[i] \in 0..Late
      <4>1. typed \in Seq(0..Late)
        BY <1>2
      <4>2. \A S : typed \in Seq(S) => Len(typed) \in Nat /\ \A i \in 1..Len(typed) : typed[i] \in S
        OBVIOUS
      <4> QED
        BY <4>1, <4>2
    <3>2. \A i \in 1..Len(typed) : Later(typed[i], Late) \in 0..Late
      BY <2>1, <3>1
    <3> QED
      BY <2>3, <3>1, <3>2
  <2>5. sendLeft' \in 0..SendTimeout
    <3>1. sendLeft' = IF sendLeft > 0 THEN sendLeft - 1 ELSE 0
      BY <1>13 DEF Pass, Sooner
    <3> QED
      BY <1>1, <1>2, <3>1
  <2>6. UNCHANGED <<loop, doing, open, source, cancelled, inputs>>
    BY <1>13 DEF Pass
  <2> QED
    BY <2>2, <2>4, <2>5, <2>6 DEF OtherTypes
<1>14. CASE UNCHANGED vars
  BY <1>14 DEF vars, sourceVars, OtherTypes
<1> QED
  BY <1>5, <1>6, <1>7, <1>8, <1>9, <1>10, <1>11, <1>12, <1>13, <1>14
     DEF Next, SourceStep, LoopStep, TakeStep, Tick

\* The two halves are all of the invariant.
LEMMA Halves == LoopInv <=> TimerTypes /\ OtherTypes /\ TimerRuns /\ TimerInv
  BY DEF LoopInv, TypeOK, TimerTypes, OtherTypes

\* The invariant holds at the start.
LEMMA InitialInv == Init => LoopInv
<1> SUFFICES ASSUME Init PROVE LoopInv
  OBVIOUS
<1>1. IdleTimeout \in Nat /\ SendTimeout \in Nat /\ MaxInputs \in Nat /\ Late \in Nat
  BY LoopAssumption DEF Late
<1>2. idleLeft = IdleTimeout /\ fired = FALSE /\ sinceInput = 0
  BY DEF Init
<1>3. TimerTypes /\ TimerRuns /\ TimerInv
  <2>1. idleLeft \in 0..IdleTimeout /\ sinceInput \in 0..IdleTimeout
    BY <1>1, <1>2
  <2>2. sinceInput + idleLeft >= IdleTimeout /\ (IdleTimeout > 0 => idleLeft > 0)
    BY <1>1, <1>2
  <2> QED
    BY <1>2, <2>1, <2>2 DEF TimerTypes, TimerRuns, TimerInv
<1>4. held = 0 /\ sendLeft = 0 /\ inputs = 0
  BY DEF Init
<1>5. /\ held \in 0..Late /\ sendLeft \in 0..SendTimeout
      /\ inputs \in 0..MaxInputs
  BY <1>1, <1>4
<1>6. typed \in Seq(0..Late)
  <2>1. typed = << >>
    BY DEF Init
  <2> QED
    BY <2>1
<1>7. OtherTypes
  BY <1>5, <1>6 DEF Init, OtherTypes
<1> QED
  BY <1>3, <1>7, Halves

\* Every step keeps it.
LEMMA Invariance == Spec => []LoopInv
<1>1. LoopInv /\ [Next]_vars => LoopInv'
  <2> SUFFICES ASSUME LoopInv, [Next]_vars PROVE LoopInv'
    OBVIOUS
  <2>1. TimerTypes /\ OtherTypes /\ TimerRuns /\ TimerInv
    BY Halves
  <2>2. TimerTypes' /\ TimerRuns' /\ TimerInv'
    BY <2>1, TimerSteps, TimerStep
  <2>3. OtherTypes'
    BY <2>1, OtherStep
  <2> QED
    BY <2>2, <2>3 DEF LoopInv, TypeOK, TimerTypes, OtherTypes
<1> QED
  BY <1>1, InitialInv, PTL DEF Spec

\* The idle timer is running or about to be heard, whatever happened before
\* (main.go: loop).
THEOREM TimerNeverStops == Spec => []TimerRuns
<1>1. LoopInv => TimerRuns
  BY DEF LoopInv
<1> QED
  BY <1>1, Invariance, PTL

\* The loop begins to finish a document only when the timer has fired.
LEMMA IdleFinishStep ==
  ASSUME LoopInv, [Next]_vars \/ Pass,
         doing' = "idle-finish", doing # "idle-finish"
  PROVE  sinceInput = IdleTimeout
<1>1. CASE IdleFires
  <2>1. fired
    BY <1>1 DEF IdleFires
  <2> QED
    BY <2>1 DEF LoopInv, TimerInv
<1>2. ASSUME ~IdleFires PROVE FALSE
  <2>1. ASSUME NEW what \in Whats \cup {"ignore"},
               TakeKey(what) \/ TakeClick(what)
        PROVE  FALSE
    BY <2>1 DEF TakeKey, TakeClick, Take, Whats
  <2>2. ASSUME doing' = doing \/ doing' = "none" PROVE FALSE
    BY <2>2
  <2> QED
    BY <1>2, <2>1, <2>2
       DEF Next, vars, Press, Signal, SourceStep, ReadKey, SendTimesOut,
           SourceEnds, LoopStep, TakeStep, LoopReturns, ActionStep, BeginUpload,
           EndUpload, ActionEnds, Tick, Pass
<1> QED
  BY <1>1, <1>2

\* Every variable has its type.
THEOREM LoopTypes == Spec => []TypeOK
<1>1. LoopInv => TypeOK
  BY DEF LoopInv
<1> QED
  BY <1>1, Invariance, PTL

\* A document is finished for inactivity only if no action was taken for the
\* whole idle timeout (main.go: loop).
THEOREM IdleFinishWaits == Spec => IdleFinishIsDue
<1>1. ASSUME LoopInv, [Next]_vars
      PROVE  [doing' = "idle-finish" /\ doing # "idle-finish" =>
                  sinceInput = IdleTimeout]_vars
  BY <1>1, IdleFinishStep
<1> QED
  BY <1>1, Invariance, PTL DEF Spec, IdleFinishIsDue

-----------------------------------------------------------------------------
(* The loop with the sources it has.                                       *)

\* What only the sources do leaves the loop and its timer alone.
LEMMA SourceStepsAside ==
  ASSUME SourcesNext
  PROVE  \/ [Next]_vars \/ Pass
         \/ UNCHANGED loopVars /\ (SendOther \/ SendStops \/ Drain)
         \/ \E item : Arrive(item)
<1>1. CASE PressKey \/ Close
  BY <1>1 DEF PressKey, Close, Next
<1>2. CASE ReaderStep \/ ReadFails \/ KillChild
  BY <1>2 DEF ReaderStep, DecodeRune, DropByte, ReadChunk, ReadEnd, ReadFails,
              KillChild
<1>3. ASSUME NEW why, End(why) PROVE [Next]_vars
  BY <1>3 DEF End, Next, SourceStep
<1>4. CASE Receive
  BY <1>3, <1>4 DEF Receive, ReceiveQuit, SendOther, Next, SourceStep
<1>5. CASE Leave
  BY <1>3, <1>5 DEF Leave
<1>6. CASE LibinputStep
  BY <1>3, <1>6 DEF LibinputStep, ScanPress, SkipLine, StopScanning, SendStops,
                    Drain, Exited, Next, SourceStep
<1>7. CASE DeviceReads \/ LoopSteps
  BY <1>7 DEF DeviceReads, LoopSteps, Next, SourceStep
<1>8. CASE SourcesTick
  BY <1>8 DEF SourcesTick
<1> QED
  BY <1>1, <1>2, <1>4, <1>5, <1>6, <1>7, <1>8 DEF SourcesNext

LEMMA StutterOfAll == ASSUME UNCHANGED allVars PROVE [Next]_vars
  BY DEF allVars

\* The timer is treated as in Loop.
LEMMA SourcesTimerSteps ==
  ASSUME [SourcesNext]_allVars
  PROVE  TimerKept \/ TimerTaken \/ TimerAgain \/ TimerTicks
<1>1. CASE [Next]_vars \/ Pass
  BY <1>1, TimerSteps
<1>2. CASE UNCHANGED loopVars
  BY <1>2 DEF loopVars, timerVars, TimerKept
<1>3. ASSUME NEW item, Arrive(item) PROVE TimerKept
  BY <1>3 DEF Arrive, loopVars, timerVars, TimerKept
<1> QED
  BY <1>1, <1>2, <1>3, SourceStepsAside, StutterOfAll

\* The types of Loop are kept by every source.
LEMMA SourcesOtherStep ==
  ASSUME OtherTypes, [SourcesNext]_allVars
  PROVE  OtherTypes'
<1>1. CASE [Next]_vars \/ Pass
  BY <1>1, OtherStep
<1>2. 0 \in 0..Late /\ 0 \in 0..SendTimeout /\ SendTimeout \in 0..SendTimeout
  BY LoopAssumption DEF Late
<1>3. CASE UNCHANGED loopVars /\ SendOther
  BY <1>2, <1>3 DEF SendOther, loopVars, OtherTypes
<1>4. CASE SendStops
  BY <1>2, <1>4 DEF SendStops, SendReturns, loopVars, OtherTypes
<1>5. CASE Drain
  <2>1. << >> \in Seq(0..Late)
    OBVIOUS
  <2> QED
    BY <1>5, <2>1 DEF Drain, loopVars, OtherTypes
<1>6. ASSUME NEW item, Arrive(item) PROVE OtherTypes'
  <2>1. inputs' \in 0..MaxInputs
    <3>1. inputs \in 0..MaxInputs /\ inputs < MaxInputs /\ inputs' = inputs + 1
      BY <1>6 DEF Arrive, Input, OtherTypes
    <3> QED
      BY <3>1, LoopAssumption
  <2> QED
    BY <1>6, <2>1 DEF Arrive, loopVars, sourceVars, OtherTypes
<1> QED
  BY <1>1, <1>3, <1>4, <1>5, <1>6, SourceStepsAside, StutterOfAll

\* What Read returns and what it leaves are the input.
LEMMA ReadsApart ==
  ASSUME NEW S, NEW s \in Seq(S), NEW n \in Nat, n <= Len(s)
  PROVE  /\ SubSeq(s, 1, n) \in Seq(S)
         /\ SubSeq(s, n + 1, Len(s)) \in Seq(S)
         /\ s = SubSeq(s, 1, n) \o SubSeq(s, n + 1, Len(s))
<1>1. Len(s) \in Nat
  OBVIOUS
<1>2. \A i \in 1..n : i \in 1..Len(s)
  BY <1>1
<1>3. \A i \in (n + 1)..Len(s) : i \in 1..Len(s)
  BY <1>1
<1> DEFINE front == SubSeq(s, 1, n)
           rest  == SubSeq(s, n + 1, Len(s))
<1>4. front \in Seq(S) /\ rest \in Seq(S)
  BY <1>1, <1>2, <1>3, SubSeqProperties
<1>5. Len(front) = n /\ Len(rest) = Len(s) - n
  BY <1>1
<1>6. /\ \A i \in 1..n : front[i] = s[i]
      /\ \A i \in 1..(Len(s) - n) : rest[i] = s[n + i]
  BY <1>1
<1> HIDE DEF front, rest
<1>7. front \o rest \in Seq(S) /\ Len(front \o rest) = Len(s)
  <2>1. Len(front \o rest) = Len(front) + Len(rest)
    BY <1>4, ConcatProperties
  <2>2. n + (Len(s) - n) = Len(s)
    BY <1>1
  <2> QED
    BY <1>4, <1>5, <2>1, <2>2, ConcatProperties
<1>8. ASSUME NEW i \in 1..Len(s) PROVE (front \o rest)[i] = s[i]
  <2>1. (front \o rest)[i] = IF i <= n THEN front[i] ELSE rest[i - n]
    <3>1. i \in 1..(Len(front) + Len(rest))
      BY <1>1, <1>5
    <3> QED
      BY <1>4, <1>5, <3>1, ConcatProperties
  <2>2. CASE i <= n
    BY <1>1, <1>6, <2>1, <2>2
  <2>3. CASE ~(i <= n)
    <3>1. i - n \in 1..(Len(s) - n) /\ n + (i - n) = i
      BY <1>1, <2>3
    <3> QED
      BY <1>6, <2>1, <2>3, <3>1
  <2> QED
    BY <2>2, <2>3
<1>9. s = front \o rest
  BY <1>7, <1>8, SeqEqual
<1> QED
  BY <1>4, <1>9 DEF front, rest

\* Bytes stay bytes on their way through the buffer.
LEMMA InputTypesStep ==
  ASSUME InputTypes, [SourcesNext]_allVars
  PROVE  InputTypes'
<1> USE DEF InputTypes
<1>1. \A S, s : s \in Seq(S) /\ s # << >> => Head(s) \in S /\ Tail(s) \in Seq(S)
  OBVIOUS
<1>2. \A S, s : s \in Seq(S) => \A x \in S : Append(s, x) \in Seq(S)
  OBVIOUS
<1>3. CASE PressKey
  <2>1. kind # "device" => "key" \in Items(kind)
    BY DEF Items, Kinds, Bytes, Lines
  <2> QED
    BY <1>2, <1>3, <2>1 DEF PressKey
<1>4. ASSUME NEW item, Arrive(item) PROVE InputTypes'
  BY <1>2, <1>4 DEF Arrive
<1>5. CASE Close \/ KillChild
  BY <1>5 DEF Close, KillChild
<1>6. CASE DecodeRune
  <2>1. buf \in Seq(Bytes) /\ buf # << >> /\ Size(buf) \in {1, 2}
    BY <1>6 DEF DecodeRune, Decodes, Size
  <2>2. SubSeq(buf, Size(buf) + 1, Len(buf)) \in Seq(Bytes)
    <3>1. \A n \in 2..3 : \A i \in n..Len(buf) : i \in 1..Len(buf)
      BY <2>1
    <3> QED
      BY <2>1, <3>1, SubSeqProperties
  <2>3. (IF Size(buf) = 1 THEN buf[1] ELSE "other") \in Runes
    BY <1>6 DEF DecodeRune, Decodes, Size, Runes
  <2> QED
    BY <1>6, <2>2, <2>3 DEF DecodeRune, inputVars
<1>7. CASE DropByte \/ ReadEnd \/ ReadFails
  <2>1. "end" \in Runes /\ "other" \in Runes /\ "fail" \in Runes
    BY DEF Runes
  <2>2. DropByte => buf # << >>
    BY SourcesAssumption DEF DropByte
  <2> QED
    BY <1>1, <1>7, <2>1, <2>2 DEF DropByte, ReadEnd, ReadFails, inputVars
<1>8. CASE ReadChunk
  <2>1. input \in Seq(Bytes) /\ Items(kind) = Bytes
    BY <1>8 DEF ReadChunk, Starved, Reads, Items
  <2>2. PICK n \in 1..ReadSize :
            /\ n <= Len(input)
            /\ buf' = buf \o SubSeq(input, 1, n)
            /\ input' = SubSeq(input, n + 1, Len(input))
    BY <1>8 DEF ReadChunk
  <2>3. /\ SubSeq(input, 1, n) \in Seq(Bytes)
        /\ SubSeq(input, n + 1, Len(input)) \in Seq(Bytes)
    BY <2>1, <2>2, SourcesAssumption, ReadsApart
  <2>4. buf \o SubSeq(input, 1, n) \in Seq(Bytes)
    BY <2>3
  <2> QED
    BY <1>8, <2>1, <2>2, <2>3, <2>4 DEF ReadChunk
<1>9. CASE Receive \/ Leave
  BY <1>9 DEF Receive, ReceiveQuit, Leave, End, inputVars
<1>10. CASE LibinputStep
  <2>1. CASE ScanPress \/ SkipLine
    <3>1. Tail(input) \in Seq(Items(kind))
      BY <2>1, <1>1 DEF ScanPress, SkipLine
    <3> QED
      BY <2>1, <3>1 DEF ScanPress, SkipLine
  <2>2. CASE Drain
    <3>1. << >> \in Seq(Items(kind))
      OBVIOUS
    <3> QED
      BY <2>2, <3>1 DEF Drain
  <2>3. CASE StopScanning \/ SendStops \/ Exited
    BY <2>3 DEF StopScanning, SendStops, Exited, End, inputVars
  <2> QED
    BY <1>10, <2>1, <2>2, <2>3 DEF LibinputStep
<1>11. CASE DeviceReads \/ LoopSteps \/ SourcesTick \/ UNCHANGED allVars
  BY <1>11 DEF DeviceReads, LoopSteps, SourcesTick, allVars, ownVars, inputVars
<1> QED
  BY <1>3, <1>4, <1>5, <1>6, <1>7, <1>8, <1>9, <1>10, <1>11
     DEF SourcesNext, ReaderStep

LEMMA SourcesInvariance == SourcesSpec => []LoopInv
<1>1. SourcesInit => LoopInv
  BY InitialInv DEF SourcesInit
<1>2. ASSUME LoopInv, [SourcesNext]_allVars PROVE LoopInv'
  <2>1. TimerTypes /\ OtherTypes /\ TimerRuns /\ TimerInv
    BY <1>2, Halves
  <2>2. TimerTypes' /\ TimerRuns' /\ TimerInv'
    BY <1>2, <2>1, SourcesTimerSteps, TimerStep
  <2>3. OtherTypes'
    BY <1>2, <2>1, SourcesOtherStep
  <2> QED
    BY <2>2, <2>3 DEF LoopInv, TypeOK, TimerTypes, OtherTypes
<1> QED
  BY <1>1, <1>2, PTL DEF SourcesSpec

\* Every variable has its type.
THEOREM SourcesTypes == SourcesSpec => []SourcesTypeOK
<1>1. SourcesInit => InputTypes
  <2>1. \A S : << >> \in Seq(S)
    OBVIOUS
  <2> QED
    BY <2>1 DEF SourcesInit, InputTypes
<1>2. LoopInv => TypeOK
  BY DEF LoopInv
<1> QED
  BY <1>1, <1>2, InputTypesStep, SourcesInvariance, PTL
     DEF SourcesSpec, SourcesTypeOK

\* Whatever the source, the idle timer is running or about to be heard.
THEOREM TimerNeverStopsWithSources == SourcesSpec => []TimerRuns
<1>1. LoopInv => TimerRuns
  BY DEF LoopInv
<1> QED
  BY <1>1, SourcesInvariance, PTL

\* Whatever the source, a document is finished for inactivity only if no action
\* was taken for the whole idle timeout.
THEOREM IdleFinishWaitsWithSources == SourcesSpec => IdleFinishIsDue
<1>1. ASSUME LoopInv, [SourcesNext]_allVars
      PROVE  [doing' = "idle-finish" /\ doing # "idle-finish" =>
                  sinceInput = IdleTimeout]_vars
  <2>1. CASE [Next]_vars \/ Pass
    BY <1>1, <2>1, IdleFinishStep
  <2>2. CASE UNCHANGED loopVars
    BY <2>2 DEF loopVars
  <2>3. ASSUME NEW item, Arrive(item) PROVE UNCHANGED doing
    BY <2>3 DEF Arrive, loopVars
  <2> QED
    BY <1>1, <2>1, <2>2, <2>3, SourceStepsAside, StutterOfAll
<1> QED
  BY <1>1, SourcesInvariance, PTL DEF SourcesSpec, IdleFinishIsDue

-----------------------------------------------------------------------------
(* Counting the presses of a sequence of bytes or lines.                   *)

KeyAt(s) == {i \in 1..Len(s) : s[i] = "key"}

One(x) == IF x = "key" THEN 1 ELSE 0

LEMMA PressesAreCounted ==
  ASSUME NEW S, NEW s \in Seq(S)
  PROVE  /\ IsFiniteSet(KeyAt(s)) /\ Presses(s) \in Nat
         /\ Presses(s) = Cardinality(KeyAt(s))
<1>1. IsFiniteSet(1..Len(s))
  <2>1. Len(s) \in Int
    OBVIOUS
  <2> QED
    BY <2>1, FS_Interval
<1>2. KeyAt(s) \in SUBSET (1..Len(s))
  BY DEF KeyAt
<1>3. IsFiniteSet(KeyAt(s))
  BY <1>1, <1>2, FS_Subset
<1> QED
  BY <1>3, FS_CardinalityType DEF Presses, KeyAt

LEMMA PressesOfNothing == Presses(<< >>) = 0
<1>1. {i \in 1..Len(<< >>) : << >>[i] = "key"} = {}
  OBVIOUS
<1> QED
  BY <1>1, FS_EmptySet DEF Presses

LEMMA PressesOfOne == ASSUME NEW x PROVE Presses(<<x>>) = One(x)
<1>1. CASE x = "key"
  <2>1. {i \in 1..Len(<<x>>) : <<x>>[i] = "key"} = {1}
    BY <1>1
  <2> QED
    BY <1>1, <2>1, FS_Singleton DEF Presses, One
<1>2. CASE x # "key"
  <2>1. {i \in 1..Len(<<x>>) : <<x>>[i] = "key"} = {}
    BY <1>2
  <2> QED
    BY <1>2, <2>1, FS_EmptySet DEF Presses, One
<1> QED
  BY <1>1, <1>2

LEMMA ShiftedCardinality ==
  ASSUME NEW K \in SUBSET Nat, IsFiniteSet(K), NEW n \in Nat
  PROVE  /\ IsFiniteSet({k + n : k \in K})
         /\ Cardinality({k + n : k \in K}) = Cardinality(K)
<1> DEFINE T == {k + n : k \in K}
           f == [k \in K |-> k + n]
<1>1. f \in [K -> T]
  OBVIOUS
<1>2. \A a, b \in K : f[a] = f[b] => a = b
  OBVIOUS
<1>3. \A t \in T : \E k \in K : f[k] = t
  OBVIOUS
<1>4. f \in Bijection(K, T)
  <2> HIDE DEF f, T
  <2> QED
    BY <1>1, <1>2, <1>3 DEF Bijection, Injection, Surjection, IsInjective
<1>5. ExistsBijection(K, T)
  BY <1>4 DEF ExistsBijection
<1> QED
  BY <1>5, FS_Bijection

LEMMA PressesOfBoth ==
  ASSUME NEW S, NEW s \in Seq(S), NEW t \in Seq(S)
  PROVE  Presses(s \o t) = Presses(s) + Presses(t)
<1> DEFINE A == KeyAt(s)
           B == {k + Len(s) : k \in KeyAt(t)}
<1>1. Len(s) \in Nat /\ Len(t) \in Nat /\ s \o t \in Seq(S)
  BY ConcatProperties
<1>2. KeyAt(s \o t) = A \cup B
  <2>1. \A i \in KeyAt(s \o t) : i \in A \cup B
    <3> TAKE i \in KeyAt(s \o t)
    <3>1. i \in 1..(Len(s) + Len(t)) /\ (s \o t)[i] = "key"
      BY ConcatProperties DEF KeyAt
    <3>2. CASE i <= Len(s)
      BY <1>1, <3>1, <3>2, ConcatProperties DEF KeyAt
    <3>3. CASE i > Len(s)
      <4>1. i - Len(s) \in 1..Len(t) /\ t[i - Len(s)] = "key"
        BY <1>1, <3>1, <3>3, ConcatProperties
      <4>2. i - Len(s) \in KeyAt(t) /\ i = (i - Len(s)) + Len(s)
        BY <1>1, <3>1, <4>1 DEF KeyAt
      <4> QED
        BY <4>2
    <3> QED
      BY <1>1, <3>1, <3>2, <3>3
  <2>2. \A i \in A : i \in KeyAt(s \o t)
    BY <1>1, ConcatProperties DEF KeyAt
  <2>3. \A k \in KeyAt(t) : k + Len(s) \in KeyAt(s \o t)
    <3> TAKE k \in KeyAt(t)
    <3>1. k \in 1..Len(t) /\ t[k] = "key"
      BY DEF KeyAt
    <3>2. k + Len(s) \in 1..(Len(s) + Len(t)) /\ (k + Len(s)) - Len(s) = k
          /\ ~(k + Len(s) <= Len(s))
      BY <1>1, <3>1
    <3>3. (s \o t)[k + Len(s)] = "key"
      BY <3>1, <3>2, ConcatProperties
    <3> QED
      BY <3>2, <3>3, ConcatProperties DEF KeyAt
  <2> QED
    BY <2>1, <2>2, <2>3
<1>3. A \cap B = {}
  BY <1>1 DEF KeyAt
<1>4. IsFiniteSet(A) /\ IsFiniteSet(B) /\ Cardinality(B) = Cardinality(KeyAt(t))
  <2>1. KeyAt(t) \in SUBSET Nat
    BY <1>1 DEF KeyAt
  <2> QED
    BY <1>1, <2>1, PressesAreCounted, ShiftedCardinality
<1>5. Cardinality(A \cup B) = Cardinality(A) + Cardinality(B)
  <2> HIDE DEF A, B
  <2>1. Cardinality(A \cap B) = 0
    BY <1>3, FS_EmptySet
  <2>2. Cardinality(A) \in Nat /\ Cardinality(B) \in Nat
    BY <1>4, FS_CardinalityType
  <2>3. Cardinality(A \cup B) =
            Cardinality(A) + Cardinality(B) - Cardinality(A \cap B)
    BY <1>4, FS_Union
  <2> QED
    BY <2>1, <2>2, <2>3
<1> QED
  BY <1>1, <1>2, <1>4, <1>5, PressesAreCounted

LEMMA PressesOfFirst ==
  ASSUME NEW S, NEW s \in Seq(S), s # << >>
  PROVE  /\ Presses(s) = One(s[1]) + Presses(Tail(s))
         /\ Tail(s) \in Seq(S) /\ Head(s) = s[1] /\ s[1] \in S
<1>1. Tail(s) \in Seq(S) /\ s[1] \in S /\ Head(s) = s[1]
  BY HeadTailProperties
<1>2. s = <<s[1]>> \o Tail(s)
  <2>1. 1 \in 1..Len(s) /\ Len(s) \in 1..Len(s) /\ Len(s) \in Nat
    OBVIOUS
  <2>2. SubSeq(s, 1, Len(s)) = <<s[1]>> \o SubSeq(s, 2, Len(s))
    BY <2>1, SubSeqRecursiveFirst
  <2>3. SubSeq(s, 1, Len(s)) = s
    OBVIOUS
  <2> QED
    BY <2>2, <2>3, TailIsSubSeq
<1>3. <<s[1]>> \in Seq(S)
  BY <1>1
<1> QED
  BY <1>1, <1>2, <1>3, PressesOfOne, PressesOfBoth

LEMMA PressesOfLonger ==
  ASSUME NEW S, NEW s \in Seq(S), NEW x \in S
  PROVE  Presses(Append(s, x)) = Presses(s) + One(x)
<1>1. Append(s, x) = s \o <<x>> /\ <<x>> \in Seq(S)
  BY AppendIsConcat
<1> QED
  BY <1>1, PressesOfOne, PressesOfBoth

-----------------------------------------------------------------------------
(* No press is lost between the terminal and Run.                          *)

Wire == Presses(input) + Presses(buf) + Presses(offer)

LEMMA OfferIsSequence ==
  ASSUME NEW o, o = << >> \/ \E r \in Runes : o = <<r>>
  PROVE  o \in Seq(Runes)
<1>1. << >> \in Seq(Runes)
  OBVIOUS
<1>2. \A r \in Runes : <<r>> \in Seq(Runes)
  OBVIOUS
<1> QED
  BY <1>1, <1>2

\* Bytes and lines are sequences, whose presses can be counted.
LEMMA WireTypes ==
  ASSUME InputTypes
  PROVE  /\ input \in Seq(Items(kind)) /\ buf \in Seq(Bytes)
         /\ offer \in Seq(Runes)
         /\ Presses(input) \in Nat /\ Presses(buf) \in Nat
         /\ Presses(offer) \in Nat
<1>1. offer \in Seq(Runes)
  BY OfferIsSequence DEF InputTypes
<1>2. input \in Seq(Items(kind)) /\ buf \in Seq(Bytes)
  BY DEF InputTypes
<1> QED
  BY <1>1, <1>2, PressesAreCounted

\* A rune that is decoded takes its bytes out of the buffer.
LEMMA DecodeKeepsPresses ==
  ASSUME InputTypes, DecodeRune
  PROVE  Presses(offer') + Presses(buf') = Presses(buf) /\ offer = << >>
<1>1. buf \in Seq(Bytes) /\ buf # << >> /\ Decodes(buf) /\ offer = << >>
  BY DEF InputTypes, DecodeRune, Decodes, Reads
<1>2. /\ Presses(buf) = One(buf[1]) + Presses(Tail(buf))
      /\ Tail(buf) \in Seq(Bytes)
  BY <1>1, PressesOfFirst
<1>3. CASE Size(buf) = 1
  <2>1. offer' = <<buf[1]>> /\ buf' = Tail(buf)
    <3>1. buf' = SubSeq(buf, 2, Len(buf)) /\ offer' = <<buf[1]>>
      BY <1>3 DEF DecodeRune
    <3> QED
      BY <1>1, <3>1, TailIsSubSeq
  <2> QED
    BY <1>1, <1>2, <2>1, PressesOfOne
<1>4. CASE Size(buf) # 1
  <2>1. buf[1] = "lead" /\ Size(buf) = 2
    BY <1>4 DEF Size
  <2>2. Len(buf) > 1 /\ buf[2] = "cont"
    BY <1>1, <2>1 DEF Decodes
  <2>3. offer' = <<"other">> /\ buf' = SubSeq(buf, 3, Len(buf))
    BY <2>1 DEF DecodeRune
  <2>4. Tail(buf) # << >> /\ Tail(buf)[1] = "cont"
        /\ Tail(Tail(buf)) = buf'
    <3>1. Len(Tail(buf)) = Len(buf) - 1
          /\ \A i \in 1..Len(Tail(buf)) : Tail(buf)[i] = buf[i + 1]
      BY <1>1, HeadTailProperties
    <3>2. Tail(buf) # << >> /\ Tail(buf)[1] = "cont"
      <4>1. Len(Tail(buf)) \in Nat /\ Len(Tail(buf)) >= 1
        BY <1>1, <1>2, <2>2, <3>1
      <4>2. 1 \in 1..Len(Tail(buf))
        BY <4>1
      <4>3. Tail(buf)[1] = buf[1 + 1]
        BY <3>1, <4>2
      <4>4. Tail(buf) # << >>
        BY <1>2, <4>1
      <4> QED
        BY <2>2, <4>3, <4>4
    <3>3. 2 \in 1..Len(buf) /\ Len(buf) \in 2..Len(buf)
      BY <1>1, <2>2
    <3>4. Tail(SubSeq(buf, 2, Len(buf))) = SubSeq(buf, 3, Len(buf))
      BY <1>1, <3>3, HeadTailOfSubSeq
    <3> QED
      BY <1>1, <2>3, <3>2, <3>4, TailIsSubSeq
  <2>5. Presses(Tail(buf)) = One("cont") + Presses(buf')
        /\ buf' \in Seq(Bytes)
    BY <1>2, <2>4, PressesOfFirst
  <2>6. Presses(buf') \in Nat
    BY <2>5, PressesAreCounted
  <2>7. One("lead") = 0 /\ One("cont") = 0 /\ One("other") = 0
    BY DEF One
  <2> QED
    BY <1>1, <1>2, <2>1, <2>3, <2>5, <2>6, <2>7, PressesOfOne
<1> QED
  BY <1>3, <1>4

\* The reader goroutine hands on every press it reads.
LEMMA ReaderKeepsPresses ==
  ASSUME InputTypes, ReaderStep \/ ReadFails
  PROVE  Wire' = Wire
<1>1. /\ input \in Seq(Items(kind)) /\ buf \in Seq(Bytes)
      /\ Presses(input) \in Nat /\ Presses(buf) \in Nat
      /\ Presses(offer) \in Nat
  BY WireTypes
<1>2. CASE DecodeRune
  <2>1. Presses(offer') + Presses(buf') = Presses(buf) /\ offer = << >>
        /\ input' = input
    BY <1>2, DecodeKeepsPresses DEF DecodeRune, inputVars
  <2>2. Presses(offer') \in Nat /\ Presses(buf') \in Nat
    <3>1. InputTypes'
      BY <1>2, InputTypesStep DEF SourcesNext, ReaderStep
    <3> QED
      <4>1. /\ buf' \in Seq(Bytes)
            /\ offer' = << >> \/ \E r \in Runes : offer' = <<r>>
        BY <3>1 DEF InputTypes
      <4>2. offer' \in Seq(Runes)
        BY <4>1, OfferIsSequence
      <4> QED
        BY <4>1, <4>2, PressesAreCounted
  <2> QED
    BY <1>1, <2>1, <2>2, PressesOfNothing DEF Wire
<1>3. ASSUME buf # << >>, ~Decodes(buf)
      PROVE  Presses(Tail(buf)) = Presses(buf)
  <2>1. buf[1] # "key"
    BY <1>3 DEF Decodes
  <2>2. Presses(buf) = One(buf[1]) + Presses(Tail(buf))
        /\ Tail(buf) \in Seq(Bytes)
    BY <1>1, <1>3, PressesOfFirst
  <2>3. Presses(Tail(buf)) \in Nat
    BY <2>2, PressesAreCounted
  <2> QED
    BY <2>1, <2>2, <2>3 DEF One
<1>4. CASE DropByte
  <2>1. buf # << >> /\ ~Decodes(buf) /\ buf' = Tail(buf)
        /\ input' = input /\ offer' = offer
    BY <1>1, <1>4, SourcesAssumption DEF DropByte, inputVars
  <2> QED
    BY <1>3, <2>1 DEF Wire
<1>5. CASE ReadChunk
  <2>1. input \in Seq(Bytes) /\ offer' = offer
    BY <1>1, <1>5 DEF ReadChunk, Starved, Reads, Items
  <2>2. PICK n \in 1..ReadSize :
            /\ n <= Len(input)
            /\ buf' = buf \o SubSeq(input, 1, n)
            /\ input' = SubSeq(input, n + 1, Len(input))
    BY <1>5 DEF ReadChunk
  <2> DEFINE front == SubSeq(input, 1, n)
  <2>3. front \in Seq(Bytes) /\ input' \in Seq(Bytes) /\ input = front \o input'
    BY <2>1, <2>2, SourcesAssumption, ReadsApart
  <2> HIDE DEF front
  <2>4. /\ Presses(input) = Presses(front) + Presses(input')
        /\ Presses(buf') = Presses(buf) + Presses(front)
    BY <1>1, <2>2, <2>3, PressesOfBoth DEF front
  <2>5. Presses(front) \in Nat /\ Presses(input') \in Nat
    BY <2>3, PressesAreCounted
  <2> QED
    BY <1>1, <2>1, <2>4, <2>5 DEF Wire
<1>6. CASE ReadEnd \/ ReadFails
  <2>1. offer = << >> /\ ~Decodes(buf) /\ input' = input
    BY <1>6 DEF ReadEnd, ReadFails, Starved, Reads, inputVars
  <2>2. \/ buf' = buf /\ (offer' = <<"end">> \/ offer' = <<"fail">>)
        \/ buf # << >> /\ buf' = Tail(buf) /\ offer' = <<"other">>
    BY <1>6 DEF ReadEnd, ReadFails
  <2>3. Presses(<<"end">>) = 0 /\ Presses(<<"fail">>) = 0
        /\ Presses(<<"other">>) = 0
    BY PressesOfOne DEF One
  <2> QED
    BY <1>1, <1>3, <2>1, <2>2, <2>3, PressesOfNothing DEF Wire
<1> QED
  BY <1>2, <1>4, <1>5, <1>6 DEF ReaderStep

\* What Run and the loop do keeps the end the end.
LEMMA InputInvStep ==
  ASSUME InputTypes, InputInv, [SourcesNext]_allVars
  PROVE  InputInv'
<1> USE DEF InputInv
<1>1. CASE PressKey \/ Close \/ KillChild \/ \E item : Arrive(item)
  BY <1>1 DEF PressKey, Press, Close, KillChild, Arrive, vars, sourceVars
<1>2. CASE ReaderStep \/ ReadFails
  BY <1>2 DEF ReaderStep, DecodeRune, DropByte, ReadChunk, ReadEnd, ReadFails,
              Decodes, Starved, Reads, vars, sourceVars, inputVars
<1>3. CASE Receive
  BY <1>3 DEF Receive, ReceiveQuit, End, SourceEnds, SendOther, ReadKey,
              inputVars
<1>4. CASE Leave
  BY <1>4 DEF Leave, End, SourceEnds, inputVars
<1>5. CASE LibinputStep
  BY <1>5 DEF LibinputStep, Scans, ScanPress, SkipLine, StopScanning, SendStops,
              Drain, Exited, End, SourceEnds, ReadKey, vars, sourceVars,
              inputVars
<1>6. CASE DeviceReads
  BY <1>6 DEF DeviceReads, ReadKey, ownVars, inputVars
<1>7. CASE LoopSteps
  <2>1. source' = source \/ source = "send"
    BY <1>7 DEF LoopSteps, LoopStep, TakeStep, TakeKey, TakeClick, IdleFires,
                LoopReturns, SendTimesOut, ActionStep, BeginUpload, EndUpload,
                ActionEnds, Signal, sourceVars
  <2> QED
    BY <1>7, <2>1 DEF LoopSteps, ownVars, inputVars
<1>8. CASE SourcesTick \/ UNCHANGED allVars
  BY <1>8 DEF SourcesTick, Pass, allVars, vars, sourceVars, ownVars, inputVars
<1> QED
  BY <1>1, <1>2, <1>3, <1>4, <1>5, <1>6, <1>7, <1>8 DEF SourcesNext

\* A step that moves no press keeps them all.
LEMMA NoPressMoved ==
  ASSUME NoPressLost, Len(typed') = Len(typed),
         typed = << >> => typed' = << >>,
         Wire' = Wire, kind' = kind, ending' = ending \/ ending' # "end"
  PROVE  NoPressLost'
  BY DEF NoPressLost, Wire

\* Every step keeps every press, up to what Drain throws away.
LEMMA NoPressLostStep ==
  ASSUME LoopInv, InputTypes, InputInv, NoPressLost, [SourcesNext]_allVars
  PROVE  NoPressLost'
<1>1. /\ input \in Seq(Items(kind)) /\ buf \in Seq(Bytes)
      /\ offer \in Seq(Runes)
      /\ Presses(input) \in Nat /\ Presses(buf) \in Nat
      /\ Presses(offer) \in Nat
  BY WireTypes
<1>2. typed \in Seq(0..Late) /\ Len(typed) \in Nat /\ 0 \in 0..Late
  <2>1. typed \in Seq(0..Late)
    BY DEF LoopInv, TypeOK
  <2>2. 0 \in 0..Late
    BY LoopAssumption DEF Late
  <2> QED
    BY <2>1, <2>2
<1>3. ASSUME typed # << >>
      PROVE  Len(Tail(typed)) = Len(typed) - 1
  BY <1>2, <1>3
<1>4. CASE PressKey
  <2>1. Len(typed') = Len(typed) + 1 /\ ending' = ending /\ ending # "end"
    BY <1>2, <1>4 DEF PressKey, Press, InputInv
  <2>2. kind' = kind /\ buf' = buf /\ offer' = offer
    BY <1>4 DEF PressKey
  <2>3. CASE kind # "device"
    <3>1. "key" \in Items(kind)
      BY <2>3 DEF InputTypes, Items, Kinds, Bytes, Lines
    <3>2. Presses(input') = Presses(input) + 1
      BY <1>1, <1>4, <2>3, <3>1, PressesOfLonger DEF PressKey, One
    <3> QED
      BY <1>1, <2>1, <2>2, <3>2 DEF NoPressLost
  <2> QED
    BY <2>1, <2>2, <2>3 DEF NoPressLost
<1>5. ASSUME NEW item, Arrive(item) PROVE NoPressLost'
  <2>1. item \in Items(kind) /\ One(item) = 0 /\ input' = Append(input, item)
    BY <1>5 DEF Arrive, One
  <2>2. Presses(input') = Presses(input)
    BY <1>1, <2>1, PressesOfLonger
  <2> QED
    BY <1>5, <2>2, NoPressMoved DEF Arrive, sourceVars, Wire
<1>6. CASE Close \/ KillChild
  BY <1>6, NoPressMoved DEF Close, KillChild, vars, sourceVars, Wire
<1>7. CASE ReaderStep \/ ReadFails
  <2>1. Wire' = Wire
    BY <1>7, ReaderKeepsPresses
  <2>2. UNCHANGED <<typed, kind, ending>>
    BY <1>7 DEF ReaderStep, DecodeRune, DropByte, ReadChunk, ReadEnd,
                ReadFails, vars, sourceVars
  <2> QED
    BY <2>1, <2>2, NoPressMoved
<1>8. CASE Receive
  <2>1. /\ kind = "stdin" /\ kind' = kind /\ source = "read"
        /\ offer' = << >> /\ input' = input /\ buf' = buf
    BY <1>8 DEF Receive, inputVars
  <2>2. ending = "none"
    BY <2>1 DEF InputTypes, InputInv
  <2>3. Presses(offer') = 0
    BY <2>1, PressesOfNothing
  <2>4. CASE offer = <<"key">> /\ ReadKey /\ UNCHANGED ending
    <3>1. Presses(offer) = 1
      BY <2>4, PressesOfOne DEF One
    <3>2. Len(typed') = Len(typed) - 1
      BY <1>2, <1>3, <2>4 DEF ReadKey
    <3> QED
      BY <1>1, <1>2, <2>1, <2>2, <2>3, <2>4, <3>1, <3>2 DEF NoPressLost
  <2>5. CASE offer = <<"end">> /\ End("end")
    <3>1. Presses(offer) = 0 /\ Presses(input) = 0 /\ Presses(buf) = 0
      <4>1. input = << >> /\ buf = << >>
        BY <2>5 DEF InputInv
      <4> QED
        BY <2>5, <4>1, PressesOfOne, PressesOfNothing DEF One
    <3>2. Len(typed) = 0 /\ typed' = typed
      BY <2>1, <2>5, <3>1 DEF NoPressLost, End, SourceEnds
    <3>3. typed = << >>
      BY <1>2, <3>2
    <3> QED
      BY <2>1, <2>3, <3>1, <3>2, <3>3 DEF NoPressLost
  <2>6. CASE \/ offer = <<"fail">> /\ End("failed")
             \/ ReceiveQuit
             \/ offer = <<"other">> /\ SendOther /\ UNCHANGED ending
    <3>1. Presses(offer) = 0
      <4>1. One("fail") = 0 /\ One("quit") = 0 /\ One("other") = 0
        BY DEF One
      <4> QED
        BY <2>6, <4>1, PressesOfOne DEF ReceiveQuit
    <3>2. typed' = typed /\ ending' # "end"
      BY <2>2, <2>6 DEF ReceiveQuit, End, SourceEnds, SendOther
    <3>3. Wire' = Wire
      BY <2>1, <2>3, <3>1 DEF Wire
    <3> QED
      BY <2>1, <3>2, <3>3, NoPressMoved
  <2> QED
    BY <1>8, <2>4, <2>5, <2>6 DEF Receive
<1>9. CASE Leave \/ Exited
  <2>1. UNCHANGED <<typed, kind, input, buf, offer>> /\ ending' # "end"
    BY <1>9 DEF Leave, Exited, End, SourceEnds, inputVars
  <2> QED
    BY <2>1, NoPressMoved DEF Wire
<1>10. CASE ScanPress \/ SkipLine
  <2>1. /\ input # << >> /\ input' = Tail(input) /\ source = "read"
        /\ UNCHANGED <<kind, buf, offer, ending>>
    BY <1>10 DEF ScanPress, SkipLine, Scans
  <2>2. /\ Presses(input) = One(input[1]) + Presses(input')
        /\ Head(input) = input[1] /\ input' \in Seq(Items(kind))
    BY <1>1, <2>1, PressesOfFirst
  <2>3. Presses(input') \in Nat
    BY <2>2, PressesAreCounted
  <2>4. CASE ScanPress
    <3>1. One(input[1]) = 1 /\ Len(typed') = Len(typed) - 1
      BY <1>2, <1>3, <2>2, <2>4 DEF ScanPress, ReadKey, One
    <3>2. ending # "end"
      BY <2>1 DEF InputInv
    <3>3. Presses(input) = 1 + Presses(input') /\ ending' # "end"
      BY <2>1, <2>2, <3>1, <3>2
    <3>4. Presses(buf') = Presses(buf) /\ Presses(offer') = Presses(offer)
      BY <2>1
    <3>5. CASE kind # "device"
      <4>1. Len(typed) = Presses(input) + Presses(buf) + Presses(offer)
        BY <3>5 DEF NoPressLost
      <4>2. Len(typed') = Presses(input') + Presses(buf) + Presses(offer)
        BY <1>1, <1>2, <2>3, <3>1, <3>3, <4>1
      <4> QED
        BY <3>3, <3>4, <4>2 DEF NoPressLost
    <3> QED
      BY <2>1, <3>3, <3>5 DEF NoPressLost
  <2>5. CASE SkipLine
    <3>1. One(input[1]) = 0 /\ typed' = typed
      BY <2>2, <2>5 DEF SkipLine, One, vars, sourceVars
    <3>2. Wire' = Wire
      BY <2>1, <2>2, <2>3, <3>1 DEF Wire
    <3> QED
      BY <2>1, <3>1, <3>2, NoPressMoved
  <2> QED
    BY <1>10, <2>4, <2>5
<1>11. CASE StopScanning \/ SendStops
  BY <1>11, NoPressMoved DEF StopScanning, SendStops, vars, sourceVars,
                             inputVars, Wire
<1>12. CASE Drain
  <2>1. /\ typed' = << >> /\ input' = << >> /\ kind = "libinput"
        /\ UNCHANGED <<kind, buf, offer, ending>>
        /\ buf = << >> /\ offer = << >>
    BY <1>12 DEF Drain, InputInv
  <2>2. Len(typed') = 0
    BY <2>1
  <2> QED
    BY <2>1, <2>2, PressesOfNothing DEF NoPressLost
<1>13. CASE DeviceReads
  <2>1. kind = "device" /\ kind' = kind /\ ending' = ending /\ ending # "end"
    BY <1>13 DEF DeviceReads, ReadKey, ownVars, InputInv
  <2> QED
    BY <2>1 DEF NoPressLost
<1>14. CASE LoopSteps
  BY <1>14, NoPressMoved
     DEF LoopSteps, LoopStep, TakeStep, TakeKey, TakeClick, IdleFires,
         LoopReturns, SendTimesOut, ActionStep, BeginUpload, EndUpload,
         ActionEnds, Signal, sourceVars, ownVars, inputVars, Wire
<1>15. CASE SourcesTick
  <2>1. typed' = [i \in 1..Len(typed) |-> Later(typed[i], Late)]
    BY <1>15 DEF SourcesTick, Pass
  <2>2. Len(typed') = Len(typed) /\ (typed = << >> => typed' = << >>)
    BY <1>2, <2>1
  <2> QED
    BY <1>15, <2>2, NoPressMoved DEF SourcesTick, ownVars, inputVars, Wire
<1>16. CASE UNCHANGED allVars
  BY <1>16, NoPressMoved DEF allVars, vars, sourceVars, ownVars, inputVars, Wire
<1> QED
  BY <1>4, <1>5, <1>6, <1>7, <1>8, <1>9, <1>10, <1>11, <1>12, <1>13, <1>14,
     <1>15, <1>16 DEF SourcesNext, LibinputStep

\* No press is lost, doubled or made up between the terminal and Run, for any
\* input and any length of a rune (stdin.go: runeReader.next, Stdin.Run;
\* libinput.go: ScanLibinput).
THEOREM PressesArrive == SourcesSpec => []NoPressLost
<1>1. SourcesInit => InputTypes /\ InputInv /\ NoPressLost
  <2>1. \A S : << >> \in Seq(S)
    OBVIOUS
  <2>2. SourcesInit => NoPressLost
    <3>1. Len(<< >>) = 0 + 0 + 0
      OBVIOUS
    <3> QED
      BY <3>1, PressesOfNothing DEF SourcesInit, Init, NoPressLost
  <2>3. SourcesInit => InputTypes
    BY <2>1 DEF SourcesInit, InputTypes
  <2>4. SourcesInit => InputInv
    BY DEF SourcesInit, InputInv
  <2> QED
    BY <2>2, <2>3, <2>4
<1>2. SourcesSpec => []SourcesInv
  BY <1>1, InputTypesStep, InputInvStep, NoPressLostStep, SourcesInvariance,
     PTL DEF SourcesSpec, SourcesInv
<1>3. SourcesInv => NoPressLost
  BY DEF SourcesInv
<1> QED
  BY <1>2, <1>3, PTL

-----------------------------------------------------------------------------
(* Ctrl-C is on its way until Run returns.                                 *)

Quits(s) == \E i \in 1..Len(s) : s[i] = "quit"

LEMMA QuitsBehind ==
  ASSUME NEW S, NEW s \in Seq(S), s # << >>, Quits(s), s[1] # "quit"
  PROVE  Tail(s) \in Seq(S) /\ Quits(Tail(s))
<1>1. PICK i \in 1..Len(s) : s[i] = "quit"
  BY DEF Quits
<1>2. i - 1 \in 1..Len(Tail(s)) /\ Tail(s)[i - 1] = s[i]
  BY <1>1
<1> QED
  BY <1>1, <1>2 DEF Quits

LEMMA QuitsInBoth ==
  ASSUME NEW S, NEW s \in Seq(S), NEW t \in Seq(S), Quits(s) \/ Quits(t)
  PROVE  Quits(s \o t)
<1>1. ASSUME NEW i \in 1..Len(s), s[i] = "quit" PROVE Quits(s \o t)
  <2>1. i \in 1..Len(s \o t) /\ (s \o t)[i] = "quit"
    BY <1>1
  <2> QED
    BY <2>1 DEF Quits
<1>2. ASSUME NEW i \in 1..Len(t), t[i] = "quit" PROVE Quits(s \o t)
  <2>1. Len(s) + i \in 1..Len(s \o t) /\ (s \o t)[Len(s) + i] = "quit"
    BY <1>2
  <2> QED
    BY <2>1 DEF Quits
<1> QED
  BY <1>1, <1>2 DEF Quits

LEMMA QuitsInOne ==
  ASSUME NEW S, NEW s \in Seq(S), NEW t \in Seq(S), Quits(s \o t)
  PROVE  Quits(s) \/ Quits(t)
<1>1. PICK i \in 1..Len(s \o t) : (s \o t)[i] = "quit"
  BY DEF Quits
<1>2. Len(s) \in Nat /\ Len(t) \in Nat /\ Len(s \o t) = Len(s) + Len(t)
  BY ConcatProperties
<1>3. CASE i <= Len(s)
  <2>1. i \in 1..Len(s) /\ s[i] = "quit"
    BY <1>1, <1>2, <1>3, ConcatProperties
  <2> QED
    BY <2>1 DEF Quits
<1>4. CASE ~(i <= Len(s))
  <2>1. i - Len(s) \in 1..Len(t) /\ t[i - Len(s)] = "quit"
    BY <1>1, <1>2, <1>4, ConcatProperties
  <2> QED
    BY <2>1 DEF Quits
<1> QED
  BY <1>3, <1>4

\* The decoder takes a Ctrl-C out of its buffer to hand it on, and only that.
LEMMA ReaderKeepsQuits ==
  ASSUME InputTypes, ReaderStep \/ ReadFails, QuitTyped
  PROVE  Quits(offer') \/ Quits(buf') \/ Quits(input')
<1>1. /\ kind = "stdin" /\ input \in Seq(Bytes) /\ buf \in Seq(Bytes)
      /\ Quits(offer) \/ Quits(buf) \/ Quits(input)
  BY DEF InputTypes, Items, QuitTyped, Quits
<1>2. offer = << >>
  BY DEF ReaderStep, DecodeRune, DropByte, ReadChunk, ReadEnd, ReadFails,
         Starved, Reads
<1>3. Quits(buf) \/ Quits(input)
  <2>1. Len(<< >>) = 0 /\ ~Quits(<< >>)
    BY DEF Quits
  <2> QED
    BY <1>1, <1>2, <2>1
<1>4. ASSUME buf # << >>, Quits(buf), buf[1] # "quit"
      PROVE  Tail(buf) \in Seq(Bytes) /\ Quits(Tail(buf))
  BY <1>1, <1>4, QuitsBehind
<1>5. CASE DecodeRune
  <2>1. buf # << >> /\ input' = input
    BY <1>5 DEF DecodeRune, Decodes, inputVars
  <2>2. CASE Size(buf) = 1
    <3>1. offer' = <<buf[1]>> /\ buf' = SubSeq(buf, 2, Len(buf))
      BY <1>5, <2>2 DEF DecodeRune
    <3>2. buf' = Tail(buf)
      BY <1>1, <2>1, <3>1, TailIsSubSeq
    <3>3. buf[1] = "quit" => Quits(offer')
      BY <3>1 DEF Quits
    <3> QED
      BY <1>3, <1>4, <2>1, <3>2, <3>3
  <2>3. CASE Size(buf) # 1
    <3>1. /\ buf[1] = "lead" /\ Size(buf) = 2
          /\ Len(buf) > 1 /\ buf[2] = "cont"
      BY <1>5, <2>3 DEF Size, DecodeRune, Decodes
    <3>2. buf' = SubSeq(buf, 3, Len(buf))
      BY <1>5, <3>1 DEF DecodeRune
    <3>3. ASSUME NEW i \in 1..Len(buf), buf[i] = "quit" PROVE Quits(buf')
      <4>1. i \in 3..Len(buf)
        BY <1>1, <3>1, <3>3
      <4>2. i - 2 \in 1..Len(buf') /\ buf'[i - 2] = buf[i]
        BY <1>1, <3>2, <4>1
      <4> QED
        BY <3>3, <4>2 DEF Quits
    <3>4. Quits(buf) => Quits(buf')
      BY <3>3 DEF Quits
    <3> QED
      BY <1>3, <2>1, <3>4
  <2> QED
    BY <2>2, <2>3
<1>6. CASE ReadChunk
  <2>1. PICK n \in 1..ReadSize :
            /\ n <= Len(input)
            /\ buf' = buf \o SubSeq(input, 1, n)
            /\ input' = SubSeq(input, n + 1, Len(input))
    BY <1>6 DEF ReadChunk
  <2> DEFINE front == SubSeq(input, 1, n)
  <2>2. front \in Seq(Bytes) /\ input' \in Seq(Bytes) /\ input = front \o input'
    BY <1>1, <2>1, SourcesAssumption, ReadsApart
  <2>3. buf' = buf \o front
    BY <2>1
  <2> HIDE DEF front
  <2>4. Quits(input) => Quits(front) \/ Quits(input')
    BY <2>2, QuitsInOne
  <2> QED
    BY <1>1, <1>3, <2>2, <2>3, <2>4, QuitsInBoth
<1>7. CASE DropByte \/ (ReadEnd /\ buf # << >>)
  <2>1. buf # << >> /\ buf[1] # "quit" /\ buf' = Tail(buf) /\ input' = input
    <3>1. buf # << >>
      <4>1. Len(<< >>) = 0
        OBVIOUS
      <4> QED
        BY <1>7, <4>1, SourcesAssumption DEF DropByte
    <3> QED
      BY <1>7, <3>1 DEF DropByte, ReadEnd, Starved, Decodes, inputVars
  <2> QED
    BY <1>3, <1>4, <2>1
<1>8. CASE (ReadEnd /\ buf = << >>) \/ ReadFails
  BY <1>3, <1>8 DEF ReadEnd, ReadFails, inputVars, Quits
<1> QED
  BY <1>5, <1>6, <1>7, <1>8 DEF ReaderStep

\* What is typed later comes behind it, and Run takes one thing at a time.
LEMMA QuitIsKeptStep ==
  ASSUME InputTypes, InputInv, SourcesNext, QuitTyped
  PROVE  QuitTyped' \/ source' = "gone"
<1>1. /\ kind = "stdin" /\ input \in Seq(Bytes) /\ buf \in Seq(Bytes)
      /\ Quits(offer) \/ Quits(buf) \/ Quits(input)
  BY DEF InputTypes, Items, QuitTyped, Quits
<1>2. ASSUME kind' = kind, Quits(offer') \/ Quits(buf') \/ Quits(input')
      PROVE  QuitTyped'
  BY <1>1, <1>2 DEF QuitTyped, Quits
<1>3. ASSUME NEW x \in Bytes, input' = Append(input, x), kind' = kind,
             UNCHANGED <<buf, offer>>
      PROVE  QuitTyped'
  <2>1. input' = input \o <<x>> /\ <<x>> \in Seq(Bytes)
    BY <1>1, <1>3, AppendIsConcat
  <2>2. Quits(input) => Quits(input')
    BY <1>1, <2>1, QuitsInBoth
  <2> QED
    BY <1>1, <1>2, <1>3, <2>2
<1>4. CASE PressKey
  BY <1>1, <1>3, <1>4 DEF PressKey, Bytes
<1>5. ASSUME NEW item, Arrive(item) PROVE QuitTyped'
  BY <1>1, <1>3, <1>5 DEF Arrive, Items
<1>6. CASE ReaderStep \/ ReadFails
  <2>1. kind' = kind
    BY <1>6 DEF ReaderStep, DecodeRune, DropByte, ReadChunk, ReadEnd, ReadFails
  <2> QED
    BY <1>2, <1>6, <2>1, ReaderKeepsQuits
<1>7. CASE Receive
  <2>1. CASE ReceiveQuit \/ source' = "gone"
    BY <2>1 DEF ReceiveQuit, End, SourceEnds
  <2>2. CASE offer \in {<<"key">>, <<"other">>}
    <3>1. offer[1] # "quit" /\ Len(offer) = 1
      BY <2>2
    <3>2. ~Quits(offer)
      BY <3>1 DEF Quits
    <3> QED
      BY <1>1, <1>2, <1>7, <3>2 DEF Receive, inputVars, Quits
  <2> QED
    BY <1>7, <2>1, <2>2 DEF Receive, End, SourceEnds
<1>8. CASE Leave
  BY <1>8 DEF Leave, End, SourceEnds
<1>9. CASE KillChild \/ LibinputStep \/ DeviceReads
  BY <1>1, <1>9 DEF KillChild, LibinputStep, ScanPress, SkipLine, StopScanning,
     Scans, SendStops, Drain, Exited, DeviceReads, InputInv
<1>10. CASE Close \/ LoopSteps \/ SourcesTick
  BY <1>10 DEF Close, LoopSteps, SourcesTick, ownVars, inputVars, QuitTyped
<1> QED
  BY <1>4, <1>5, <1>6, <1>7, <1>8, <1>9, <1>10 DEF SourcesNext

\* A Ctrl-C on a raw terminal is never swallowed on its way to Run, whatever is
\* typed around it and however long a rune may be (stdin.go: runeReader.next,
\* Stdin.Run): the safety half of QuitIsHeard.
THEOREM QuitIsNeverSwallowed == SourcesSpec => QuitIsKept
<1>1. SourcesSpec => [](InputTypes /\ InputInv)
  <2>1. SourcesInit => InputTypes /\ InputInv
    <3>1. \A S : << >> \in Seq(S)
      OBVIOUS
    <3>2. SourcesInit => InputTypes
      BY <3>1 DEF SourcesInit, InputTypes
    <3>3. SourcesInit => InputInv
      BY DEF SourcesInit, InputInv
    <3> QED
      BY <3>2, <3>3
  <2> QED
    BY <2>1, InputTypesStep, InputInvStep, PTL DEF SourcesSpec
<1>2. ASSUME InputTypes /\ InputInv, [SourcesNext]_allVars
      PROVE  [QuitTyped => QuitTyped' \/ source' = "gone"]_allVars
  BY <1>2, QuitIsKeptStep
<1> QED
  BY <1>1, <1>2, PTL DEF SourcesSpec, QuitIsKept
=============================================================================
