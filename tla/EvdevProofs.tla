----------------------------- MODULE EvdevProofs -----------------------------
(***************************************************************************)
(* Theorems about the evdev source, for any devices, named or detected,    *)
(* any faults and bounds.                                                  *)
(*                                                                         *)
(* A key gets stuck when its press went to the console and its release     *)
(* does not.  RaceInv follows it backwards: the release bypasses the       *)
(* console only on a grabbed device, and a key that is down on one that    *)
(* was grabbed, or is about to be, was pressed in the race.                *)
(***************************************************************************)
EXTENDS Evdev, TLAPS

-----------------------------------------------------------------------------
(* Types.                                                                  *)

\* What the daemon does changes nothing of the devices themselves.
LEMMA DaemonLeavesDevices ==
    ASSUME Daemon \/ Cancel \/ \E p \in Paths : RetryExpires(p)
    PROVE  UNCHANGED deviceVars
  <1>1. ASSUME NEW p \in Paths,
               \/ PassOver(p) \/ OpenFails(p) \/ OpenDevice(p)
               \/ KeepDevice(p) \/ SkipDevice(p)
               \/ FindBusy(p) \/ FindUnknown(p) \/ FindIdle(p) \/ GrabDevice(p)
               \/ ReadDevice(p) \/ DropDevice(p) \/ RetryExpires(p)
        PROVE  UNCHANGED deviceVars
    BY <1>1 DEF PassOver, OpenFails, OpenDevice, KeepDevice, SkipDevice, FindBusy,
         FindUnknown, FindIdle, GrabDevice, ReadDevice, DropDevice, RetryExpires
  <1>2. ASSUME \/ ListDevices \/ ListFails \/ BeginGrabbing \/ Poll
               \/ NextRound \/ Cancel
        PROVE  UNCHANGED deviceVars
    BY <1>2 DEF ListDevices, ListFails, BeginGrabbing, Poll, NextRound, Cancel
  <1> QED  BY <1>1, <1>2 DEF Daemon

LEMMA WorldTypeStep ==
    ASSUME WorldType, [Next]_vars
    PROVE  WorldType'
  <1> USE DEF WorldType
  <1>1. ASSUME NEW p \in Paths, NEW kind \in Plugging, Plug(p, kind)
        PROVE  WorldType'
    BY <1>1, EvdevAssumption DEF Plug
  <1>2. ASSUME NEW p \in Paths, Unplug(p)
        PROVE  WorldType'
    BY <1>2 DEF Unplug
  <1>3. ASSUME NEW p \in Paths, KeyDown(p)
        PROVE  WorldType'
    <2>1. (console[p] \/ ~seized[p]) \in BOOLEAN
      OBVIOUS
    <2> QED  BY <1>3, <2>1 DEF KeyDown
  <1>4. ASSUME NEW p \in Paths, KeyUp(p)
        PROVE  WorldType'
    <2>1. (console[p] /\ seized[p]) \in BOOLEAN
      OBVIOUS
    <2> QED  BY <1>4, <2>1 DEF KeyUp
  <1>5. CASE UNCHANGED deviceVars
    BY <1>5 DEF deviceVars
  <1> QED
    BY <1>1, <1>2, <1>3, <1>4, <1>5, DaemonLeavesDevices DEF Next, World, vars

LEMMA DaemonTypeStep ==
    ASSUME WorldType, DaemonType, [Next]_vars
    PROVE  DaemonType'
  <1> USE DEF DaemonType
  <1>1. ASSUME NEW p \in Paths, NEW kind \in Plugging, Plug(p, kind)
        PROVE  DaemonType'
    BY <1>1 DEF Plug
  <1>2. ASSUME NEW p \in Paths, Unplug(p)
        PROVE  DaemonType'
    BY <1>2 DEF Unplug
  <1>3. ASSUME NEW p \in Paths, KeyDown(p)
        PROVE  DaemonType'
    <2>1. (open[p] = "live") \in BOOLEAN
      OBVIOUS
    <2> QED  BY <1>3, <2>1 DEF KeyDown
  <1>4. ASSUME NEW p \in Paths, KeyUp(p)
        PROVE  DaemonType'
    BY <1>4 DEF KeyUp
  <1>5. ASSUME ListDevices \/ ListFails \/ BeginGrabbing \/ Poll \/ NextRound
        PROVE  DaemonType'
    BY <1>5, EvdevAssumption
       DEF ListDevices, ListFails, BeginGrabbing, Poll, NextRound, Ready
  <1>6. ASSUME NEW p \in Paths,
               PassOver(p) \/ OpenFails(p) \/ OpenDevice(p)
               \/ KeepDevice(p) \/ SkipDevice(p)
        PROVE  DaemonType'
    BY <1>6 DEF PassOver, OpenFails, OpenDevice, KeepDevice, SkipDevice, AtPath, Ask
  <1>7. ASSUME NEW p \in Paths, FindBusy(p) \/ FindUnknown(p) \/ FindIdle(p)
        PROVE  DaemonType'
    BY <1>7 DEF FindBusy, FindUnknown, FindIdle
  <1>8. ASSUME NEW p \in Paths, GrabDevice(p)
        PROVE  DaemonType'
    BY <1>8 DEF GrabDevice
  <1>9. ASSUME NEW p \in Paths, ReadDevice(p) \/ DropDevice(p)
        PROVE  DaemonType'
    BY <1>9 DEF ReadDevice, DropDevice, CloseDevice
  <1>10. ASSUME NEW p \in Paths, RetryExpires(p)
         PROVE  DaemonType'
    BY <1>10 DEF RetryExpires
  <1>11. CASE Cancel
    BY <1>11 DEF Cancel
  <1>12. CASE UNCHANGED vars
    BY <1>12 DEF vars
  <1> QED
    BY <1>1, <1>2, <1>3, <1>4, <1>5, <1>6, <1>7, <1>8, <1>9, <1>10, <1>11,
       <1>12 DEF Next, World, Daemon

\* A fault is counted, and the bound is on the count.
LEMMA FaultCounted ==
    ASSUME BoundsType, NEW k, Fault(k) \/ UNCHANGED faults
    PROVE  faults' \in 0..MaxFaults
  <1>1. \A n \in 0..MaxFaults : n < MaxFaults => n + 1 \in 0..MaxFaults
    BY EvdevAssumption
  <1> QED  BY <1>1 DEF Fault, BoundsType

LEMMA BoundsTypeStep ==
    ASSUME BoundsType, [Next]_vars
    PROVE  BoundsType'
  <1>1. ASSUME NEW p \in Paths, NEW kind \in Plugging, Plug(p, kind)
        PROVE  BoundsType'
    <2>1. \A n \in 0..MaxPlugs : n < MaxPlugs => n + 1 \in 0..MaxPlugs
      BY EvdevAssumption
    <2> QED  BY <1>1, <2>1 DEF Plug, BoundsType
  <1>2. ASSUME NEW p \in Paths, KeyDown(p)
        PROVE  BoundsType'
    <2>1. \A n \in 0..MaxPresses : n < MaxPresses => n + 1 \in 0..MaxPresses
      BY EvdevAssumption
    <2> QED  BY <1>2, <2>1 DEF KeyDown, BoundsType
  <1>3. CASE UNCHANGED bounds
    BY <1>3 DEF bounds, BoundsType
  <1>4. ASSUME NEW p \in Paths, Unplug(p) \/ KeyUp(p) \/ RetryExpires(p)
        PROVE  UNCHANGED bounds
    BY <1>4 DEF Unplug, KeyUp, RetryExpires
  <1>5. ASSUME ListDevices \/ ListFails \/ BeginGrabbing \/ Poll \/ NextRound
               \/ Cancel
        PROVE  /\ UNCHANGED <<plugs, presses>>
               /\ Fault("list") \/ UNCHANGED faults
    BY <1>5 DEF ListDevices, ListFails, BeginGrabbing, Poll, NextRound, Cancel,
         bounds
  <1>6. ASSUME NEW p \in Paths,
               \/ PassOver(p) \/ OpenFails(p) \/ OpenDevice(p)
               \/ KeepDevice(p) \/ SkipDevice(p)
               \/ FindBusy(p) \/ FindUnknown(p) \/ FindIdle(p) \/ GrabDevice(p)
               \/ ReadDevice(p) \/ DropDevice(p)
        PROVE  /\ UNCHANGED <<plugs, presses>>
               /\ (\E k \in FaultKinds : Fault(k)) \/ UNCHANGED faults
    BY <1>6 DEF PassOver, OpenFails, OpenDevice, KeepDevice, SkipDevice, FindBusy,
         FindUnknown, FindIdle, GrabDevice, ReadDevice, DropDevice, bounds,
         FaultKinds
  <1>7. ASSUME UNCHANGED <<plugs, presses>>, faults' \in 0..MaxFaults
        PROVE  BoundsType'
    BY <1>7 DEF BoundsType
  <1>8. CASE Daemon \/ Cancel
    BY <1>5, <1>6, <1>7, <1>8, FaultCounted DEF Daemon
  <1>9. CASE UNCHANGED vars
    BY <1>3, <1>9 DEF vars
  <1> QED  BY <1>1, <1>2, <1>3, <1>4, <1>8, <1>9 DEF Next, World

-----------------------------------------------------------------------------
(* What is kept of a device, and the device about to be grabbed.           *)

LEMMA TargetStep ==
    ASSUME WorldType, DaemonType, KeptWithFd, TargetInv, [Next]_vars
    PROVE  TargetInv'
  <1> USE DEF TargetInv
  <1>1. ASSUME NEW p \in Paths, NEW kind \in Plugging, Plug(p, kind)
        PROVE  TargetInv'
    BY <1>1 DEF Plug
  <1>2. ASSUME NEW p \in Paths, Unplug(p)
        PROVE  TargetInv'
    BY <1>2 DEF Unplug, DaemonType
  <1>3. ASSUME NEW p \in Paths, KeyDown(p) \/ KeyUp(p) \/ RetryExpires(p)
        PROVE  TargetInv'
    BY <1>3 DEF KeyDown, KeyUp, RetryExpires
  <1>4. ASSUME ListDevices \/ ListFails \/ BeginGrabbing \/ Poll \/ NextRound
        PROVE  TargetInv'
    BY <1>4, EvdevAssumption
       DEF ListDevices, ListFails, BeginGrabbing, Poll, NextRound
  <1>5. ASSUME NEW p \in Paths,
               PassOver(p) \/ OpenFails(p) \/ OpenDevice(p)
               \/ KeepDevice(p) \/ SkipDevice(p)
        PROVE  TargetInv'
    BY <1>5, EvdevAssumption
       DEF PassOver, OpenFails, OpenDevice, KeepDevice, SkipDevice, AtPath, Ask,
           LeaveAlone, KeptWithFd, DaemonType
  <1>6. ASSUME NEW p \in Paths, FindBusy(p) \/ FindUnknown(p) \/ FindIdle(p)
        PROVE  TargetInv'
    BY <1>6 DEF FindBusy, FindUnknown, FindIdle
  <1>7. ASSUME NEW p \in Paths, GrabDevice(p)
        PROVE  TargetInv'
    BY <1>7 DEF GrabDevice
  <1>8. ASSUME NEW p \in Paths, ReadDevice(p) \/ DropDevice(p)
        PROVE  TargetInv'
    BY <1>8 DEF ReadDevice, DropDevice
  <1>9. CASE Cancel
    BY <1>9 DEF Cancel
  <1>10. CASE UNCHANGED vars
    BY <1>10 DEF vars
  <1> QED
    BY <1>1, <1>2, <1>3, <1>4, <1>5, <1>6, <1>7, <1>8, <1>9, <1>10
       DEF Next, World, Daemon

LEMMA KeptStep ==
    ASSUME DaemonType, KeptWithFd, TargetInv, [Next]_vars
    PROVE  KeptWithFd'
  <1> USE DEF KeptWithFd, DaemonType
  <1>1. ASSUME NEW p \in Paths, NEW kind \in Plugging, Plug(p, kind)
        PROVE  KeptWithFd'
    BY <1>1 DEF Plug
  <1>2. ASSUME NEW p \in Paths, Unplug(p)
        PROVE  KeptWithFd'
    BY <1>2 DEF Unplug
  <1>3. ASSUME NEW p \in Paths, KeyDown(p)
        PROVE  KeptWithFd'
    BY <1>3 DEF KeyDown
  <1>4. ASSUME NEW p \in Paths, KeyUp(p) \/ RetryExpires(p)
        PROVE  KeptWithFd'
    BY <1>4 DEF KeyUp, RetryExpires
  <1>5. ASSUME ListDevices \/ ListFails \/ BeginGrabbing \/ Poll \/ NextRound
        PROVE  KeptWithFd'
    BY <1>5 DEF ListDevices, ListFails, BeginGrabbing, Poll, NextRound
  <1>6. ASSUME NEW p \in Paths,
               PassOver(p) \/ OpenFails(p) \/ SkipDevice(p)
        PROVE  KeptWithFd'
    BY <1>6, EvdevAssumption
       DEF PassOver, OpenFails, SkipDevice, Ask, TargetInv
  <1>7. ASSUME NEW p \in Paths, OpenDevice(p) \/ KeepDevice(p)
        PROVE  KeptWithFd'
    BY <1>7 DEF OpenDevice, KeepDevice
  <1>8. ASSUME NEW p \in Paths, FindBusy(p) \/ FindUnknown(p) \/ FindIdle(p)
        PROVE  KeptWithFd'
    BY <1>8 DEF FindBusy, FindUnknown, FindIdle, TargetInv
  <1>9. ASSUME NEW p \in Paths, GrabDevice(p)
        PROVE  KeptWithFd'
    <2>1. p # NoPath /\ open[p] # "closed"
      BY <1>9, EvdevAssumption DEF GrabDevice, TargetInv
    <2> QED  BY <1>9, <2>1 DEF GrabDevice
  <1>10. ASSUME NEW p \in Paths, ReadDevice(p) \/ DropDevice(p)
         PROVE  KeptWithFd'
    BY <1>10 DEF ReadDevice, DropDevice, CloseDevice
  <1>11. CASE Cancel
    BY <1>11 DEF Cancel
  <1>12. CASE UNCHANGED vars
    BY <1>12 DEF vars
  <1> QED
    BY <1>1, <1>2, <1>3, <1>4, <1>5, <1>6, <1>7, <1>8, <1>9, <1>10, <1>11,
       <1>12 DEF Next, World, Daemon

-----------------------------------------------------------------------------
(* The race.                                                               *)

LEMMA RaceStep ==
    ASSUME WorldType, DaemonType, TargetInv, RaceInv, [Next]_vars
    PROVE  RaceInv'
  <1> USE DEF RaceInv, WorldType, DaemonType
  <1>1. ASSUME NEW p \in Paths, NEW kind \in Plugging, Plug(p, kind)
        PROVE  RaceInv'
    BY <1>1 DEF Plug
  \* Nothing of the device is left, neither its key nor that it was raced.
  <1>2. ASSUME NEW p \in Paths, Unplug(p)
        PROVE  RaceInv'
    BY <1>2 DEF Unplug
  \* A press on a grabbed device does not reach the console.
  <1>3. ASSUME NEW p \in Paths, KeyDown(p)
        PROVE  RaceInv'
    BY <1>3 DEF KeyDown
  \* A release on a grabbed device does not either.
  <1>4. ASSUME NEW p \in Paths, KeyUp(p)
        PROVE  RaceInv'
    BY <1>4 DEF KeyUp
  <1>5. ASSUME deviceVars' = deviceVars,
               \A q \in Paths : seized'[q] => seized[q],
               \/ pc' # "check" \/ target' = NoPath
               \/ pc = "check" /\ target' = target
        PROVE  RaceInv'
    BY <1>5, EvdevAssumption DEF deviceVars
  <1>6. ASSUME \/ ListDevices \/ ListFails \/ BeginGrabbing \/ Poll
               \/ NextRound \/ Cancel
        PROVE  RaceInv'
    BY <1>5, <1>6
       DEF ListDevices, ListFails, BeginGrabbing, Poll, NextRound, Cancel,
           TargetInv
  <1>7. ASSUME NEW p \in Paths,
               \/ PassOver(p) \/ OpenFails(p) \/ OpenDevice(p)
               \/ KeepDevice(p) \/ SkipDevice(p)
               \/ FindBusy(p) \/ FindUnknown(p) \/ ReadDevice(p)
               \/ DropDevice(p) \/ RetryExpires(p)
        PROVE  RaceInv'
    BY <1>5, <1>7
       DEF PassOver, OpenFails, OpenDevice, KeepDevice, SkipDevice, AtPath, Ask,
           FindBusy, FindUnknown, ReadDevice, DropDevice, CloseDevice, RetryExpires
  \* The race begins on a device that has no key down.
  <1>8. ASSUME NEW p \in Paths, FindIdle(p)
        PROVE  RaceInv'
    BY <1>8 DEF FindIdle, deviceVars
  \* It ends with the grab: a key that is down now was pressed in it.
  <1>9. ASSUME NEW p \in Paths, GrabDevice(p)
        PROVE  RaceInv'
    BY <1>9, EvdevAssumption DEF GrabDevice, deviceVars
  <1>10. CASE UNCHANGED vars
    BY <1>5, <1>10 DEF vars
  <1> QED
    BY <1>1, <1>2, <1>3, <1>4, <1>6, <1>7, <1>8, <1>9, <1>10
       DEF Next, World, Daemon

-----------------------------------------------------------------------------

LEMMA InvInit ==
    Init => EvdevInv
  <1> SUFFICES ASSUME Init PROVE EvdevInv
    OBVIOUS
  <1>1. WorldType
    BY EvdevAssumption DEF Init, WorldType
  <1>2. DaemonType /\ KeptWithFd /\ TargetInv
    BY DEF Init, DaemonType, KeptWithFd, TargetInv
  <1>3. BoundsType
    BY EvdevAssumption DEF Init, BoundsType
  <1>4. RaceInv
    BY EvdevAssumption DEF Init, RaceInv, WorldType
  <1> QED  BY <1>1, <1>2, <1>3, <1>4 DEF EvdevInv, TypeOK

LEMMA InvStep ==
    EvdevInv /\ [Next]_vars => EvdevInv'
  BY WorldTypeStep, DaemonTypeStep, BoundsTypeStep, TargetStep, KeptStep,
     RaceStep DEF EvdevInv, TypeOK

LEMMA InvAlways ==
    Spec => []EvdevInv
  BY InvInit, InvStep, PTL DEF Spec

\* Type correctness, with what the daemon knows of a device: it has grabbed
\* what it believes it has, and forgets all of it with the fd.
THEOREM TypeCorrect ==
    Spec => []TypeOK
  BY InvAlways, PTL DEF EvdevInv

\* However devices come and go and system calls fail, the only key that
\* grabIdleDevices can leave stuck is one pressed after it found the device
\* idle and before it grabbed it.
THEOREM StuckKeysRaced ==
    Spec => []OnlyTheRaceSticks
  <1>1. EvdevInv => OnlyTheRaceSticks
    BY DEF EvdevInv, RaceInv, OnlyTheRaceSticks, Stuck
  <1> QED  BY <1>1, InvAlways, PTL

-----------------------------------------------------------------------------
(* What the daemon believes of its grabs.                                  *)

LEMMA BelievedStep ==
    ASSUME EvdevInv, BelievedIsSeized, [Next]_vars, {"state", "grab"} \cap Faults = {}
    PROVE  BelievedIsSeized'
  <1> USE DEF BelievedIsSeized, WorldType, DaemonType
  <1>1. /\ WorldType /\ DaemonType /\ KeptWithFd
        /\ ~Fault("state") /\ ~Fault("grab")
    BY DEF EvdevInv, TypeOK, Fault
  <1>2. ASSUME UNCHANGED <<open, grabbed, seized>>
        PROVE  BelievedIsSeized'
    BY <1>2
  <1>3. ASSUME NEW p \in Paths, Unplug(p)
        PROVE  BelievedIsSeized'
    BY <1>1, <1>3 DEF Unplug
  <1>4. CASE World
    BY <1>2, <1>3, <1>4 DEF World, Plug, KeyDown, KeyUp
  <1>5. CASE ListDevices \/ ListFails \/ BeginGrabbing \/ Poll \/ NextRound
    BY <1>2, <1>5 DEF ListDevices, ListFails, BeginGrabbing, Poll, NextRound
  <1>6. ASSUME NEW p \in Paths,
               \/ PassOver(p) \/ OpenFails(p) \/ KeepDevice(p) \/ FindBusy(p)
               \/ FindIdle(p) \/ ReadDevice(p) \/ RetryExpires(p)
        PROVE  BelievedIsSeized'
    BY <1>2, <1>6
       DEF PassOver, OpenFails, KeepDevice, FindBusy, FindIdle, ReadDevice,
           RetryExpires
  <1>6a. ASSUME NEW p \in Paths, SkipDevice(p)
         PROVE  BelievedIsSeized'
    BY <1>1, <1>6a DEF SkipDevice
  \* Nothing of an earlier device is left on a path that is opened.
  <1>7. ASSUME NEW p \in Paths, OpenDevice(p)
        PROVE  BelievedIsSeized'
    BY <1>1, <1>7 DEF OpenDevice, AtPath, LeaveAlone, KeptWithFd
  \* Only a device that is gone cannot be asked, nor grabbed.
  <1>8. ASSUME NEW p \in Paths, FindUnknown(p)
        PROVE  BelievedIsSeized'
    BY <1>1, <1>8 DEF FindUnknown
  <1>9. ASSUME NEW p \in Paths, GrabDevice(p)
        PROVE  BelievedIsSeized'
    BY <1>1, <1>9 DEF GrabDevice
  <1>10. ASSUME NEW p \in Paths, DropDevice(p)
         PROVE  BelievedIsSeized'
    BY <1>1, <1>10 DEF DropDevice, CloseDevice
  <1>11. CASE Cancel
    BY <1>11 DEF Cancel
  <1>12. CASE UNCHANGED vars
    BY <1>2, <1>12 DEF vars
  <1> QED
    BY <1>4, <1>5, <1>6, <1>6a, <1>7, <1>8, <1>9, <1>10, <1>11, <1>12
       DEF Next, Daemon

\* refresh, grabIdleDevices and closeDevice agree on what is grabbed, however
\* often a path changes hands (evdev.go: evdevDevice.grabbed).
THEOREM GrabsAreBelieved ==
    ASSUME {"state", "grab"} \cap Faults = {}
    PROVE  Spec => []BelievedIsSeized
  <1>1. Init => BelievedIsSeized
    BY DEF Init, BelievedIsSeized
  <1>2. EvdevInv /\ BelievedIsSeized /\ [Next]_vars => BelievedIsSeized'
    BY BelievedStep
  <1> QED  BY <1>1, <1>2, InvAlways, PTL DEF Spec
=============================================================================
