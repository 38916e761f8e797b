-------------------------------- MODULE Evdev --------------------------------
(***************************************************************************)
(* The evdev key source, internal/keys/evdev.go: which input devices the   *)
(* daemon listens to and which it takes for itself, while keyboards come   *)
(* and go and keys are pressed between any two of its system calls.        *)
(*                                                                         *)
(* The kernel's side is what the code relies on: a device sends its events *)
(* to everyone who has it open, unless one of them has grabbed it.         *)
(***************************************************************************)
EXTENDS Naturals, FiniteSets

CONSTANTS
    Paths,       \* device nodes, /dev/input/eventN
    Named,       \* the devices given with --device; none: auto-detect
    Grab,        \* whether devices are grabbed
    Plugging,    \* the kinds of device that are plugged in
    MaxPlugs, MaxPresses, MaxFaults,   \* bounds
    Faults       \* the kinds of system call that may fail

FaultKinds == {"list", "open", "caps", "state", "grab", "read"}

\* A keyboard has the keys the daemon acts on; the kernel lists more.
Kinds == {"keyboard", "button"}

NoPath == "none"

ASSUME EvdevAssumption ==
    /\ NoPath \notin Paths /\ Named \subseteq Paths
    /\ Grab \in BOOLEAN
    /\ Plugging \subseteq Kinds
    /\ MaxPlugs \in Nat /\ MaxPresses \in Nat /\ MaxFaults \in Nat
    /\ Faults \subseteq FaultKinds

VARIABLES
    \* The world.
    plugged,   \* the kind of device behind each path
    down,      \* whether a key of it is held down
    console,   \* whether everybody else believes so
    seized,    \* whether it is grabbed by the daemon
    events,    \* whether a press waits to be read from the daemon's fd
    \* The daemon.
    open,      \* its fd: closed, live, or dead once the device is gone
    grabbed,   \* evdevDevice.grabbed
    skipped, retryAfter,   \* sets of paths
    pc,        \* the part of Run under way
    todo,      \* the paths it has still to deal with
    target,    \* the path just opened, or about to be grabbed
    \* History, and what the bounds are on.
    raced,     \* pressed between being found idle and being grabbed
    plugs, presses, faults

deviceVars == <<plugged, down, console, raced>>
bounds == <<plugs, presses, faults>>
vars == <<deviceVars, seized, events, open, grabbed, skipped, retryAfter, pc,
          todo, target, bounds>>

Init ==
    /\ plugged \in [Paths -> Plugging \cup {"none"}]
    /\ down \in [Paths -> BOOLEAN]   \* the key that started the daemon
    /\ \A p \in Paths : down[p] => plugged[p] # "none"
    /\ console = down
    /\ seized = [p \in Paths |-> FALSE] /\ events = [p \in Paths |-> FALSE]
    /\ open = [p \in Paths |-> "closed"]
    /\ grabbed = [p \in Paths |-> FALSE]
    /\ skipped = {} /\ retryAfter = {}
    /\ pc = "list" /\ todo = {} /\ target = NoPath
    /\ raced = {} /\ plugs = 0 /\ presses = 0 /\ faults = 0

Fault(k) == k \in Faults /\ faults < MaxFaults /\ faults' = faults + 1

-----------------------------------------------------------------------------
(* The world.                                                              *)

Plug(p, kind) ==
    /\ plugged[p] = "none" /\ plugs < MaxPlugs
    /\ plugs' = plugs + 1
    /\ plugged' = [plugged EXCEPT ![p] = kind]
    /\ UNCHANGED <<down, console, raced, seized, events, open, grabbed,
                   skipped, retryAfter, pc, todo, target, presses, faults>>

\* Everybody forgets the device; the daemon's fd reports a hangup from now on.
Unplug(p) ==
    /\ plugged[p] # "none"
    /\ plugged' = [plugged EXCEPT ![p] = "none"]
    /\ down' = [down EXCEPT ![p] = FALSE]
    /\ console' = [console EXCEPT ![p] = FALSE]
    /\ raced' = raced \ {p}
    /\ seized' = [seized EXCEPT ![p] = FALSE]
    /\ events' = [events EXCEPT ![p] = FALSE]
    /\ open' = [open EXCEPT ![p] = IF @ = "live" THEN "dead" ELSE @]
    /\ UNCHANGED <<grabbed, skipped, retryAfter, pc, todo, target, bounds>>

KeyDown(p) ==
    /\ plugged[p] # "none" /\ ~down[p] /\ presses < MaxPresses
    /\ presses' = presses + 1
    /\ down' = [down EXCEPT ![p] = TRUE]
    /\ console' = [console EXCEPT ![p] = @ \/ ~seized[p]]
    /\ events' = [events EXCEPT ![p] = open[p] = "live"]
    /\ raced' = IF pc = "check" /\ target = p THEN raced \cup {p} ELSE raced
    /\ UNCHANGED <<plugged, seized, open, grabbed, skipped, retryAfter, pc,
                   todo, target, plugs, faults>>

KeyUp(p) ==
    /\ down[p]
    /\ down' = [down EXCEPT ![p] = FALSE]
    /\ console' = [console EXCEPT ![p] = @ /\ seized[p]]
    /\ UNCHANGED <<plugged, raced, seized, events, open, grabbed, skipped,
                   retryAfter, pc, todo, target, bounds>>

-----------------------------------------------------------------------------
(* refresh: open what is there and not open yet.                           *)

\* devicePaths: what was named, or what the kernel lists.
ListDevices ==
    /\ pc = "list" /\ pc' = "open"
    /\ todo' = IF Named # {} THEN Named ELSE {p \in Paths : plugged[p] # "none"}
    /\ UNCHANGED <<deviceVars, seized, events, open, grabbed, skipped,
                   retryAfter, target, bounds>>

ListFails ==
    /\ pc = "list" /\ pc' = "open" /\ Named = {} /\ Fault("list")
    /\ todo' = {}
    /\ UNCHANGED <<deviceVars, seized, events, open, grabbed, skipped,
                   retryAfter, target, plugs, presses>>

LeaveAlone(p) == open[p] # "closed" \/ p \in skipped \/ p \in retryAfter

\* canProduce, for devices that were not named.
Usable(p) == Named # {} \/ plugged[p] = "keyboard"

AtPath(p) == pc = "open" /\ target = NoPath /\ p \in todo

PassOver(p) ==
    /\ AtPath(p) /\ todo' = todo \ {p}
    /\ LeaveAlone(p) \/ plugged[p] = "none"
    /\ UNCHANGED <<deviceVars, seized, events, open, grabbed, skipped,
                   retryAfter, pc, target, bounds>>

OpenFails(p) ==
    /\ AtPath(p) /\ todo' = todo \ {p} /\ ~LeaveAlone(p) /\ Fault("open")
    /\ UNCHANGED <<deviceVars, seized, events, open, grabbed, skipped,
                   retryAfter, pc, target, plugs, presses>>

OpenDevice(p) ==
    /\ AtPath(p) /\ ~LeaveAlone(p) /\ plugged[p] # "none"
    /\ open' = [open EXCEPT ![p] = "live"] /\ target' = p
    /\ UNCHANGED <<deviceVars, seized, events, grabbed, skipped, retryAfter,
                   pc, todo, bounds>>

\* EVIOCGBIT.
Ask(p) ==
    /\ pc = "open" /\ target = p
    /\ target' = NoPath /\ todo' = todo \ {p}

\* A device whose capabilities cannot be read, because it is gone already or for
\* any other reason, is taken as it is.
KeepDevice(p) ==
    /\ Ask(p)
    /\ IF open[p] = "dead" \/ Usable(p) THEN UNCHANGED faults ELSE Fault("caps")
    /\ UNCHANGED <<deviceVars, seized, events, open, grabbed, skipped,
                   retryAfter, pc, plugs, presses>>

SkipDevice(p) ==
    /\ Ask(p) /\ open[p] = "live" /\ ~Usable(p)
    /\ open' = [open EXCEPT ![p] = "closed"]
    /\ events' = [events EXCEPT ![p] = FALSE]
    /\ skipped' = skipped \cup {p}
    /\ UNCHANGED <<deviceVars, seized, grabbed, retryAfter, pc, bounds>>

-----------------------------------------------------------------------------
(* grabIdleDevices.                                                        *)

BeginGrabbing ==
    /\ pc = "open" /\ todo = {} /\ pc' = "check"
    /\ todo' = IF Grab THEN {p \in Paths : open[p] # "closed"} ELSE {}
    /\ UNCHANGED <<deviceVars, seized, events, open, grabbed, skipped,
                   retryAfter, target, bounds>>

\* Mutation of FindBusy: a device that is not idle is given up on.
FindBusyGivesUp(p) ==
    /\ pc = "check" /\ target = NoPath /\ p \in todo
    /\ grabbed[p] \/ (open[p] = "live" /\ down[p])
    /\ todo' = todo \ {p} /\ grabbed' = [grabbed EXCEPT ![p] = TRUE]
    /\ UNCHANGED <<deviceVars, seized, events, open, skipped, retryAfter, pc,
                   target, bounds>>

\* A device in use waits for the next round.
FindBusy(p) ==
    /\ pc = "check" /\ target = NoPath /\ p \in todo
    /\ grabbed[p] \/ (open[p] = "live" /\ down[p])
    /\ todo' = todo \ {p}
    /\ UNCHANGED <<deviceVars, seized, events, open, grabbed, skipped,
                   retryAfter, pc, target, bounds>>

\* anyKeyDown fails: the device is not grabbed, and not asked again.
FindUnknown(p) ==
    /\ pc = "check" /\ target = NoPath /\ p \in todo /\ ~grabbed[p]
    /\ IF open[p] = "dead" THEN UNCHANGED faults ELSE Fault("state")
    /\ todo' = todo \ {p} /\ grabbed' = [grabbed EXCEPT ![p] = TRUE]
    /\ UNCHANGED <<deviceVars, seized, events, open, skipped, retryAfter, pc,
                   target, plugs, presses>>

\* Mutation of FindIdle: the state of the keys is not asked for.
FindIdleUnchecked(p) ==
    /\ pc = "check" /\ target = NoPath /\ p \in todo /\ ~grabbed[p]
    /\ open[p] = "live"
    /\ target' = p
    /\ UNCHANGED <<deviceVars, seized, events, open, grabbed, skipped,
                   retryAfter, pc, todo, bounds>>

FindIdle(p) ==
    /\ pc = "check" /\ target = NoPath /\ p \in todo /\ ~grabbed[p]
    /\ open[p] = "live" /\ ~down[p]
    /\ target' = p
    /\ UNCHANGED <<deviceVars, seized, events, open, grabbed, skipped,
                   retryAfter, pc, todo, bounds>>

\* EVIOCGRAB, a system call of its own; when it fails it is not tried again.
GrabDevice(p) ==
    /\ pc = "check" /\ target = p
    /\ target' = NoPath /\ todo' = todo \ {p}
    /\ grabbed' = [grabbed EXCEPT ![p] = TRUE]
    /\ \/ /\ open[p] = "live" /\ UNCHANGED faults
          /\ seized' = [seized EXCEPT ![p] = TRUE]
       \/ /\ IF open[p] = "dead" THEN UNCHANGED faults ELSE Fault("grab")
          /\ UNCHANGED seized
    /\ UNCHANGED <<deviceVars, events, open, skipped, retryAfter, pc, plugs,
                   presses>>

-----------------------------------------------------------------------------
(* poll, readDevice and closeDevice.                                       *)

Ready == {p \in Paths : open[p] = "dead" \/ (open[p] = "live" /\ events[p])}

\* It returns with the devices that are ready, or after RescanInterval.
Poll ==
    /\ pc = "check" /\ todo = {} /\ target = NoPath
    /\ pc' = "serve" /\ todo' = Ready
    /\ UNCHANGED <<deviceVars, seized, events, open, grabbed, skipped,
                   retryAfter, target, bounds>>

ReadDevice(p) ==
    /\ pc = "serve" /\ p \in todo /\ open[p] = "live"
    /\ todo' = todo \ {p}
    /\ events' = [events EXCEPT ![p] = FALSE]
    /\ UNCHANGED <<deviceVars, seized, open, grabbed, skipped, retryAfter, pc,
                   target, bounds>>

\* Mutation of CloseDevice: the entry stays in the map.
CloseDeviceKeeps(p) ==
    /\ seized' = [seized EXCEPT ![p] = FALSE]
    /\ events' = [events EXCEPT ![p] = FALSE]
    /\ retryAfter' = retryAfter \cup {p}
    /\ UNCHANGED <<open, grabbed>>

\* Mutation of CloseDevice: that the path was grabbed is remembered.
CloseDeviceStaysGrabbed(p) ==
    /\ open' = [open EXCEPT ![p] = "closed"]
    /\ seized' = [seized EXCEPT ![p] = FALSE]
    /\ events' = [events EXCEPT ![p] = FALSE]
    /\ retryAfter' = retryAfter \cup {p}
    /\ UNCHANGED grabbed

\* Closing the fd ends the grab; the path is left alone for a while.
CloseDevice(p) ==
    /\ open' = [open EXCEPT ![p] = "closed"]
    /\ grabbed' = [grabbed EXCEPT ![p] = FALSE]
    /\ seized' = [seized EXCEPT ![p] = FALSE]
    /\ events' = [events EXCEPT ![p] = FALSE]
    /\ retryAfter' = retryAfter \cup {p}

DropDevice(p) ==
    /\ pc = "serve" /\ p \in todo
    /\ IF open[p] = "dead" THEN UNCHANGED faults ELSE Fault("read")
    /\ todo' = todo \ {p}
    /\ CloseDevice(p)
    /\ UNCHANGED <<deviceVars, skipped, pc, target, plugs, presses>>

NextRound ==
    /\ pc = "serve" /\ todo = {} /\ pc' = "list"
    /\ UNCHANGED <<deviceVars, seized, events, open, grabbed, skipped,
                   retryAfter, todo, target, bounds>>

\* The time in retryAfter has come.
RetryExpires(p) ==
    /\ p \in retryAfter /\ retryAfter' = retryAfter \ {p}
    /\ UNCHANGED <<deviceVars, seized, events, open, grabbed, skipped, pc,
                   todo, target, bounds>>

\* ctx is done: Run returns and closes what is open.
Cancel ==
    /\ pc = "serve" /\ pc' = "stopped" /\ todo' = {}
    /\ open' = [p \in Paths |-> "closed"]
    /\ seized' = [p \in Paths |-> FALSE]
    /\ grabbed' = [p \in Paths |-> FALSE]
    /\ events' = [p \in Paths |-> FALSE]
    /\ UNCHANGED <<deviceVars, skipped, retryAfter, target, bounds>>

-----------------------------------------------------------------------------

Daemon ==
    \/ ListDevices \/ ListFails \/ BeginGrabbing \/ Poll \/ NextRound
    \/ \E p \in Paths :
           \/ PassOver(p) \/ OpenFails(p)
           \/ OpenDevice(p) \/ KeepDevice(p) \/ SkipDevice(p)
           \/ FindBusy(p) \/ FindUnknown(p) \/ FindIdle(p) \/ GrabDevice(p)
           \/ ReadDevice(p) \/ DropDevice(p)

World ==
    \E p \in Paths :
        \/ \E kind \in Plugging : Plug(p, kind)
        \/ Unplug(p) \/ KeyDown(p) \/ KeyUp(p)

Next == World \/ Daemon \/ Cancel \/ \E p \in Paths : RetryExpires(p)

Spec == Init /\ [][Next]_vars

\* The loop goes round, time passes, and nobody holds a key down for good.
Fairness ==
    /\ WF_vars(Daemon)
    /\ \A p \in Paths : WF_vars(RetryExpires(p)) /\ WF_vars(KeyUp(p))

FairSpec == Spec /\ Fairness

-----------------------------------------------------------------------------

WorldType ==
    /\ plugged \in [Paths -> Kinds \cup {"none"}]
    /\ down \in [Paths -> BOOLEAN] /\ console \in [Paths -> BOOLEAN]
    /\ raced \subseteq Paths

DaemonType ==
    /\ seized \in [Paths -> BOOLEAN] /\ events \in [Paths -> BOOLEAN]
    /\ open \in [Paths -> {"closed", "live", "dead"}]
    /\ grabbed \in [Paths -> BOOLEAN]
    /\ skipped \subseteq Paths /\ retryAfter \subseteq Paths
    /\ pc \in {"list", "open", "check", "serve", "stopped"}
    /\ todo \subseteq Paths /\ target \in Paths \cup {NoPath}

BoundsType ==
    /\ plugs \in 0..MaxPlugs /\ presses \in 0..MaxPresses
    /\ faults \in 0..MaxFaults

\* What the daemon keeps of a device goes with its fd.
KeptWithFd ==
    \A p \in Paths :
        /\ seized[p] => grabbed[p] /\ open[p] = "live"
        /\ grabbed[p] \/ events[p] => open[p] # "closed"

\* Every variable has its type; what the daemon keeps of a device goes with
\* its fd, and it has grabbed what it believes it has.
TypeOK == WorldType /\ DaemonType /\ BoundsType /\ KeptWithFd

\* Unless asking for the keys or the grab fails, which ends it for good, the daemon
\* believes of a device that is there what is so: a path that is unplugged and
\* plugged in again is not taken for grabbed, nor one that is grabbed for free.
BelievedIsSeized ==
    \A p \in Paths : open[p] = "live" => (grabbed[p] <=> seized[p])

\* A key everybody else believes is held although it is not: its release went
\* to the daemon alone.
Stuck(p) == console[p] /\ ~down[p]

\* Keys held while devices come, go, and are grabbed never get stuck: only one
\* pressed just between the check and the grab can.
OnlyTheRaceSticks == \A p \in Paths : Stuck(p) => p \in raced

Stopped == pc = "stopped"

\* The daemon "picks up keyboards that are plugged in later".
KeyboardIsHeard ==
    \A p \in Paths :
        plugged[p] = "keyboard" ~> (open[p] = "live" \/ plugged[p] # "keyboard" \/ Stopped)

\* So it does, as long as the path was never passed over for another device.
UnskippedIsHeard ==
    \A p \in Paths :
        plugged[p] = "keyboard" ~>
            (open[p] = "live" \/ plugged[p] # "keyboard" \/ p \in skipped \/ Stopped)

\* Once nobody holds a key of it, a device that is listened to is grabbed.
GrabHappens ==
    \A p \in Paths :
        open[p] = "live" ~> (seized[p] \/ open[p] # "live" \/ Stopped)

-----------------------------------------------------------------------------
(* The inductive invariant.                                                *)

\* Only a device that is open is checked or about to be grabbed, and one that was
\* just opened is not grabbed.
TargetInv ==
    /\ pc = "check" => \A p \in todo : open[p] # "closed"
    /\ target # NoPath => pc \in {"open", "check"} /\ target \in todo
    /\ pc = "open" => \A p \in Paths : target = p => ~grabbed[p]

\* What the console believes is held will be released to it, too, or the key
\* was pressed in the race; on the device about to be grabbed as well.
RaceInv ==
    /\ \A p \in Paths : console[p] /\ (seized[p] \/ ~down[p]) => p \in raced
    /\ pc = "check" => \A p \in Paths : target = p /\ down[p] => p \in raced

EvdevInv == TypeOK /\ TargetInv /\ RaceInv
=============================================================================
