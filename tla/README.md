# scantool, specified

Scantool is a daemon that turns presses of a keypad into scanned documents.
This directory models its core in TLA+: TLC checks the models on small
instances, TLAPS proves what matters most for every instance. The source is
what is modelled; where a comment or the README of the program says otherwise,
a run shows the difference (see *Where code and documentation differ*).

`PROJECT.json` lists every run, the definitions with the lines they stand for,
the hazards of the code, and the theorems.

    tlc -workers 2 -config session_recovery.cfg MCSession
    tlapm SessionProofs.tla

## The system

| Part | Source | State it keeps | Operations | Talks to |
|---|---|---|---|---|
| Session manager | `internal/session/session.go` | the open session (id, directory, pages, abort error, pending goroutines), `State`, two mutexes | `New`/recover, `Do` (scan-new, scan-page, finish, finish-no-upload, discard), `HandleKey`, `DoLogged`, `RetryUpload` | store, disk, scanner, merger, uploader |
| Store | `internal/store/store.go` | SQLite tables sessions, pages, actions | create and finish a session with its log entry, add a page, record an upload, append to the log, trim it | the manager, the web pages |
| Scanner | `internal/scan/*.go` | the image in memory, the process group and the timers of each tool | `AcquireImage` (exclusive), `ProcessImage` (background), cancelling a group | child processes |
| Merger | `internal/pdfmerge/pdfmerge.go` | none | `Merge` | page files, one document |
| Uploader | `internal/lemmary/lemmary.go` | none | `Upload` | a lemmary server |
| Action loop | `main.go` | the idle timer | `loop`, `submit`, start and stop | manager, key source, web server |
| Key sources | `internal/keys/*.go` | evdev: open devices, what is grabbed, skipped, waiting; stdin: undecoded bytes, a rune in the reader's hand; libinput: a child and its pipe | `Run`, `send` | the kernel, a terminal, a child process, the loop |
| Web interface | `internal/web/*.go` | none | actions, retries, state, the log in blocks | loop, manager, store |

One goroutine runs the loop, and all actions in it. Each scanned page gets a
goroutine that converts it, which outlives the action but not the session. The
key source has a goroutine, each web request has one. Actions hold `runMu` from
start to end; `mu` guards single accesses. A stop, by signal or crash, ends
all of them wherever they are, and the next start recovers the session that the
database still calls active.

What is hard, and what must be true of each part:

- **Session manager**: pages are converted while others are scanned, so
  ending a session must wait for them, one failure among them must keep the
  document from being saved short, and the log must stay in order. A stop may
  fall between any two effects, and every database call may fail and be merely
  warned about. A page that was acknowledged must not be lost, a saved
  document must have all pages in order, a session must end once.
- **Upload**: retries take no lock and an answer may be lost after the server
  stored the document. What a row says about its upload must be true.
- **Action loop**: the idle timer, keys, clicks, the end of the source and the
  signal are ready in any combination. A document must be finished if, and
  only if, nothing happened for the timeout.
- **Action log and status page**: an entry is written before it is known which
  session it belongs to, and the page reads sessions, their entries and recent
  entries in separate queries while all of these change. An entry must end up in
  its session and stay there, and be shown once.
- **Scanner**: tools hang, ignore signals, leave helpers behind that hold their
  output, and exit just as they are told to. A call must return in time, an
  aborted one must never pass for a page, and what a failed one wrote must be gone.
- **Stdin and libinput**: bytes and lines come cut anywhere and mixed with others.
  No press may be lost or made up on the way to the loop, Ctrl-C must get
  through, and the daemon must not outlive its input.
- **Evdev**: devices vanish and return under the same path, and the state of a
  key changes between any two system calls. A keyboard must be heard, a
  key must not get stuck by a grab.

## The modules

| Module | What it is |
|---|---|
| `Session` | manager, store, work directory, documents, stop and restart |
| `SessionProperties` | its properties and the inductive invariant `IInv` |
| `SessionLifecycle` | the promise: sessions open one at a time, collect pages, end once |
| `SessionRefinement` | the refinement mapping from `Session` to `SessionLifecycle` |
| `SessionProofs`, `SessionDocumentProofs`, `SessionFaultProofs` | the theorems about `Session`: types, sessions and their goroutines; documents and pages; what holds whatever fails or until the first stop |
| `SaneScan`, `SaneScanProofs` | a scan and a conversion by their child processes |
| `PageCall` | what `Session` takes such a call for: one step, which `SaneScan` implements |
| `Upload`, `UploadProofs` | uploads and retries beside each other |
| `Loop` | the select loop, its timer, and a source that may do anything |
| `Sources` | composes `Loop` with the sources stdin and libinput; `LoopProofs` proves about both |
| `Evdev`, `EvdevProofs` | the evdev source and the kernel's side of it |
| `ActionLog` | the entries of the log, what attaches them to sessions and trims them |
| `StatusPage` | composes `ActionLog` with a request for the page; `StatusPageProofs` proves about both |
| `MCSession`, `MCSaneScan`, `MCUpload`, `MCLoop`, `MCSources`, `MCEvdev`, `MCStatusPage` | what TLC instantiates |

`Session` knows a scan by its outcome, and a conversion by what can be seen of its file. `PageCall`
is that view on its own: while a conversion runs its file may appear or be emptied, and then it
succeeds with a page that nobody touches afterwards, or fails without one; and `SaneScan` implements
it. Only a conversion whose tool left a worker behind may come back to its file after it failed; the
session is aborted then, and ends failed unless a stop comes first, which forgets that
(`Leaves` has the broken file, and what a resumed session makes of it). `Loop` knows an action by whether a document is open after
it. `Upload` and `ActionLog` take what they need of `Session` and add what runs beside
it without its lock.

An operator whose comment begins "Mutation of" is a plausible bug; no
specification uses it. Each property is known to fail when one of them takes
the place of the operation it is a mutation of.

### Session

A step is one visible effect: a transaction, a file operation, or one critical
section of `mu`. `pc` is the point the action under `runMu` has reached, and
`jobs` has the goroutines the session's WaitGroup counts, each with the stage it
has reached: `convert`, `write` while img2pdf writes the page, then `converted` or `broken`, `count`,
`release`. The two last are the deferred calls, in the order they run.

| Model | Code |
|---|---|
| `Do(a)` | `Do` up to the dispatch; one action at a time is `runMu` |
| `CreateSession`, `MakeWorkDir` | `start`: the row and its log entry in a transaction, then the directory |
| `BeginScan` .. `RefreshPage` | `scan`: acquire, `AddPage`, start the goroutine, refresh |
| `Process(j)` | `processPage` in its goroutine |
| `FinishBegin` .. `CloseSaved` | `finish`: wait, merge, record, upload, remove, clear |
| `DiscardBegin` .. `CloseDiscarded` | `discard` |
| `BeginWriting`, `Convert`, `ConvertFails` | `ProcessImage` as far as its file shows; `SaneScan` has the rest |
| `ShowPage` | `updatePageResult`, which looks at the file whoever may be writing it |
| `Crash` | the daemon stops; a page or a document that is being written stays as it is, torn |
| `RestartIdle`, `RecoverSession`, `RecoverWithoutPages`, `MarkLost` | `New` and `recoverSession` |

`rowStatus`, `rowOutput`, `rowUpload`, `rowPages` are columns of the database and
`log` its action table; `dirs`, `files`, `docs` are the disk; `cur`, `pages`,
`abort`, `processing`, `shown` and `status` are the manager's fields. `taken`,
`dropped` and `converted` are history: what the user was told, what he threw
away, and what was once completely written. Images are numbered so
that a lost, doubled or reordered page shows.

Abstracted: what a page or a name looks like, thumbnails, the error text in the
state, and the copies of a session's fields in `State` that only repeat others.
The `pages` column of a session is the number of its rows in the pages table.
`RemoveAll` is one step. A single page is copied by the merger as it is, torn or
not, several are parsed and must be whole. A stop by signal is a crash: `main`
does not wait for the goroutines, whose conversions run with a context of their own, and
`nix/module.nix` sets no `KillMode`, so that the service manager ends img2pdf together with
the daemon, wherever it is in its file. That the signal cancels the tool of a running scan first,
which the action sees as a failure, is what the faults before a crash are. `Manager.Close` is not called by `main`. A manager
without a Recorder, which the daemon never has, is not modelled.

Taken for granted of what is not in `src/`: img2pdf that exits with status 0 and leaves a file that is
not empty has written the whole page of its image, which is more than `ProcessImage` checks;
a merger that parses several pages notices one that is torn; and a tool that survives the
daemon does not go on writing into a session that was resumed.

### SaneScan

A call runs its tools one after the other; `at` says where it stands with the
present one: about to start it, waiting for its exit, or draining its output. A
tool is a leader, which is the process `exec` started, and helpers: a `worker` does the
tool's work and holds its output open, a `quiet` one has closed the output, an
`escaped` one has left the group. Any of them may live, exit or ignore SIGTERM as
it likes; SIGKILL reaches what is in the group.

| Model | Code |
|---|---|
| `AcquireImage`, `ProcessImage` | the calls, with their context and timeout |
| `StartTool`, `StartFails` | `exec.Cmd.Start`; nothing starts once the context is done |
| `Cancel`, `Kill` | `cmd.Cancel` of `setupProcessGroup`: SIGTERM, then SIGKILL after `killGrace` |
| `Reap`, `RunReturns`, `RunGivesUp` | `cmd.Wait`: the exit, the end of the output, `WaitDelay` |
| `Convert`, `Deliver`, `FailCall` | what `ProcessImage` and `scanImage` make of it: next tool, result, removed file |

`killIn`, `waitLeft` and `timeLeft` are the three timers in ticks, `WaitDelay` one tick
more than `KillGrace`, as the code has a second more. `overdue` and `strays` are
history. The page at `dest` is `absent` or `old` (one that a session before a restart left under its
number) until img2pdf or a worker of its writes, and then `empty` or `partial`; `ProcessImage` looks at no more than
that, and `kept` is what it took for the page. Calls
come one after the other: a scan and a conversion beside each other
share neither process nor file. Abstracted: command lines, the image's content, the
temporary directory (a file that could not be made is `StartFails`), the thumbnail file.

### Upload

`worker` has the loop and the requests that may retry at a time, each idle, at
the request, or at recording its outcome. `server` is the sequence of documents the
server took, and the id of a record its place in it. `PostSucceeds`, `PostUnnamed` (a status of
success and JSON without an id, which `Upload` returns as it is), `PostFails`
and `AnswerLost` are the ways a request ends; `unnamed` is history, `RecordUpload` the transaction that
writes status, id and log entry. A session saved without an upload
(`FinishNoUpload`) shows that a retry refuses it.

### Loop and Sources

`typed` holds the presses nobody has read, each by its age; `source` says whether
the source reads or is in `send`. `Tick` lets time pass when nobody has anything
left to do at once; an action takes any number of ticks. Timers are counters of
ticks, and a fired timer stays ready until it is received or `Reset` drops it, as
timers do since Go 1.23 (`go.mod` asks for a later version). A click that is
refused because the loop is busy changes nothing and is not a step. What an
action does is reduced to whether a document is open after it, and to the upload in it,
`BeginUpload` to `EndUpload`, the one thing in an action that has no end of its own.

In `Loop` the source may end whenever it reads. `Sources` has what it really does.
`kind` is the source that was configured; of a `device` only the order of presses is
left, which `Evdev` has the rest of. `input` is what the terminal or the pipe still
holds, in bytes or lines.

| Model | Code |
|---|---|
| `DecodeRune`, `DropByte`, `ReadChunk` (any part of the input, up to `ReadSize`), `ReadEnd`, `ReadFails` | the branches of `runeReader.next`, in the reader goroutine |
| `offer`, `Receive` | the channel between it and `Stdin.Run`, and the select there |
| `ScanPress`, `SkipLine`, `StopScanning` | the loop of `ScanLibinput` |
| `KillChild`, `SendStops`, `Drain`, `Exited` | `Libinput.Run` around it |

A byte is a key, Ctrl-C or Ctrl-D (`quit`), or one that may begin or continue a
longer rune, in any order, so that invalid and cut-off runes are among the inputs;
such a rune has two bytes, and `UTFMax` says when the decoder gives up on them. A
line is a press, another line, or longer than `bufio.Scanner` takes. A
step of `Sources` is a step of `Loop` as far as the loop and its timer go, or leaves
those alone, which is what the proofs about the timer use.

### Evdev

`plugged`, `down`, `console` and `seized` are the kernel's side: the device behind
a path, whether one of its keys is down, whether everybody else believes so,
and whether the daemon has grabbed it. `open`, `grabbed`, `skipped` and
`retryAfter` are the daemon's. Each system call of `refresh` (open, and asking for the keys)
and `grabIdleDevices` (asking for held keys, and the grab) is a step of its own, so that a device may go and a key be
pressed between any two. `poll` returns with what is ready when it is called, or
times out; the devices are dealt with in any order, where the code sorts them.
`retryAfter` is a set, and `RetryExpires` the passing of its time. What a press makes
of the document is `Loop`'s business.

### ActionLog and StatusPage

`log` is the sequence of all entries ever written, the id of an entry its place in
it, and of an entry only the session it names is kept; those up to `trimmed` have
been deleted. SQLite's AUTOINCREMENT, and that nothing else is deleted, make ids
contiguous. `Trigger` .. `Attach` are `DoLogged` around `Do`, of which only the
opening and ending of sessions is left: what a page or an upload writes is
`SessionEvent`. `entry`, `pre` are its `actionID` and `preSessionID`; `opened`
is history.

`LoadSessions`, `LoadActions(s)` and `LoadRecent` are the queries of `loadIndexData`,
each a step, with the part of `buildBlocks` that uses their result. A block is a
session, or none, with a set of entries. `SystemRuns` is what
`groupActionsBySession` leaves of entries without a session. `DaemonStep` is
everything else in between; a stop ends the request. The order of blocks, which
goes by their times, is not modelled.

## The runs

| Run | Question | Bounds | States |
|---|---|---|---|
| `session_recovery` | actions, conversions and a stop anywhere; documents are complete, actions return, the lifecycle is implemented | 2 sessions, 3 images, 1 fault (conversion, merge or removal), 1 stop | 565 000 |
| `session_faults` | anything fails, database included; a saved document holds its own pages only, actions end settled | 2 sessions, 2 images, 2 faults, 2 stops | 2 060 000 |
| `upload_races` | retries race, answers are lost or name no record | 2 documents, 2 retries, 4 uploads, 3 faults, 1 stop | 51 000 |
| `sources` | each source with the loop and its timer; presses and Ctrl-C arrive, documents are finished, the daemon stops | idle timeout 2 ticks, send 1 tick, 3 inputs, runes of 3 bytes, reads of 2 | 246 000 |
| `sane_scan` | tools that hang and leave helpers; calls return, and do to the page what their caller takes them for | timeout 2 ticks, grace 2 ticks, 2 tools started | 97 000 |
| `evdev` | plugging and pressing between system calls; keyboards are heard and grabbed, and the daemon knows which | 2 paths, 1 plug, 2 presses, 1 fault | 155 000 |
| `status_page` | triggers find their session, the log is trimmed, the page shows entries once | 7 entries, 2 sessions, 1 fault, 1 stop | 719 000 |

The other runs expect a violation, see below.

Why the bounds suffice: three images are one more than the pages a race between
two conversions needs, and with two sessions what the first leaves behind can
meet the second. Two faults are a failure and one in its handling; the second
stop falls into the recovery of the first. Seven entries take two sessions, with a
late entry of the first while the second opens, and a page of one session and
four recent entries is shorter than both. Two retries and the loop are three
writers of one row, four uploads let each of them come twice. An idle timeout of
two ticks leaves an input before, within and at the end of it, and three inputs
put two presses, or a press and Ctrl-C, behind one in `send`, or a press behind two bytes that begin no rune;
runes end after three bytes, where UTF-8 has four, so that three inputs fill the decoder, and a
read of two bytes, where the code has 64, cannot take them all.
Two ticks of timeout and of grace put a tool's exit before, between and after them, and two
tools are a scan and a conversion's first tool, or both tools of one conversion (the thumbnail is not
asked for in every request) with what the first left behind. What becomes of a page in the
calls after it, and a conversion with all three tools, take a third start, with which the liveness of `sane_scan` takes too long;
`ImplementsPageCall` is proved for any number. Two
paths show that a device is told from another, and with one plug besides what is there
at the start a path changes hands while its old fd is open.

`evdev` leaves out two failures, of the query for held keys and of the grab:
after either the device is by design never grabbed, which `GrabHappens` would
report, and after which it takes the device for grabbed. The theorems about `Evdev` allow them, but for
`GrabsAreBelieved`.

`session_faults` does not check completeness of documents: with a failing
`AddPage` or `SessionPages` the code does lose pages (below). `session_recovery` leaves
those two out, and a directory that cannot be made, an end of a session that cannot be recorded and an active
session that cannot be found, as the theorems do by their assumptions.

`CHECK_DEADLOCK FALSE` is set for `Upload`, `Sources` (and `Loop` in `loop_key_late`), `Evdev` and
`StatusPage`, which really may stop: when every document is uploaded nobody has to
retry, a loop that returned stays so, and a cancelled evdev source and a daemon that
was stopped do too. `Session` and `SaneScan` are checked for deadlock: whatever state
the manager is in, the running action goes on, a user may ask to finish, or the daemon is
started again; and time goes on beside an idle scanner.

### Fairness

Safety is checked without any. For liveness:

- `Session`: the running action goes on, and so do conversions (each tool they
  run is bounded by `--scan-timeout` or is plain computation on a local file), and the
  service manager restarts the daemon. No user has to act. An upload has no
  timeout, so nothing is assumed of it, and `session_recovery` runs without an uploader.
- `SaneScan`: calls go on, and so do the timers that send SIGKILL (weak fairness).
  Time passes though processes come and go and calls fail without end within a
  tick (strong fairness of `Tick`). No process has to exit, obey a signal it
  can ignore, or close its output. `CallsReturn` needs the timeout to be set.
- `Sources`: runnable goroutines run, time passes, actions end but for an upload in
  them, and a killed child exits. An upload ends when the context is cancelled, which its request
  carries (`lemmary.go:57`); otherwise it may hang for ever, and `QuitIsHeard` and `DaemonStops` say
  so (`Hangs`): only a signal is certain to stop a daemon whose server never answers. A source need not end by itself, and no input is assumed. `select` picks
  among its ready cases at random, so none of them is put off for good; the bound on
  inputs stands for that.
- `Evdev`: the loop goes round, time passes, and a key that is down is
  released. Neither plugging nor pressing is assumed.

## Where code and documentation differ

| Run | What is said | What the code does |
|---|---|---|
| `session_stop_loses_page` | `main.go:136`, `README.md:158`: pages of an open document are already saved, a stop loses nothing | a page is recorded and acknowledged before it is converted; a stop in between leaves it nowhere |
| `session_unrecorded_page` | `session.go:429`: a recording failure must not lose the page | recovery knows recorded pages only: the session comes back empty, and a finish discards it with its directory |
| `upload_twice` | `session_test.go:1167`: no document is uploaded twice by accident | two retries check the status before either records its outcome |
| `loop_key_late` | `main.go:143`: presses are not queued and wait up to `sendTimeout` | the device queues them, and each gets its timeout when its turn comes |
| `evdev_skipped` | `README.md:55`: picks up keyboards that are plugged in later | not under a path that once led to a device without the keys |

Seen in the models and not worth a run each:

- `session.go:164` says that every saved document is uploaded. A crash after the
  save and before the outcome leaves the upload status empty, and `RetryUpload`
  accepts `failed` only (`UnaskedStays` of `Upload` says that it stays so).
- `README.md:163` says that a document is finished after that much inactivity.
  The timer runs during an action: after one longer than the timeout the document
  is finished at once, though it was just used (`TakeKey`, `Tick`, `ActionEnds`, `IdleFires`).
- `README.md:88` says that a device is grabbed only while no key on it is held
  down. The check and the grab are two system calls, and a key pressed between
  them is stuck for everybody else (`OnlyTheRaceSticks` says that no other key is).
- `session.go:319` says that the triggering event always ends up inside the session
  it affected. It does unless its entry or the attachment could not be written
  (`TriggerIsInSession`), or the daemon stops before `Attach`.
- `README.md:127` says that a timeout kills the whole process group. It does unless the tool itself
  has exited already and only a helper of its holds the output: `Wait` no longer looks at the
  context then, and after `WaitDelay` the call fails with the helper left
  alone (`AbortIsClean` speaks of runs that were cancelled).
- `stdin.go:99-100` says that a key press is never held back waiting for more
  input. Behind a byte that may begin a rune, or is invalid, it is, until there are
  `UTFMax` bytes; Ctrl-C too (`HeldBack` in `QuitIsHeard`).
- A line of libinput that is too long for the scanner ends the scan, but `Run` then
  drains the pipe for as long as libinput lives: the daemon goes on without ears (`Drain`).
- A page may fail in the background while the next one is scanned; the success of that scan
  puts the status back to idle (`session.go:449`), though the session can no longer
  be saved. The next action reports it.
- `render.go:281` says that entries with a session are covered by its block. Those
  of a session older than the page lists, a late retry of its upload, are shown nowhere
  (`RecentShown` leaves them out).
- After a page that could not be recorded and a restart, the next page has the number of one that is
  there and overwrites its file (`AddPageFails` of the repeated number is only warned about): the document
  then has the new page twice and the old one not at all, though never one of another session (`SavedIsOwn`).
- A stop while the first page is converted leaves half a file. The resumed session has one page, a file of
  some size, and `finish` copies it unread into a document that is recorded as saved. With a second page the merge
  fails and the session with it (`SavedIsComplete` has the exception, `Mergeable` the difference).
- `lemmary.go:31` says that the id is returned "so the caller can look the document up". An answer with a status
  of success and no id is taken for a success, and the row says uploaded with an empty id
  (`PostUnnamed`; `UploadedIsOnServer` says that this is the only way to one).
- A page list may show the size of a half-written page that its conversion then removes
  (`session.go:459`). The session is aborted by then (`ShownMatchesDisk`).
- On a raw terminal Ctrl-C does not cancel the context (`main.go:241-245`): while an upload hangs
  it does not stop the daemon, nor does the end of its input (`Hangs`).
- A session whose directory could not be made stays active in the database (`session.go:605-608`), beside the one
  the next scan opens. A restart ends it only if it finds no newer active one.
- `README.md:59` speaks of devices that can send `a`, `b` or `c`; `canProduce` asks for all of them.

## What is proved

For all values of the constants, under the assumptions named below:

| Theorem | In | Argument |
|---|---|---|
| `TypeCorrectness`, `OpenSessionIsActive`, `PendingBelongsToCurrent`, `LogEndsOnce`, `EndedSessionsAreFinal` | `SessionProofs` | `IInv` is inductive |
| `SavedSessionsAreComplete`, `PagesAreKept`, `ShownPagesAreOnDisk` | `SessionDocumentProofs` | `DocumentInv` with `ImageInv`, `KeptInv` and `ShownInv` |
| `ScansAreLoggedFirst`, `StatusIsSettled`, `ActiveSessionIsCurrent` | `SessionDocumentProofs` | `LoggedInv`, `StatusInv`, `LifeInv` |
| `SessionsImplementLifecycle` | `SessionDocumentProofs` | every step maps to a step of `SessionLifecycle` or a stutter |
| `SavedSessionsAreTheirOwn`, `ActionsSettle` | `SessionFaultProofs` | `OwnInv` with `NamesOwnInv`; `IInv` |
| `PagesAreBackedUntilStop`, `NoDocumentIsStray`, `PagesAreKeptUntilStop`, `ShownPagesAreOnDiskUntilStop` | `SessionFaultProofs` | `MatchedInv` with `BackedInv`, `NamedInv`, `UntilStopInv` |
| `SessionsImplementLifecycleUntilStop` | `SessionFaultProofs` | the same map, with `FilledInv` in the place of the faults that are assumed away |
| `AbortsAreClean`, `PagesAreWhole`, `ReturnsAreTimely`, `SaneScanTypes` | `SaneScanProofs` | `SaneScanInv` is inductive |
| `SaneScanImplementsPageCall` | `SaneScanProofs` | every step maps to a step of `PageCall` or a stutter |
| `UploadedCanBeFound`, `RowAgreesWithLog`, `UnaskedUploadsStayAway` | `UploadProofs` | `UploadInv` is inductive |
| `TimerNeverStops`, `IdleFinishWaits`, `LoopTypes` | `LoopProofs` | `LoopInv` is inductive |
| `TimerNeverStopsWithSources`, `IdleFinishWaitsWithSources`, `SourcesTypes`, `PressesArrive`, `QuitIsNeverSwallowed` | `LoopProofs` | the same with each source, `SourcesInv` |
| `TypeCorrect`, `StuckKeysRaced`, `GrabsAreBelieved` | `EvdevProofs` | `EvdevInv` is inductive, `BelievedIsSeized` beside it |
| `TypeCorrect`, `TriggersFindTheirSession`, `NewestEntriesAreKept`, `EntriesAreShownOnce`, `SessionsOfEntriesAreFinal`, `RecentEntriesAreShown` | `StatusPageProofs` | `StatusPageInv` and `LoadedInv` are inductive |

Every safety property of every passing run is among them.

**Session.** That nothing is logged of a session after its end is not inductive:
a goroutine of an ended session could still report. `IInv` adds that all
goroutines belong to the session in memory (`PendingIsCurrent`), that none is left
once an ending has begun (`JobInv`), and that whose end was logged is ended
(`EndLogged`). That an ended row is not touched again rests on the other pair: the
session in memory is active (`OpenIsActive`), and ids to come are fresh
(`FreshInv`). `ControlInv` and `RoomInv` tie `pc` to the session that must be held
there and to the bounds. The types, at the head of `SessionProofs`, are what every other
part rests on.

**Documents and pages.** A document is complete because the pages in memory and
in the table have the numbers from 1 on (`NumberInv`), a page's file has its image
or nothing (`SlotInv`), and a session is either whole, every page a file or a goroutine that makes
one, or has a hole that no later step fills, with which a merge must fail
(`AlignInv`: `Whole` or `Holed`). A page whose writing a stop cut short is neither there nor missing: its file
is torn and its image never `converted`, which is what a document of that page alone may have in its place. The hole matters: after a restart the failure of a
conversion is forgotten, and the missing file alone stands for it. That
pages survive needs to know where each converted image is: in the file of the session
that took it, in its document, or dropped by the user (`ImageInv`, `KeptInv`). `BackedInv` follows a
page from memory to file, goroutine or `abort` (`MatchedInv` matches
goroutines with pages), and `ShownInv` the slot the page has in the state: a file that was seen half
written is completed by its goroutine or removed by one that aborts the session.
The refinement needs that only the newest session can be active (`LifeInv`) and
that a saved one has its pages in order, so `SessionsImplementLifecycle` rests on `SavedInv`.

**Whatever fails.** Most of what is said of documents is wrong after a restart that does not find
all pages in the table: the next page then takes a number that is in use, and overwrites a
file. Two things stay true, and one argument each. A file only ever gets an image that its
session took (`OwnInv`): the goroutine that writes it belongs to the session in memory, the directory to one
session, and a document copies the files of one session. And until the first stop the pages in memory
are numbered from 1 on whatever the table says (`FilledInv`), because nobody reads the table before
a restart: each file is absent, holds the page of its number, or is torn while its goroutine writes it or
after that has aborted the session. So the assumption that recording pages works
can be dropped from `PagesAreKept`, `ShownPagesAreOnDisk` and `SessionsImplementLifecycle` if the daemon is
not stopped, and the lemmas of `SessionDocumentProofs` ask for it only of steps that begin at `pc = "down"`.

**SaneScan.** SIGKILL is sent a tick before `WaitDelay` ends, because both are
set by the same cancellation (`KillInv`): so whoever `Run` gives up on was
killed, if he was in the group, and only a run that was not cancelled can leave a worker
(`StrayInv`). `WriterInv` says who may still write the page: the run that
makes it, while its call waits, or a stray. `DelayInv` adds what is overdue to what `WaitDelay`
leaves. To its caller an empty file is half a page like any other, and every write of the run that makes the
page a `Write` of `PageCall`. That a page which was made stays
needs that success waits for the output, which every worker holds: no worker is left then, and only
a leader or a worker starts another (`WriterInv`, which holds for the calls after it, too).

**Upload.** What a worker is about to record is already true on the server, or is an id the server did not
name (`OutcomeInv`), the server forgets nothing, and status, id and log entry change in
one transaction. So the order in which racing workers record does not matter.

**Loop.** Without a pending fire, the ticks since the last action and those
left on the timer are together at least the timeout; with one, no action was taken
for all of it (`TimerInv`). With a real source every step is one of `Loop`, lets
time pass, or leaves the loop and its timer alone (`SourceStepsAside`), so the
same lemmas apply.

**Sources.** The presses that are typed and not yet taken are those in the input, in the decoder's
buffer and in the reader's hand, counted as cardinalities of index sets: a step moves one
from place to place or drops bytes that are none. That an input that ends loses none needs
that nothing comes in once its end was reported (`InputInv`); a read takes a front of the input, and
a Ctrl-C is in what it took or in what it left. A Ctrl-C is followed by its index: the decoder takes
from the front of the buffer only what it hands on or what begins no rune.

**Evdev.** A release bypasses the console only on a grabbed device. `RaceInv`: a
key that is down where a grab has happened or is about to, and that the console
knows of, was pressed in the race. `TargetInv` says that a device about to be
grabbed is still one of the open ones. A path that changes hands is opened anew with nothing left of
the device before, because what is kept of one goes with its fd (`KeptWithFd`).

**StatusPage.** A step leaves the log as it is, appends to it, or gives one entry
without a session a session (`LogStep`), so an entry that was read as a session's
stays its (`ShownInv`), and the recent entries, read last, no longer show it as
anybody's. For `RecentShown` the other way round: an entry that did not move is in the block of its session,
because that block was read after the page began (`LoadedInv`), or in one of the runs the
recent entries fall into, the one that ends at the first entry at or after it whose
successor is not alone (`RunsCover`). `TriggerInv` says at each point of an action how the session in the
state came about: it was there before, or the action opened it.

Assumptions about constants: `BoundsAssumption` and `ChoicesAssumption` (`Session`),
`SaneScanAssumption`, `UploadAssumption`, `LoopAssumption`, `SourcesAssumption`,
`EvdevAssumption`, `LogAssumption`, `PageAssumption`: bounds are natural numbers,
choices come from their sets, and names of requests and paths are told apart
from `"loop"` and `NoPath`.

Some theorems hold for some kinds of fault only, and say so:

| Assumed to work | Theorem |
|---|---|
| recording and loading pages (`RecordingWorks`) | `SavedSessionsAreComplete`, `ShownPagesAreOnDisk` |
| that, and recording an end | `PagesAreKept` |
| creating the directory, recording an end, finding the active session (`EndingWorks`) | `ActiveSessionIsCurrent` |
| both | `SessionsImplementLifecycle` |
| creating the directory and recording an end, in a daemon that is not stopped | `SessionsImplementLifecycleUntilStop` |
| recording an end, until the first stop | `PagesAreKeptUntilStop` |
| asking a device for its keys, and grabbing it | `GrabsAreBelieved` |
| nothing | `SavedSessionsAreTheirOwn`, `ActionsSettle`, `ShownPagesAreOnDiskUntilStop` |
| recording an end | `NoDocumentIsStray` |
| recording a page | `ScansAreLoggedFirst` |

That they are needed for the code as it is, `session_unrecorded_page` shows for
one of them. None assumes anything of when the daemon stops, or of what a stop leaves of the files.

Only model-checked: liveness, which is out of the prover's reach (`ActionsReturn`,
`CallsReturn`, `GroupDies`, `OpenIsFinished`, `QuitIsHeard`, `DaemonStops`, `UnskippedIsHeard`,
`GrabHappens`). The types of all modules but `Session`, `PageOrNothing` (which `ImplementsPageCall`
contains), `StatusSettles` (a part of `ReturnSettles`) and `KeptUntilStop` are proved and not checked by a
run of their own.

## What is not modelled

- **Naming documents** (`docName`, `outputPath`): tries up to 999 names and checks each before the
  merger creates it. Actions run one at a time, so no two merges race for a
  name; another program might, and that is outside the system. Running out of names is a failed merge.
- **The order of blocks on the page**, which goes by the times of their entries: times are not
  in the model, and two entries of one instant have no order to get wrong.
- **`State`'s slices**: a handler may read an element while a goroutine writes it
  (`session.go:301`), a data race on a string. What a reader then sees is a matter of the memory model; no state of the
  manager depends on it.
- **Thumbnails**, which nothing but the page that shows them uses.
- **Raw mode of the terminal**: that it is restored on every return is a `defer`; a
  crash leaves the terminal raw.
- **Pids**: the SIGKILL timer is not stopped when a tool has exited and signals whatever group has
  its pid `killGrace` later. No pid is reused in `SaneScan`. Nor is there a process that SIGKILL does not end.
- **Concurrent tool calls** share neither process, file nor timer, so `SaneScan` takes one at a time.
- **The build for other systems than unix** (`proc_other.go`), which has no groups.
- **Formats**: events of evdev and the table of key codes, `libinput debug-events` (a line is what
  `ParseLibinputEvent` makes of it), `/proc/bus/input/devices`, requests, pages,
  templates, JSON, labels. They are functions without state whose tests enumerate the cases.
- **Flags and wiring**, opening and migrating the database, the dev scanner and the
  test helper, which are stand-ins.
