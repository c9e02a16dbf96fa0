# Bashtion-wasm in TLA+

Bashtion is a Linux machine in a browser tab: QEMU, compiled to WebAssembly, boots
an image; the page talks to it over one serial console and nothing else.  Saving
the user's work, restoring it, taking a checkpoint of the whole machine, going back
to it, telling the guest its screen size: all of it is *typed*, on the console the
user types at too, and read back off what the console prints.  That is where the
program is hard, and what these modules are about.

Paths in this file are relative to the repository's root.

## 1. The system

### Components, their state and their operations

| component | where | state | operations |
|---|---|---|---|
| Checkpoint and rollback | `web/serialfs.js` 430-724 | `switches`, `paused`, `unanswered`, `layered`, `savedAt`, the local `resumable`; the keyboard focus; xterm's bracketed-paste mode | `checkpoint()`, `rollback()`; under them `mux()`, `run()`, `leave()`, `resync()`, `ensureShell()`, `waitFor()` |
| Transfer of the user's work | `web/serialfs.js` 190-430 | the console mirror since a mark `t0`; `engaged`, `clean` of one operation | `exportWork()`, `importWork()`, `recover()`, `tidy()`, `cksum()`, `b64encode()` |
| Public operations, latch, overlay | `web/serialfs.js` 60-190, 725-800; buttons in `web/fork/boot.js` | `busy`; the overlay and its hide timer; the browser's own copy (OPFS) | `save`, `download`, `load`, `checkpoint`, `rollback`, `isBusy`; `ov.show/title/done/fail` |
| Session helpers in the guest | `image/seed/usr/local/lib/bashtion/state.py`; the previous format in `image/test/fixtures/state-format1.py` | the file tree, the baseline the image ships, the archive | `pack`, `unpack`, `baseline` |
| Terminal geometry and hand-over | `web/termfit.js`, `web/bootscreen.js`, `web/fork/boot.js` 26-100 | the window, xterm's grid, `told`, timers; the guest's tty size | `fit`, `request`, `attempt`, `seed`; `settle`; `reveal` |
| Console mirror and screen model | `web/serialtap.js` | `window.__serial`, a screen of cells, cursor, modes, the shell's last word (`context`) | `write`, `fit`, `lines`, `cursorLine`, `atPrompt`, `strip` |
| Page bootstrap and resume | `web/fork/boot.js`, `web/module.js`, `web/module-restore.js`, `web/fork/index.html` | DOM, engine arguments | start, resume of a snapshot |
| Upstream-lane page | `web/index.html` | as above | as above |
| Deployed site's worker | `deploy/worker.js`, `deploy/README.md` | none of its own; the bucket, the edge cache, the browsers' caches, the list of the release's files | `fetch`, `serveFromR2`, `parseRange`; upload, deploy, delete |
| Site packing, source mirroring, snapshot maker | `scripts/`, `deploy/split.sh`, `snapshot/` | files | build steps |
| Engine patches, image, CI | `patches/`, `image/Dockerfile`, `Makefile`, `.github/` | - | build recipes |

### How they interact

The page is one JavaScript thread: everything in it interleaves only at an `await`
(or at a timer), and a `paste` into xterm may throw.  All five public operations
share the latch `busy` and the one overlay.  Outside the page three parties run
concurrently: the guest (a shell, or whatever program has the terminal), QEMU's
monitor behind a multiplexer that Ctrl-A c switches, and the user's keyboard, which
reaches the console whenever the terminal has the focus.  What comes back is read
from a mirror of the console (`serialtap.js`), so answers may be missed or come
after the page gave up.  Inside the guest the archive is built and applied by
`state.py`, from a baseline the image's build wrote; archives outlive builds, so
one written by any build is applied on any other.

### What is hard

- **Two-sided console.**  The page remembers the side of the mux as a count of its
  own Ctrl-A c.  A Ctrl-A left held, by the user or by a paste that throws half way,
  and bracketed paste can make the count false.
- **Unreliable answers.**  A `stop` without an answer may or may not have stopped
  the machine; a `savevm` without one may or may not have replaced the slot.
- **Failure in the middle.**  Every paste may throw; `finally` blocks must hand the
  console back from wherever the operation was.
- **Raw input.**  During a restore the guest reads fixed blocks with echo off: a
  lost byte leaves `head -c` waiting for what the page types next.
- **Stale views.**  `told`, `savedAt`, `layered` and the screen model are the page's
  beliefs about another machine, and a rollback changes that machine underneath.
- **Reading a prompt off a screen.**  Whether the shell is idle is decided from cells:
  a prompt that wraps, a line edited in the middle, a row scrolled away, a window
  that changed under a half-typed line, output without a newline.
- **Releases behind caches.**  The engine, the saved state and the disk of one release
  belong together; they come from an immutable cache, another cache and a bucket that
  change between the awaits of one request.
- **Trees and links.**  Deletion lists replayed where a directory has become a link,
  or on another build, or after background jobs changed what was listed.

### What makes each component correct

- *Checkpoint*: the count is the truth about the mux; no key of the user reaches
  the monitor; the machine is never left stopped by accident nor resumed after a
  failed load; reports and `savedAt` are true; every operation ends.
- *Transfer*: only whole archives are unpacked; "nothing was changed" is true; the
  terminal comes back with echo on and no reader left behind; nothing is typed into
  a foreign program; every operation ends.
- *Overlay*: one call holds the console; the terminal is covered while it does; the
  cover shows that call's words, and goes away.
- *Session*: a restore brings back what was saved, touches nothing outside its
  roots, carries no file of another build and no machine identity.
- *Geometry*: what the page believes it told the guest is what the guest believes,
  and the sizes agree in the end.
- *Tap*: a console is called idle only if the shell has it and its line is empty; the
  line at the cursor is the one readline has; a prompt is seen.
- *Worker*: no page gets a file of another release; a range is exactly what was asked
  for; the page of the last release gets its files.
- *All that use the console*: it is asked for, worked at, handed back and let go, by
  one call at a time (`Console`).

## 2. The modules

| module | models | composed with |
|---|---|---|
| `Console` | what every operation at the console promises: the stages of a call | implemented by `Overlay`, `Checkpoint`, `Transfer` |
| `Checkpoint` | `checkpoint()`, `rollback()` and everything under them, with the mux, the monitor, the vCPU and the snapshot slot as environment | `Console` |
| `Transfer` | `exportWork()`, `importWork()`, `recover()`, with the guest's tty, shell, `head -c` and transfer files | `Console` |
| `Overlay` | the five public operations, the latch, the overlay, its hide timers | `Console`; reduces a console operation to its phases |
| `Session` | `pack` and `unpack` of formats 1 and 2 over a file tree | - |
| `Geometry` | `fit`, `makeSync`, `settle`, `reveal`, `resync()`'s size, the shell and the mirror | reduces a console operation to what it does to the size |
| `Screen` | the screen model of `serialtap.js`, as operators on one record | - |
| `Tap` | what writes to that screen: readline, the shell's own words, commands, the window | extends `Screen` |
| `Assets` | the worker, its bucket and caches, releases and visitors | - |
| `CheckpointProofs`, `TransferProofs`, `OverlayProofs`, `SessionProofs`, `GeometryProofs`, `TapProofs`, `AssetsProofs` | theorems | one each; `TapProofs` is about `Screen` too |
| `LineProofs` | more theorems about `Tap`: the line that is read at a prompt | extends `TapProofs` |
| `MC...` | constants for TLC | one each |

### Console

One variable, the stage of each call: `idle`, `ask`, `work`, `leave`, `over`.  `Take` wants
the console free; the other actions give the order.  `LetsGo` is the promise that
somebody who has it lets it go.  `Overlay` maps the await of a call to its stage
(`StageAt`), `Checkpoint` and `Transfer`, which run one operation after another, map the
`n`th operation: idle before it starts, over when the next one has, and in between by
`pc`, `fin` and the latch (`Stage`).  All three are checked against `Console` with its
liveness (`UsesConsole`); so what `Overlay` assumes of a call is what the protocols do.

### Checkpoint

A step runs from one `await`, or one paste, to the next.  `pc` names where the
operation waits (`ensure`, `muxwait`, `wait`, `syncwait`) or pastes next (`ask`,
`mux`, `send`, `muxback`, `sync`); `cmd` is the monitor command under way.  `fin` is
"inside the finally block".  `SwitchIn`/`SwitchOut` are the two `mux()` calls,
`SendCommand` is the start of `run()`: the command goes through the mux as any key does
(`TypeCommand`), and a Ctrl-A the mux holds takes its first key (`AfterFirstKey`).  `Answered` and `GiveUp` are its two ends,
`RunSettled` what `checkpoint()` and `rollback()` do with each result.  `PasteThrows`
may happen at every paste: inside `mux()` after any of its four keys.
`Leave` is `leave()`.  The page's `switches` is kept as its parity, the only thing
the code reads of it.

The environment: `MuxKey` is the mux's own state machine (Ctrl-A is *held* until the
next key); `MonitorRuns` executes queued commands, each of which may fail as HMP
lets it; `savevm` may fail before or after it dropped the old snapshot; `loadvm` may
fail with the machine half loaded (`damagedBy`).  `Deliver`, `LoseReply`, `GiveUp`
with an answer still on its way ("late") and `MonitorHangs` are the unreliable
channel.  `UserPresses` is the keyboard while the terminal has focus;
`ProgramSetsPasteMode` the program that has it, at any moment: inside the await of `mux()`
it is a fault like the others, a "race".  `unresumed` is history: a `cont` has gone and was
not cleanly answered.

### Transfer

`Paste` appends to what the guest's tty has received; `fg` says who reads it.  While
`head -c N` reads, lines are payload; a damaged or short block lets it eat the next
line.  An archive is `NBlocks` blocks, its content reduced to whether it is whole,
which is what the size and checksum comparison establishes.  `pc` is the wait
`exportWork()`/`importWork()` is in.  `Recover`, `Restore` and `Tidied` are `recover()`:
Ctrl-C unless `clean`, a prompt, then echo and tidying; `Interrupt` is what Ctrl-C does.  Faults are noise on
the wire or a key, a lost marker, a late one, a paste that throws and a guest that
stops.

### Overlay

One click per element of `Calls`.  `Take` is the check of the latch and the first
`ov.show`; `Prompted`, `ExportMoved`, `ImportMoved`, `MachineMoved`, `Recovered`, `Stored` are the
awaits of the five operations.  `OvShow`, `OvDone`, `OvFail` are `ov`: `done()` replaces
the timer variable without stopping the timer it named, hence `orphans`.  Time is
left out: an armed timer may fire at any later moment.  `astray` is that a paste which
threw in the `finally` block of a checkpoint or rollback has left the page in the
monitor: the next of them that gives up for want of a prompt has something to hand
back, and does it after it has reported (`LetGo`).

### Session

A path is a sequence of names; an entry has a kind, a version (what `stamp()` tells
apart) and a link target.  `PackWalk` and `PackTar`
are the two passes of `pack`, with background edits between them (`Racing`).
`UnpackRefused`, `UnpackHome`, `UnpackFull`, `UnpackDies` are the ends of `unpack`; `Delete` replays the
deletion list deepest first and `contained()` resolves links; both go along `Order`, the
paths as `sorted()` gives them, one recursive function each.  Old builds run the
format-1 code, which knows nothing of builds.  `Boot` opens a tab on any build at any
moment.

### Geometry

`attempt` is `makeSync`'s, `Retry` and `ResizeTimer` its two triggers.  `Fit` is `__fit()`, which
may find no cell to measure and leave the grid as it is (`unmeasured`); `Settle` is the end
of `settle()`, fitted or given up.  `Reveal` is the
handover line of the boot screen, `Operate` to `Resynced` are a console operation reduced to
what it does to the size.  `ShellReads`, `CommandReads`, `CommandEnds` and `Deliver` are the
guest and the mirror; the page sees `scr`, which lags behind.

### Screen and Tap

`Screen` is `makeScreen()` as operators on a record: rows of cells, the main and the
alternate buffer, scrollback, the saved cursor, scroll region, modes, and the parser
(`feed`, `write`) with the states of the code; `dispatch` sends a sequence to `softReset`,
`modes` or `public`.  A character is a member of `Chars`, a string, and a control
character goes by its name; the shell's words about the terminal (OSC 3008) are
characters of their own.  Two functions of the code that TLA+ has no words for are
replaced by what they tell: `moves` by whether a saved cursor's rows have moved since,
and widths by one wide and one combining character.

`Tap` writes to it.  `Types`, `Erases`, `Goes`, `Kills`, `Clears` and `Enters` are
readline, which redraws by its own idea of the width (`Printed`, `Moved`); `Ends` prints
the prompt after the shell's word; `Writes` is a command's output; `Resizes` is the
window, which the screen follows at the next chunk (`fit`).  What the tap reads
(`atPrompt`, `cursorLine`, `lines`) is compared with what readline has (`typed`, `point`)
and whose the terminal is (`owner`).  `fair` and `clean` are history: the line was drawn on
the terminal that readline takes it for; the prompt began on a tidy screen.

### Assets

A release is a number; `Upload`, `Deploy` and `Delete` follow `deploy/README.md`.
`Fetch`, `Matched` and `Got` are the awaits of one request for a whole file, with the
browser's cache before them and the edge's between them; a copy for the edge is put
later or never (`PutSettled`), and caches forget (`Evicted`).  `Name` is what the page and
the worker's list both call a file: the engine by its content, the set by a tag.
`Reply` is the rest of the worker, HEAD and ranges, a function of the bucket.

## 3. The runs

Bounds are constants of the configuration files.

| run | bounds | shows |
|---|---|---|
| `checkpoint` | 3 operations; of one lost and one late reply, two throws, one hang and one race, any three; fair | `MuxWhereFound`, `KeyboardGuarded`, `TypedAtRightSide`, `StoppedForCause`, `PageKnowsMachine`, `ReportsHold`, `NoContAfterFailedLoad`, `UsesConsole` |
| `transfer` | 2 transfers of 2 blocks, every fault once; fair | `UnpacksOnlyWhole`, `UntouchedIsTrue`, `VerdictIsTrue`, `HandedBack`, `NeverTypesBlind`, `UsesConsole` |
| `session_builds` | one format-1 build, two format-2 builds; 1 edit, 3 boots | `NoForeignFiles`, `KeepsIdentity` |
| `session_round_trip` | one build, two roots, each shipped with a directory, one of them with a skipped file in it, and a tree outside with room for such a directory; 2 edits (raced by pack), 1 boot | `RoundTrip`, `KeepsOutside` |
| `overlay` | 3 clicks of all five kinds, throws, empty files; fair | `OneHolder`, `PlainCovered`, `HolderSpeaks`, `CoverGoes`, `UsesConsole` |
| `geometry` | 2 shapes, 1 resize, 2 keys, 2 operations, slow boot; fair | `ToldIsTrue`, `Converges` |
| `tap` | a prompt of 7 columns on a terminal of 4x3, which may become 4x4 or 5x1; one row of scrollback; 3 keys of two kinds, 2 chunks (of 11) or resizes | `NeverFalseIdle`, `LineIsTyped`, `PromptSeen`, `SavedRowHolds`, `WholeWide`, `FitKeepsLine` |
| `assets` | 3 releases of an engine and a disk, one visitor, 2 bytes a file, every range over 0..3 and missing digits; fair | `OneRelease`, `RangeIsExact`, `Arrives` |

`TypeOK` is checked in `checkpoint`, `transfer`, `session_round_trip`, `overlay`, `geometry` and `tap`.  Every property has a mutant in `PROJECT.json`:
an operator written beside the one it replaces, with a plausible slip, that breaks
the property under the same configuration.

Why these bounds: a fault does its harm in the operation it falls in or in the next
one, which starts from the flags it left (`unanswered`, `paused`, `layered`, `savedAt`,
a block in the tty); three operations are a checkpoint, one that fails, and the one
that starts from what it left.  The second throw is the one in the `finally` block of
an operation whose first paste threw.  Three faults in all (`MaxFaults`) are these two and
an answer that was lost before, from which the page leaves the count behind (below);
the theorems have any number.  Two blocks make a first and a last block of a
transfer.  Two edits are a change and its interaction with a link or a removal; three
boots are save, another build, and back.  Three clicks are a holder, one that comes
while it works and one whose old timer is still armed.  Window, grid and tty start
with any of the two shapes, so one resize already makes told, grid and tty differ in
every way; two keys make a command that runs when the page types.  In Tap, a prompt
of 7 columns on 4 wraps, and the first key wraps and makes the screen scroll; one row
of scrollback is filled and overrun; each chunk is there for what it leaves behind
(`MCTap` names it), and two are one that leaves something and one that trips over it.  In Assets, the second release keeps the disk under a new tag and the third the
engine under its old name, so every pair of changed and kept files occurs, and there
is a release with one before it and one after it; visitors share only the bucket and
the edge, which one visitor with pages of several releases already reads across them;
ranges reach past the end of two bytes on both sides.

**Hypotheses in the properties**, each met by most behaviours of its run:

- `StoppedForCause`, `HandedBack`: at most one fault of the kinds they name.  Two lost
  answers in a row leave the machine stopped, as the code's comments accept.
- `Punctual` (`PageKnowsMachine`, `ReportsHold`, `NoContAfterFailedLoad`): no answer came after
  the page gave up on it.  A late one is taken for the answer to the next command.
- `OneLate` (`UnpacksOnlyWhole`, `UntouchedIsTrue`, `VerdictIsTrue`): at most one answer came
  after the page gave up on it.  A guest that lags behind wait after wait runs one
  transfer's lines during the next; with three late answers TLC has an unpack of the
  first transfer run while a later one reports that nothing was changed.  The run has
  one late answer, so it excludes nothing there; the theorems have any number of all
  the other faults.
- `OneThrow` (`TypedAtRightSide`, `ReportsHold`): a second throw, in the `finally` block,
  leaves the page in the monitor.  `PageKnowsMachine` wants no throw: the paste of `info
  snapshots` that throws leaves `savedAt` behind.
- `TypedAtRightSide` is about users who left the mux on the serial side.
- `Undisturbed` (`MuxWhereFound`, `KeyboardGuarded`, `TypedAtRightSide`): two things
  that the code has no answer to have not happened.  Both are in the run, and without
  `Undisturbed` TLC shows them:
  - *the race*: a program turns bracketed paste on between the reset in `mux()` and the
    keys that follow it (`serialfs.js` 506-513).  Each paste is then wrapped in an escape sequence,
    the mux swallows its own Ctrl-A with the ESC behind it, and `switches` counts a switch that was not
    made;
  - *the held Ctrl-A*: the `cont` that `leave()` types goes unanswered, so `paused` stays set; the `mux()`
    that follows throws after its first or third key, with its Ctrl-A held; the `finally` block's
    `leave()` types `cont` again, and its `c` completes a Ctrl-A c that nobody counts.
    The `mux()` after it goes back in, `switches` is even, and `focus()` gives the
    user's keys to the monitor.  `unresumed` is that a `cont` went unanswered; one whose paste
    throws does the same, which takes three throws in all.
  The other properties of the run hold through both, with one exception: `StoppedForCause`
  counts a throw and an unanswered `cont` as two faults.
- `Converges`, `Lands`: the shell stays at its prompt, and the page's screen shows it.
  That the grid has the window's shape `Converges` says unless the last `fit()` found
  nothing to measure: nothing calls it again before the next resize.
- `Plain` (`PlainCovered`, `HolderSpeaks`, `CoverGoes`): no export was asked for, which may
  report before it hands the console back and reports again with the latch free
  (`overlay_exposed`); and no `load()` came back empty, which paints "Nothing to restore" over
  whatever operation runs.  `PlainCovered` excludes `astray`: after a paste that threw in
  the `finally` block of a checkpoint, the next `checkpoint()` that finds no prompt reports,
  with a 6 s hide timer, before it types its way out of the monitor.  `CoverGoes` is about
  sessions in which no paste threw: an exception goes past all that takes the cover down.
- `KeepsIdentity` leaves out a skipped path that a link leads to (`Linked`): `skip()` goes
  by the name.  Move a directory of the image over a skipped one, leave a link in its
  place, and restore on the spot: what is gone from the directory by its old name is deleted through
  the link, in the skipped one.  It is the way of `session_in_place`, and needs three edits.
- `NoForeignFiles`: format-1 builds have no names, and do not tell each other apart.
- `RoundTrip` is about a machine as its build ships it (`clean`: booted, and since then only
  restores of this archive, whole or not), of a build with a name, and a restore that reports
  success.  It leaves three things as shipped: roots; a file that went away between the two
  passes of `pack`; and a removed directory in which the image ships something `skip()`
  names.  `/etc/ssh` is such a directory: its deletion is on the list, but the fresh machine
  has its host keys in it, and `rmdir` refuses.  A member that is a file or a link where the
  image ships a directory with something in it makes tar fail, and the restore says so.
- `fair` (`NeverFalseIdle`): the terminal is as wide as the tty was told, wraps, has no
  scroll region below its top row, and was not made lower with the cursor inside a
  line.  Without it TLC shows idle consoles that are not: a window widened under a
  half-typed line, or lowered with the cursor at Home above a row of spaces only, a
  region a command left behind, autowrap left off.
- `clean` (`LineIsTyped`, `PromptSeen`): the prompt was printed at the start of an empty
  row of a screen no command left in another mode, after a new line that no unfinished
  string swallowed; the window has not changed since; and prompt and line never had more
  rows than the window.  Readline shows a taller line in parts, which `Tap` does not
  model; as `Tap` prints one, TLC shows the tap reading another line than the
  typed one.  That the tap vouches for the line (`sure`) is part of what `LineIsTyped` says.
- `FitKeepsLine` compares the text before the cursor only where the new window has the
  cursor's column: past the end of a row that the line goes on from, a cursor that a narrower window
  moves left reads fewer spaces (`fit`: `x = Math.min(x, cols)`).

**Hypotheses in the constants.**  Giving them the other value is how to see what the
code does there:

- `OverlayAssumption`: there is at least one click.  `TapAssumption`: a terminal has two
  columns and one row or more; what commands write is made of `Chars`; prompt and keys are
  of characters one column wide, and the prompt has the shape the tap asks for
  (`promptShaped`); `ScreenAssumption` keeps two names out of `Chars` that
  stand for a cell nothing was written to and for the right half of a wide character.
- `SessionAssumption`: paths have one to three names, and directories come before what is in
  them; `skip()` names a directory with all that is in it; what an image ships is
  a tree, with directories at the top and links that lead below it, written by its own build.
- `StampAssumption`: what an image ships has stamps that no edit and no unpack gives, and no two
  things it ships share one unless they are the same.  `stamp()` is size, mode and mtime in
  seconds; `pack` cannot see a change that keeps all three (`touch -r`, or one shipped file moved over another
  of the same size, mode and second), and no restore brings it back.
- `TagRule` (Assets): two releases with one tag have the same set.  It is what
  `deploy/README.md` asks of whoever deploys ("to a tag never uploaded before"); nothing
  in the code enforces it, and without it `OneRelease` fails, through the caches.

**Deadlock** is checked for Overlay and Session, and for the second rollback of
`checkpoint_resumed`.  Elsewhere the system may really stop: Transfer's guest may;
Geometry, Tap and Assets run out of resizes, keys, operations and releases; and in
Checkpoint two throws can leave the machine stopped with the keyboard blurred.

### Runs that end in a violation

Each is a place where the code does something else than its own comments or
documents say; `PROJECT.json` quotes them.

| run | property | what the code does |
|---|---|---|
| `checkpoint_resumed` | `NeverRunsDamaged` | `resumable` belongs to one `rollback()`, `paused` outlives it: a second rollback whose switch gets no answer sends `cont` to a machine whose `loadvm` failed part way |
| `session_in_place` | `InPlaceKeeps` | a directory moved away and replaced by a link: its old files are deleted *through* the link, in the place they moved to |
| `overlay_exposed` | `CoveredWhileBusy` | a failed export arms the 6 s hide before it recovers the console |
| `geometry_dropped` | `Lands` | an `stty` line typed behind a key whose echo is on its way is spoiled, counts as told, and is not typed again |

### Fairness

- *Page steps and timers* (`PageStep`, `GiveUp`, `Step`, `HideTimer`, `Retry`, ...): every wait of
  the page goes through `waitFor`, which has an idle timer and a hard cap, or is a
  `setTimeout`; the browser runs both in the end.
- *Monitor and mirror* (`MonitorRuns`, `Deliver`): a monitor that is not hung works on.  A
  hang is an action of its own, after which it is never required to.
- *Shell* (`ShellReads` in Geometry; `Restore` and `Tidied` in Transfer are the page's):
  a shell at its prompt reads its tty.
- *Requests* (`Loading` in Assets): the loaders ask for every file when a page starts,
  and the platform answers every await of the worker.
- Nothing is assumed of the user, of programs in the guest, of faults, of whoever
  deploys, or of caches.  Tap has no fairness: its properties are all about safety.

## 4. The proofs

The eight proof modules are checked by TLAPS, for every value of the constants that
meets the named assumptions (`CheckpointAssumption`, `TransferAssumption`,
`OverlayAssumption`, `SessionAssumption`, `StampAssumption`, `GeometryAssumption`, `ScreenAssumption`, `TapAssumption`,
`AssetsAssumption`, `TagRule`).  Every inductive
invariant was checked by TLC on the bounds of section 3 before it was proved.

### Checkpoint

- **`TypeCorrect`** (`Spec => []TypeOK`).  `TypeOK` is inductive; it is proved in its
  three parts, `FlagsStep`, `ValuesStep` and `QueuesStep`, one step per action each, from lemmas
  on the operators (`TypedType`, `SwitchType`, `SettledType`, `AfterLeaveType`).
- **`MuxIsWhereFound`**, **`KeyboardIsGuarded`** (`[]MuxWhereFound`, `[]KeyboardGuarded`), for any number of
  operations and any faults but the two of `Undisturbed`.  Neither
  property is inductive: that a switch moves the mux depends on bracketed paste
  being off at the paste, on the Ctrl-A NUL that empties a held Ctrl-A, and on no
  command meeting a Ctrl-A that is held.  `HeldInv` is about the last: the waits have the mux
  holding nothing, and where it may hold something, after a `mux()` that threw, the `finally`
  block has no `cont` left to type, unless one went before and was not answered (`NoContHeld`).  `MuxInv`
  adds where `bracketed` is off; `PlaceInv`, what `pc` says of `switches` and of the keyboard.  `HalfTypedStays`, `FullyTypedSwitches` and `SwitchKeepsCount` are the
  facts about the mux: none of the first three keys moves it, all four do, whatever
  was held.
- **`OperationsShareConsole`**: see below.

The other five rest on where an operation is (`PlaceInv`) and hold through the race too,
except the first, which needs the mux to be where the count has it.

- **`TypesAtRightSide`**.  `TurnInv`: the `finally` block sends
  nothing but `cont`, and with one throw at most the count is even where the page
  types to the shell and odd where it types to the monitor; with `MuxInv` that is the side.
- **`NeverResumesItsFailedLoad`**.  `QueueInv` is the heart of all that is said of the
  monitor: while no answer is late, what is on its way is the answer to the command
  the page waits for, and between operations nothing is.  `DamageInv` says on top of it where
  the machine may be half loaded: not while it runs, not while `resumable` is set, and
  then no `cont` is typed or queued.  `StopFirst`, that a `stop` still queued comes before what was
  typed after it, is what makes it inductive.  What the monitor gets without its first key
  is a command to nobody (`NothingAsked`).
- **`PageIsRight`**, **`ReportsAreTrue`**.  `CommandInv` ties commands to operations;
  `ReportInv` says at which places of an operation the slot must already be this
  operation's, and that `slot` never falls behind `savedAt`, unless the last `savevm` is in doubt.
- **`StopsForCause`**.  `FlagInv`: `resumable` is given up only for a `loadvm`.  `PromptInv`: how
  many prompts can be on their way, so that an answer is never the prompt of the
  switch before.  `StopInv`: where the machine stands still or a `stop` is on its way, the page knows
  (`paused`), or will send `cont`, whole, as no Ctrl-A can meet it (`Mended`, `SentWhole`); of several
  faults it says nothing, as the property.

### Transfer

- **`ProgramIsNotTypedAt`** (`Spec => []NeverTypesBlind`).  By `IInv`: which
  values `pc` has (`PcInv`), that an operation is past its probe, with `engaged` set, only
  where the shell had answered it (`EngagedInv`), and what a program that has
  the terminal can therefore have received (`ProgramInv`).
- **`TransferTypes`** (`Spec => []TypeOK`), in three parts: the page's, the wire's, the guest's.
- **`OnlyWholeIsUnpacked`**, **`UntouchedStays`**, **`VerdictsAreTrue`**.  None is inductive: that `tgz` is whole
  when an unpack starts depends on every line typed since the checksum matched, and that
  nothing was changed on lines still unread from the transfer before.  `LedgerInv` keeps
  account of the three lines that matter, `ready`, `sum` and `unpack`: each is in the tty at
  most once (`Once`), with nothing that touches the archive ahead of the unpack (`Ahead`);
  the guest has one, or its answer is on its way, only if the page waits for just that
  and has not read it (`Own`) - or the page has given up on it, and that was the one
  late answer (`Lagging`), or the guest has stopped for good (`Dead`).  So a match that the
  page reads is the match of this archive (`SumInv`), and the verdict that of this unpack
  (`WorkInv`).  `RestoreInv` is that an earlier `recover()`'s `rm` is read before this transfer's
  first line.  `Still`, `Answered`, `WaitEnds` and `TypesKeyLine` are the four things a step can do
  to the ledger; every action is one of them.
- **`TerminalIsHandedBack`** (`[]HandedBack`), for archives of any length.  That the end of a transfer is tidy depends
  on every line it typed and every fault it met.  `HandInv` goes by how much has gone wrong.
  `LeaveInv` is what `recover()` finds and leaves: it spares its Ctrl-C only where the shell is at its
  prompt already, and otherwise Ctrl-C and the `stty` line mend whatever was there.  `WorkingInv`
  is about the answers that make it spare the Ctrl-C (`END`, `OK`, `SUM bad`): after one fault,
  whichever, they still mean that the job has ended and nothing but the user's keys is left in
  the tty.  That one fault cannot forge such an answer is only inductive if with none at
  all page and guest are in step, one line, job or answer on its way at each wait: `StepInv`.

### Overlay, Geometry, Assets, Console

- **`LatchHasOneHolder`** (Overlay, `Spec => []OneHolder`), by `LatchInv`: `OneHolder` with the types of
  `pc` and `kind` is inductive.
- **`TerminalStaysCovered`**, **`HolderAloneSpeaks`** (Overlay).  That the terminal is
  covered is not inductive, since an armed timer could fire; `CoverInv` adds that while a
  call holds the console no timer is armed or orphaned, and (`EndInv`) what the ends of
  calls say of the operations that were asked for.  The exclusions are in the properties
  themselves (`Plain`, `astray`), not in the constants.
- **`OverlayTypes`** (Overlay, `Spec => []TypeOK`).  Only the bound on `orphans`, the hide timers
  that nothing can stop any more, is more than a matter of types: `TimerInv` has one such timer at most for each
  call that has ended its work (`Told`), but the last, whose own timer is still named.
- **`GeometryTypes`**, **`ToldHolds`** (Geometry, `[]TypeOK`, `[]ToldIsTrue`), for any shapes, resizes, keys and
  operations.  `ToldIsTrue` speaks of an empty queue; `ToldInv` says, at every moment once a size is
  told and unless a line was missed, that `told` is the size in the last line on its way, or that of the tty if none is, or that a
  rollback has just put back a guest of another size and has its own line to type.
  Typing a size keeps it (`TellsLast`), a key does not touch it (`KeyTellsNothing`), and
  reading the line moves it from the queue to the tty (`ReadingKeepsCurrent`).
- **`NoStaleFile`** (Assets, `Spec => []OneRelease`), for any releases, files and
  visitors.  By `Truth`: whatever lies under a name, in the bucket, in either cache, on its
  way to one or with a visitor, is what every release means by that name.  `NamesTell` is
  the heart of it: a name stands for the same bytes in all the releases that use it,
  which is `TagRule` for the set and naming by content for the engine.
- **`RangesAreExact`** (Assets, `Spec => []RangeIsExact`), for files of any length and any pair of
  numbers: `RangeIsCut` is the worker's arithmetic at its edges.
- **`CallsShareConsole`**, **`TransfersShareConsole`**, **`OperationsShareConsole`**: every
  behaviour of the module is one of `Console` under its mapping (`Spec => C!Spec`).  Each
  step maps to one of `Console`'s or to a stutter; that `Take` finds the console free is
  the latch: `LatchInv` in Overlay, `Latched` and `Numbered` in Checkpoint, `CountInv` in
  Transfer.  The other half of the promise, `LetsGo`, is liveness.

### Session

**`SessionTypes`** (`[]TypeOK`), **`NoneIsForeign`** (`[]NoForeignFiles`), **`OutsideIsKept`** (`KeepsOutside`) and
**`IdentityIsKept`** (`KeepsIdentity`) hold for any builds and whatever trees they ship, any
number of edits and boots, and restores that are whole, fail or die at any member.
They come from one invariant, `SessionInv`, and from what one unpack does, `UnpackAfter`.
**`SessionComesBack`** (`[]RoundTrip`) has an invariant of its own on top of it, `RestoreInv`, below.

- `Sound(b)`: the trees that a machine of build `b` may have: a tree, whose entries `b` may
  have written (`Ours`: its own, or one format-1 build's for another).  That a tree is one
  is not obvious of any step: tar makes directories on its way, goes through links and puts
  a link where a directory was; a removal takes what is below with it (`PutSound`,
  `OverSound`, `RemoveSound`, `MovedSound`).
- `Carries(b, files)`: the members of an archive of build `b`.  `PassesOwn` is the argument
  behind `NoForeignFiles`: what gets past `Refuses` and `Full` on this machine is an archive
  whose members this machine's build may have, whichever of the two formats either runs.
- `After(b, t0, L)`: a sound tree, with what `t0` had outside the roots still there and what
  `t0` had in the skipped paths untouched, where no link of `L` leads.  One member and one
  deletion stay in it (`MemberAfter`, `DeletionAfter`), whichever links they go through, since
  `Linked` covers the links of the tree and those of the archive; hence every
  prefix of the archive does (`ExtractAfter`, which is what an unpack that dies needs), and
  the deletion list (`DeleteAfter`), by `StepsExist` and `StepsStay`.

`RoundTrip` compares the tree after a restore with what a walk over another machine saw,
member by member.  `RestoreInv` carries what that needs from the walk to the restore:

- `StampInv`: an entry with a stamp of the image is one of the image's, in every tree and in
  the archive; so what `pack` leaves out is as shipped (`WalkRestore`, from `StampAssumption`).
- `WalkInv`, `MadeInv`: what a pack under way and an archive tell of the machine they were made
  on (`Found`, `Told`).  Between the passes files at most are written or go away (`Lost`).
- `FreshInv`: what only restores of the archive have changed lies, path by path, between the image
  and the archive (`Between`), however many of them stopped part way and wherever.

On such a machine the directory of a member stands when it is its turn (`MemberStands`), since it is as
shipped or a member that came before it in `Order`; so a member goes where it says, or tar fails
at it and the tree is as it was (`MemberPlaced`).  Where the image ships a directory with
something in it under a member that is none, tar always fails (`StuckMeets`): hence if tar gets through
no member put a link above a path of the deletion list (`DeletedStraight`).  Each deletion
takes its path away and nothing else (`DeletionStep`), as what is below has been its turn: what
is left in a directory is something `skip()` names (`NothingLeft`).  `ExtractGoes` and `DeleteClears`
are the two inductions along `Order`, one forwards, one backwards; `BroughtBack` draws the sum.

The first attempt at this proof failed for a good reason: an earlier `RoundTrip` said that
every removed directory stays removed, and `NothingLeft` is where that is false.

### Screen and Tap

**`TapTypes`** (`Spec => []TypeOK`), **`SavedRowsHold`** (`[]SavedRowHolds`) and **`WideStaysWhole`** (`[]WholeWide`)
hold for every chunk a command may write - any characters, sequences complete or
cut short, strings that never end -, every shape of the terminal and every depth of
the scrollback.  None is inductive alone: an index into the rows is good only if the
cursor, the region and the rows fit each other, a restored cursor is good only if
what was saved is, and a row taken from the screen must be as sound as the rest.
`TapInv` has the screen in `Screens`:

- `Sized`: each buffer holds exactly the screen's rows from its base on, the cursor and
  the scroll region are on them;
- `Cells`: a row has no right half of a wide character without its left;
- `NamesRow`: the saved cursor names its row, or is marked as moved.

`Screens` is closed under everything the code does to a screen, one lemma each, from the
cells up: `ErasedCells`, `PutCells`, `ShiftedCells`, `DeletedCells`, `JoinedCells`; `RowsScrollOff`, `ScrolledUp`,
`RowsInserted`; `ScreenFits` for a window that changes; `PublicSequence`, `ModesSet` and `Dispatched` for
every control sequence with any numbers; `CharRead` for every character in every state of
the parser; and `ChunkRead` for a chunk.  A chunk, the parameters of a sequence and a
repeated step are recursive functions: that they are what their equations say is
`StepsExist`, and what each step keeps holds to the end by `StepsStay`, both from
`AllNumbers`.  The guards of `dispatch`'s cases exclude each other as the code's `case`s do; the
proof uses no order among them.

**`FittingKeepsTheLine`** (`Spec => FitKeepsLine`) is an action property, of every screen in
`Screens` and every new shape of the window.  `FittedKeeps` says what `fit()` does to one
buffer: each row that is left is the row it was, each new one is blank, and base and cursor
move against each other.  So the screen before and after are `Kept`.  What reads the rows
does not tell such screens apart: `StartSame` and `EndLess` for the first and last row of the line at the cursor,
`HeldLess` for its text, `LinesSame` for every line the archive of the console is made of,
`BeforeSame` for the text up to the cursor.  Under them are facts about concatenation (`JoinedIs`,
`JoinedPrefix`, `TextIs`) and about the least and greatest of a set (`LeastIs`, `GreatestIs`).
The proof corrected the property: an earlier one asked for the text before the cursor at
any width.

**`LineIsWhatIsTyped`** (`[]LineIsTyped`) and **`PromptIsSeen`** (`[]PromptSeen`), in `LineProofs`, hold for
every prompt that has a prompt's shape (`promptShaped`), every tty at least two columns wide, any keys, any output of commands before the
prompt, and every shape of the window.  Neither is inductive: what is read depends on all
that readline has drawn, over every wrap and scroll since the prompt.  `LineInv` says that of a
clean prompt the window is as the tty was told and the line's rows fit in it, and that the screen is in
`LinePage`: from some row on, the screen shows readline's line place by place (`LineSeen`, a function of
the place, with blanks past the end), the rows up to the line's last are marked as
continued and those before the last are full, the cursor is at readline's place, and the
parser is in GROUND with nothing unsure.  The argument has four parts:

- *What readline sends.*  `Fed` follows a chunk character by character through the parser.
  `PrintedOnPage`, `MovedOnPage`, `EraseOnPage` and `SentOnPage` say what printing, the cursor's moves and
  erasing do to such a page, the wrap at the last column and the scroll at the last row included.
- *Each key.*  `TypesShown`, `ErasesShown`, `KillsShown`, `ClearsShown` and `PromptShown`: from a page that shows
  the line, the chunk that answers the key leads to a page that shows the new line.
- *Everything else.*  What the shell itself says leaves the parser in GROUND on any screen
  (`Grounded`, `Calm`), and a window that changes leaves the parser where it is (`Steady`).
- *The reading.*  `cursorLine` goes from the marked row at the top to the last that
  continues it; what is on those rows is the line as it is laid out (`LaidLine`, `RowsAbove`), so
  the text before the cursor is the prompt and what was typed up to readline's point.

`LineSeen` is a function on all of `Nat`, so TLC cannot evaluate `LineInv`; what run `tap` checks is
what follows from it.  The proof corrected the model's idea of a clean prompt: a line with
more rows than the window is one that neither the terminal nor the tap can show.

**Only model-checked**:

- all liveness: `LetsGo` in `UsesConsole`, `CoverGoes`, `Converges`, `Arrives`;
- `NeverFalseIdle` (Tap).  `TapAssumption` lets a command's output be any text, and for any
  text it is not true: a command may print the words the shell says before its prompt.  It
  holds for the outputs of run `tap`; a theorem needs an assumption on `Outputs` first, and
  then what every chunk of a command leaves on the screen, tidy or not;
- the four runs that end in a violation, of course.

## 5. What is not modelled, and why

- *In modelled components.*  Texts, timeouts' lengths and layout.  `cksum()` and
  `b64encode()` are abstracted to "whole or not".  The browser's own copy (OPFS), which two
  calls may write at once, and the status line.  Owners and ACLs (which `stamp()` does not
  see), hard links and hand-edited archives in `unpack`.  `settle()` is taken to
  be over, fitted or given up, before the hand-over: it lasts three seconds, and no guest
  shows a prompt by then; a fit after the hand-over would tell the guest nothing.  A
  Ctrl-A that the user holds as a *transfer* begins: Transfer has no mux, which would take the
  first key typed.  The regular
  expression of `ensureShell()`: Transfer takes a prompt to be the shell's, Checkpoint lets any
  running guest print something that looks like one.
- *Console mirror*: `strip()`, the model's rebuilding where something else replaced the
  mirror, the caps on the length of a sequence and of the mirror, and the CSI final "`",
  a synonym of "G".  In Tap nothing writes while the user types at the prompt, and no
  program but the shell says the shell's words.
- *Resume of a restored machine* (`web/fork/boot.js` 124-140): see the plan.
- *Worker*: static assets, and headers but those of ranges.  Threads of a tab that is
  open across a deploy and load the engine's script again: the page is taken to load
  each file once.
- *Upstream-lane page*: repeats the wiring of `boot.js` and adds no state.
- *Build scripts, patches, image, CI*: sequential or not this program's code.

## 6. Plan

1. `Resume` in Checkpoint: the restored machine's Ctrl-A c, `cont`, Ctrl-A c on
   timers, outside the latch and not counted.
2. The browser's copy in Overlay: two stores at once.
3. `cksum()`, `b64encode()` and the size arithmetic of `termfit.js` against reference
   definitions over bounded inputs.
4. Proofs: `NeverFalseIdle` (Tap), from an assumption on what commands write.
