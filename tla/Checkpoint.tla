----------------------------- MODULE Checkpoint -----------------------------
(***************************************************************************)
(* The checkpoint and rollback operations of web/serialfs.js: the page     *)
(* drives QEMU's human monitor through the terminal's own multiplexer      *)
(* (Ctrl-A c), reads the replies off the console mirror, and must hand the *)
(* console back whatever happens on the way.                               *)
(*                                                                         *)
(* The page is one JavaScript thread: a step of the model runs from one    *)
(* await to the next, or to the next paste, which may throw.  Around it    *)
(* run, concurrently, the monitor (commands queue, replies are in flight), *)
(* the guest program that owns the terminal, and the user's keyboard.      *)
(* Replies can be lost or come after the page gave up, the monitor can     *)
(* hang, and every monitor command that may fail does.                     *)
(***************************************************************************)
EXTENDS Naturals, Sequences

CONSTANTS
    MaxOps,     \* bound on the operations the user starts
    Budget,     \* how many faults of each kind a behaviour may have
    MaxFaults   \* ... and of all kinds

\* A reply that never comes, or comes too late; a paste that throws; a monitor that
\* stops answering; a program that sets bracketed paste inside the await of mux().
FaultKinds == {"lost", "late", "throw", "hang", "race"}

ASSUME CheckpointAssumption ==
    /\ MaxOps \in Nat
    /\ Budget \in [FaultKinds -> Nat]
    /\ MaxFaults \in Nat

VARIABLES
    \* the page
    busy,        \* the latch every console operation shares
    op,          \* "none", "ckpt" or "roll"
    opNo,        \* operations started so far; also the clock behind savedAt
    pc,          \* where the operation is waiting or about to paste
    cmd,         \* the monitor command being typed or waited for
    fin,         \* inside the operation's finally block
    why,         \* a reason for failure has been recorded
    resumable,   \* rollback()'s local: leave() may send cont
    got,         \* what the mirror holds since the last t0
    switches,    \* Ctrl-A c sent by the page: only its parity is ever read
    paused,      \* stop answered, and no cont since
    unanswered,  \* stop sent, its prompt not seen
    layered,     \* the page believes the qcow2 layer is over root
    savedAt,     \* when the snapshot in the slot was taken; 0 is null
    outcome,     \* what the last operation told the user
    kbd,         \* the terminal has the keyboard focus
    bracketed,   \* xterm's bracketedPasteMode
    \* the multiplexer and the machine (external)
    side,        \* "serial" or "monitor"
    held,        \* the mux holds a Ctrl-A and waits for the next key
    home,        \* the side the user left the mux on
    inq,         \* commands the monitor has received and not run
    out,         \* replies not yet in the mirror
    hung,        \* the monitor has stopped answering
    running,     \* the vCPU runs
    layer,       \* the qcow2 layer exists
    slot,        \* the operation whose savevm filled the slot; 0 is none
    loadedBy,    \* the operation whose loadvm last succeeded
    damagedBy,   \* the operation whose loadvm failed part way; 0 is none
    spent,       \* faults so far, by kind
    loadOpen,    \* history: a loadvm was sent, and none cleanly answered since
    unresumed    \* history: a cont has gone without a clean answer

opVars   == <<op, opNo, fin, why, resumable, outcome, loadOpen, unresumed>>
flags    == <<switches, paused, unanswered, layered, savedAt>>
muxVars  == <<side, held, home>>
monVars  == <<inq, out, hung>>
machine  == <<running, layer, slot, loadedBy, damagedBy>>
vars     == <<busy, pc, cmd, got, kbd, bracketed, spent,
              opVars, flags, muxVars, monVars, machine>>

Commands == {"stop", "layer", "savevm", "info", "loadvm", "cont"}
Sides    == {"serial", "monitor"}
Nothing  == [seen |-> FALSE, err |-> FALSE, row |-> FALSE]
Outcomes == {"none", "noprompt", "saved", "back", "failed", "thrown"}

\* Where the page pastes next, and where it waits for the console.
PastePcs == {"ask", "mux", "muxtype", "send", "muxback", "backtype", "sync"}
WaitPcs  == {"ensure", "muxwait", "wait", "syncwait"}
Pcs      == PastePcs \cup WaitPcs \cup {"idle", "leave"}

Init ==
    /\ busy = FALSE /\ op = "none" /\ opNo = 0 /\ pc = "idle" /\ cmd = "stop"
    /\ fin = FALSE /\ why = FALSE /\ resumable = TRUE /\ got = Nothing
    /\ switches = 0 /\ paused = FALSE /\ unanswered = FALSE
    /\ layered = FALSE /\ savedAt = 0 /\ outcome = "none"
    /\ kbd = TRUE /\ bracketed \in BOOLEAN
    /\ side = "serial" /\ held = FALSE /\ home = "serial"
    /\ inq = <<>> /\ out = <<>> /\ hung = FALSE
    /\ running = TRUE /\ layer = FALSE /\ slot = 0
    /\ loadedBy = 0 /\ damagedBy = 0
    /\ spent = [k \in FaultKinds |-> 0] /\ loadOpen = FALSE
    /\ unresumed = FALSE

Faults == spent["lost"] + spent["late"] + spent["throw"] + spent["hang"] + spent["race"]

Fault(k) == /\ spent[k] < Budget[k] /\ Faults < MaxFaults
            /\ spent' = [spent EXCEPT ![k] = @ + 1]

-----------------------------------------------------------------------------
(***************************************************************************)
(* The multiplexer.  Ctrl-A is held until the next key: c moves the        *)
(* keyboard to the other side, a second Ctrl-A passes one on, any other    *)
(* key is swallowed with it.                                               *)
(***************************************************************************)
Other(s) == IF s = "serial" THEN "monitor" ELSE "serial"

MuxKey(m, key) ==
    CASE m.held /\ key = "c"        -> [side |-> Other(m.side), held |-> FALSE]
      [] m.held /\ key # "c"        -> [side |-> m.side, held |-> FALSE]
      [] ~m.held /\ key = "ctrlA"   -> [side |-> m.side, held |-> TRUE]
      [] OTHER                      -> m

\* Mutant of SwitchKeys: no Ctrl-A NUL first.
SwitchKeysBare(m, n) ==
    LET m3 == MuxKey(m, "ctrlA")
        m4 == MuxKey(m3, "c")
    IN  CASE n \in 0..2 -> m [] n = 3 -> m3 [] OTHER -> m4

\* The keys of mux(): Ctrl-A NUL first, in case the user's Ctrl-A is held,
\* and then the switch.  SwitchKeys(m, n) is the mux after the first n pastes.
SwitchKeys(m, n) ==
    LET m1 == MuxKey(m, "ctrlA")
        m2 == MuxKey(m1, "nul")
        m3 == MuxKey(m2, "ctrlA")
        m4 == MuxKey(m3, "c")
    IN  CASE n = 0 -> m [] n = 1 -> m1 [] n = 2 -> m2 [] n = 3 -> m3 [] OTHER -> m4

\* With bracketed paste on, xterm wraps each paste in escape sequences: the key
\* after every Ctrl-A is then an ESC, which the mux swallows.
Typed(n) == IF bracketed THEN [side |-> side, held |-> (n = 0 /\ held)]
                         ELSE SwitchKeys([side |-> side, held |-> held], n)

\* The monitor prints a fresh prompt when it gets the keyboard.
Prompt == [err |-> FALSE, row |-> FALSE]
PromptOnSwitch(s) == IF s = "monitor" /\ side # "monitor" /\ ~hung
                     THEN Append(out, Prompt) ELSE out
-----------------------------------------------------------------------------
(***************************************************************************)
(* The operations, from await to await.                                    *)
(***************************************************************************)
\* No answer is on its way any more.
Silent == out = <<>> /\ (inq = <<>> \/ hung)

\* The page goes on without an answer: none will come, or it will be late.
Unheard == \/ Silent /\ UNCHANGED spent
           \/ ~Silent /\ Fault("late")

\* checkpoint(): the latch, then ensureShell.
CheckpointStart ==
    /\ ~busy /\ opNo < MaxOps
    /\ busy' = TRUE /\ op' = "ckpt" /\ opNo' = opNo + 1
    /\ fin' = FALSE /\ why' = FALSE /\ resumable' = TRUE /\ outcome' = "none"
    /\ pc' = "ask"
    /\ Unheard
    /\ UNCHANGED <<cmd, got, kbd, bracketed, loadOpen, unresumed, flags, muxVars, monVars, machine>>

\* Mutant of RollbackStart: no blur().
RollbackStartFocused ==
    /\ ~busy /\ savedAt # 0 /\ opNo < MaxOps
    /\ busy' = TRUE /\ op' = "roll" /\ opNo' = opNo + 1
    /\ fin' = FALSE /\ why' = FALSE /\ resumable' = TRUE /\ outcome' = "none"
    /\ pc' = "mux"
    /\ Unheard
    /\ UNCHANGED <<cmd, got, kbd, bracketed, loadOpen, unresumed, flags, muxVars, monVars, machine>>

\* rollback(): refused without a checkpoint; no prompt is asked for.
RollbackStart ==
    /\ ~busy /\ savedAt # 0 /\ opNo < MaxOps
    /\ busy' = TRUE /\ op' = "roll" /\ opNo' = opNo + 1
    /\ fin' = FALSE /\ why' = FALSE /\ resumable' = TRUE /\ outcome' = "none"
    /\ kbd' = FALSE
    /\ pc' = "mux"
    /\ Unheard
    /\ UNCHANGED <<cmd, got, bracketed, loadOpen, unresumed, flags, muxVars, monVars, machine>>

\* The operation reports and enters its finally block; focused says whether it
\* has given the keyboard back by then.
Conclude(result, focused) ==
    /\ outcome' = result
    /\ kbd' = (kbd \/ focused)
    /\ fin' = TRUE /\ pc' = "leave"

\* ensureShell types Ctrl-U Enter, and waits 8 s for a prompt.  A held Ctrl-A
\* takes the first key with it.  (Should the monitor get the line, nobody waits for
\* what it answers, which is left out here and in TypeResync.)
AskForPrompt ==
    /\ pc = "ask"
    /\ pc' = "ensure"
    /\ held' = FALSE
    /\ UNCHANGED <<busy, cmd, got, kbd, bracketed, spent, opVars, flags, side, home,
                   monVars, machine>>

\* Only a running guest can print a prompt, or something that looks like one.
PromptCame ==
    /\ pc = "ensure" /\ running
    /\ IF op = "ckpt" THEN pc' = "mux" /\ kbd' = FALSE
                      ELSE pc' = "sync" /\ UNCHANGED kbd
    /\ UNCHANGED <<busy, cmd, got, bracketed, spent, opVars, flags, muxVars, monVars,
                   machine>>

NoPrompt ==
    /\ pc = "ensure"
    /\ Conclude(IF op = "ckpt" THEN "noprompt" ELSE "back", op = "roll")
    /\ UNCHANGED <<busy, cmd, got, bracketed, spent, op, opNo, why, resumable, loadOpen, unresumed,
                   flags, muxVars, monVars, machine>>

\* mux() finds bracketed paste on and awaits the terminal's reset of it.
ResetPaste ==
    /\ pc \in {"mux", "muxback"} /\ bracketed
    /\ bracketed' = FALSE
    /\ pc' = IF pc = "mux" THEN "muxtype" ELSE "backtype"
    /\ UNCHANGED <<busy, cmd, got, kbd, spent, opVars, flags, muxVars, monVars, machine>>

\* ... and then types the switch, without looking again.
MayType == \/ pc \in {"mux", "muxback"} /\ ~bracketed
           \/ pc \in {"muxtype", "backtype"}

TypeSwitch ==
    /\ side' = Typed(4).side /\ held' = Typed(4).held
    /\ out' = PromptOnSwitch(Typed(4).side)
    /\ switches' = 1 - switches
    /\ got' = Nothing
    /\ UNCHANGED <<home, inq, hung>>

\* What follows a leave(): the end of the finally block; or, in checkpoint(),
\* the re-sync unless the machine is known to be stopped; or, in rollback(),
\* the failure, or the question for a prompt to re-sync at.
AfterLeave ==
    \/ /\ fin
       /\ kbd' = TRUE /\ busy' = FALSE /\ pc' = "idle"
       /\ UNCHANGED <<fin, outcome>>
    \/ /\ ~fin /\ op = "ckpt" /\ ~paused
       /\ pc' = "sync"
       /\ UNCHANGED <<kbd, busy, fin, outcome>>
    \/ /\ ~fin /\ op = "ckpt" /\ paused
       /\ Conclude(IF why THEN "failed" ELSE "saved", TRUE)
       /\ UNCHANGED busy
    \/ /\ ~fin /\ op = "roll" /\ why
       /\ Conclude("failed", FALSE)
       /\ UNCHANGED busy
    \/ /\ ~fin /\ op = "roll" /\ ~why
       /\ pc' = "ask"
       /\ UNCHANGED <<kbd, busy, fin, outcome>>

\* The switch into the monitor.  Where the page's count says it went out
\* instead, mux() returns at once and stop is typed.
SwitchIn ==
    /\ pc \in {"mux", "muxtype"} /\ MayType
    /\ TypeSwitch
    /\ IF switches = 0 THEN pc' = "muxwait" /\ UNCHANGED cmd
                       ELSE pc' = "send" /\ cmd' = "stop"
    /\ UNCHANGED <<busy, kbd, bracketed, spent, opVars, paused, unanswered, layered,
                   savedAt, machine>>

\* The switch at the end of leave(), and what the operation does after it.
SwitchOut ==
    /\ pc \in {"muxback", "backtype"} /\ MayType
    /\ TypeSwitch
    /\ AfterLeave
    /\ UNCHANGED <<cmd, bracketed, spent, op, opNo, why, resumable, loadOpen, unresumed,
                   paused, unanswered, layered, savedAt, machine>>

\* The mux after the first key of a command, an ESC where the paste is bracketed.  A
\* Ctrl-A it holds takes this key: the c of cont then switches, any other is lost.
AfterFirstKey == MuxKey([side |-> side, held |-> held],
                        IF cmd = "cont" /\ ~bracketed THEN "c" ELSE "other")

\* What is typed reaches whichever side the mux then is on.  Without its first key it
\* is no command: the monitor says so, which is no Error line, and prompts again.
TypeCommand ==
    /\ side' = AfterFirstKey.side /\ held' = AfterFirstKey.held
    /\ out' = PromptOnSwitch(AfterFirstKey.side)
    /\ inq' = IF AfterFirstKey.side = "monitor"
              THEN Append(inq, [cmd |-> IF held THEN "unknown" ELSE cmd, op |-> opNo])
              ELSE inq
    /\ got' = Nothing
    /\ UNCHANGED <<home, hung>>

\* Mutant of SendCommand: a stop counts only once it is answered.
SendCommandLate ==
    /\ pc = "send"
    /\ TypeCommand
    /\ pc' = "wait"
    /\ UNCHANGED <<busy, cmd, kbd, bracketed, spent, opVars, flags, machine>>

\* run() types a command; a stop counts as unanswered from before its paste.
SendCommand ==
    /\ pc = "send"
    /\ unanswered' = (unanswered \/ cmd = "stop")
    /\ TypeCommand
    /\ pc' = "wait"
    /\ UNCHANGED <<busy, cmd, kbd, bracketed, spent, opVars, switches, paused, layered,
                   savedAt, machine>>

\* Mutant of Leave: nothing to resume means nothing to do.
LeaveEarly ==
    /\ pc = "leave"
    /\ \/ /\ switches = 0 \/ ~(unanswered \/ paused)
          /\ AfterLeave
          /\ UNCHANGED <<cmd, unanswered>>
       \/ /\ switches = 1 /\ (unanswered \/ paused)
          /\ unanswered' = FALSE
          /\ IF resumable THEN pc' = "send" /\ cmd' = "cont"
                          ELSE pc' = "muxback" /\ UNCHANGED cmd
          /\ UNCHANGED <<kbd, busy, fin, outcome>>
    /\ UNCHANGED <<got, bracketed, spent, op, opNo, why, resumable, loadOpen, unresumed, switches,
                   paused, layered, savedAt, muxVars, monVars, machine>>

\* leave(): nothing on the serial side; otherwise one cont if the page stopped
\* the machine or may have, and the operation allows it, and the switch back.
Leave ==
    /\ pc = "leave"
    /\ \/ /\ switches = 0
          /\ AfterLeave
          /\ UNCHANGED <<cmd, unanswered>>
       \/ /\ switches = 1
          /\ unanswered' = FALSE
          /\ IF (unanswered \/ paused) /\ resumable
             THEN pc' = "send" /\ cmd' = "cont"
             ELSE pc' = "muxback" /\ UNCHANGED cmd
          /\ UNCHANGED <<kbd, busy, fin, outcome>>
    /\ UNCHANGED <<got, bracketed, spent, op, opNo, why, resumable, loadOpen, unresumed, switches,
                   paused, layered, savedAt, muxVars, monVars, machine>>

\* The reply to stop: its prompt alone means stopped.
StopSettled(ok) ==
    /\ paused' = (paused \/ ok)
    /\ unanswered' = (unanswered /\ ~ok)
    /\ \/ ~ok /\ pc' = "leave" /\ UNCHANGED cmd
       \/ ok /\ op = "roll" /\ pc' = "send" /\ cmd' = "loadvm"
       \/ ok /\ op = "ckpt" /\ pc' = "send" /\ cmd' = (IF layered THEN "savevm" ELSE "layer")
    /\ resumable' = (resumable /\ ~(ok /\ op = "roll"))
    /\ loadOpen' = (loadOpen \/ (ok /\ op = "roll"))
    /\ why' = ~ok
    /\ UNCHANGED <<layered, savedAt>>

LayerSettled(ok) ==
    /\ layered' = ok
    /\ why' = ~ok
    /\ IF ok THEN pc' = "send" /\ cmd' = "savevm" ELSE pc' = "leave" /\ UNCHANGED cmd
    /\ UNCHANGED <<paused, unanswered, resumable, savedAt, loadOpen>>

\* Mutant of SavevmSettled: a failed savevm is taken to have changed nothing.
SavevmSettledNoList(ok) ==
    /\ savedAt' = IF ok THEN opNo ELSE savedAt
    /\ why' = ~ok
    /\ pc' = "leave"
    /\ UNCHANGED <<cmd, paused, unanswered, resumable, layered, loadOpen>>

\* From a clean answer on, the slot holds this state.  A failure may have taken
\* the earlier snapshot with it, so the page asks.
SavevmSettled(ok) ==
    /\ savedAt' = IF ok THEN opNo ELSE savedAt
    /\ why' = ~ok
    /\ IF ok THEN pc' = "leave" /\ UNCHANGED cmd ELSE pc' = "send" /\ cmd' = "info"
    /\ UNCHANGED <<paused, unanswered, resumable, layered, loadOpen>>

\* Mutant of InfoSettled: no checkpoint is written as -1.
InfoSettledNegative(ok) ==
    /\ savedAt' = IF ok /\ got.row THEN savedAt ELSE 0 - 1
    /\ pc' = "leave"
    /\ UNCHANGED <<cmd, why, paused, unanswered, resumable, layered, loadOpen>>

InfoSettled(ok) ==
    /\ savedAt' = IF ok /\ got.row THEN savedAt ELSE 0
    /\ pc' = "leave"
    /\ UNCHANGED <<cmd, why, paused, unanswered, resumable, layered, loadOpen>>

\* Mutant of LoadvmSettled: resumable again whatever loadvm answered.
LoadvmSettledResumable(ok) ==
    /\ resumable' = TRUE /\ loadOpen' = ~ok
    /\ why' = ~ok
    /\ pc' = "leave"
    /\ UNCHANGED <<cmd, paused, unanswered, layered, savedAt>>

LoadvmSettled(ok) ==
    /\ resumable' = ok /\ loadOpen' = ~ok
    /\ why' = ~ok
    /\ pc' = "leave"
    /\ UNCHANGED <<cmd, paused, unanswered, layered, savedAt>>

\* cont is only sent by leave(), which then switches back.
ContSettled(ok) ==
    /\ paused' = (paused /\ ~ok)
    /\ why' = (why \/ ~ok)
    /\ pc' = "muxback"
    /\ UNCHANGED <<cmd, unanswered, resumable, layered, savedAt, loadOpen>>

\* The wait of run(cmd) is over; ok is what the page made of it.
RunSettled(ok) ==
    /\ \/ cmd = "stop"   /\ StopSettled(ok)
       \/ cmd = "layer"  /\ LayerSettled(ok)
       \/ cmd = "savevm" /\ SavevmSettled(ok)
       \/ cmd = "info"   /\ InfoSettled(ok)
       \/ cmd = "loadvm" /\ LoadvmSettled(ok)
       \/ cmd = "cont"   /\ ContSettled(ok)
    /\ unresumed' = (unresumed \/ (cmd = "cont" /\ ~ok))
    /\ UNCHANGED <<op, opNo, fin, outcome, switches>>

\* ... of mux(), on the way in.
MuxSettled(ok) ==
    /\ why' = ~ok
    /\ IF ok THEN pc' = "send" /\ cmd' = "stop" ELSE pc' = "leave" /\ UNCHANGED cmd
    /\ UNCHANGED <<op, opNo, fin, resumable, outcome, loadOpen, unresumed, flags>>

\* Mutant of Answered: a prompt is success, whatever the reply says.
AnsweredUnread ==
    /\ got.seen
    /\ \/ pc = "muxwait" /\ MuxSettled(TRUE)
       \/ pc = "wait" /\ RunSettled(TRUE)
    /\ got' = Nothing
    /\ UNCHANGED <<busy, kbd, bracketed, spent, muxVars, monVars, machine>>

\* A prompt is in the mirror.  An Error line before any prompt since t0 is taken
\* for this command's, except in the reply to stop.
Answered ==
    /\ got.seen
    /\ \/ pc = "muxwait" /\ MuxSettled(TRUE)
       \/ pc = "wait" /\ RunSettled(cmd = "stop" \/ ~got.err)
    /\ got' = Nothing
    /\ UNCHANGED <<busy, kbd, bracketed, spent, muxVars, monVars, machine>>

\* Mutant of GiveUp: only the switch has a timer.
GiveUpMuxOnly ==
    /\ ~got.seen
    /\ Unheard
    /\ pc = "muxwait" /\ MuxSettled(FALSE)
    /\ UNCHANGED <<busy, got, kbd, bracketed, muxVars, monVars, machine>>

\* waitFor's idle timer or hard cap runs out: nothing will come, or it is late.
GiveUp ==
    /\ ~got.seen
    /\ Unheard
    /\ \/ pc = "muxwait" /\ MuxSettled(FALSE)
       \/ pc = "wait" /\ RunSettled(FALSE)
    /\ UNCHANGED <<busy, got, kbd, bracketed, muxVars, monVars, machine>>

\* resync() types its line at the prompt ...
TypeResync ==
    /\ pc = "sync"
    /\ pc' = "syncwait"
    /\ held' = FALSE
    /\ UNCHANGED <<busy, cmd, got, kbd, bracketed, spent, opVars, flags, side, home,
                   monVars, machine>>

\* ... and the operation reports, the line having run or the wait having given
\* up: either way the monitor's part decides.
Resynced ==
    /\ pc = "syncwait"
    /\ Conclude(IF why THEN "failed" ELSE IF op = "ckpt" THEN "saved" ELSE "back", TRUE)
    /\ UNCHANGED <<busy, cmd, got, bracketed, spent, op, opNo, why, resumable, loadOpen, unresumed,
                   flags, muxVars, monVars, machine>>

\* A paste throws.  Outside the finally block the block runs next; inside it,
\* the latch is dropped and nothing else happens.  mux() may have typed n of its
\* four keys; a stop already counts as unanswered.
PasteThrows ==
    /\ pc \in PastePcs /\ Fault("throw")
    /\ IF pc \in {"ask", "send", "sync"}
       THEN UNCHANGED <<side, held>>
       ELSE /\ MayType
            /\ \E n \in 0..3 : side' = Typed(n).side /\ held' = Typed(n).held
    /\ unanswered' = (unanswered \/ (pc = "send" /\ cmd = "stop"))
    /\ outcome' = "thrown"
    /\ fin' = TRUE
    /\ IF fin THEN pc' = "idle" /\ busy' = FALSE ELSE pc' = "leave" /\ UNCHANGED busy
    /\ UNCHANGED <<cmd, got, kbd, bracketed, op, opNo, why, resumable, loadOpen, unresumed,
                   switches, paused, layered, savedAt, home, monVars, machine>>

-----------------------------------------------------------------------------
(***************************************************************************)
(* The monitor.                                                            *)
(***************************************************************************)
Reply(err, row) == [err |-> err, row |-> row]

RunStop  == running' = FALSE /\ UNCHANGED <<layer, slot, loadedBy, damagedBy>>
RunCont  == running' = TRUE /\ UNCHANGED <<layer, slot, loadedBy, damagedBy>>
RunLayer(err) == /\ layer' = (layer \/ ~err)
                 /\ UNCHANGED <<running, slot, loadedBy, damagedBy>>

\* savevm replaces the slot, or fails before or after it dropped the old one.
RunSavevm(err, n) ==
    /\ layer \/ err
    /\ slot' \in IF err THEN (IF layer THEN {slot, 0} ELSE {slot}) ELSE {n}
    /\ UNCHANGED <<running, layer, loadedBy, damagedBy>>

\* loadvm puts the machine back, or fails with or without having begun to.
RunLoadvm(err, n) ==
    /\ slot # 0 \/ err
    /\ damagedBy' \in IF ~err THEN {0} ELSE IF slot = 0 THEN {damagedBy} ELSE {damagedBy, n}
    /\ loadedBy' = IF err THEN loadedBy ELSE n
    /\ UNCHANGED <<running, layer, slot>>

Execute(c, err) ==
    \/ c.cmd = "stop"   /\ ~err /\ RunStop
    \/ c.cmd = "cont"   /\ ~err /\ RunCont
    \/ c.cmd = "layer"  /\ RunLayer(err)
    \/ c.cmd = "savevm" /\ RunSavevm(err, c.op)
    \/ c.cmd = "loadvm" /\ RunLoadvm(err, c.op)
    \/ c.cmd \in {"info", "unknown"} /\ ~err /\ UNCHANGED machine

\* The monitor runs the next command; its reply is on its way.
MonitorRuns ==
    /\ inq # <<>> /\ ~hung
    /\ inq' = Tail(inq)
    /\ \E err \in BOOLEAN :
         /\ Execute(Head(inq), err)
         /\ out' = Append(out, Reply(err, Head(inq).cmd = "info" /\ slot # 0))
    /\ UNCHANGED <<busy, pc, cmd, got, kbd, bracketed, spent, opVars, flags, muxVars, hung>>

\* A reply reaches the console mirror.  What comes while the page is not waiting
\* is before the next t0 and never looked at.
Deliver ==
    /\ out # <<>>
    /\ out' = Tail(out)
    /\ got' = IF pc \in {"muxwait", "wait"}
              THEN [seen |-> TRUE, err |-> got.err \/ Head(out).err,
                    row |-> got.row \/ Head(out).row]
              ELSE got
    /\ UNCHANGED <<busy, pc, cmd, kbd, bracketed, spent, opVars, flags, muxVars, inq,
                   hung, machine>>

MonitorHangs ==
    /\ ~hung /\ Fault("hang")
    /\ hung' = TRUE
    /\ UNCHANGED <<busy, pc, cmd, got, kbd, bracketed, opVars, flags, muxVars, inq, out,
                   machine>>

\* The reply in flight never reaches the mirror.
LoseReply ==
    /\ out # <<>> /\ Fault("lost")
    /\ out' = Tail(out)
    /\ UNCHANGED <<busy, pc, cmd, got, kbd, bracketed, opVars, flags, muxVars, inq, hung,
                   machine>>

(***************************************************************************)
(* The program at the terminal, and the user's keys, which reach the mux   *)
(* only while the terminal has the focus.                                  *)
(***************************************************************************)
ProgramSetsPasteMode ==
    /\ running
    /\ IF pc \in {"muxtype", "backtype"} THEN Fault("race") ELSE UNCHANGED spent
    /\ bracketed' = ~bracketed
    /\ UNCHANGED <<busy, pc, cmd, got, kbd, opVars, flags, muxVars, monVars, machine>>

UserPresses(key) ==
    LET m == MuxKey([side |-> side, held |-> held], key) IN
    /\ kbd
    /\ side' = m.side /\ held' = m.held
    /\ home' = IF m.side = side THEN home ELSE Other(home)
    /\ UNCHANGED <<busy, pc, cmd, got, kbd, bracketed, spent, opVars, flags, monVars,
                   machine>>

PageStep == \/ AskForPrompt \/ PromptCame \/ NoPrompt \/ ResetPaste \/ SwitchIn
            \/ SwitchOut \/ SendCommand \/ Leave \/ Answered \/ TypeResync \/ Resynced

Next == \/ CheckpointStart \/ RollbackStart
        \/ PageStep \/ GiveUp \/ PasteThrows
        \/ MonitorRuns \/ Deliver \/ MonitorHangs \/ LoseReply
        \/ ProgramSetsPasteMode
        \/ \E key \in {"ctrlA", "c", "other"} : UserPresses(key)

Spec == Init /\ [][Next]_vars

\* The page's timers always fire, and a monitor that is not hung works on.
Fairness == /\ WF_vars(PageStep) /\ WF_vars(GiveUp)
            /\ WF_vars(MonitorRuns) /\ WF_vars(Deliver)

FairSpec == Spec /\ Fairness

-----------------------------------------------------------------------------
(***************************************************************************)
(* Properties.                                                             *)
(***************************************************************************)
FlagsTypeOK ==
    /\ busy \in BOOLEAN /\ fin \in BOOLEAN /\ why \in BOOLEAN /\ resumable \in BOOLEAN
    /\ paused \in BOOLEAN /\ unanswered \in BOOLEAN /\ layered \in BOOLEAN
    /\ kbd \in BOOLEAN /\ bracketed \in BOOLEAN /\ held \in BOOLEAN /\ hung \in BOOLEAN
    /\ running \in BOOLEAN /\ layer \in BOOLEAN /\ loadOpen \in BOOLEAN
    /\ unresumed \in BOOLEAN

ValuesTypeOK ==
    /\ op \in {"none", "ckpt", "roll"} /\ opNo \in Nat /\ pc \in Pcs /\ cmd \in Commands
    /\ switches \in {0, 1} /\ savedAt \in Nat /\ outcome \in Outcomes
    /\ side \in Sides /\ home \in Sides
    /\ slot \in Nat /\ loadedBy \in Nat /\ damagedBy \in Nat

QueuesTypeOK ==
    /\ got \in [seen : BOOLEAN, err : BOOLEAN, row : BOOLEAN]
    /\ inq \in Seq([cmd : Commands \cup {"unknown"}, op : Nat])
    /\ out \in Seq([err : BOOLEAN, row : BOOLEAN])
    /\ spent \in [FaultKinds -> Nat]

\* Every variable has its type: replies, commands and page state are in the
\* sets that run(), mux() and the latch of serialfs.js work with.
TypeOK == FlagsTypeOK /\ ValuesTypeOK /\ QueuesTypeOK

\* Nothing has gone wrong that serialfs.js has no answer to.  There are two such things.
\* A program sets bracketed paste between mux()'s look at it and its keys: these then do
\* not switch, and are counted.  And mux() throws on its way out with its Ctrl-A held,
\* after a cont that went unanswered: the finally block's leave() types cont again, whose
\* c completes the Ctrl-A c, and the switch that follows goes back in.  (A cont whose
\* paste throws is as good as an unanswered one: hence no more than two throws.)
Undisturbed == /\ spent["race"] = 0
               /\ spent["throw"] <= 2 /\ (unresumed => spent["throw"] = 0)

\* The page's count of its own Ctrl-A c is the truth about the mux: even means
\* the side the user left it on, odd means the other, through held Ctrl-A keys,
\* bracketed paste and a paste of mux() that throws half way.
MuxWhereFound == Undisturbed => side = (IF switches = 0 THEN home ELSE Other(home))

\* While the page has moved the mux, no key of the user reaches it: blur()
\* comes before the switch, focus() only after the switch back.
KeyboardGuarded == Undisturbed /\ kbd => side = home

\* A second paste that throws, in the finally block of the operation where one
\* threw, leaves the page in the monitor, and the next operation goes out of it.
OneThrow == spent["throw"] <= 1

\* Monitor commands are typed at the monitor, and the two lines for the shell
\* at the serial side, whenever the user left the mux there.
TypedAtRightSide ==
    home = "serial" /\ OneThrow /\ Undisturbed =>
        /\ (pc = "send" => side = "monitor")
        /\ (pc \in {"ask", "sync"} => side = "serial")

\* No answer has come after the page had given up on it: a late one is taken for
\* the answer to the next command.
Punctual == spent["late"] = 0

\* Between operations the page offers a checkpoint only if the slot has one, and
\* one that is no older; and it skips snapshot_blkdev only if the layer is there.
\* (A paste of `info snapshots` that throws can leave savedAt behind.)
PageKnowsMachine ==
    ~busy /\ Punctual /\ spent["throw"] = 0 =>
        /\ (savedAt # 0 => slot >= savedAt)
        /\ (layered => layer)

\* A reported save left this very state in the slot; a reported return loaded
\* the machine in this operation and runs a machine that is whole.
ReportsHold ==
    ~busy /\ Punctual /\ OneThrow =>
        /\ (outcome = "saved" => slot = opNo /\ savedAt = opNo)
        /\ (outcome = "back" => loadedBy = opNo /\ damagedBy = 0)

\* The operation whose loadvm failed part way never lets the machine run on.
NoContAfterFailedLoad == running /\ Punctual => damagedBy = 0 \/ damagedBy # opNo

\* As the comment over the commands has it: never cont after a failed loadvm.
NeverRunsDamaged == running => damagedBy = 0

OneFault == /\ spent["lost"] + spent["late"] + spent["throw"] <= 1
            /\ (unresumed => spent["throw"] = 0)

\* One lost reply, one late one or one paste that throws never leaves the machine
\* stopped by accident: once an operation is over and its commands have run, a
\* stopped machine is one the page knows of, and stopped because a loadvm was sent
\* and none has been cleanly answered since.
StoppedForCause ==
    ~busy /\ ~hung /\ inq = <<>> /\ OneFault => running \/ (paused /\ loadOpen)

\* How far the last operation is, whose finally block is what hands the console back,
\* and how far the n-th.
Stage == IF ~busy THEN "over"
         ELSE IF fin THEN "leave"
         ELSE IF op = "ckpt" /\ pc \in {"ask", "ensure"} THEN "ask" ELSE "work"

StageOf(n) == IF n > opNo THEN "idle" ELSE IF n < opNo THEN "over" ELSE Stage

C == INSTANCE Console WITH Calls <- 1..MaxOps, stage <- [n \in 1..MaxOps |-> StageOf(n)]

\* Whatever the monitor answers or does not, an operation uses the console as Console
\* has it: alone, in order, and every one ends and drops the latch.
UsesConsole == C!Promise
=============================================================================
