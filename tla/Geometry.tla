------------------------------ MODULE Geometry ------------------------------
(***************************************************************************)
(* The size of the terminal: the page's grid follows the window, and the   *)
(* guest's tty follows the grid, by `stty` lines that the page types at    *)
(* the shell (web/termfit.js makeSync, wired in web/fork/boot.js; the      *)
(* handover line of web/bootscreen.js; resync() of web/serialfs.js).       *)
(*                                                                         *)
(* The page sees the guest only through its model of the screen, which is  *)
(* behind: keys are on their way to the shell, echoes and prompts on their *)
(* way back.  Of the console's operations only what they do to the size is *)
(* kept: a checkpoint remembers it, a rollback puts it back, both re-sync. *)
(***************************************************************************)
EXTENDS Naturals, Sequences

CONSTANTS
    Sizes,       \* shapes of the window
    NoSize,      \* told's null
    MaxResizes,  \* bound on resizes
    MaxKeys,     \* bound on the keys the user types
    MaxOps,      \* bound on console operations
    SlowBoot     \* may the first prompt take more than half an hour?

ASSUME GeometryAssumption ==
    /\ NoSize \notin Sizes
    /\ MaxResizes \in Nat /\ MaxKeys \in Nat /\ MaxOps \in Nat /\ SlowBoot \in BOOLEAN

VARIABLES
    \* the page
    win, grid,     \* the window, and xterm's grid
    settling,      \* settle() is still trying
    resizeTimer,   \* the resize event's 400 ms timer
    retry,         \* makeSync's timer
    told,          \* the size the guest was last told
    booted,        \* the boot screen has handed over
    phase, op,     \* the console operation under way
    \* the guest
    inq,           \* what is typed and not read
    out,           \* what is printed and not on the page's screen
    scr,           \* what the page's screen shows: a prompt, a line, a command's output
    fg,            \* the shell reads the tty, or a command (the boot at first)
    half,          \* readline holds the beginning of a line
    tty,           \* the size the guest believes
    kept,          \* the guest as the checkpoint has it
    \* bounds and history
    resizes, keys, ops,
    unmeasured,    \* the last fit found nothing to measure
    missed         \* a size the page told did not arrive

gridVars  == <<grid, settling, unmeasured>>
pageVars  == <<win, gridVars, resizeTimer, retry, told, booted, phase, op>>
guestVars == <<fg, half, tty, kept>>
counters  == <<resizes, keys, ops>>
vars      == <<pageVars, inq, out, scr, guestVars, counters, missed>>

None     == [none |-> TRUE]
Ops      == {"transfer", "checkpoint", "rollback"}
Phases   == {"none", "asked", "work", "ask", "sync", "syncing"}
Stty(s)  == [k |-> "stty", size |-> s]
Key(k)   == [k |-> k, size |-> NoSize]

Init ==
    /\ win \in Sizes /\ grid \in Sizes /\ tty \in Sizes
    /\ settling = TRUE /\ unmeasured = FALSE /\ resizeTimer = FALSE /\ retry = FALSE /\ told = NoSize
    /\ booted = FALSE /\ phase = "none" /\ op = "transfer"
    /\ inq = <<>> /\ out = <<>> /\ scr = "command" /\ fg = "command" /\ half = FALSE
    /\ kept = None /\ resizes = 0 /\ keys = 0 /\ ops = 0 /\ missed = FALSE

isBusy   == phase # "none"
atPrompt == scr = "prompt"
canSend  == booted /\ ~isBusy /\ atPrompt
-----------------------------------------------------------------------------
(***************************************************************************)
(* The grid and makeSync().                                                *)
(***************************************************************************)
\* Mutant of attempt: a resize made while the console is busy is dropped.
attemptDrops(want) ==
    /\ retry' = FALSE
    /\ IF told # want /\ canSend THEN told' = want /\ inq' = Append(inq, Stty(want))
                                 ELSE UNCHANGED <<told, inq>>

\* attempt(), with the grid at `want`: nothing to tell, or not now, or now.
attempt(want) ==
    IF told = want THEN retry' = FALSE /\ UNCHANGED <<told, inq>>
    ELSE IF ~canSend THEN retry' = TRUE /\ UNCHANGED <<told, inq>>
    ELSE /\ retry' = FALSE /\ told' = want /\ inq' = Append(inq, Stty(want))

\* __fit(): the grid takes the window's shape, if the renderer has a cell to measure
\* it by, which is xterm's own affair.
Fit ==
    \/ grid' = win /\ unmeasured' = FALSE
    \/ UNCHANGED grid /\ unmeasured' = TRUE

\* settle() is over: it has fitted, or given up after its last try.  (Nothing is told:
\* the handover will.)
Settle ==
    /\ settling /\ settling' = FALSE
    /\ Fit
    /\ UNCHANGED <<win, resizeTimer, retry, told, booted, phase, op, inq, out, scr,
                   guestVars, counters, missed>>

WindowResizes ==
    /\ resizes < MaxResizes /\ resizes' = resizes + 1
    /\ win' \in Sizes \ {win}
    /\ resizeTimer' = TRUE
    /\ UNCHANGED <<gridVars, retry, told, booted, phase, op, inq, out, scr,
                   guestVars, keys, ops, missed>>

\* 400 ms after the last resize: fit, and request().
ResizeTimer ==
    /\ resizeTimer
    /\ resizeTimer' = FALSE
    /\ Fit /\ attempt(grid')
    /\ UNCHANGED <<win, settling, booted, phase, op, out, scr, guestVars, counters, missed>>

Retry ==
    /\ retry
    /\ attempt(grid)
    /\ UNCHANGED <<win, gridVars, resizeTimer, booted, phase, op, out, scr,
                   guestVars, counters, missed>>
-----------------------------------------------------------------------------
(***************************************************************************)
(* The boot screen, and the console's operations.                          *)
(***************************************************************************)
\* (settle() is over, one way or the other, long before the guest can show a prompt.)
HandOver == ~booted /\ ~settling /\ (atPrompt \/ SlowBoot)

\* Mutant of Reveal: the size last told, not the grid's.
RevealTold ==
    /\ HandOver
    /\ booted' = TRUE
    /\ told' = grid /\ inq' = Append(inq, Stty(told))
    /\ UNCHANGED <<win, gridVars, resizeTimer, retry, phase, op, out, scr,
                   guestVars, counters, missed>>

\* reveal(), at a prompt or after half an hour without one: the handover line
\* tells the size, and told is seeded with it.
Reveal ==
    /\ HandOver
    /\ booted' = TRUE
    /\ told' = grid /\ inq' = Append(inq, Stty(grid))
    /\ UNCHANGED <<win, gridVars, resizeTimer, retry, phase, op, out, scr,
                   guestVars, counters, missed>>

\* A click; all but rollback() type Ctrl-U Enter and wait for a prompt.
Operate(k) ==
    /\ booted /\ ~isBusy /\ ops < MaxOps /\ ops' = ops + 1
    /\ k = "rollback" => kept # None
    /\ op' = k
    /\ IF k = "rollback" THEN phase' = "work" /\ UNCHANGED inq
                         ELSE phase' = "asked" /\ inq' = Append(inq, Key("kill"))
    /\ UNCHANGED <<win, gridVars, resizeTimer, retry, told, booted, out, scr,
                   guestVars, resizes, keys, missed>>

\* The first question for a prompt: answered, or the end of the operation.
Asked ==
    /\ phase = "asked"
    /\ \/ atPrompt /\ phase' = "work"
       \/ phase' = "none"
    /\ UNCHANGED <<win, gridVars, resizeTimer, retry, told, booted, op, inq, out,
                   scr, guestVars, counters, missed>>

\* A transfer hands the console back; a checkpoint keeps the guest; a rollback puts
\* it back as it was, its tty included, and asks for the prompt it was taken at.
Work ==
    /\ phase = "work"
    /\ \/ /\ op = "transfer" /\ phase' = "none"
          /\ UNCHANGED <<inq, guestVars>>
       \/ /\ op = "checkpoint" /\ phase' = "sync"
          /\ kept' = [fg |-> fg, half |-> half, tty |-> tty]
          /\ UNCHANGED <<inq, fg, half, tty>>
       \/ /\ op = "rollback" /\ phase' = "ask"
          /\ fg' = kept.fg /\ half' = kept.half /\ tty' = kept.tty
          /\ inq' = <<Key("kill")>>
          /\ UNCHANGED kept
    /\ UNCHANGED <<win, gridVars, resizeTimer, retry, told, booted, op, out, scr,
                   counters, missed>>

\* With no prompt the re-sync is not typed.
AskedBack ==
    /\ phase = "ask"
    /\ \/ atPrompt /\ phase' = "sync" /\ UNCHANGED missed
       \/ phase' = "none" /\ missed' = TRUE
    /\ UNCHANGED <<win, gridVars, resizeTimer, retry, told, booted, op, inq, out,
                   scr, guestVars, counters>>

\* Mutant of Resync: told is not seeded.
ResyncUnseeded ==
    /\ phase = "sync" /\ phase' = "syncing"
    /\ inq' = Append(inq, Stty(grid))
    /\ UNCHANGED <<win, gridVars, resizeTimer, retry, told, booted, op, out, scr,
                   guestVars, counters, missed>>

\* resync(): the line carries the grid's size, and told is seeded with it.
Resync ==
    /\ phase = "sync" /\ phase' = "syncing"
    /\ told' = grid /\ inq' = Append(inq, Stty(grid))
    /\ UNCHANGED <<win, gridVars, resizeTimer, retry, booted, op, out, scr,
                   guestVars, counters, missed>>

\* It ran, or the wait gave up: the latch is dropped either way.
Resynced ==
    /\ phase = "syncing" /\ phase' = "none"
    /\ UNCHANGED <<win, gridVars, resizeTimer, retry, told, booted, op, inq, out,
                   scr, guestVars, counters, missed>>
-----------------------------------------------------------------------------
(***************************************************************************)
(* The guest, and the user's keys.                                         *)
(***************************************************************************)
UserTypes(k) ==
    /\ booted /\ ~isBusy /\ keys < MaxKeys /\ keys' = keys + 1
    /\ inq' = Append(inq, Key(k))
    /\ UNCHANGED <<pageVars, out, scr, guestVars, resizes, ops, missed>>

\* The shell reads: a character begins a line, Enter runs it, Ctrl-U Enter drops
\* it, and a line of the page runs, unless it became the end of another one.
ShellReads ==
    /\ fg = "shell" /\ inq # <<>>
    /\ inq' = Tail(inq)
    /\ LET i == Head(inq) IN
       /\ half' = (i.k = "char")
       /\ fg' = IF half /\ i.k = "enter" THEN "command" ELSE "shell"
       /\ out' = Append(out, IF i.k = "char" THEN "line" ELSE
                             IF half /\ i.k = "enter" THEN "command" ELSE "prompt")
       /\ tty' = IF i.k = "stty" /\ ~half THEN i.size ELSE tty
       /\ missed' = (missed \/ (i.k = "stty" /\ half))
    /\ UNCHANGED <<pageVars, scr, kept, counters>>

\* A program reads what was meant for the shell.
CommandReads ==
    /\ fg = "command" /\ inq # <<>>
    /\ inq' = Tail(inq)
    /\ missed' = (missed \/ Head(inq).k = "stty")
    /\ UNCHANGED <<pageVars, out, scr, guestVars, counters>>

CommandEnds ==
    /\ fg = "command"
    /\ fg' = "shell" /\ half' = FALSE
    /\ out' = Append(out, "prompt")
    /\ UNCHANGED <<pageVars, inq, scr, tty, kept, counters, missed>>

Deliver ==
    /\ out # <<>>
    /\ scr' = Head(out) /\ out' = Tail(out)
    /\ UNCHANGED <<pageVars, inq, guestVars, counters, missed>>

OpStep == Asked \/ Work \/ AskedBack \/ Resync \/ Resynced

Next ==
    \/ Settle \/ WindowResizes \/ ResizeTimer \/ Retry \/ Reveal
    \/ \E k \in Ops : Operate(k)
    \/ OpStep
    \/ \E k \in {"char", "enter"} : UserTypes(k)
    \/ ShellReads \/ CommandReads \/ CommandEnds \/ Deliver

Spec == Init /\ [][Next]_vars

\* Timers fire, waits end, and the shell and the mirror work on.
Fairness == /\ WF_vars(ResizeTimer) /\ WF_vars(Retry) /\ WF_vars(Settle) /\ WF_vars(Reveal)
            /\ WF_vars(OpStep) /\ WF_vars(ShellReads) /\ WF_vars(Deliver)

FairSpec == Spec /\ Fairness
-----------------------------------------------------------------------------
\* Types.
TypeOK ==
    /\ win \in Sizes /\ grid \in Sizes /\ tty \in Sizes /\ told \in Sizes \cup {NoSize}
    /\ settling \in BOOLEAN /\ unmeasured \in BOOLEAN /\ resizeTimer \in BOOLEAN /\ retry \in BOOLEAN
    /\ booted \in BOOLEAN /\ phase \in Phases /\ op \in Ops
    /\ inq \in Seq([k : {"stty", "kill", "char", "enter"}, size : Sizes \cup {NoSize}])
    /\ out \in Seq({"prompt", "line", "command"}) /\ scr \in {"prompt", "line", "command"}
    /\ fg \in {"shell", "command"} /\ half \in BOOLEAN /\ missed \in BOOLEAN
    /\ kept = None \/ kept \in [fg : {"shell", "command"}, half : BOOLEAN, tty : Sizes]

\* The page knows what the guest believes: with nothing on its way and no line
\* missed, told is the tty's size, through boots, resizes, checkpoints and
\* rollbacks, which put an old size back (makeSync's told and seed()).
ToldIsTrue ==
    ~isBusy /\ inq = <<>> /\ ~missed /\ told # NoSize => tty = told

\* "A resize made during either cannot just be dropped" (boot.js): once the console
\* stays at its prompt, the guest has the grid's shape, unless a line the page typed
\* was missed, and the grid has the window's, unless the last fit, of settle() or of
\* the last resize, found nothing to measure.
AtPromptForGood == <>[](canSend /\ fg = "shell")

Converges ==
    AtPromptForGood => /\ <>[](missed \/ tty = grid)
                       /\ <>[](unmeasured \/ grid = win)

\* "Keep the guest's idea of the terminal in step with the page's, retrying until it
\* actually lands" (makeSync).
Lands == AtPromptForGood => <>[](tty = grid)
=============================================================================
