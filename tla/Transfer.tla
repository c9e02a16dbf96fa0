------------------------------ MODULE Transfer ------------------------------
(***************************************************************************)
(* Saving and restoring the user's work over the serial console:           *)
(* exportWork(), importWork(), recover() and ensureShell() of              *)
(* web/serialfs.js, against the guest shell they type into.                *)
(*                                                                         *)
(* The page types one line at a time and waits for the marker that line    *)
(* prints; the guest reads the tty in order.  While head -c N reads, what  *)
(* is typed is payload, not a command.  Bytes may be lost or garbled, a    *)
(* key may be typed in between, a marker may be lost or late, the guest    *)
(* may stop.  An archive is NBlocks payload blocks; its content is reduced *)
(* to whether it is whole, which is what size and cksum tell.              *)
(***************************************************************************)
EXTENDS Naturals, Sequences

CONSTANTS
    NBlocks,   \* payload blocks of the archive being restored
    MaxOps,    \* bound on the operations the user starts
    Budget     \* how many faults of each kind a behaviour may have

FaultKinds == {"noise", "lost", "late", "throw", "hang"}

ASSUME TransferAssumption ==
    /\ NBlocks \in Nat \ {0} /\ MaxOps \in Nat
    /\ Budget \in [FaultKinds -> Nat]

VARIABLES
    \* the page
    busy, op, opNo,
    pc,        \* the wait the operation is in
    blk,       \* the block being sent
    engaged,   \* the operation took the console
    clean,     \* recover() needs no Ctrl-C
    got,       \* markers in the mirror since t0
    result,    \* what the operation resolved to
    \* the guest (external)
    inq,       \* what the tty has received and nobody has read
    out,       \* markers printed and not yet in the mirror
    fg,        \* who reads the tty, or which job runs
    echo,      \* the tty's ECHO flag
    tmp,       \* transfer files lie in /tmp
    file,      \* blocks in /tmp/bw-load.b64; 0 stands for a damaged one
    tgz,       \* the decoded archive: "none", "whole" or "bad"
    work,      \* what this operation's unpack did: "before", "partial", "home", "full"
    stopped,   \* the guest prints and reads nothing any more
    spent

pageVars  == <<busy, op, opNo, pc, blk, engaged, clean, result>>
guestVars == <<fg, echo, tmp, file, tgz, work, stopped>>
vars      == <<pageVars, got, inq, out, guestVars, spent>>

Waits   == {"ensure", "pack", "begin", "ready", "go", "blk", "sum", "verdict"}
Results == {"none", "noprompt", "quiet", "untouched", "unsure", "error", "damaged",
            "bin", "full", "home", "thrown"}
Markers == {"prompt", "PACK", "BEGIN-END", "BEGIN-bad", "ERR", "READY", "GO", "BLK",
            "SUM", "SUM-bad", "OK", "OK-full", "OK-home", "FAIL"}
Lines   == {"enter", "pack", "ready", "block", "sum", "unpack", "restore", "clear"}
Item    == [k : Lines \cup {"payload", "key", "junk", "intr"}, n : 0..NBlocks, q : {"whole", "bad", "short"}]

Line(k) == [k |-> k, n |-> 0, q |-> "whole"]

Init ==
    /\ busy = FALSE /\ op = "none" /\ opNo = 0 /\ pc = "idle" /\ blk = 1
    /\ engaged = FALSE /\ clean = FALSE /\ got = {} /\ result = "none"
    /\ inq = <<>> /\ out = <<>> /\ fg \in {"shell", "program"}
    /\ echo = TRUE /\ tmp = FALSE /\ file = <<>> /\ tgz = "none" /\ work = "before"
    /\ stopped = FALSE /\ spent = [k \in FaultKinds |-> 0]

Fault(k) == /\ spent[k] < Budget[k]
            /\ spent' = [spent EXCEPT ![k] = @ + 1]

\* Nothing more will be printed: the guest has stopped, or whoever reads the
\* tty has at most half a line to read.
OnlyKeys == \A i \in 1..Len(inq) : inq[i].k = "key"
Silent == /\ out = <<>>
          /\ stopped \/ (OnlyKeys /\ fg \in {"shell", "head"}) \/ (inq = <<>> /\ fg \in {"short", "program"})

Unheard == \/ Silent /\ UNCHANGED spent
           \/ ~Silent /\ Fault("late")
-----------------------------------------------------------------------------
(***************************************************************************)
(* The page.  Paste(items) types, and starts a fresh look at the mirror.   *)
(***************************************************************************)
Paste(items) == inq' = inq \o items /\ got' = {}

\* The latch, then ensureShell's Ctrl-U Enter; if that paste throws, nothing is
\* undone and the latch is dropped.
Start(kind) ==
    /\ ~busy /\ opNo < MaxOps
    /\ op' = kind /\ opNo' = opNo + 1
    /\ engaged' = FALSE /\ clean' = FALSE /\ blk' = 1 /\ work' = "before"
    /\ \/ /\ Unheard
          /\ busy' = TRUE /\ result' = "none"
          /\ pc' = "ensure" /\ Paste(<<Line("enter")>>)
       \/ /\ Fault("throw")
          /\ result' = "thrown"
          /\ UNCHANGED <<busy, pc, inq, got>>
    /\ UNCHANGED <<out, fg, echo, tmp, file, tgz, stopped>>

ExportWork == Start("export")
ImportWork == Start("import")

\* The operation resolves to r and its finally block is next; isClean says that
\* the shell is known to be at its prompt.
Finish(r, isClean) ==
    /\ result' = r /\ clean' = isClean
    /\ pc' = "recover"
    /\ UNCHANGED <<busy, op, opNo, blk, engaged, inq, got>>

\* The shell's prompt came: the console is taken.
Engage ==
    /\ pc = "ensure" /\ "prompt" \in got
    /\ engaged' = TRUE
    /\ IF op = "export" THEN pc' = "pack" /\ Paste(<<Line("pack")>>)
                        ELSE pc' = "ready" /\ Paste(<<Line("ready")>>)
    /\ UNCHANGED <<busy, op, opNo, blk, clean, result>>

PackTaken ==
    /\ pc = "pack" /\ "PACK" \in got
    /\ pc' = "begin"
    /\ UNCHANGED <<busy, op, opNo, blk, engaged, clean, result, inq, got>>

\* The archive is in the mirror: atob, size and cksum decide.
Packed ==
    /\ pc = "begin"
    /\ \/ "BEGIN-END" \in got /\ Finish("bin", TRUE)
       \/ "BEGIN-bad" \in got /\ Finish("damaged", FALSE)
       \/ "ERR" \in got /\ Finish("error", FALSE)

SendBlock(n) == /\ blk' = n /\ pc' = "go"
                /\ Paste(<<[Line("block") EXCEPT !.n = n]>>)

Ready ==
    /\ pc = "ready" /\ "READY" \in got
    /\ SendBlock(1)
    /\ UNCHANGED <<busy, op, opNo, engaged, clean, result>>

\* head is reading: the payload goes out, and its markers are looked for from
\* the same t0.
Go ==
    /\ pc = "go" /\ "GO" \in got
    /\ pc' = "blk"
    /\ inq' = Append(inq, [k |-> "payload", n |-> blk, q |-> "whole"])
    /\ UNCHANGED <<busy, op, opNo, blk, engaged, clean, result, got>>

\* Mutant of BlockTaken: one block too many.
BlockTakenTooMany ==
    /\ pc = "blk" /\ "BLK" \in got
    /\ IF blk <= NBlocks THEN SendBlock(blk + 1)
       ELSE pc' = "sum" /\ Paste(<<Line("sum")>>) /\ UNCHANGED blk
    /\ UNCHANGED <<busy, op, opNo, engaged, clean, result>>

BlockTaken ==
    /\ pc = "blk" /\ "BLK" \in got
    /\ IF blk < NBlocks THEN SendBlock(blk + 1)
       ELSE pc' = "sum" /\ Paste(<<Line("sum")>>) /\ UNCHANGED blk
    /\ UNCHANGED <<busy, op, opNo, engaged, clean, result>>

\* Mutant of Summed: the sum is awaited and not compared.
SummedUnchecked ==
    /\ pc = "sum" /\ got \cap {"SUM", "SUM-bad"} # {}
    /\ pc' = "verdict" /\ Paste(<<Line("unpack")>>)
    /\ UNCHANGED <<busy, op, opNo, blk, engaged, clean, result>>

\* The guest's size and cksum of what arrived: only a match is unpacked.
Summed ==
    /\ pc = "sum"
    /\ \/ /\ "SUM" \in got
          /\ pc' = "verdict" /\ Paste(<<Line("unpack")>>)
          /\ UNCHANGED <<busy, op, opNo, blk, engaged, clean, result>>
       \/ "SUM-bad" \in got /\ Finish("untouched", TRUE)

\* Mutant of Verdict: matched on the marker alone.
VerdictEarly ==
    /\ pc = "verdict"
    /\ \/ "OK" \in got /\ "OK-home" \notin got /\ Finish("full", TRUE)
       \/ "OK-home" \in got /\ Finish("home", TRUE)
       \/ "FAIL" \in got /\ Finish("error", FALSE)

\* The verdict, read up to the end of its line.
Verdict ==
    /\ pc = "verdict"
    /\ \/ "OK-full" \in got /\ Finish("full", TRUE)
       \/ "OK-home" \in got /\ Finish("home", TRUE)
       \/ "FAIL" \in got /\ Finish("error", FALSE)

\* Mutant of GiveUpResult: every silence promises that nothing was changed.
GiveUpResultSame == [w \in Waits |-> IF w = "ensure" THEN "noprompt" ELSE "untouched"]

\* What each wait says when it gives up; "untouched" stands for the messages
\* that promise nothing was changed.
GiveUpResult == [ensure |-> "noprompt", pack |-> "quiet", begin |-> "untouched",
                 ready |-> "untouched", go |-> "untouched", blk |-> "untouched",
                 sum |-> "unsure", verdict |-> "unsure"]

\* What would end the wait.
Awaited == [ensure |-> {"prompt"}, pack |-> {"PACK"},
            begin |-> {"BEGIN-END", "BEGIN-bad", "ERR"}, ready |-> {"READY"},
            go |-> {"GO"}, blk |-> {"BLK"}, sum |-> {"SUM", "SUM-bad"},
            verdict |-> {"OK-full", "OK-home", "FAIL"}]

\* Mutant of GiveUp: recover() runs whether or not the console was taken.
GiveUpBlind ==
    /\ pc \in Waits /\ got \cap Awaited[pc] = {}
    /\ Unheard
    /\ Finish(GiveUpResult[pc], FALSE)
    /\ UNCHANGED <<out, guestVars>>

\* Mutant of GiveUp: no timer on a block's acknowledgement.
GiveUpNotBlk ==
    /\ pc \in Waits \ {"blk"} /\ got \cap Awaited[pc] = {}
    /\ Unheard
    /\ IF engaged THEN Finish(GiveUpResult[pc], FALSE)
       ELSE /\ result' = "noprompt" /\ busy' = FALSE /\ pc' = "idle"
            /\ UNCHANGED <<op, opNo, blk, engaged, clean, inq, got>>
    /\ UNCHANGED <<out, guestVars>>

GiveUp ==
    /\ pc \in Waits /\ got \cap Awaited[pc] = {}
    /\ Unheard
    /\ IF engaged THEN Finish(GiveUpResult[pc], FALSE)
       ELSE /\ result' = "noprompt" /\ busy' = FALSE /\ pc' = "idle"
            /\ UNCHANGED <<op, opNo, blk, engaged, clean, inq, got>>
    /\ UNCHANGED <<out, guestVars>>

\* Mutant of Recover: no Ctrl-C before the shell text.
RecoverNoIntr ==
    /\ pc = "recover"
    /\ pc' = "restore" /\ Paste(<<Line("restore"), Line("clear")>>)
    /\ UNCHANGED <<busy, op, opNo, blk, engaged, clean, result>>

\* recover(): Ctrl-C first, unless the shell is known to be at its prompt.
Recover ==
    /\ pc = "recover"
    /\ IF clean THEN pc' = "restore" /\ Paste(<<Line("restore"), Line("clear")>>)
                ELSE pc' = "interrupt" /\ Paste(<<Line("intr"), Line("intr")>>)
    /\ UNCHANGED <<busy, op, opNo, blk, engaged, clean, result>>

\* A prompt or five seconds later, stty echo and rm, and tidy()'s clear.
Restore ==
    /\ pc = "interrupt"
    /\ \/ "prompt" \in got /\ UNCHANGED spent
       \/ "prompt" \notin got /\ Unheard
    /\ pc' = "restore" /\ Paste(<<Line("restore"), Line("clear")>>)
    /\ UNCHANGED <<busy, op, opNo, blk, engaged, clean, result, out, guestVars>>

Tidied ==
    /\ pc = "restore"
    /\ \/ "prompt" \in got /\ UNCHANGED spent
       \/ "prompt" \notin got /\ Unheard
    /\ busy' = FALSE /\ pc' = "idle"
    /\ UNCHANGED <<op, opNo, blk, engaged, clean, result, inq, got, out, guestVars>>

\* A paste throws.  In the protocol, the finally block recovers as after any
\* failure, the console being taken from the first line on; in recover(), the
\* latch is dropped and that is all.
PasteThrows ==
    /\ Fault("throw")
    /\ result' = "thrown"
    /\ \/ /\ pc \in {"ensure", "ready", "go", "blk", "sum"}
          /\ got \cap (Awaited[pc] \ {"SUM-bad"}) # {}
          /\ engaged' = TRUE /\ clean' = FALSE /\ pc' = "recover"
          /\ UNCHANGED busy
       \/ /\ pc \in {"recover", "interrupt"}
          /\ busy' = FALSE /\ pc' = "idle"
          /\ UNCHANGED <<engaged, clean>>
    /\ UNCHANGED <<op, opNo, blk, inq, got, out, guestVars>>

PageStep ==
    /\ Engage \/ PackTaken \/ Packed \/ Ready \/ Go \/ BlockTaken \/ Summed
       \/ Verdict \/ Recover
    /\ UNCHANGED <<out, guestVars, spent>>

-----------------------------------------------------------------------------
(***************************************************************************)
(* The guest: bash at its prompt, head -c reading the tty, the two helpers *)
(* as jobs.  A key before a line spoils the line's first command.          *)
(***************************************************************************)
Say(markers) == out' = out \o markers

\* What bash or head reads next, at i: a key stands before it, or nothing, and a Ctrl-C
\* is not read.
NextAt(i) == /\ inq[i].k \notin {"key", "intr"}
             /\ \A j \in 1..(i - 1) : inq[j].k = "key"

\* bash runs the line x; ok is whether its first command is intact.
RunLine(x, ok) ==
    \/ /\ x.k \in {"enter", "clear", "payload", "junk"}
       /\ Say(<<"prompt">>)
       /\ UNCHANGED <<fg, echo, tmp, file, tgz, work>>
    \/ /\ x.k = "pack"
       /\ echo' = (echo /\ ~ok) /\ tmp' = TRUE /\ fg' = "pack"
       /\ Say(<<"PACK">>)
       /\ UNCHANGED <<file, tgz, work>>
    \/ /\ x.k = "ready"
       /\ echo' = (echo /\ ~ok) /\ tmp' = FALSE /\ file' = <<>> /\ tgz' = "none"
       /\ Say(<<"READY", "prompt">>)
       /\ UNCHANGED <<fg, work>>
    \/ /\ x.k = "block"
       /\ fg' = "head" /\ tmp' = TRUE
       /\ Say(IF ok THEN <<"GO">> ELSE <<>>)
       /\ UNCHANGED <<echo, file, tgz, work>>
    \/ /\ x.k = "sum"
       /\ tgz' = IF ok /\ file = [i \in 1..NBlocks |-> i] THEN "whole" ELSE "bad"
       /\ tmp' = TRUE
       /\ Say(<<IF tgz' = "whole" THEN "SUM" ELSE "SUM-bad", "prompt">>)
       /\ UNCHANGED <<fg, echo, file, work>>
    \/ /\ x.k = "unpack" /\ ok
       /\ fg' = "unpack"
       /\ UNCHANGED <<out, echo, tmp, file, tgz, work>>
    \/ /\ x.k = "unpack" /\ ~ok
       /\ Say(<<"prompt">>)
       /\ UNCHANGED <<fg, echo, tmp, file, tgz, work>>
    \/ /\ x.k = "restore"
       /\ echo' = (echo \/ ok) /\ tmp' = FALSE /\ file' = <<>> /\ tgz' = "none"
       /\ Say(<<"prompt">>)
       /\ UNCHANGED <<fg, work>>

ShellRuns ==
    /\ fg = "shell" /\ ~stopped
    /\ \E i \in 1..Len(inq) :
         /\ NextAt(i)
         /\ RunLine(inq[i], i = 1 \/ inq[i].k = "enter")
         /\ inq' = SubSeq(inq, i + 1, Len(inq))
    /\ UNCHANGED <<pageVars, got, stopped, spent>>

\* head has its N bytes: the block is whole, or damaged on the wire, or a key
\* took the place of a byte and what is left over ends up at the shell.
HeadReads ==
    /\ fg = "head" /\ ~stopped
    /\ \E i \in 1..Len(inq) :
       /\ NextAt(i)
       /\ \/ /\ i = 1 /\ inq[i].k = "payload" /\ inq[i].q = "whole"
             /\ file' = Append(file, inq[i].n)
             /\ inq' = Tail(inq)
             /\ fg' = "shell" /\ Say(<<"BLK", "prompt">>)
          \/ /\ i = 1 /\ inq[i].q = "short"
             /\ fg' = "short" /\ inq' = Tail(inq)
             /\ UNCHANGED <<file, out>>
          \/ /\ i > 1 \/ inq[i].k # "payload" \/ inq[i].q = "bad"
             /\ file' = Append(file, 0)
             /\ inq' = (IF i > 1 THEN <<Line("junk")>> ELSE <<>>) \o SubSeq(inq, i + 1, Len(inq))
             /\ fg' = "shell" /\ Say(<<"BLK", "prompt">>)
    /\ UNCHANGED <<pageVars, got, echo, tmp, tgz, work, stopped, spent>>

\* A block that came up short: the next thing typed completes it.
ShortReads ==
    /\ fg = "short" /\ ~stopped /\ inq # <<>> /\ Head(inq).k # "intr"
    /\ file' = Append(file, 0)
    /\ inq' = (IF Head(inq).k = "key" THEN <<>> ELSE <<Line("junk")>>) \o Tail(inq)
    /\ fg' = "shell" /\ Say(<<"BLK", "prompt">>)
    /\ UNCHANGED <<pageVars, got, echo, tmp, tgz, work, stopped, spent>>

\* bashtion-pack ends; the rest of its line prints the archive, removes the files
\* and turns echo back on.
PackEnds ==
    /\ fg = "pack" /\ ~stopped
    /\ \/ Say(<<"BEGIN-END", "prompt">>) /\ UNCHANGED spent
       \/ Say(<<"BEGIN-bad", "prompt">>) /\ Fault("noise")
       \/ Say(<<"ERR", "prompt">>) /\ UNCHANGED spent
    /\ fg' = "shell" /\ echo' = TRUE /\ tmp' = FALSE
    /\ UNCHANGED <<pageVars, got, inq, file, tgz, work, stopped>>

\* bashtion-unpack ends: all of it, the home directory, or a failure that may
\* have come half way.  Its verdict arrives in pieces.
UnpackEnds ==
    /\ fg = "unpack" /\ ~stopped
    /\ \/ work' = "full" /\ Say(<<"OK", "OK-full", "prompt">>)
       \/ work' = "home" /\ Say(<<"OK", "OK-home", "prompt">>)
       \/ work' \in {work, "partial"} /\ Say(<<"FAIL", "prompt">>)
    /\ fg' = "shell" /\ echo' = TRUE /\ tmp' = FALSE /\ file' = <<>> /\ tgz' = "none"
    /\ UNCHANGED <<pageVars, got, inq, stopped, spent>>

\* Ctrl-C acts as it arrives: it drops what is typed before it, kills the job in
\* front and the rest of its line.
Interrupt ==
    /\ ~stopped
    /\ \E i \in 1..Len(inq) :
         /\ inq[i].k = "intr"
         /\ \A j \in 1..(i - 1) : inq[j].k # "intr"
         /\ inq' = SubSeq(inq, i + 1, Len(inq))
    /\ fg' = "shell"
    /\ work' = IF fg = "unpack" THEN "partial" ELSE work
    /\ Say(<<"prompt">>)
    /\ UNCHANGED <<pageVars, got, echo, tmp, file, tgz, stopped, spent>>

\* A program that owns the terminal takes what is typed; it may end.
ProgramReads ==
    /\ fg = "program" /\ ~stopped /\ inq # <<>> /\ Head(inq).k # "intr"
    /\ inq' = Tail(inq)
    /\ UNCHANGED <<pageVars, got, out, guestVars, spent>>

ProgramEnds ==
    /\ fg = "program" /\ ~stopped
    /\ fg' = "shell" /\ Say(<<"prompt">>)
    /\ UNCHANGED <<pageVars, got, inq, echo, tmp, file, tgz, work, stopped, spent>>

ProgramStarts ==
    /\ ~busy /\ fg = "shell" /\ Silent /\ ~stopped /\ inq = <<>>
    /\ fg' = "program"
    /\ UNCHANGED <<pageVars, got, inq, out, echo, tmp, file, tgz, work, stopped, spent>>

\* Deliver, or lose, what the guest printed.
Deliver ==
    /\ out # <<>>
    /\ out' = Tail(out) /\ got' = got \cup {Head(out)}
    /\ UNCHANGED <<pageVars, inq, guestVars, spent>>

LoseMarker ==
    /\ out # <<>> /\ Fault("lost")
    /\ out' = Tail(out)
    /\ UNCHANGED <<pageVars, got, inq, guestVars>>

\* On the wire to the guest: a payload block is garbled or loses a byte.
Damage ==
    /\ Fault("noise")
    /\ \E i \in 1..Len(inq), q \in {"bad", "short"} :
         /\ inq[i].k = "payload" /\ inq[i].q = "whole"
         /\ inq' = [inq EXCEPT ![i].q = q]
    /\ UNCHANGED <<pageVars, got, out, guestVars>>

\* The user presses a key at the terminal during an operation.
UserKey ==
    /\ busy /\ Fault("noise")
    /\ inq' = Append(inq, Line("key"))
    /\ UNCHANGED <<pageVars, got, out, guestVars>>

GuestStops ==
    /\ ~stopped /\ Fault("hang")
    /\ stopped' = TRUE
    /\ UNCHANGED <<pageVars, got, inq, out, fg, echo, tmp, file, tgz, work>>

GuestStep == \/ ShellRuns \/ HeadReads \/ ShortReads \/ PackEnds \/ UnpackEnds
             \/ Interrupt \/ ProgramReads

Next == \/ ExportWork \/ ImportWork \/ PageStep \/ GiveUp \/ Restore \/ Tidied \/ PasteThrows
        \/ GuestStep \/ Deliver \/ ProgramEnds \/ ProgramStarts
        \/ LoseMarker \/ Damage \/ UserKey \/ GuestStops

Spec == Init /\ [][Next]_vars

\* The page's waits always end; a guest that has not stopped works on.
Fairness == /\ WF_vars(PageStep) /\ WF_vars(GiveUp) /\ WF_vars(Restore) /\ WF_vars(Tidied)
            /\ WF_vars(GuestStep) /\ WF_vars(Deliver)

FairSpec == Spec /\ Fairness
-----------------------------------------------------------------------------
(***************************************************************************)
(* Properties.                                                             *)
(***************************************************************************)
\* Every variable has its type.
TypeOK ==
    /\ busy \in BOOLEAN /\ op \in {"none", "export", "import"} /\ opNo \in 0..MaxOps
    /\ pc \in Waits \cup {"idle", "recover", "interrupt", "restore"} /\ blk \in 1..NBlocks
    /\ engaged \in BOOLEAN /\ clean \in BOOLEAN /\ got \subseteq Markers
    /\ result \in Results
    /\ inq \in Seq(Item) /\ out \in Seq(Markers)
    /\ fg \in {"shell", "program", "head", "short", "pack", "unpack"}
    /\ echo \in BOOLEAN /\ tmp \in BOOLEAN /\ file \in Seq(0..NBlocks)
    /\ tgz \in {"none", "whole", "bad"} /\ work \in {"before", "partial", "home", "full"}
    /\ stopped \in BOOLEAN /\ spent \in [FaultKinds -> Nat]

\* At most one answer has come after the page had given up on it.  (A guest that lags
\* behind wait after wait can run the lines of one transfer during the next.)
OneLate == spent["late"] <= 1

\* bashtion-unpack only ever runs on an archive that arrived whole, whatever
\* was lost, garbled or typed in between, and with one answer too late.
UnpacksOnlyWhole == OneLate /\ fg = "unpack" => tgz = "whole"

\* A message that nothing was changed stays true: no unpack has run for the
\* operation, and none is queued to.
UntouchedIsTrue ==
    OneLate /\ result = "untouched" =>
        /\ work = "before" /\ fg # "unpack"
        /\ \A i \in 1..Len(inq) : inq[i].k # "unpack"

\* What load() tells the user came back is what came back: never "everything"
\* for a restore of the home directory alone.
VerdictIsTrue == OneLate /\ result \in {"full", "home"} => work = result

\* The terminal is handed back as it was found: once an operation is over and
\* the guest has read everything, echo is on, no head -c is left reading the
\* user's keys, and no transfer file is left - after any one fault: a byte or a
\* marker lost, a key typed in between, an answer too late, a paste that throws.
Faults == spent["noise"] + spent["lost"] + spent["late"] + spent["throw"]

HandedBack ==
    ~busy /\ Silent /\ ~stopped /\ Faults <= 1
      => echo /\ ~tmp /\ fg \notin {"head", "short", "pack", "unpack"}

\* The shell's lines are typed only after a prompt answered: a program that
\* owned the terminal throughout gets Ctrl-U Enter and nothing else.
NeverTypesBlind ==
    fg = "program" => \A i \in 1..Len(inq) : inq[i].k \in {"enter", "key"}

\* How far the last operation is, and how far the n-th.
Stage == IF ~busy THEN "over"
         ELSE IF pc = "ensure" THEN "ask"
         ELSE IF pc \in Waits THEN "work" ELSE "leave"

StageOf(n) == IF n > opNo THEN "idle" ELSE IF n < opNo THEN "over" ELSE Stage

C == INSTANCE Console WITH Calls <- 1..MaxOps, stage <- [n \in 1..MaxOps |-> StageOf(n)]

\* Whatever the wire or the guest does, a transfer uses the console as Console has it:
\* alone, in order, and every one ends and drops the latch.
UsesConsole == C!Promise
=============================================================================
