------------------------------ MODULE Overlay ------------------------------
(***************************************************************************)
(* The page's public operations (the object web/serialfs.js returns, wired *)
(* to buttons by web/fork/boot.js), the latch they share and the overlay   *)
(* they all paint.                                                         *)
(*                                                                         *)
(* Each call is one click, running from await to await on the page's one   *)
(* thread.  Keys still reach a button behind the overlay, so calls         *)
(* overlap.  What happens at the console is reduced to the order of the    *)
(* phases and to how each ends; Checkpoint and Transfer have the rest.     *)
(* Time is left out: a hide timer that is armed may fire at any later      *)
(* moment, and is never asked to fire before a wait that may be shorter.   *)
(***************************************************************************)
EXTENDS Naturals, FiniteSets

CONSTANTS
    Calls,      \* the clicks of a session
    Kinds,      \* the operations they may ask for
    EmptyFile,  \* may load() find nothing, or an empty file?
    Throwing    \* may a paste, or the write of the browser's copy, throw?

AllKinds == {"save", "download", "load", "checkpoint", "rollback"}

ASSUME OverlayAssumption ==
    /\ Kinds \subseteq AllKinds /\ EmptyFile \in BOOLEAN /\ Throwing \in BOOLEAN
    /\ IsFiniteSet(Calls) /\ Calls # {}

VARIABLES
    kind,     \* what each call asks for
    pc,       \* the await each call is in
    end,      \* how the work of each call ended
    busy,     \* the latch
    astray,   \* a paste that threw on the way out has left the page in the monitor
    shown,    \* the overlay covers the page
    says,     \* the call whose words are on it
    timer,    \* the hide timer that `timer` names is armed
    orphans   \* armed hide timers that nothing names any more

cover == <<shown, says, timer, orphans>>
vars  == <<kind, pc, end, busy, astray, cover>>

Nobody == "nobody"

\* A call is waiting to be clicked, reads its file, waits for a prompt, works at
\* the console, hands it back (in a finally block), writes the browser's copy, or
\* is over.
Pcs     == {"ready", "read", "probe", "move", "recover", "store", "over"}
Holding == {"probe", "move", "recover"}
Exports == {"save", "download"}
Machine == {"checkpoint", "rollback"}

Init ==
    /\ kind \in [Calls -> Kinds]
    /\ pc = [c \in Calls |-> "ready"] /\ end = [c \in Calls |-> "none"]
    /\ busy = FALSE /\ astray = FALSE /\ shown = FALSE /\ says = Nobody /\ timer = FALSE /\ orphans = 0

Goes(c, p) == pc' = [pc EXCEPT ![c] = p] /\ UNCHANGED kind

Ends(c, how) == end' = [end EXCEPT ![c] = how]

(***************************************************************************)
(* The overlay.  show, fail and warn stop the named timer; done only names *)
(* another one.                                                            *)
(***************************************************************************)
OvShow(c) == shown' = TRUE /\ says' = c /\ timer' = FALSE /\ UNCHANGED orphans

\* Mutant of OvFail: the overlay comes up and is never asked to go.
OvFailForgets(c) == OvShow(c)

\* fail and warn.
OvFail(c) == shown' = TRUE /\ says' = c /\ timer' = TRUE /\ UNCHANGED orphans

OvDone(c) == /\ says' = c /\ timer' = TRUE
             /\ orphans' = IF timer THEN orphans + 1 ELSE orphans
             /\ UNCHANGED shown

HideTimer ==
    /\ \/ timer /\ timer' = FALSE /\ UNCHANGED orphans
       \/ orphans > 0 /\ orphans' = orphans - 1 /\ UNCHANGED timer
    /\ shown' = FALSE
    /\ UNCHANGED <<says, kind, pc, end, busy, astray>>
-----------------------------------------------------------------------------
\* All but rollback() ask for a prompt first.
First(c) == IF kind[c] = "rollback" THEN "move" ELSE "probe"

\* Mutant of Take: the latch is not looked at.
TakeAnyway(c) == busy' = TRUE /\ OvShow(c) /\ Goes(c, First(c)) /\ UNCHANGED <<end, astray>>

\* The beginning of exportWork(), importWork(), checkpoint() and rollback(): a
\* second click, or a rollback() with nothing to go back to, goes away without a
\* trace; otherwise the latch is set and the overlay comes up.
Take(c) ==
    /\ \/ /\ busy \/ kind[c] = "rollback"
          /\ Goes(c, "over") /\ UNCHANGED <<busy, cover>>
       \/ /\ ~busy
          /\ busy' = TRUE /\ OvShow(c) /\ Goes(c, First(c))
    /\ UNCHANGED <<end, astray>>

Click(c) ==
    /\ pc[c] = "ready"
    /\ IF kind[c] = "load" THEN Goes(c, "read") /\ UNCHANGED <<end, busy, astray, cover>>
                           ELSE Take(c)

\* load() has its bytes: with none it says so, whoever has the overlay.
FileRead(c) ==
    /\ pc[c] = "read"
    /\ \/ Take(c)
       \/ EmptyFile /\ OvFail(c) /\ Ends(c, "empty") /\ Goes(c, "over")
          /\ UNCHANGED <<busy, astray>>

\* Nothing to hand back; but checkpoint() and rollback() leave the monitor in their
\* finally blocks, if an earlier one has not.
LetGo(c) == IF astray /\ kind[c] \in Machine THEN Goes(c, "recover") /\ UNCHANGED busy
            ELSE Goes(c, "over") /\ busy' = FALSE

\* ensureShell: a prompt, or the end of the call.
Prompted(c) ==
    /\ pc[c] = "probe"
    /\ \/ Goes(c, "move") /\ UNCHANGED <<busy, end, cover>>
       \/ LetGo(c) /\ OvFail(c) /\ Ends(c, "refused")
    /\ UNCHANGED astray

\* exportWork(): a failure is put on the overlay before recover() is awaited.
ExportMoved(c) ==
    /\ pc[c] = "move" /\ kind[c] \in Exports
    /\ \/ Ends(c, "good") /\ UNCHANGED cover
       \/ Ends(c, "bad")  /\ OvFail(c)
    /\ Goes(c, "recover") /\ UNCHANGED <<busy, astray>>

\* Mutant of ImportMoved: the failure is shown from inside, as exportWork does.
ImportMovedShows(c) ==
    /\ pc[c] = "move" /\ kind[c] = "load"
    /\ \/ Ends(c, "good") /\ UNCHANGED cover
       \/ Ends(c, "bad")  /\ OvFail(c)
    /\ Goes(c, "recover") /\ UNCHANGED <<busy, astray>>

\* importWork() only resolves; load() shows it after the console is handed back.
ImportMoved(c) ==
    /\ pc[c] = "move" /\ kind[c] = "load"
    /\ \E how \in {"good", "bad"} : Ends(c, how)
    /\ Goes(c, "recover") /\ UNCHANGED <<busy, astray, cover>>

\* checkpoint() and rollback() have left the monitor before they report, so their
\* finally blocks have nothing to wait for.
MachineMoved(c) ==
    /\ pc[c] = "move" /\ kind[c] \in Machine
    /\ \/ Ends(c, "good") /\ (OvDone(c) \/ OvFail(c))
       \/ Ends(c, "bad")  /\ OvFail(c)
    /\ busy' = FALSE /\ astray' = FALSE /\ Goes(c, "over")

\* A paste throws.  A finally block that throws drops the latch all the same; that of
\* a checkpoint() or rollback() types only if the page is in the monitor, where it
\* then stays.
Throws(c) ==
    /\ Throwing /\ pc[c] \in Holding
    /\ Ends(c, "threw")
    /\ \/ pc[c] = "probe" /\ LetGo(c)
       \/ pc[c] = "move" /\ Goes(c, "recover") /\ UNCHANGED busy
       \/ pc[c] = "recover" /\ Goes(c, "over") /\ busy' = FALSE
    /\ astray' = (astray \/ (pc[c] = "recover" /\ kind[c] \in Machine))
    /\ UNCHANGED cover

\* Mutant of Recovered: a failure returns before the latch is dropped.
RecoveredKeepsLatch(c) ==
    /\ pc[c] = "recover"
    /\ busy' = (end[c] = "bad")
    /\ Goes(c, IF end[c] = "good" /\ kind[c] \in Exports THEN "store" ELSE "over")
    /\ IF kind[c] # "load" \/ end[c] = "threw" THEN UNCHANGED cover
       ELSE OvFail(c) \/ (end[c] = "good" /\ OvDone(c))
    /\ astray' = (astray /\ kind[c] \notin Machine)
    /\ UNCHANGED end

\* Mutant of Recovered: an export reports here as well as when it is stored.
RecoveredReports(c) ==
    /\ pc[c] = "recover"
    /\ busy' = FALSE
    /\ Goes(c, IF end[c] = "good" /\ kind[c] \in Exports THEN "store" ELSE "over")
    /\ IF end[c] # "good" THEN UNCHANGED cover ELSE OvDone(c)
    /\ astray' = (astray /\ kind[c] \notin Machine)
    /\ UNCHANGED end

\* recover() is done and the latch dropped: the archive is stored with the latch
\* free, load() says what came back, and a rejection goes past everything that
\* paints the overlay.
Recovered(c) ==
    /\ pc[c] = "recover"
    /\ busy' = FALSE
    /\ Goes(c, IF end[c] = "good" /\ kind[c] \in Exports THEN "store" ELSE "over")
    /\ IF kind[c] # "load" \/ end[c] = "threw" THEN UNCHANGED cover
       ELSE OvFail(c) \/ (end[c] = "good" /\ OvDone(c))
    /\ astray' = (astray /\ kind[c] \notin Machine)
    /\ UNCHANGED end

\* opfsWrite is done; download() swallows its failure, save() does not.
Stored(c) ==
    /\ pc[c] = "store"
    /\ Goes(c, "over")
    /\ OvDone(c) \/ (Throwing /\ kind[c] = "save" /\ UNCHANGED cover)
    /\ UNCHANGED <<busy, astray, end>>

Step(c) == \/ FileRead(c) \/ Prompted(c) \/ ExportMoved(c) \/ ImportMoved(c)
           \/ MachineMoved(c) \/ Recovered(c) \/ Stored(c)

Over == (\A c \in Calls : pc[c] = "over") /\ ~timer /\ orphans = 0 /\ UNCHANGED vars

Next == (\E c \in Calls : Click(c) \/ Step(c) \/ Throws(c)) \/ HideTimer \/ Over

Spec == Init /\ [][Next]_vars

\* Every await of the page ends (each has its timer), and armed timers fire.
Fairness == (\A c \in Calls : WF_vars(Step(c))) /\ WF_vars(HideTimer)

FairSpec == Spec /\ Fairness
-----------------------------------------------------------------------------
\* Types; and a hide timer that nothing names is left behind by another one, so
\* there are fewer of them than calls that report.
TypeOK ==
    /\ kind \in [Calls -> Kinds] /\ pc \in [Calls -> Pcs]
    /\ end \in [Calls -> {"none", "good", "bad", "threw", "empty", "refused"}]
    /\ busy \in BOOLEAN /\ astray \in BOOLEAN /\ shown \in BOOLEAN /\ says \in Calls \cup {Nobody}
    /\ timer \in BOOLEAN /\ orphans \in 0..(Cardinality(Calls) - 1)

\* The console has one user, and the latch tells: it is set exactly while one call
\* is between its check of `busy` and the end of its finally block, however
\* clicks, files being read, throws and stores overlap.
OneHolder ==
    /\ \A c, d \in Calls : pc[c] \in Holding /\ pc[d] \in Holding => c = d
    /\ busy <=> \E c \in Calls : pc[c] \in Holding

\* "The overlay covers the terminal during a transfer" (the header of serialfs.js):
\* it is up while a call holds the console, whatever timers earlier calls left.
CoveredWhileBusy == busy => shown

\* No export has been asked for, which may report before it hands the console back and
\* reports again with the latch free; and no load() found nothing to restore.
Plain == \A c \in Calls : end[c] # "empty" /\ (kind[c] \in Exports => pc[c] = "ready")

\* So it is, for restores, checkpoints and rollbacks, pastes that throw included; but a
\* checkpoint() that finds no prompt, where the page was left in the monitor, reports
\* first and only then leaves it.
PlainCovered == Plain /\ busy => shown \/ astray

\* "A second click while a transfer is running must not touch the shared overlay"
\* (importWork): the words on it are those of the call that holds the console.
HolderSpeaks == \A c \in Calls : Plain /\ pc[c] \in Holding => says = c

\* "The overlay goes away" (the comment above status()): once nothing runs and no paste
\* threw, it is hidden or something runs again.
Settled == \A c \in Calls : pc[c] \in {"ready", "over"} /\ end[c] # "threw"
CoverGoes == Plain /\ Settled ~> ~shown \/ \E c \in Calls : pc[c] \notin {"ready", "over"}

\* The stage of Console that an await belongs to.
StageAt == [ready |-> "idle", read |-> "idle", probe |-> "ask", move |-> "work",
            recover |-> "leave", store |-> "over", over |-> "over"]
StageOf(c) == StageAt[pc[c]]

C == INSTANCE Console WITH stage <- [c \in Calls |-> StageOf(c)]

\* However the clicks overlap, the calls use the console as Console has it: one at a
\* time, and every one lets it go.
UsesConsole == C!Promise
=============================================================================
