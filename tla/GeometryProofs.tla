--------------------------- MODULE GeometryProofs ---------------------------
(***************************************************************************)
(* Proofs about Geometry, for any shapes of the window and any number of   *)
(* resizes, keys and operations: what the page takes for the size of the   *)
(* guest's tty is its size, or what is on its way to it.                   *)
(***************************************************************************)
EXTENDS Geometry, SequenceTheorems, TLAPS

Items == [k : {"stty", "kill", "char", "enter"}, size : Sizes \cup {NoSize}]
Shown == {"prompt", "line", "command"}
Saved == [fg : {"shell", "command"}, half : BOOLEAN, tty : Sizes]

\* A line that tells a size has one; and a rollback asks for no prompt before it, and
\* has a guest to put back.
LinesInv == \A i \in 1..Len(inq) : inq[i].k = "stty" => inq[i].size \in Sizes

KeptInv == op = "rollback" => phase # "asked" /\ (phase = "work" => kept # None)

IInv == TypeOK /\ LinesInv /\ KeptInv

LEMMA SttyIsItem == \A s \in Sizes : /\ Stty(s) \in Items
                                    /\ Stty(s).k = "stty" /\ Stty(s).size = s
  BY DEF Stty, Items

LEMMA KeyIsItem == \A c \in {"kill", "char", "enter"} : Key(c) \in Items /\ Key(c).k # "stty"
  BY DEF Key, Items

\* An item more, and one less.
LEMMA LinesAppend ==
    ASSUME LinesInv, inq \in Seq(Items), NEW x \in Items, x.k = "stty" => x.size \in Sizes,
           inq' = Append(inq, x)
    PROVE  LinesInv' /\ inq' \in Seq(Items)
  <1>1. inq' \in Seq(Items) /\ Len(inq') = Len(inq) + 1 /\ Len(inq) \in Nat
    BY AppendProperties
  <1>2. \A i \in 1..Len(inq') : inq'[i] = IF i <= Len(inq) THEN inq[i] ELSE x
    BY AppendProperties
  <1> QED BY <1>1, <1>2 DEF LinesInv

LEMMA LinesTail ==
    ASSUME LinesInv, inq \in Seq(Items), inq # <<>>, inq' = Tail(inq)
    PROVE  /\ LinesInv' /\ inq' \in Seq(Items)
           /\ Head(inq) \in Items /\ (Head(inq).k = "stty" => Head(inq).size \in Sizes)
  <1>1. /\ Len(inq) \in Nat \ {0} /\ Head(inq) = inq[1]
        /\ inq' \in Seq(Items) /\ Len(inq') = Len(inq) - 1
        /\ \A i \in 1..Len(inq') : inq'[i] = inq[i + 1]
    BY HeadTailProperties, EmptySeq
  <1>2. \A i \in 1..Len(inq') : i + 1 \in 1..Len(inq)
    BY <1>1
  <1>3. 1 \in 1..Len(inq) /\ inq[1] \in Items
    BY <1>1
  <1> QED BY <1>1, <1>2, <1>3 DEF LinesInv

\* What the steps that type a size do to the queue.
LEMMA AttemptTypes ==
    ASSUME IInv, NEW want \in Sizes, attempt(want)
    PROVE  /\ retry' \in BOOLEAN /\ told' \in Sizes \cup {NoSize}
           /\ LinesInv' /\ inq' \in Seq(Items)
  <1>1. CASE UNCHANGED <<told, inq>>
    BY <1>1 DEF attempt, IInv, TypeOK, LinesInv, Items
  <1>2. CASE told' = want /\ inq' = Append(inq, Stty(want))
    <2>1. LinesInv' /\ inq' \in Seq(Items)
      BY <1>2, LinesAppend, SttyIsItem DEF IInv, TypeOK, Items
    <2> QED BY <1>2, <2>1 DEF attempt
  <1> QED BY <1>1, <1>2 DEF attempt

\* The grid is the window's, or stays.
LEMMA FitTypes == ASSUME TypeOK, Fit PROVE grid' \in Sizes /\ unmeasured' \in BOOLEAN
  BY DEF TypeOK, Fit

LEMMA GeometryInit == Init => IInv
  <1> SUFFICES ASSUME Init PROVE IInv
    OBVIOUS
  <1>1. TypeOK
    <2>1. inq \in Seq(Items) /\ out \in Seq(Shown)
      BY DEF Init
    <2>2. told \in Sizes \cup {NoSize} /\ kept = None /\ phase \in Phases /\ op \in Ops
      BY DEF Init, Phases, Ops
    <2>3. /\ settling \in BOOLEAN /\ unmeasured \in BOOLEAN
          /\ resizeTimer \in BOOLEAN /\ retry \in BOOLEAN
          /\ booted \in BOOLEAN /\ half \in BOOLEAN /\ missed \in BOOLEAN
      BY DEF Init
    <2>4. scr \in Shown /\ fg \in {"shell", "command"} /\ win \in Sizes /\ grid \in Sizes /\ tty \in Sizes
      BY DEF Init, Shown
    <2> QED BY <2>1, <2>2, <2>3, <2>4 DEF TypeOK, Items, Shown
  <1>2. LinesInv
    <2>1. Len(inq) = 0
      BY DEF Init
    <2> QED BY <2>1 DEF LinesInv
  <1>3. KeptInv
    BY DEF Init, KeptInv
  <1> QED BY <1>1, <1>2, <1>3 DEF IInv

\* The page's timers, the boot's end, and what a click sets off.
LEMMA PageKeeps ==
    ASSUME IInv, \/ Settle \/ WindowResizes \/ ResizeTimer \/ Retry \/ Reveal
                 \/ \E k \in Ops : Operate(k)
                 \/ OpStep
    PROVE  IInv'
<1> USE DEF IInv
<1>1. CASE Settle \/ WindowResizes
  <2>1. UNCHANGED <<inq, phase, op, kept>>
    BY <1>1 DEF Settle, WindowResizes, gridVars, guestVars
  <2>2. LinesInv' /\ KeptInv'
    BY <2>1 DEF LinesInv, KeptInv
  <2>3. /\ grid' \in Sizes /\ unmeasured' \in BOOLEAN /\ settling' \in BOOLEAN
        /\ win' \in Sizes /\ resizeTimer' \in BOOLEAN
    <3>1. CASE Settle
      BY <3>1, FitTypes DEF Settle, TypeOK
    <3>2. CASE WindowResizes
      BY <3>2 DEF WindowResizes, gridVars, TypeOK
    <3> QED BY <1>1, <3>1, <3>2
  <2>4. UNCHANGED <<retry, told, booted, phase, op, inq, out, scr, fg, half, tty, kept, missed>>
    BY <1>1 DEF Settle, WindowResizes, guestVars
  <2>5. TypeOK'
    BY <2>3, <2>4 DEF TypeOK
  <2> QED BY <2>2, <2>5
<1>2. CASE ResizeTimer \/ Retry
  <2>g. grid' \in Sizes /\ unmeasured' \in BOOLEAN
    BY <1>2, FitTypes DEF ResizeTimer, Retry, gridVars, TypeOK
  <2>1. /\ retry' \in BOOLEAN /\ told' \in Sizes \cup {NoSize}
        /\ LinesInv' /\ inq' \in Seq(Items)
    <3>1. grid \in Sizes
      BY DEF TypeOK
    <3>2. attempt(grid) \/ attempt(grid')
      BY <1>2 DEF ResizeTimer, Retry
    <3> QED BY <2>g, <3>1, <3>2, AttemptTypes
  <2>2. /\ resizeTimer' \in BOOLEAN
        /\ UNCHANGED <<win, settling, booted, phase, op, out, scr, fg, half, tty, kept, missed>>
    BY <1>2 DEF ResizeTimer, Retry, gridVars, guestVars, TypeOK
  <2> QED BY <2>g, <2>1, <2>2 DEF TypeOK, KeptInv, Items
<1>3. CASE Reveal \/ Resync
  <2>1. told' = grid /\ inq' = Append(inq, Stty(grid)) /\ grid \in Sizes
    BY <1>3 DEF Reveal, Resync, gridVars, TypeOK
  <2>2. LinesInv' /\ inq' \in Seq(Items)
    BY <2>1, SttyIsItem, LinesAppend DEF TypeOK, Items
  <2>3. /\ booted' \in BOOLEAN /\ phase' \in Phases /\ phase' \in {phase, "syncing"}
        /\ UNCHANGED <<win, grid, settling, unmeasured, resizeTimer, retry, op, out, scr, fg,
                       half, tty, kept, missed>>
    BY <1>3 DEF Reveal, Resync, gridVars, guestVars, TypeOK, Phases
  <2> QED BY <2>1, <2>2, <2>3 DEF TypeOK, KeptInv, Items
<1>4. ASSUME NEW k \in Ops, Operate(k) PROVE IInv'
  <2>1. LinesInv' /\ inq' \in Seq(Items)
    <3>1. CASE UNCHANGED inq
      BY <3>1 DEF TypeOK, LinesInv, Items
    <3>2. CASE inq' = Append(inq, Key("kill"))
      BY <3>2, KeyIsItem, LinesAppend DEF TypeOK, Items
    <3> QED BY <1>4, <3>1, <3>2 DEF Operate, gridVars
  <2>2. /\ phase' \in Phases /\ op' = k
        /\ (k = "rollback" => phase' = "work" /\ kept # None)
        /\ UNCHANGED <<win, grid, settling, unmeasured, resizeTimer, retry, told, booted, out,
                       scr, fg, half, tty, kept, missed>>
    BY <1>4 DEF Operate, gridVars, guestVars, Phases
  <2> QED BY <2>1, <2>2 DEF TypeOK, KeptInv, Items
<1>5. CASE Asked
  <2>1. phase' \in {"work", "none"} /\ phase = "asked"
    BY <1>5 DEF Asked, gridVars
  <2>2. UNCHANGED <<inq, op, kept>>
    BY <1>5 DEF Asked, gridVars, guestVars
  <2>3. LinesInv' /\ KeptInv'
    BY <2>1, <2>2 DEF LinesInv, KeptInv
  <2>4. TypeOK'
    BY <1>5, <2>1 DEF Asked, gridVars, TypeOK, guestVars, Phases
  <2> QED BY <2>3, <2>4
<1>6. CASE AskedBack \/ Resynced
  <2>1. UNCHANGED <<inq, op, kept>> /\ phase' \in {"sync", "none"}
    BY <1>6 DEF AskedBack, Resynced, gridVars, guestVars
  <2>2. LinesInv' /\ KeptInv'
    BY <2>1 DEF LinesInv, KeptInv
  <2>3. TypeOK'
    <3>1. missed' \in BOOLEAN
      BY <1>6 DEF AskedBack, Resynced, gridVars, TypeOK
    <3> QED BY <1>6, <2>1, <3>1 DEF AskedBack, Resynced, gridVars, TypeOK, guestVars, Phases
  <2> QED BY <2>2, <2>3
<1>7. CASE Work
  <2>1. CASE op = "rollback"
    <3>1. kept \in Saved
      BY <1>7, <2>1 DEF Work, gridVars, KeptInv, TypeOK, Saved
    <3>2. fg' = kept.fg /\ half' = kept.half /\ tty' = kept.tty /\ inq' = <<Key("kill")>>
          /\ phase' = "ask" /\ UNCHANGED kept
      BY <1>7, <2>1 DEF Work, gridVars
    <3>3. <<Key("kill")>> \in Seq(Items) /\ Len(<<Key("kill")>>) = 1 /\ <<Key("kill")>>[1] = Key("kill")
      BY KeyIsItem
    <3>4. LinesInv' /\ inq' \in Seq(Items)
      BY <3>2, <3>3, KeyIsItem DEF LinesInv
    <3>5. fg' \in {"shell", "command"} /\ half' \in BOOLEAN /\ tty' \in Sizes
      BY <3>1, <3>2 DEF Saved
    <3> QED BY <1>7, <3>2, <3>4, <3>5 DEF Work, gridVars, TypeOK, KeptInv, Items, Phases
  <2>2. CASE op = "checkpoint"
    <3>1. kept' = [fg |-> fg, half |-> half, tty |-> tty] /\ phase' = "sync"
          /\ UNCHANGED <<inq, fg, half, tty>>
      BY <1>7, <2>2 DEF Work, gridVars
    <3>2. kept' \in Saved
      BY <3>1 DEF Saved, TypeOK
    <3> QED BY <1>7, <3>1, <3>2 DEF Work, gridVars, TypeOK, KeptInv, LinesInv, Phases, Saved
  <2>3. CASE op = "transfer"
    BY <1>7, <2>3 DEF Work, gridVars, TypeOK, KeptInv, LinesInv, guestVars, Phases
  <2> QED BY <1>7, <2>1, <2>2, <2>3 DEF Work, gridVars
<1> QED BY <1>1, <1>2, <1>3, <1>4, <1>5, <1>6, <1>7 DEF OpStep

\* The user's keys, the guest and the mirror.
LEMMA GuestKeeps ==
    ASSUME IInv, \/ \E k \in {"char", "enter"} : UserTypes(k)
                 \/ ShellReads \/ CommandReads \/ CommandEnds \/ Deliver
    PROVE  IInv'
<1> USE DEF IInv
<1>p. UNCHANGED <<pageVars, kept>>
  BY DEF UserTypes, ShellReads, CommandReads, CommandEnds, Deliver, guestVars
<1>q. KeptInv'
  BY <1>p DEF KeptInv, pageVars
<1>a. inq \in Seq(Items) /\ out \in Seq(Shown)
  BY DEF TypeOK, Items, Shown
<1>t. ASSUME /\ inq' \in Seq(Items) /\ out' \in Seq(Shown) /\ scr' \in Shown
             /\ fg' \in {"shell", "command"} /\ half' \in BOOLEAN /\ tty' \in Sizes
             /\ missed' \in BOOLEAN
      PROVE  TypeOK'
  BY <1>p, <1>t DEF TypeOK, pageVars, gridVars, Items, Shown
<1>1. ASSUME NEW k \in {"char", "enter"}, UserTypes(k) PROVE IInv'
  <2>1. inq' = Append(inq, Key(k)) /\ UNCHANGED <<out, scr, fg, half, tty, missed>>
    BY <1>1 DEF UserTypes, guestVars
  <2>2. LinesInv' /\ inq' \in Seq(Items)
    BY <1>a, <2>1, KeyIsItem, LinesAppend
  <2>3. TypeOK'
    BY <1>a, <1>t, <2>1, <2>2 DEF TypeOK, Shown
  <2> QED BY <1>q, <2>2, <2>3
<1>2. CASE ShellReads \/ CommandReads
  <2>1. inq' = Tail(inq) /\ inq # <<>> /\ UNCHANGED scr
    BY <1>2 DEF ShellReads, CommandReads
  <2>2. LinesInv' /\ inq' \in Seq(Items) /\ Head(inq) \in Items
        /\ (Head(inq).k = "stty" => Head(inq).size \in Sizes)
    BY <1>a, <2>1, LinesTail
  <2>3. tty' \in Sizes
    BY <1>2, <2>2 DEF ShellReads, CommandReads, TypeOK, guestVars
  <2>4. fg' \in {"shell", "command"} /\ out' \in Seq(Shown)
    <3>1. CASE CommandReads
      BY <1>a, <3>1 DEF CommandReads, TypeOK, guestVars
    <3>2. CASE ShellReads
      <4>1. \E x \in Shown : out' = Append(out, x)
        BY <3>2 DEF ShellReads, Shown
      <4>2. out' \in Seq(Shown)
        BY <1>a, <4>1, AppendProperties
      <4> QED BY <3>2, <4>2 DEF ShellReads
    <3> QED BY <1>2, <3>1, <3>2
  <2>5. half' \in BOOLEAN /\ missed' \in BOOLEAN
    BY <1>2 DEF ShellReads, CommandReads, TypeOK, guestVars
  <2>6. TypeOK'
    BY <1>t, <2>1, <2>2, <2>3, <2>4, <2>5 DEF TypeOK, Shown
  <2> QED BY <1>q, <2>2, <2>6
<1>3. CASE CommandEnds \/ Deliver
  <2>1. UNCHANGED <<inq, tty, missed>> /\ fg' \in {"shell", "command"} /\ half' \in BOOLEAN
    BY <1>3 DEF CommandEnds, Deliver, guestVars, TypeOK
  <2>2. out' \in Seq(Shown) /\ scr' \in Shown
    <3>1. CASE CommandEnds
      <4>1. "prompt" \in Shown /\ out' = Append(out, "prompt") /\ scr' = scr
        BY <3>1 DEF CommandEnds, Shown
      <4> QED BY <1>a, <4>1, AppendProperties DEF TypeOK, Shown
    <3>2. CASE Deliver
      BY <1>a, <3>2, HeadTailProperties DEF Deliver
    <3> QED BY <1>3, <3>1, <3>2
  <2>3. TypeOK' /\ LinesInv'
    BY <1>a, <1>t, <2>1, <2>2 DEF TypeOK, LinesInv
  <2> QED BY <1>q, <2>3
<1> QED BY <1>1, <1>2, <1>3

LEMMA GeometryNext == IInv /\ [Next]_vars => IInv'
<1>1. ASSUME IInv, UNCHANGED vars PROVE IInv'
  BY <1>1 DEF vars, gridVars, pageVars, guestVars, IInv, TypeOK, LinesInv, KeptInv
<1> QED BY <1>1, PageKeeps, GuestKeeps DEF Next

\* The page's and the guest's state have their types at every size and bound: what
\* makeSync and the console's operations in web/termfit.js and web/fork/boot.js type,
\* and what a rollback puts back.
THEOREM GeometryTypes == Spec => []TypeOK
<1>1. IInv => TypeOK
  BY DEF IInv
<1> QED BY GeometryInit, GeometryNext, <1>1, PTL DEF Spec
-----------------------------------------------------------------------------
\* The last line that tells a size.
Last(i) == /\ i \in 1..Len(inq) /\ inq[i].k = "stty"
           /\ \A j \in 1..Len(inq) : j > i => inq[j].k # "stty"

\* What the page believes is what the guest will, with everything read that is typed.
Current == /\ \A i \in 1..Len(inq) : Last(i) => inq[i].size = told
           /\ (\A i \in 1..Len(inq) : inq[i].k # "stty") => tty = told

\* A rollback has put an old guest back, and the re-sync is yet to be typed.
Restoring == op = "rollback" /\ phase \in {"ask", "sync"}

ToldInv ==
    /\ phase = "ask" => op = "rollback"
    /\ missed \/ told = NoSize \/ Restoring \/ Current

\* A line with the size that is told.
LEMMA TellsLast ==
    ASSUME inq \in Seq(Items), NEW s \in Sizes, inq' = Append(inq, Stty(s)), told' = s
    PROVE  Current'
<1> DEFINE n == Len(inq) + 1
<1>1. /\ Len(inq) \in Nat /\ Len(inq') = n
      /\ inq'[n] = Stty(s) /\ Stty(s).k = "stty" /\ Stty(s).size = s
  BY SttyIsItem, AppendProperties
<1>2. n \in 1..Len(inq')
  BY <1>1
<1>3. ASSUME NEW i \in 1..Len(inq'), Last(i)' PROVE i = n
  <2>1. ~(n > i)
    BY <1>1, <1>2, <1>3 DEF Last
  <2> QED BY <1>1, <2>1
<1>4. \A i \in 1..Len(inq') : Last(i)' => inq'[i].size = told'
  BY <1>1, <1>3
<1>5. ~(\A i \in 1..Len(inq') : inq'[i].k # "stty")
  BY <1>1, <1>2
<1> QED BY <1>4, <1>5 DEF Current

\* A key more changes nothing.
LEMMA KeyTellsNothing ==
    ASSUME inq \in Seq(Items), Current, NEW c \in {"kill", "char", "enter"},
           inq' = Append(inq, Key(c)), UNCHANGED <<told, tty>>
    PROVE  Current'
<1> DEFINE n == Len(inq) + 1
<1>1. /\ Len(inq) \in Nat /\ Len(inq') = n /\ inq'[n] = Key(c) /\ Key(c).k # "stty"
      /\ \A i \in 1..Len(inq) : inq'[i] = inq[i]
  BY KeyIsItem, AppendProperties
<1>2. \A i \in 1..Len(inq') : i = n \/ i \in 1..Len(inq)
  BY <1>1
<1>3. \A i \in 1..Len(inq) : i \in 1..Len(inq')
  BY <1>1
<1>4. ASSUME NEW i \in 1..Len(inq'), Last(i)' PROVE inq'[i].size = told'
  <2>1. i \in 1..Len(inq)
    BY <1>1, <1>2, <1>4 DEF Last
  <2>2. Last(i)
    BY <1>1, <1>3, <1>4, <2>1 DEF Last
  <2> QED BY <1>1, <2>1, <2>2 DEF Current
<1>5. ASSUME \A i \in 1..Len(inq') : inq'[i].k # "stty" PROVE tty' = told'
  <2>1. \A i \in 1..Len(inq) : inq[i].k # "stty"
    BY <1>1, <1>3, <1>5
  <2> QED BY <2>1 DEF Current
<1> QED BY <1>4, <1>5 DEF Current

\* The first item is read; if it told a size, the tty has it.
LEMMA ReadingKeepsCurrent ==
    ASSUME inq \in Seq(Items), Current, inq # <<>>, inq' = Tail(inq), told' = told,
           tty' = IF Head(inq).k = "stty" THEN Head(inq).size ELSE tty
    PROVE  Current'
<1>1. /\ Len(inq) \in Nat \ {0} /\ Head(inq) = inq[1]
      /\ Len(inq') = Len(inq) - 1
      /\ \A i \in 1..Len(inq') : inq'[i] = inq[i + 1]
  BY HeadTailProperties, EmptySeq
<1>2. \A i \in 1..Len(inq') : i + 1 \in 1..Len(inq)
  BY <1>1
<1>3. \A j \in 1..Len(inq) : j = 1 \/ (j - 1 \in 1..Len(inq') /\ inq[j] = inq'[j - 1])
  <2> SUFFICES ASSUME NEW j \in 1..Len(inq), j # 1
               PROVE  j - 1 \in 1..Len(inq') /\ inq[j] = inq'[j - 1]
    OBVIOUS
  <2>1. j - 1 \in 1..Len(inq') /\ (j - 1) + 1 = j
    BY <1>1
  <2> QED BY <1>1, <2>1
<1>4. ASSUME NEW i \in 1..Len(inq'), Last(i)' PROVE inq'[i].size = told'
  <2>1. ASSUME NEW j \in 1..Len(inq), j > i + 1 PROVE inq[j].k # "stty"
    <3>1. j - 1 \in 1..Len(inq') /\ inq[j] = inq'[j - 1] /\ j - 1 > i
      BY <1>1, <1>3, <2>1
    <3> QED BY <1>4, <3>1 DEF Last
  <2>2. Last(i + 1)
    BY <1>1, <1>2, <1>4, <2>1 DEF Last
  <2> QED BY <1>1, <1>2, <2>2 DEF Current
<1>5. ASSUME \A i \in 1..Len(inq') : inq'[i].k # "stty" PROVE tty' = told'
  <2>1. \A j \in 1..Len(inq) : j > 1 => inq[j].k # "stty"
    <3> SUFFICES ASSUME NEW j \in 1..Len(inq), j > 1 PROVE inq[j].k # "stty"
      OBVIOUS
    <3>1. j - 1 \in 1..Len(inq') /\ inq[j] = inq'[j - 1]
      BY <1>3
    <3> QED BY <1>5, <3>1
  <2>2. 1 \in 1..Len(inq)
    BY <1>1
  <2>3. CASE inq[1].k = "stty"
    <3>1. Last(1)
      BY <2>1, <2>2, <2>3 DEF Last
    <3> QED BY <1>1, <2>2, <2>3, <3>1 DEF Current
  <2>4. CASE inq[1].k # "stty"
    <3>1. \A j \in 1..Len(inq) : inq[j].k # "stty"
      BY <2>1, <2>4
    <3> QED BY <1>1, <2>4, <3>1 DEF Current
  <2> QED BY <2>3, <2>4
<1> QED BY <1>4, <1>5 DEF Current

LEMMA ToldStep == IInv /\ ToldInv /\ [Next]_vars => ToldInv'
<1> SUFFICES ASSUME IInv, ToldInv, [Next]_vars PROVE ToldInv'
  OBVIOUS
<1>i. inq \in Seq(Items) /\ grid \in Sizes /\ win \in Sizes
  BY DEF IInv, TypeOK, Items
<1>m. missed => missed'
  BY DEF Next, OpStep, Settle, WindowResizes, ResizeTimer, Retry, Reveal, Operate, Asked, Work,
         AskedBack, Resync, Resynced, UserTypes, ShellReads, CommandReads, CommandEnds, Deliver,
         vars
<1>c. ASSUME UNCHANGED <<inq, told, tty>>, Current PROVE Current'
  BY <1>c DEF Current, Last
<1>0. ASSUME UNCHANGED <<inq, told, tty, phase, op>> PROVE ToldInv'
  BY <1>0, <1>c, <1>m DEF ToldInv, Restoring
<1>1. CASE Settle \/ WindowResizes \/ CommandEnds \/ Deliver \/ UNCHANGED vars
  <2>1. UNCHANGED <<inq, told, tty, phase, op>>
    BY <1>1 DEF Settle, WindowResizes, gridVars, CommandEnds, Deliver, vars, pageVars, guestVars
  <2> QED BY <1>0, <2>1
<1>2. ASSUME NEW want \in Sizes, attempt(want), UNCHANGED <<tty, phase, op>> PROVE ToldInv'
  <2>1. CASE UNCHANGED <<told, inq>>
    BY <1>0, <1>2, <2>1
  <2>2. CASE canSend /\ told' = want /\ inq' = Append(inq, Stty(want))
    <3>1. Current' /\ phase' # "ask"
      BY <1>2, <1>i, <2>2, TellsLast DEF canSend, isBusy
    <3> QED BY <3>1 DEF ToldInv
  <2> QED BY <1>2, <2>1, <2>2 DEF attempt
<1>3. CASE ResizeTimer \/ Retry
  <2>1. UNCHANGED <<tty, phase, op>>
    BY <1>3 DEF ResizeTimer, Retry, guestVars
  <2>2. CASE ResizeTimer
    <3>1. grid' \in Sizes /\ attempt(grid')
      BY <2>2, FitTypes DEF ResizeTimer, IInv
    <3> QED BY <1>2, <2>1, <3>1
  <2>3. CASE Retry
    BY <1>2, <1>i, <2>1, <2>3 DEF Retry
  <2> QED BY <1>3, <2>2, <2>3
<1>4. CASE Reveal \/ Resync
  <2>1. told' = grid /\ inq' = Append(inq, Stty(grid)) /\ UNCHANGED op /\ phase' \in {phase, "syncing"}
    BY <1>4 DEF Reveal, Resync, gridVars
  <2>2. Current'
    BY <1>i, <2>1, TellsLast
  <2> QED BY <2>1, <2>2 DEF ToldInv
<1>5. ASSUME NEW k \in Ops, Operate(k) PROVE ToldInv'
  <2>1. ~Restoring /\ phase' # "ask" /\ UNCHANGED <<told, tty>>
    BY <1>5 DEF Operate, gridVars, isBusy, Restoring, guestVars
  <2>2. Current => Current'
    <3>1. CASE UNCHANGED inq
      BY <1>c, <2>1, <3>1
    <3>2. CASE inq' = Append(inq, Key("kill"))
      BY <1>i, <2>1, <3>2, KeyTellsNothing
    <3> QED BY <1>5, <3>1, <3>2 DEF Operate, gridVars
  <2> QED BY <1>m, <2>1, <2>2 DEF ToldInv
<1>6. CASE Asked \/ Resynced
  <2>1. UNCHANGED <<inq, told, tty, op>> /\ ~Restoring /\ phase' \notin {"ask", "sync"}
    BY <1>6 DEF Asked, gridVars, Resynced, Restoring, guestVars
  <2> QED BY <1>c, <1>m, <2>1 DEF ToldInv
\* Only a rollback's second question comes here, and with no prompt the size is missed.
<1>7. CASE AskedBack
  <2>1. op = "rollback" /\ UNCHANGED op /\ (phase' = "sync" \/ (phase' = "none" /\ missed'))
    BY <1>7 DEF AskedBack, ToldInv
  <2> QED BY <2>1 DEF ToldInv, Restoring
<1>8. CASE Work
  <2>1. CASE op = "rollback"
    BY <1>8, <2>1 DEF Work, gridVars, ToldInv, Restoring
  <2>2. CASE op # "rollback"
    <3>1. UNCHANGED <<inq, told, tty, op>> /\ phase' # "ask"
      BY <1>8, <2>2 DEF Work, gridVars, guestVars
    <3> QED BY <1>c, <1>m, <2>2, <3>1 DEF ToldInv, Restoring
  <2> QED BY <2>1, <2>2
<1>9. ASSUME NEW k \in {"char", "enter"}, UserTypes(k) PROVE ToldInv'
  <2>1. inq' = Append(inq, Key(k)) /\ UNCHANGED <<told, tty, op, phase>>
    BY <1>9 DEF UserTypes, pageVars, guestVars
  <2>2. Current => Current'
    BY <1>i, <2>1, KeyTellsNothing
  <2> QED BY <1>m, <2>1, <2>2 DEF ToldInv, Restoring
<1>10. CASE ShellReads \/ CommandReads
  <2>1. inq # <<>> /\ inq' = Tail(inq) /\ UNCHANGED <<told, op, phase>>
    BY <1>10 DEF ShellReads, CommandReads, pageVars
  <2>2. missed' \/ tty' = IF Head(inq).k = "stty" THEN Head(inq).size ELSE tty
    BY <1>10 DEF ShellReads, CommandReads, guestVars
  <2>3. ~missed' /\ Current => Current'
    BY <1>i, <2>1, <2>2, ReadingKeepsCurrent
  <2> QED BY <1>m, <2>1, <2>3 DEF ToldInv, Restoring
<1> QED BY <1>1, <1>3, <1>4, <1>5, <1>6, <1>7, <1>8, <1>9, <1>10 DEF Next, OpStep

\* However the window, the user's keys, checkpoints and rollbacks come between: with nothing
\* on its way and no line missed, makeSync's told (web/termfit.js) is the size of the tty.
THEOREM ToldHolds == Spec => []ToldIsTrue
<1>1. Init => ToldInv
  BY DEF Init, ToldInv
<1>2. ToldInv => ToldIsTrue
  <2> SUFFICES ASSUME ToldInv, ~isBusy, inq = <<>>, ~missed, told # NoSize PROVE tty = told
    BY DEF ToldIsTrue
  <2>1. Current
    BY DEF ToldInv, Restoring, isBusy
  <2>2. Len(inq) = 0
    OBVIOUS
  <2> QED BY <2>1, <2>2 DEF Current
<1> QED BY GeometryInit, GeometryNext, ToldStep, <1>1, <1>2, PTL DEF Spec
=============================================================================
