--------------------------- MODULE OverlayProofs ---------------------------
(***************************************************************************)
(* Proofs about Overlay, for every set of calls: the latch has one holder, *)
(* and operations that report only after they have handed the console back *)
(* keep it covered.                                                        *)
(***************************************************************************)
EXTENDS Overlay, FiniteSetTheorems, TLAPS

\* The part of the type that the latch depends on.
PcType == pc \in [Calls -> Pcs] /\ kind \in [Calls -> Kinds] /\ busy \in BOOLEAN

LatchInv == PcType /\ OneHolder

\* The latch has no holder at the start.
LEMMA LatchInit == Init => LatchInv
  BY DEF Init, LatchInv, PcType, OneHolder, Pcs, Holding

\* A call that is not at the console takes it only with the latch free, and no
\* other step lets a second call in or drops the latch under its holder.
LEMMA LatchNext == LatchInv /\ [Next]_vars => LatchInv'
<1> SUFFICES ASSUME LatchInv, [Next]_vars PROVE LatchInv'
  OBVIOUS
<1> USE DEF LatchInv, PcType, OneHolder, Pcs, Holding
<1>0. ASSUME NEW c \in Calls, pc[c] \in {"ready", "read"}, Take(c) PROVE LatchInv'
  <2>1. CASE busy' = busy /\ Goes(c, "over")
    BY <1>0, <2>1 DEF Goes
  <2>2. CASE ~busy /\ busy' = TRUE /\ Goes(c, First(c))
    BY <1>0, <2>2 DEF Goes, First
  <2> QED BY <1>0, <2>1, <2>2 DEF Take
<1>1. ASSUME NEW c \in Calls, Click(c) PROVE LatchInv'
  <2>1. CASE kind[c] = "load"
    BY <1>1, <2>1 DEF Click, Goes
  <2>2. CASE kind[c] # "load"
    BY <1>0, <1>1, <2>2 DEF Click
  <2> QED BY <2>1, <2>2
<1>2. ASSUME NEW c \in Calls, FileRead(c) PROVE LatchInv'
  <2>1. CASE Goes(c, "over") /\ UNCHANGED busy
    BY <1>2, <2>1 DEF FileRead, Goes
  <2> QED BY <1>0, <1>2, <2>1 DEF FileRead
<1>3. ASSUME NEW c \in Calls, Prompted(c) PROVE LatchInv'
  BY <1>3 DEF Prompted, LetGo, Goes
<1>4. ASSUME NEW c \in Calls, ExportMoved(c) \/ ImportMoved(c) PROVE LatchInv'
  BY <1>4 DEF ExportMoved, ImportMoved, Goes
<1>5. ASSUME NEW c \in Calls, MachineMoved(c) PROVE LatchInv'
  BY <1>5 DEF MachineMoved, Goes
<1>6. ASSUME NEW c \in Calls, Recovered(c) PROVE LatchInv'
  BY <1>6 DEF Recovered, Goes
<1>7. ASSUME NEW c \in Calls, Stored(c) PROVE LatchInv'
  BY <1>7 DEF Stored, Goes
<1>8. ASSUME NEW c \in Calls, Throws(c) PROVE LatchInv'
  <2>1. CASE pc[c] = "move"
    BY <1>8, <2>1 DEF Throws, Goes
  <2>2. CASE pc[c] = "probe"
    BY <1>8, <2>2 DEF Throws, LetGo, Goes
  <2>3. CASE pc[c] = "recover"
    BY <1>8, <2>3 DEF Throws, Goes
  <2> QED BY <1>8, <2>1, <2>2, <2>3 DEF Throws
<1>9. ASSUME HideTimer \/ Over \/ UNCHANGED vars PROVE LatchInv'
  BY <1>9 DEF HideTimer, Over, vars
<1> QED
  BY <1>1, <1>2, <1>3, <1>4, <1>5, <1>6, <1>7, <1>8, <1>9 DEF Next, Step

\* However many clicks overlap, and whatever throws, the console has one user and
\* the latch says so.
THEOREM LatchHasOneHolder == Spec => []OneHolder
<1>1. LatchInv => OneHolder
  BY DEF LatchInv
<1> QED
  BY LatchInit, LatchNext, <1>1, PTL DEF Spec
-----------------------------------------------------------------------------
\* How a call ended is on record, and a load() that found nothing is over.
EndInv == /\ end \in [Calls -> {"none", "good", "bad", "threw", "empty", "refused"}]
          /\ \A c \in Calls : end[c] = "empty" => pc[c] = "over"

\* While a call holds the console the overlay is up with that call's words and no timer
\* can take it down, unless it leaves the monitor after its report; and no call stores an
\* archive, which would report with the latch free.
Covered == /\ orphans = 0
           /\ \A c \in Calls : pc[c] # "store"
           /\ \A c \in Calls : pc[c] \in Holding =>
                  says = c /\ ((shown /\ ~timer) \/ (astray /\ pc[c] = "recover" /\ kind[c] \in Machine))

CoverInv == LatchInv /\ EndInv /\ (Plain => Covered)

\* The cover is safe at the start.
LEMMA CoverInit == Init => CoverInv
  BY LatchInit DEF Init, CoverInv, EndInv, Covered, Holding

\* A call never becomes ready again, and one that is not over has not found nothing:
\* what is plain after a step was so before it.
LEMMA EndNext == LatchInv /\ EndInv /\ [Next]_vars => EndInv' /\ (Plain' => Plain)
<1> SUFFICES ASSUME LatchInv, EndInv, [Next]_vars PROVE EndInv' /\ (Plain' => Plain)
  OBVIOUS
<1> USE DEF LatchInv, PcType, EndInv, Plain, Pcs
<1>1. ASSUME NEW c \in Calls, Click(c) PROVE EndInv' /\ (Plain' => Plain)
  BY <1>1 DEF Click, Take, Goes, First
<1>2. ASSUME NEW c \in Calls, FileRead(c) PROVE EndInv' /\ (Plain' => Plain)
  BY <1>2 DEF FileRead, Take, Goes, First, Ends
<1>3. ASSUME NEW c \in Calls, Prompted(c) PROVE EndInv' /\ (Plain' => Plain)
  BY <1>3 DEF Prompted, LetGo, Goes, Ends
<1>4. ASSUME NEW c \in Calls, ExportMoved(c) \/ ImportMoved(c) PROVE EndInv' /\ (Plain' => Plain)
  BY <1>4 DEF ExportMoved, ImportMoved, Goes, Ends
<1>5. ASSUME NEW c \in Calls, MachineMoved(c) PROVE EndInv' /\ (Plain' => Plain)
  BY <1>5 DEF MachineMoved, Goes, Ends
<1>6. ASSUME NEW c \in Calls, Recovered(c) PROVE EndInv' /\ (Plain' => Plain)
  BY <1>6 DEF Recovered, Goes
<1>7. ASSUME NEW c \in Calls, Stored(c) PROVE EndInv' /\ (Plain' => Plain)
  BY <1>7 DEF Stored, Goes
<1>8. ASSUME NEW c \in Calls, Throws(c) PROVE EndInv' /\ (Plain' => Plain)
  BY <1>8 DEF Throws, LetGo, Goes, Ends, Holding
<1>9. ASSUME HideTimer \/ Over \/ UNCHANGED vars PROVE EndInv' /\ (Plain' => Plain)
  BY <1>9 DEF HideTimer, Over, vars
<1> QED
  BY <1>1, <1>2, <1>3, <1>4, <1>5, <1>6, <1>7, <1>8, <1>9 DEF Next, Step

\* A step that ends a call's hold may arm a timer, a step that begins one disarms
\* it, and between the two only the holder paints.
LEMMA CoverNext == CoverInv /\ [Next]_vars => CoverInv'
<1> SUFFICES ASSUME CoverInv, [Next]_vars, Plain' PROVE Covered'
  BY LatchNext, EndNext DEF CoverInv
<1>1. /\ PcType /\ OneHolder /\ Covered /\ EndInv
      /\ \A c \in Calls : kind[c] \in Exports => pc[c] = "ready"
  BY EndNext DEF CoverInv, LatchInv, Plain
<1>2. /\ \A c \in Calls : kind'[c] \in Exports => pc'[c] = "ready"
      /\ \A c \in Calls : end'[c] # "empty"
  BY DEF Plain
<1>3. PcType' /\ OneHolder'
  BY LatchNext DEF CoverInv, LatchInv
<1> USE DEF PcType, Pcs, Covered, cover
<1>4. ASSUME NEW c \in Calls, Take(c) PROVE Covered'
  <2>1. CASE busy' = busy /\ UNCHANGED cover /\ Goes(c, "over")
    BY <1>1, <1>4, <2>1 DEF Take, Goes, Holding
  <2>2. CASE ~busy /\ busy' = TRUE /\ OvShow(c) /\ Goes(c, First(c))
    BY <1>1, <1>3, <2>2 DEF First, Goes, OvShow, OneHolder, Holding
  <2> QED BY <1>4, <2>1, <2>2 DEF Take
<1>5. ASSUME NEW c \in Calls, Click(c) PROVE Covered'
  <2>1. CASE kind[c] = "load"
    BY <1>1, <1>5, <2>1 DEF Click, Goes, Holding
  <2>2. CASE kind[c] # "load"
    BY <1>4, <1>5, <2>2 DEF Click
  <2> QED BY <2>1, <2>2
<1>6. ASSUME NEW c \in Calls, FileRead(c) PROVE Covered'
  <2>1. CASE Ends(c, "empty")
    BY <1>1, <1>2, <2>1 DEF Ends, EndInv
  <2> QED BY <1>4, <1>6, <2>1 DEF FileRead
<1>7. ASSUME NEW c \in Calls, Prompted(c) PROVE Covered'
  <2>1. \A d \in Calls : pc[d] \in Holding => d = c
    BY <1>1, <1>7 DEF Prompted, OneHolder, Holding
  <2>2. CASE Goes(c, "move") /\ UNCHANGED <<busy, end, cover>>
    BY <1>1, <1>7, <2>1, <2>2 DEF Prompted, Goes, Holding
  <2>3. CASE LetGo(c) /\ OvFail(c)
    BY <1>1, <1>7, <2>1, <2>3 DEF Prompted, LetGo, Goes, OvFail, Holding
  <2> QED BY <1>7, <2>2, <2>3 DEF Prompted
<1>8. ASSUME NEW c \in Calls, ExportMoved(c) PROVE Covered'
  BY <1>1, <1>8 DEF ExportMoved
<1>9. ASSUME NEW c \in Calls, ImportMoved(c) PROVE Covered'
  BY <1>1, <1>9 DEF ImportMoved, Goes, Holding
<1>10. ASSUME NEW c \in Calls, MachineMoved(c) PROVE Covered'
  <2>1. busy /\ \A d \in Calls : pc[d] \in Holding => d = c
    BY <1>1, <1>10 DEF MachineMoved, OneHolder, Holding
  <2> QED
    BY <1>1, <1>10, <2>1 DEF MachineMoved, Goes, OvDone, OvFail, Holding
<1>11. ASSUME NEW c \in Calls, Recovered(c) PROVE Covered'
  <2>1. busy /\ \A d \in Calls : pc[d] \in Holding => d = c
    BY <1>1, <1>11 DEF Recovered, OneHolder, Holding
  <2>2. kind[c] \notin Exports
    BY <1>1, <1>11 DEF Recovered
  <2> QED
    BY <1>1, <1>11, <2>1, <2>2 DEF Recovered, Goes, OvDone, OvFail, Holding, Machine
<1>12. ASSUME NEW c \in Calls, Stored(c) PROVE Covered'
  BY <1>1, <1>12 DEF Stored
<1>13. ASSUME NEW c \in Calls, Throws(c) PROVE Covered'
  <2>1. \A d \in Calls : pc[d] \in Holding => d = c
    BY <1>1, <1>13 DEF Throws, OneHolder, Holding
  <2>2. CASE pc[c] = "probe"
    BY <1>1, <1>13, <2>1, <2>2 DEF Throws, LetGo, Goes, Holding
  <2>3. CASE pc[c] # "probe"
    BY <1>1, <1>13, <2>1, <2>3 DEF Throws, Goes, Holding
  <2> QED BY <2>2, <2>3
<1>14. ASSUME HideTimer \/ Over \/ UNCHANGED vars PROVE Covered'
  BY <1>1, <1>14 DEF HideTimer, Over, vars
<1> QED
  BY <1>5, <1>6, <1>7, <1>8, <1>9, <1>10, <1>11, <1>12, <1>13, <1>14 DEF Next, Step

\* Restores, checkpoints and rollbacks never leave the terminal uncovered while the
\* page types at it, for any number of overlapping clicks and with pastes that throw.
THEOREM TerminalStaysCovered == Spec => []PlainCovered
<1>1. CoverInv => PlainCovered
  BY DEF CoverInv, Covered, PlainCovered, LatchInv, OneHolder
<1> QED
  BY CoverInit, CoverNext, <1>1, PTL DEF Spec

\* And what the user reads over it are the words of the call that is at work.
THEOREM HolderAloneSpeaks == Spec => []HolderSpeaks
<1>1. CoverInv => HolderSpeaks
  BY DEF CoverInv, Covered, HolderSpeaks
<1> QED
  BY CoverInit, CoverNext, <1>1, PTL DEF Spec
-----------------------------------------------------------------------------
\* A call that stays where it is stutters; one that goes takes a step of Console.
LEMMA StageMoves ==
    ASSUME NEW c \in Calls, NEW p \in Pcs, PcType, Goes(c, p)
    PROVE  [d \in Calls |-> StageOf(d)]'
             = [[d \in Calls |-> StageOf(d)] EXCEPT ![c] = StageAt[p]]
  BY DEF StageOf, StageAt, PcType, Pcs, Goes

\* Nobody is at the console exactly while the latch is free.
LEMMA LatchIsFree == LatchInv /\ ~busy => C!Free
  BY DEF LatchInv, PcType, OneHolder, C!Free, C!InUse, StageOf, StageAt, Holding, Pcs

LEMMA ConsoleInit == Init => C!Init
  BY DEF Init, C!Init, StageOf, StageAt

LEMMA ConsoleNext == LatchInv /\ [Next]_vars => [C!Next]_[c \in Calls |-> StageOf(c)]
<1> DEFINE stages == [d \in Calls |-> StageOf(d)]
<1> SUFFICES ASSUME LatchInv, [Next]_vars PROVE C!Next \/ stages' = stages
  OBVIOUS
<1>1. PcType /\ (\A c \in Calls : stages[c] = StageOf(c))
  BY DEF LatchInv
<1>2. ASSUME NEW c \in Calls, pc[c] \in {"ready", "read"}, Take(c) PROVE C!Next
  <2>1. stages[c] = "idle"
    BY <1>1, <1>2 DEF StageOf, StageAt
  <2>2. CASE Goes(c, "over")
    <3>1. stages' = [stages EXCEPT ![c] = "over"]
      BY <1>1, <2>2, StageMoves DEF Pcs, StageAt
    <3> QED BY <2>1, <3>1 DEF C!Next, C!GoAway, C!Comes
  <2>3. CASE ~busy /\ Goes(c, First(c))
    <3>1. stages' = [stages EXCEPT ![c] = "ask"] \/ stages' = [stages EXCEPT ![c] = "work"]
      <4>1. CASE kind[c] = "rollback"
        BY <1>1, <2>3, <4>1, StageMoves DEF Pcs, StageAt, First
      <4>2. CASE kind[c] # "rollback"
        BY <1>1, <2>3, <4>2, StageMoves DEF Pcs, StageAt, First
      <4> QED BY <4>1, <4>2
    <3> QED BY <2>1, <2>3, <3>1, LatchIsFree DEF C!Next, C!Take, C!Comes
  <2> QED BY <1>2, <2>2, <2>3 DEF Take
<1>3. ASSUME NEW c \in Calls, Click(c) PROVE C!Next \/ stages' = stages
  <2>1. CASE kind[c] = "load"
    <3>1. stages' = [stages EXCEPT ![c] = "idle"]
      BY <1>1, <1>3, <2>1, StageMoves DEF Click, Pcs, StageAt
    <3>2. stages[c] = "idle"
      BY <1>1, <1>3 DEF Click, StageOf, StageAt
    <3> QED BY <3>1, <3>2
  <2>2. CASE kind[c] # "load"
    BY <1>2, <1>3, <2>2 DEF Click
  <2> QED BY <2>1, <2>2
<1>4. ASSUME NEW c \in Calls, FileRead(c) PROVE C!Next
  <2>1. CASE Goes(c, "over")
    <3>1. stages' = [stages EXCEPT ![c] = "over"]
      BY <1>1, <2>1, StageMoves DEF Pcs, StageAt
    <3>2. stages[c] = "idle"
      BY <1>1, <1>4 DEF FileRead, StageOf, StageAt
    <3> QED BY <3>1, <3>2 DEF C!Next, C!GoAway, C!Comes
  <2> QED BY <1>2, <1>4, <2>1 DEF FileRead
<1>5. ASSUME NEW c \in Calls, pc[c] = "probe",
             Goes(c, "move") \/ Goes(c, "recover") \/ Goes(c, "over")
      PROVE  C!Next
  <2>1. stages[c] = "ask"
    BY <1>1, <1>5 DEF StageOf, StageAt
  <2>2. \E s \in {"work", "leave", "over"} : stages' = [stages EXCEPT ![c] = s]
    BY <1>1, <1>5, StageMoves DEF Pcs, StageAt
  <2> QED BY <2>1, <2>2 DEF C!Next, C!Asked, C!Comes
<1>6. ASSUME NEW c \in Calls, pc[c] = "move", Goes(c, "recover") \/ Goes(c, "over")
      PROVE  C!Next
  <2>1. stages[c] = "work"
    BY <1>1, <1>6 DEF StageOf, StageAt
  <2>2. \E s \in {"leave", "over"} : stages' = [stages EXCEPT ![c] = s]
    BY <1>1, <1>6, StageMoves DEF Pcs, StageAt
  <2> QED BY <2>1, <2>2 DEF C!Next, C!Worked, C!Comes
<1>7. ASSUME NEW c \in Calls, pc[c] = "recover", Goes(c, "store") \/ Goes(c, "over")
      PROVE  C!Next
  <2>1. stages[c] = "leave"
    BY <1>1, <1>7 DEF StageOf, StageAt
  <2>2. stages' = [stages EXCEPT ![c] = "over"]
    BY <1>1, <1>7, StageMoves DEF Pcs, StageAt
  <2> QED BY <2>1, <2>2 DEF C!Next, C!HandBack, C!Comes
<1>8. ASSUME NEW c \in Calls, Stored(c) PROVE stages' = stages
  <2>1. stages' = [stages EXCEPT ![c] = "over"]
    BY <1>1, <1>8, StageMoves DEF Stored, Pcs, StageAt
  <2>2. stages[c] = "over"
    BY <1>1, <1>8 DEF Stored, StageOf, StageAt
  <2> QED BY <2>1, <2>2
<1>9. ASSUME NEW c \in Calls, Step(c) \/ Throws(c) PROVE C!Next \/ stages' = stages
  <2>1. CASE Prompted(c)
    BY <1>5, <2>1 DEF Prompted, LetGo
  <2>2. CASE ExportMoved(c) \/ ImportMoved(c) \/ MachineMoved(c)
    BY <1>6, <2>2 DEF ExportMoved, ImportMoved, MachineMoved
  <2>3. CASE Recovered(c)
    BY <1>7, <2>3 DEF Recovered
  <2>4. CASE Throws(c)
    BY <1>5, <1>6, <1>7, <2>4 DEF Throws, LetGo, Holding
  <2> QED BY <1>4, <1>8, <1>9, <2>1, <2>2, <2>3, <2>4 DEF Step
<1>10. ASSUME HideTimer \/ Over \/ UNCHANGED vars PROVE stages' = stages
  BY <1>10 DEF HideTimer, Over, vars, StageOf
<1> QED
  BY <1>3, <1>9, <1>10 DEF Next

\* The calls of the page, however many and however they overlap, use the console as
\* Console has it: the safety part of UsesConsole.
THEOREM CallsShareConsole == Spec => C!Spec
<1> QED
  BY LatchInit, LatchNext, ConsoleInit, ConsoleNext, PTL DEF Spec, C!Spec
-----------------------------------------------------------------------------
\* The calls that have armed their hide timer, or never will.
Told == {c \in Calls :
            \/ pc[c] = "over"
            \/ /\ pc[c] = "recover"
               /\ \/ end[c] = "refused" /\ kind[c] \in Machine
                  \/ end[c] = "bad" /\ kind[c] \in Exports}

EndTypes == end \in [Calls -> {"none", "good", "bad", "threw", "empty", "refused"}]

CoverTypes == /\ astray \in BOOLEAN /\ shown \in BOOLEAN /\ timer \in BOOLEAN
              /\ says \in Calls \cup {Nobody} /\ orphans \in Nat

\* A timer is armed by a call that reports, once; the named one is not an orphan.
TimerInv == timer \/ orphans > 0 => orphans + 1 <= Cardinality(Told)

ShapeInv == PcType /\ EndTypes /\ CoverTypes /\ TimerInv

\* Of the calls, more are no fewer; one that was not among them makes one more.
LEMMA MoreCalls ==
    ASSUME NEW S, NEW T, S \subseteq T, T \subseteq Calls
    PROVE  /\ Cardinality(S) \in Nat /\ Cardinality(T) \in Nat
           /\ Cardinality(S) <= Cardinality(T)
           /\ \A c \in T : c \notin S => Cardinality(S) + 1 <= Cardinality(T)
<1>1. IsFiniteSet(T) /\ IsFiniteSet(S)
  BY FS_Subset, OverlayAssumption
<1>2. ASSUME NEW c \in T, c \notin S PROVE Cardinality(S) + 1 <= Cardinality(T)
  <2>1. Cardinality(S \cup {c}) = Cardinality(S) + 1
    BY <1>1, <1>2, FS_AddElement
  <2>2. S \cup {c} \subseteq T
    OBVIOUS
  <2> QED BY <1>1, <2>1, <2>2, FS_Subset
<1> QED
  BY <1>1, <1>2, FS_Subset, FS_CardinalityType

\* The timers: a step that takes no call back keeps their bound if it paints nothing,
\* if it stops the named one, or if it is the report of a call that had yet to report.
LEMMA TimersKept ==
    ASSUME CoverTypes, TimerInv, Told \subseteq Told',
           \/ UNCHANGED cover
           \/ \E c \in Calls : OvShow(c)
           \/ \E c \in Calls : c \notin Told /\ c \in Told' /\ (OvFail(c) \/ OvDone(c))
    PROVE  TimerInv' /\ shown' \in BOOLEAN /\ timer' \in BOOLEAN
           /\ says' \in Calls \cup {Nobody} /\ orphans' \in Nat
<1> DEFINE n == Cardinality(Told)
           m == Cardinality(Told')
<1>1. Told' \subseteq Calls
  BY DEF Told
<1>2. n \in Nat /\ m \in Nat /\ n <= m /\ (\A c \in Told' : c \notin Told => n + 1 <= m)
  BY <1>1, MoreCalls
<1>3. TimerInv <=> (timer \/ orphans > 0 => orphans + 1 <= n)
  BY DEF TimerInv
<1>4. TimerInv' <=> (timer' \/ orphans' > 0 => orphans' + 1 <= m)
  BY DEF TimerInv
<1> HIDE DEF n, m
<1>5. CASE UNCHANGED cover
  BY <1>2, <1>3, <1>4, <1>5 DEF cover, CoverTypes
<1>6. ASSUME NEW c \in Calls, OvShow(c)
      PROVE TimerInv' /\ shown' \in BOOLEAN /\ timer' \in BOOLEAN
            /\ says' \in Calls \cup {Nobody} /\ orphans' \in Nat
  <2>1. timer' = FALSE /\ shown' = TRUE /\ says' = c /\ orphans' = orphans
    BY <1>6 DEF OvShow
  <2>2. orphans \in Nat /\ (orphans > 0 => orphans + 1 <= n)
    BY <1>3 DEF CoverTypes
  <2>3. orphans > 0 => orphans + 1 <= m
    BY <1>2, <2>2
  <2>4. TimerInv'
    BY <1>4, <2>1, <2>3
  <2> QED BY <2>1, <2>2, <2>4
<1>7. ASSUME NEW c \in Calls, c \notin Told, c \in Told', OvFail(c) \/ OvDone(c)
      PROVE TimerInv' /\ shown' \in BOOLEAN /\ timer' \in BOOLEAN
            /\ says' \in Calls \cup {Nobody} /\ orphans' \in Nat
  <2>1. n + 1 <= m
    BY <1>2, <1>7
  <2>2. orphans' \in Nat /\ orphans' <= orphans + 1 /\ (~timer => orphans' = orphans)
    BY <1>7 DEF OvFail, OvDone, CoverTypes
  <2>3. orphans' + 1 <= m
    <3>1. CASE timer
      <4>1. orphans \in Nat /\ orphans + 1 <= n
        BY <1>3, <3>1 DEF CoverTypes
      <4>2. n + 1 <= m /\ orphans' \in Nat /\ orphans' <= orphans + 1
        BY <2>1, <2>2
      <4>3. n \in Nat /\ m \in Nat
        BY <1>2
      <4>4. \A i, j, k, l \in Nat : i <= j + 1 /\ j + 1 <= k /\ k + 1 <= l => i + 1 <= l
        OBVIOUS
      <4> QED BY <4>1, <4>2, <4>3, <4>4
    <3>2. CASE ~timer
      <4>1. orphans' = orphans /\ orphans \in Nat /\ (orphans > 0 => orphans + 1 <= n)
        BY <1>3, <2>2, <3>2 DEF CoverTypes
      <4> QED BY <1>2, <2>1, <4>1
    <3> QED BY <3>1, <3>2
  <2>4. timer' = TRUE /\ shown' \in BOOLEAN /\ says' \in Calls \cup {Nobody}
    BY <1>7 DEF OvFail, OvDone, CoverTypes
  <2> QED BY <1>4, <2>2, <2>3, <2>4
<1> QED
  BY <1>5, <1>6, <1>7

LEMMA ShapeInit == Init => ShapeInv
<1> SUFFICES ASSUME Init PROVE ShapeInv
  OBVIOUS
<1>1. PcType /\ EndTypes
  BY DEF Init, PcType, EndTypes, Pcs
<1>2. CoverTypes /\ TimerInv
  <2>1. astray = FALSE /\ shown = FALSE /\ timer = FALSE /\ says = Nobody /\ orphans = 0
    BY DEF Init
  <2>2. ~(timer \/ orphans > 0)
    BY <2>1
  <2> QED BY <2>1, <2>2 DEF CoverTypes, TimerInv
<1> QED BY <1>1, <1>2 DEF ShapeInv

\* No call reports twice, and no report is taken back.
LEMMA ShapeNext == ShapeInv /\ [Next]_vars => ShapeInv'
<1> SUFFICES ASSUME ShapeInv, [Next]_vars PROVE ShapeInv'
  OBVIOUS
<1>0. PcType /\ EndTypes /\ CoverTypes /\ TimerInv
  BY DEF ShapeInv
<1> DEFINE Reports(c) == c \notin Told /\ c \in Told' /\ (OvFail(c) \/ OvDone(c))
           Painted == UNCHANGED cover \/ (\E c \in Calls : OvShow(c)) \/ (\E c \in Calls : Reports(c))
           Goal == PcType' /\ EndTypes' /\ astray' \in BOOLEAN /\ Told \subseteq Told' /\ Painted
<1>1. ASSUME Goal PROVE ShapeInv'
  <2>1. TimerInv' /\ shown' \in BOOLEAN /\ timer' \in BOOLEAN
        /\ says' \in Calls \cup {Nobody} /\ orphans' \in Nat
    BY <1>0, <1>1, TimersKept
  <2> QED BY <1>1, <2>1 DEF ShapeInv, CoverTypes
<1> USE DEF PcType, EndTypes, Pcs, Told
<1>2. ASSUME NEW c \in Calls, pc[c] \in {"ready", "read"}, Take(c) PROVE Goal
  <2>1. CASE busy' = busy /\ UNCHANGED cover /\ Goes(c, "over")
    BY <1>0, <1>2, <2>1 DEF Take, Goes, CoverTypes
  <2>2. CASE ~busy /\ busy' = TRUE /\ OvShow(c) /\ Goes(c, First(c))
    BY <1>0, <1>2, <2>2 DEF Take, Goes, First, CoverTypes
  <2> QED BY <1>2, <2>1, <2>2 DEF Take
<1>3. ASSUME NEW c \in Calls, Click(c) PROVE Goal
  <2>1. CASE kind[c] = "load"
    BY <1>0, <1>3, <2>1 DEF Click, Goes, CoverTypes
  <2>2. CASE kind[c] # "load"
    BY <1>2, <1>3, <2>2 DEF Click
  <2> QED BY <2>1, <2>2
<1>4. ASSUME NEW c \in Calls, FileRead(c) PROVE Goal
  <2>1. CASE OvFail(c) /\ Ends(c, "empty") /\ Goes(c, "over") /\ UNCHANGED <<busy, astray>>
    <3>1. Reports(c)
      BY <1>0, <1>4, <2>1 DEF FileRead, Goes, Ends
    <3>2. PcType' /\ EndTypes' /\ astray' \in BOOLEAN /\ Told \subseteq Told'
      BY <1>0, <2>1 DEF Goes, Ends, CoverTypes
    <3> QED BY <3>1, <3>2
  <2> QED BY <1>2, <1>4, <2>1 DEF FileRead
<1>5. ASSUME NEW c \in Calls, Prompted(c) PROVE Goal
  <2>1. CASE Goes(c, "move") /\ UNCHANGED <<busy, end, cover>>
    BY <1>0, <1>5, <2>1 DEF Prompted, Goes, CoverTypes
  <2>2. CASE LetGo(c) /\ OvFail(c) /\ Ends(c, "refused")
    <3>1. Reports(c)
      BY <1>0, <1>5, <2>2 DEF Prompted, LetGo, Goes, Ends, Machine
    <3>2. PcType' /\ EndTypes' /\ astray' \in BOOLEAN /\ Told \subseteq Told'
      BY <1>0, <1>5, <2>2 DEF Prompted, LetGo, Goes, Ends, CoverTypes
    <3> QED BY <3>1, <3>2
  <2> QED BY <1>5, <2>1, <2>2 DEF Prompted
<1>6. ASSUME NEW c \in Calls, ExportMoved(c) PROVE Goal
  <2>1. PcType' /\ EndTypes' /\ astray' \in BOOLEAN /\ Told \subseteq Told'
    BY <1>0, <1>6 DEF ExportMoved, Goes, Ends, CoverTypes
  <2>2. UNCHANGED cover \/ Reports(c)
    BY <1>0, <1>6 DEF ExportMoved, Goes, Ends, Exports
  <2> QED BY <2>1, <2>2
<1>7. ASSUME NEW c \in Calls, ImportMoved(c) PROVE Goal
  BY <1>0, <1>7 DEF ImportMoved, Goes, Ends, CoverTypes
<1>8. ASSUME NEW c \in Calls, MachineMoved(c) PROVE Goal
  <2>1. PcType' /\ EndTypes' /\ astray' \in BOOLEAN /\ Told \subseteq Told'
    BY <1>0, <1>8 DEF MachineMoved, Goes, Ends, CoverTypes
  <2>2. Reports(c)
    BY <1>0, <1>8 DEF MachineMoved, Goes, Ends
  <2> QED BY <2>1, <2>2
<1>9. ASSUME NEW c \in Calls, Recovered(c) PROVE Goal
  <2>1. PcType' /\ EndTypes' /\ astray' \in BOOLEAN /\ Told \subseteq Told'
    BY <1>0, <1>9 DEF Recovered, Goes, CoverTypes
  <2>2. CASE kind[c] # "load" \/ end[c] = "threw"
    BY <1>9, <2>1, <2>2 DEF Recovered
  <2>3. CASE kind[c] = "load" /\ end[c] # "threw"
    <3>1. Reports(c)
      BY <1>0, <1>9, <2>3 DEF Recovered, Goes, Exports, Machine
    <3> QED BY <2>1, <3>1
  <2> QED BY <2>2, <2>3
<1>10. ASSUME NEW c \in Calls, Stored(c) PROVE Goal
  <2>1. PcType' /\ EndTypes' /\ astray' \in BOOLEAN /\ Told \subseteq Told'
    BY <1>0, <1>10 DEF Stored, Goes, CoverTypes
  <2>2. UNCHANGED cover \/ Reports(c)
    BY <1>0, <1>10 DEF Stored, Goes
  <2> QED BY <2>1, <2>2
<1>11. ASSUME NEW c \in Calls, Throws(c) PROVE Goal
  <2>1. CASE pc[c] = "probe"
    BY <1>0, <1>11, <2>1 DEF Throws, LetGo, Goes, Ends, CoverTypes
  <2>2. CASE pc[c] = "move"
    BY <1>0, <1>11, <2>2 DEF Throws, Goes, Ends, CoverTypes
  <2>3. CASE pc[c] = "recover"
    BY <1>0, <1>11, <2>3 DEF Throws, Goes, Ends, CoverTypes
  <2> QED BY <1>11, <2>1, <2>2, <2>3 DEF Throws, Holding
<1>12. ASSUME HideTimer PROVE ShapeInv'
  <2>1. UNCHANGED <<says, kind, pc, end, busy, astray>> /\ Told' = Told
    BY <1>12 DEF HideTimer
  <2>2. PcType' /\ EndTypes' /\ CoverTypes'
    <3>1. orphans' \in Nat
      BY <1>0, <1>12 DEF HideTimer, CoverTypes
    <3>2. timer' \in BOOLEAN /\ shown' = FALSE
      BY <1>0, <1>12 DEF HideTimer, CoverTypes
    <3> QED BY <1>0, <2>1, <3>1, <3>2 DEF CoverTypes
  <2>3. Cardinality(Told) \in Nat /\ Cardinality(Told)' = Cardinality(Told)
    BY <2>1, MoreCalls DEF Told
  <2>4. (timer' \/ orphans' > 0 => timer \/ orphans > 0) /\ orphans' <= orphans
    <3>1. CASE timer /\ orphans' = orphans
      BY <1>0, <3>1 DEF CoverTypes
    <3>2. CASE orphans > 0 /\ orphans' = orphans - 1 /\ timer' = timer
      BY <1>0, <3>2 DEF CoverTypes
    <3> QED BY <1>12, <3>1, <3>2 DEF HideTimer
  <2>5. TimerInv'
    BY <1>0, <2>2, <2>3, <2>4 DEF TimerInv, CoverTypes
  <2> QED BY <2>2, <2>5 DEF ShapeInv
<1>13. ASSUME Over \/ UNCHANGED vars PROVE Goal
  BY <1>0, <1>13 DEF Over, vars, cover, CoverTypes
<1> HIDE DEF Goal
<1> QED
  BY <1>1, <1>3, <1>4, <1>5, <1>6, <1>7, <1>8, <1>9, <1>10, <1>11, <1>12, <1>13 DEF Next, Step

\* The types, and with them the bound on what done() leaves behind: however clicks
\* overlap, there are fewer hide timers that nothing can stop than there were calls.
THEOREM OverlayTypes == Spec => []TypeOK
<1>1. ASSUME ShapeInv PROVE TypeOK
  <2>1. /\ PcType /\ EndTypes /\ CoverTypes
        /\ timer \/ orphans > 0 => orphans + 1 <= Cardinality(Told)
    BY <1>1 DEF ShapeInv, TimerInv
  <2>2. /\ Cardinality(Told) \in Nat /\ Cardinality(Calls) \in Nat
        /\ Cardinality(Told) <= Cardinality(Calls)
    BY MoreCalls DEF Told
  <2>3. Cardinality(Calls) >= 1
    BY FS_EmptySet, OverlayAssumption, <2>2
  <2>4. orphans \in 0..(Cardinality(Calls) - 1)
    BY <2>1, <2>2, <2>3 DEF CoverTypes
  <2> QED BY <2>1, <2>4 DEF TypeOK, PcType, EndTypes, CoverTypes
<1> QED
  BY ShapeInit, ShapeNext, <1>1, PTL DEF Spec
=============================================================================
