--------------------------- MODULE TransferProofs ---------------------------
(***************************************************************************)
(* Proofs about Transfer, for archives of every length, every number of    *)
(* transfers and every fault budget: a program that owns the terminal is   *)
(* never typed at, the transfers take turns at the console, every variable *)
(* keeps its type, only whole archives are unpacked, what an operation     *)
(* reports is true, and the terminal is handed back as it was found.       *)
(***************************************************************************)
EXTENDS Transfer, SequenceTheorems, TLAPS

Pcs == Waits \cup {"idle", "recover", "interrupt", "restore"}

\* The latch is set exactly while an operation runs.
PcInv ==
    /\ busy \in BOOLEAN /\ pc \in Pcs
    /\ busy <=> pc # "idle"

\* The console is taken when the prompt has come, and not before.
EngagedInv == /\ pc = "ensure" => engaged = FALSE
              /\ pc \in Waits \ {"ensure"} => engaged

\* While a program owns the terminal nothing is on its way from the guest, and only
\* the probe and the user's keys on their way to it: the page goes no further than the
\* probe, for no prompt has come.
ProgramInv ==
    fg = "program" =>
        /\ out = <<>> /\ inq \in Seq({Line("enter"), Line("key")})
        /\ pc \in {"idle", "ensure"}
        /\ pc = "ensure" => "prompt" \notin got

IInv == PcInv /\ EngagedInv /\ ProgramInv

LEMMA TransferInit == Init => IInv
  <1> SUFFICES ASSUME Init PROVE IInv
    OBVIOUS
  <1>1. PcInv
    BY Zenon DEF Init, PcInv, Pcs
  <1>2. EngagedInv
    BY DEF Init, EngagedInv, Waits
  <1>3. ProgramInv
    BY DEF Init, ProgramInv
  <1> QED BY <1>1, <1>2, <1>3 DEF IInv

\* The two beginnings of a transfer.
LEMMA StartKeeps == ASSUME IInv, NEW k, Start(k) PROVE IInv'
  <1> USE DEF IInv, PcInv, ProgramInv, Pcs, Waits
  <1>1. PcInv'
    <2>1. CASE busy' = TRUE /\ pc' = "ensure"
      BY <2>1
    <2>2. CASE UNCHANGED <<busy, pc>>
      BY <2>2
    <2> QED BY <2>1, <2>2 DEF Start
  <1>2. EngagedInv'
    <2>1. engaged' = FALSE /\ pc' \in {"ensure", "idle"}
      BY DEF Start
    <2> QED BY <2>1 DEF EngagedInv
  <1>3. ProgramInv'
    <2>1. CASE pc' = "ensure" /\ Paste(<<Line("enter")>>)
      <3> DEFINE T == {Line("enter"), Line("key")}
      <3>1. <<Line("enter")>> \in Seq(T)
        OBVIOUS
      <3>2. fg = "program" => inq \o <<Line("enter")>> \in Seq(T)
        BY <3>1
      <3> HIDE DEF T
      <3>3. out' = out /\ fg' = fg /\ got' = {} /\ inq' = inq \o <<Line("enter")>>
        BY <2>1 DEF Start, Paste
      <3> QED BY <2>1, <3>2, <3>3 DEF T
    <2>2. CASE UNCHANGED <<busy, pc, inq, got>>
      BY <2>2 DEF Start
    <2> QED BY <2>1, <2>2 DEF Start
  <1> QED BY <1>1, <1>2, <1>3

\* The page's other steps: past the probe only with a prompt in the mirror.
LEMMA PageKeeps ==
    ASSUME IInv, PageStep \/ GiveUp \/ Restore \/ Tidied \/ PasteThrows
    PROVE  IInv'
  <1> USE DEF IInv, PcInv, ProgramInv, Pcs, Waits
  <1>1. UNCHANGED <<out, fg>>
    BY DEF PageStep, GiveUp, Restore, Tidied, PasteThrows, guestVars
  <1>2. PcInv' /\ ProgramInv'
    <2>1. CASE PageStep
      <3>1. fg # "program" /\ busy
        BY <2>1 DEF PageStep, Engage, PackTaken, Packed, Ready, Go, BlockTaken, Summed,
                    Verdict, Recover
      <3>2. UNCHANGED <<busy, opNo>> /\ pc' \in Pcs \ {"idle", "ensure"}
        BY <2>1 DEF PageStep, Engage, PackTaken, Packed, Ready, Go, BlockTaken, Summed,
                    Verdict, Recover, Finish, SendBlock
      <3> QED BY <1>1, <3>1, <3>2
    <2>2. CASE GiveUp
      <3>1. CASE engaged
        <4>1. busy /\ fg # "program"
          BY <2>2, <3>1 DEF GiveUp, EngagedInv
        <4>2. UNCHANGED <<busy, opNo>> /\ pc' = "recover"
          BY <2>2, <3>1 DEF GiveUp, Finish
        <4> QED BY <1>1, <4>1, <4>2
      <3>2. CASE ~engaged
        <4>1. busy' = FALSE /\ pc' = "idle" /\ UNCHANGED <<inq, got>>
          BY <2>2, <3>2 DEF GiveUp
        <4> QED BY <1>1, <4>1
      <3> QED BY <3>1, <3>2
    <2>3. CASE Restore \/ Tidied
      BY <1>1, <2>3 DEF Restore, Tidied
    <2>4. CASE PasteThrows
      <3>1. fg # "program"
        BY <2>4 DEF PasteThrows, Awaited
      <3>2. CASE pc \in {"ensure", "ready", "go", "blk", "sum"} /\ pc' = "recover" /\ UNCHANGED busy
        BY <1>1, <3>1, <3>2
      <3>3. CASE busy' = FALSE /\ pc' = "idle"
        BY <1>1, <3>1, <3>3
      <3> QED BY <2>4, <3>2, <3>3 DEF PasteThrows
    <2> QED BY <2>1, <2>2, <2>3, <2>4
  <1>3. EngagedInv'
    <2>1. CASE engaged' = TRUE /\ pc' # "ensure"
      BY <2>1 DEF EngagedInv
    <2>2. CASE pc' \notin Waits
      BY <2>2 DEF EngagedInv
    <2>3. CASE PageStep
      <3>1. CASE Engage
        BY <2>1, <3>1 DEF Engage
      <3>2. ASSUME PackTaken \/ Packed \/ Ready \/ Go \/ BlockTaken \/ Summed \/ Verdict
            PROVE  EngagedInv'
        <4>1. engaged /\ engaged' = engaged /\ pc' # "ensure"
          BY <3>2 DEF PackTaken, Packed, Ready, Go, BlockTaken, Summed, Verdict, Finish,
                      SendBlock, EngagedInv
        <4> QED BY <4>1 DEF EngagedInv
      <3>3. CASE Recover
        BY <2>2, <3>3 DEF Recover
      <3> QED BY <2>3, <3>1, <3>2, <3>3 DEF PageStep
    <2>4. CASE GiveUp \/ Restore \/ Tidied \/ PasteThrows
      BY <2>2, <2>4 DEF GiveUp, Finish, Restore, Tidied, PasteThrows
    <2> QED BY <2>3, <2>4
  <1> QED BY <1>2, <1>3

\* The guest's steps, and those of the wire and the user, leave the page as it is.
LEMMA PageStays ==
    ASSUME IInv, UNCHANGED pageVars, ProgramInv' PROVE IInv'
  BY DEF IInv, PcInv, EngagedInv, pageVars

LEMMA GuestKeeps ==
    ASSUME IInv, GuestStep \/ ProgramEnds \/ ProgramStarts PROVE IInv'
  <1>1. UNCHANGED pageVars
    BY DEF GuestStep, ShellRuns, HeadReads, ShortReads, PackEnds, UnpackEnds, Interrupt,
           ProgramReads, ProgramEnds, ProgramStarts
  <1>2. CASE ShellRuns
    <2>1. fg' # "program"
      BY <1>2 DEF ShellRuns, RunLine
    <2> QED BY <1>1, <2>1, PageStays DEF ProgramInv
  <1>3. CASE HeadReads \/ ShortReads \/ PackEnds \/ UnpackEnds \/ Interrupt \/ ProgramEnds
    <2>1. fg' # "program"
      BY <1>3 DEF HeadReads, ShortReads, PackEnds, UnpackEnds, Interrupt, ProgramEnds
    <2> QED BY <1>1, <2>1, PageStays DEF ProgramInv
  <1>4. CASE ProgramReads
    <2>1. inq' = Tail(inq) /\ inq # <<>> /\ UNCHANGED <<out, fg, got>>
      BY <1>4 DEF ProgramReads, guestVars
    <2>2. fg = "program" => inq' \in Seq({Line("enter"), Line("key")})
      BY <2>1 DEF IInv, ProgramInv
    <2> QED BY <1>1, <2>1, <2>2, PageStays DEF IInv, ProgramInv, pageVars
  <1>5. CASE ProgramStarts
    <2>1. out' = <<>> /\ inq' = <<>> /\ pc' = "idle"
      BY <1>5 DEF ProgramStarts, Silent, pageVars, IInv, PcInv
    <2> QED BY <1>1, <2>1, PageStays DEF ProgramInv
  <1> QED BY <1>2, <1>3, <1>4, <1>5 DEF GuestStep

LEMMA WireKeeps ==
    ASSUME IInv, Deliver \/ LoseMarker \/ Damage \/ UserKey \/ GuestStops PROVE IInv'
  <1>1. UNCHANGED <<pageVars, fg>>
    BY DEF Deliver, LoseMarker, Damage, UserKey, GuestStops, guestVars
  <1>2. CASE Deliver \/ LoseMarker
    <2>1. fg' # "program"
      BY <1>1, <1>2 DEF Deliver, LoseMarker, IInv, ProgramInv
    <2> QED BY <1>1, <2>1, PageStays DEF ProgramInv
  <1>3. CASE Damage
    <2>1. PICK i \in 1..Len(inq) : inq[i].k = "payload"
      BY <1>3 DEF Damage
    <2>2. fg # "program"
      BY <2>1 DEF IInv, ProgramInv, Line
    <2> QED BY <1>1, <2>2, PageStays DEF ProgramInv
  <1>4. CASE UserKey
    <2>1. inq' = Append(inq, Line("key")) /\ UNCHANGED <<out, got>>
      BY <1>4 DEF UserKey
    <2>2. fg = "program" => inq' \in Seq({Line("enter"), Line("key")})
      BY <2>1 DEF IInv, ProgramInv
    <2> QED BY <1>1, <2>1, <2>2, PageStays DEF IInv, ProgramInv, pageVars
  <1>5. CASE GuestStops
    BY <1>1, <1>5, PageStays DEF GuestStops, IInv, ProgramInv, pageVars
  <1> QED BY <1>2, <1>3, <1>4, <1>5

LEMMA TransferNext == IInv /\ [Next]_vars => IInv'
  <1>1. ASSUME IInv, UNCHANGED vars PROVE IInv'
    BY <1>1 DEF vars, pageVars, guestVars, IInv, PcInv, EngagedInv, ProgramInv
  <1> QED
    BY <1>1, StartKeeps, PageKeeps, GuestKeeps, WireKeeps DEF Next, ExportWork, ImportWork

\* A program that owns the terminal throughout is typed the probe and nothing else.
THEOREM ProgramIsNotTypedAt == Spec => []NeverTypesBlind
  <1>1. IInv => NeverTypesBlind
    <2> SUFFICES ASSUME IInv, fg = "program", NEW i \in 1..Len(inq)
                 PROVE  inq[i].k \in {"enter", "key"}
      BY DEF NeverTypesBlind
    <2>1. inq[i] \in {Line("enter"), Line("key")}
      BY DEF IInv, ProgramInv
    <2> QED BY <2>1 DEF Line
  <1> QED BY TransferInit, TransferNext, <1>1, PTL DEF Spec
-----------------------------------------------------------------------------
\* The number of the running transfer is one of Console's calls.
CountInv == opNo \in 0..MaxOps /\ (busy => opNo # 0)

stages == [n \in 1..MaxOps |-> StageOf(n)]

LEMMA CountInit == Init => CountInv
  <1>1. Init => opNo \in 0..MaxOps
    BY TransferAssumption DEF Init
  <1> QED BY <1>1, Zenon DEF Init, CountInv

\* Only the beginning of a transfer counts.
LEMMA OthersDoNotCount ==
    ASSUME [Next]_vars, ~ExportWork, ~ImportWork, PcInv
    PROVE  UNCHANGED opNo /\ (busy \/ UNCHANGED busy)
  <1>1. CASE PageStep \/ GiveUp \/ Restore \/ Tidied \/ PasteThrows
    <2>1. UNCHANGED opNo
      BY <1>1, Zenon DEF PageStep, GiveUp, Restore, Tidied, PasteThrows, Engage, PackTaken,
             Packed, Ready, Go, BlockTaken, Summed, Verdict, Recover, Finish
    <2>2. pc # "idle"
      BY <1>1 DEF PageStep, GiveUp, Restore, Tidied, PasteThrows, Engage, PackTaken, Packed,
             Ready, Go, BlockTaken, Summed, Verdict, Recover, Waits
    <2> QED BY <2>1, <2>2 DEF PcInv
  <1>2. CASE \/ GuestStep \/ Deliver \/ ProgramEnds \/ ProgramStarts
             \/ LoseMarker \/ Damage \/ UserKey \/ GuestStops
    <2>1. UNCHANGED pageVars
      BY <1>2 DEF GuestStep, ShellRuns, HeadReads, ShortReads, PackEnds, UnpackEnds, Interrupt,
                  ProgramReads, ProgramEnds, ProgramStarts, Deliver, LoseMarker, Damage,
                  UserKey, GuestStops
    <2> QED BY <2>1 DEF pageVars
  <1>3. CASE UNCHANGED vars
    BY <1>3 DEF vars, pageVars
  <1> QED BY <1>1, <1>2, <1>3 DEF Next

LEMMA CountNext == PcInv /\ CountInv /\ [Next]_vars => CountInv'
  <1>1. ASSUME CountInv, NEW k, Start(k) PROVE CountInv'
    <2>1. opNo' \in 0..MaxOps /\ opNo' # 0
      BY <1>1, TransferAssumption DEF Start, CountInv
    <2> QED BY <2>1 DEF CountInv
  <1>2. ASSUME PcInv, CountInv, [Next]_vars, ~ExportWork, ~ImportWork PROVE CountInv'
    <2>1. UNCHANGED opNo /\ (busy \/ UNCHANGED busy)
      BY <1>2, OthersDoNotCount
    <2>2. opNo' \in 0..MaxOps
      BY <1>2, <2>1 DEF CountInv
    <2>3. busy' => opNo' # 0
      <3>1. busy' => busy
        BY <2>1, Zenon
      <3> QED BY <1>2, <2>1, <3>1, Zenon DEF CountInv
    <2> QED BY <2>2, <2>3, Zenon DEF CountInv
  <1> QED BY <1>1, <1>2 DEF ExportWork, ImportWork

\* A transfer that begins finds the console free.
LEMMA StartTakes == ASSUME PcInv, CountInv, NEW k, Start(k) PROVE C!Next
  <1> DEFINE c == opNo + 1
  <1>1. opNo \in Nat /\ MaxOps \in Nat /\ opNo < MaxOps /\ opNo' = c
    BY TransferAssumption DEF CountInv, Start
  <1>2. c \in 1..MaxOps /\ stages[c] = "idle"
    BY <1>1 DEF stages, StageOf
  <1>3. ~busy /\ Stage = "over"
    BY DEF Start, Stage
  <1>4. stages' = [stages EXCEPT ![c] = Stage']
    <2>1. \A n \in 1..MaxOps : StageOf(n)' = IF n = c THEN Stage' ELSE StageOf(n)
      BY <1>1, <1>3 DEF StageOf
    <2> QED BY <2>1 DEF stages
  <1>5. C!Free
    BY <1>1, <1>3 DEF C!Free, C!InUse, StageOf
  <1>6. CASE busy' = TRUE /\ pc' = "ensure"
    <2>1. Stage' = "ask"
      BY <1>6 DEF Stage
    <2> QED BY <1>2, <1>4, <1>5, <2>1 DEF C!Next, C!Take, C!Comes, stages
  <1>7. CASE UNCHANGED busy
    <2>1. Stage' = "over"
      BY <1>3, <1>7 DEF Stage
    <2> QED BY <1>2, <1>4, <2>1 DEF C!Next, C!GoAway, C!Comes, stages
  <1> QED BY <1>6, <1>7 DEF Start

\* What a stage may be followed by.
Follows == [ask |-> {"ask", "work", "leave", "over"}, work |-> {"work", "leave"},
            leave |-> {"leave", "over"}, over |-> {"over"}]

\* A step of the running transfer is one of Console's, or none.
LEMMA StageSteps ==
    ASSUME CountInv, UNCHANGED opNo, busy, Stage \in DOMAIN Follows, Stage' \in Follows[Stage]
    PROVE  C!Next \/ stages' = stages
  <1>1. opNo \in 1..MaxOps
    BY TransferAssumption DEF CountInv
  <1>2. stages[opNo] = Stage
    BY <1>1 DEF stages, StageOf
  <1>3. stages' = [stages EXCEPT ![opNo] = Stage']
    <2>1. \A n \in 1..MaxOps : StageOf(n)' = IF n = opNo THEN Stage' ELSE StageOf(n)
      BY <1>1 DEF StageOf
    <2> QED BY <2>1 DEF stages
  <1>4. Stage' = Stage => stages' = stages
    BY <1>1, <1>2, <1>3 DEF stages
  <1>5. Stage = "over" => Stage' = Stage
    BY DEF Follows
  <1>6. Stage = "ask" /\ Stage' # Stage => C!Next
    <2>1. Stage = "ask" /\ Stage' # Stage => Stage' \in {"work", "leave", "over"}
      BY DEF Follows
    <2> QED BY <1>1, <1>2, <1>3, <2>1 DEF C!Next, C!Asked, C!Comes, stages
  <1>7. Stage = "work" /\ Stage' # Stage => C!Next
    <2>1. Stage = "work" /\ Stage' # Stage => Stage' \in {"leave", "over"}
      BY DEF Follows
    <2> QED BY <1>1, <1>2, <1>3, <2>1 DEF C!Next, C!Worked, C!Comes, stages
  <1>8. Stage = "leave" /\ Stage' # Stage => C!Next
    <2>1. Stage = "leave" /\ Stage' # Stage => Stage' \in {"over"}
      BY DEF Follows
    <2> QED BY <1>1, <1>2, <1>3, <2>1 DEF C!Next, C!HandBack, C!Comes, stages
  <1> QED BY <1>4, <1>5, <1>6, <1>7, <1>8 DEF Follows

LEMMA ConsoleNext == IInv /\ CountInv /\ [Next]_vars => [C!Next]_stages
  <1> SUFFICES ASSUME IInv, CountInv, [Next]_vars PROVE C!Next \/ stages' = stages
    OBVIOUS
  <1> USE DEF IInv, PcInv, EngagedInv, Pcs, Waits
  <1>1. ASSUME NEW k, Start(k) PROVE C!Next
    BY <1>1, StartTakes
  <1>2. ASSUME UNCHANGED <<busy, pc, opNo>> PROVE stages' = stages
    BY <1>2 DEF stages, StageOf, Stage
  <1>3. ASSUME PageStep \/ GiveUp \/ Restore \/ Tidied \/ PasteThrows
        PROVE  C!Next \/ stages' = stages
    <2>1. UNCHANGED opNo
      BY <1>3, Zenon DEF PageStep, GiveUp, Restore, Tidied, PasteThrows, Engage, PackTaken,
             Packed, Ready, Go, BlockTaken, Summed, Verdict, Recover, Finish
    <2>2. busy /\ Stage \in {"ask", "work", "leave"}
      <3>1. pc # "idle"
        BY <1>3 DEF PageStep, GiveUp, Restore, Tidied, PasteThrows, Engage, PackTaken, Packed,
               Ready, Go, BlockTaken, Summed, Verdict, Recover
      <3> QED BY <3>1 DEF Stage
    <2>3. Stage' \in Follows[Stage]
      <3>1. CASE pc' \in Waits \ {"ensure"} /\ pc \in Waits /\ UNCHANGED busy
        BY <2>2, <3>1 DEF Stage, Follows
      <3>2. CASE pc' \in {"recover", "interrupt", "restore"} /\ UNCHANGED busy
        BY <2>2, <3>2 DEF Stage, Follows
      <3>3. CASE pc \notin Waits \ {"ensure"} /\ busy' = FALSE
        BY <2>2, <3>3 DEF Stage, Follows
      <3>4. CASE PageStep
        BY <3>1, <3>2, <3>4 DEF PageStep, Engage, PackTaken, Packed, Ready, Go, BlockTaken,
               Summed, Verdict, Recover, Finish, SendBlock
      <3>5. CASE GiveUp
        <4>1. CASE engaged
          BY <3>2, <3>5, <4>1 DEF GiveUp, Finish
        <4>2. CASE ~engaged
          <5>1. pc = "ensure" /\ busy' = FALSE
            BY <3>5, <4>2 DEF GiveUp
          <5> QED BY <3>3, <5>1
        <4> QED BY <4>1, <4>2
      <3>6. CASE Restore \/ Tidied
        BY <3>2, <3>3, <3>6 DEF Restore, Tidied
      <3>7. CASE PasteThrows
        BY <3>2, <3>3, <3>7 DEF PasteThrows
      <3> QED BY <1>3, <3>4, <3>5, <3>6, <3>7
    <2>4. Stage \in DOMAIN Follows
      BY <2>2 DEF Follows
    <2> QED BY <2>1, <2>2, <2>3, <2>4, StageSteps
  <1>4. ASSUME \/ GuestStep \/ Deliver \/ ProgramEnds \/ ProgramStarts
               \/ LoseMarker \/ Damage \/ UserKey \/ GuestStops \/ UNCHANGED vars
        PROVE  stages' = stages
    <2>1. UNCHANGED pageVars
      BY <1>4 DEF GuestStep, ShellRuns, HeadReads, ShortReads, PackEnds, UnpackEnds, Interrupt,
                  ProgramReads, ProgramEnds, ProgramStarts, Deliver, LoseMarker, Damage,
                  UserKey, GuestStops, vars
    <2> QED BY <1>2, <2>1 DEF pageVars
  <1> QED BY <1>1, <1>3, <1>4 DEF Next, ExportWork, ImportWork

LEMMA ConsoleInit == Init => C!Init
  <1> SUFFICES ASSUME Init PROVE stages = [n \in 1..MaxOps |-> "idle"]
    BY DEF C!Init, stages
  <1>1. opNo = 0 /\ MaxOps \in Nat
    BY TransferAssumption DEF Init
  <1> QED BY <1>1 DEF stages, StageOf

\* Transfers use the console as Console has it: the safety part of UsesConsole.
THEOREM TransfersShareConsole == Spec => C!Spec
  <1>1. [C!Next]_stages => [C!Next]_[n \in 1..MaxOps |-> StageOf(n)]
    BY DEF stages
  <1>2. IInv => PcInv
    BY DEF IInv
  <1> QED
    BY TransferInit, TransferNext, CountInit, CountNext, ConsoleInit, ConsoleNext, <1>1, <1>2,
       PTL DEF Spec, C!Spec
-----------------------------------------------------------------------------
\* The types, by who has the variable.
PageTypes ==
    /\ busy \in BOOLEAN /\ op \in {"none", "export", "import"} /\ opNo \in 0..MaxOps
    /\ pc \in Pcs /\ blk \in 1..NBlocks /\ engaged \in BOOLEAN /\ clean \in BOOLEAN
    /\ result \in Results

WireTypes == /\ got \subseteq Markers /\ inq \in Seq(Item) /\ out \in Seq(Markers)
             /\ spent \in [FaultKinds -> Nat]

GuestTypes ==
    /\ fg \in {"shell", "program", "head", "short", "pack", "unpack"}
    /\ echo \in BOOLEAN /\ tmp \in BOOLEAN /\ file \in Seq(0..NBlocks)
    /\ tgz \in {"none", "whole", "bad"} /\ work \in {"before", "partial", "home", "full"}
    /\ stopped \in BOOLEAN

LEMMA Types == TypeOK <=> PageTypes /\ WireTypes /\ GuestTypes
  BY DEF TypeOK, PageTypes, WireTypes, GuestTypes, Pcs

LEMMA NoBlocks == <<>> \in Seq(0..NBlocks)
<1>1. \A S : <<>> \in Seq(S)
  OBVIOUS
<1> QED BY <1>1, Zenon

LEMMA LineIsItem ==
    \A k \in Lines \cup {"payload", "key", "junk", "intr"} :
        /\ Line(k) \in Item /\ Line(k).k = k
        /\ \A n \in 0..NBlocks : [Line(k) EXCEPT !.n = n] \in Item
                                 /\ [Line(k) EXCEPT !.n = n].k = k
<1>1. 0 \in 0..NBlocks
  BY TransferAssumption
<1> QED BY <1>1 DEF Line, Item

LEMMA FaultTypes ==
    ASSUME WireTypes, NEW k \in FaultKinds, Fault(k) \/ UNCHANGED spent
    PROVE  spent' \in [FaultKinds -> Nat]
  BY DEF Fault, WireTypes

LEMMA PasteTypes ==
    ASSUME WireTypes, NEW items \in Seq(Item), Paste(items)
    PROVE  got' = {} /\ inq' \in Seq(Item)
  BY ConcatProperties DEF Paste, WireTypes

LEMMA SayTypes ==
    ASSUME WireTypes, NEW markers \in Seq(Markers), Say(markers)
    PROVE  out' \in Seq(Markers)
  BY ConcatProperties DEF Say, WireTypes

\* What is left when everything up to the i-th item is read.
LEMMA RestIsItems ==
    ASSUME WireTypes, NEW i \in 1..Len(inq)
    PROVE  /\ SubSeq(inq, i + 1, Len(inq)) \in Seq(Item)
           /\ Len(SubSeq(inq, i + 1, Len(inq))) = Len(inq) - i
           /\ \A j \in 1..(Len(inq) - i) : SubSeq(inq, i + 1, Len(inq))[j] = inq[i + j]
<1>1. inq \in Seq(Item) /\ Len(inq) \in Nat /\ i + 1 \in Int
  BY DEF WireTypes
<1>2. \A j \in (i + 1)..Len(inq) : inq[j] \in Item
  BY <1>1
<1>3. /\ SubSeq(inq, i + 1, Len(inq)) \in Seq(Item)
      /\ Len(SubSeq(inq, i + 1, Len(inq)))
           = IF i + 1 <= Len(inq) THEN Len(inq) - (i + 1) + 1 ELSE 0
      /\ \A j \in 1..(Len(inq) - (i + 1) + 1) :
             SubSeq(inq, i + 1, Len(inq))[j] = inq[i + 1 + j - 1]
  BY <1>1, <1>2, SubSeqProperties
<1>4. Len(SubSeq(inq, i + 1, Len(inq))) = Len(inq) - i
  BY <1>1, <1>3
<1>5. ASSUME NEW j \in 1..(Len(inq) - i)
      PROVE  SubSeq(inq, i + 1, Len(inq))[j] = inq[i + j]
  <2>1. j \in 1..(Len(inq) - (i + 1) + 1) /\ i + 1 + j - 1 = i + j
    BY <1>1
  <2> QED BY <1>3, <2>1
<1> QED BY <1>3, <1>4, <1>5

LEMMA StartTypes ==
    ASSUME TypeOK, NEW kind \in {"export", "import"}, Start(kind) PROVE TypeOK'
<1> USE Types
<1>1. PageTypes'
  <2>1. opNo' \in 0..MaxOps /\ blk' \in 1..NBlocks /\ op' \in {"none", "export", "import"}
    BY TransferAssumption DEF Start, PageTypes
  <2>2. CASE busy' = TRUE /\ result' = "none" /\ pc' = "ensure"
    BY <2>1, <2>2 DEF Start, PageTypes, Pcs, Waits, Results
  <2>3. CASE result' = "thrown" /\ UNCHANGED <<busy, pc>>
    BY <2>1, <2>3 DEF Start, PageTypes, Results
  <2> QED BY <2>2, <2>3 DEF Start
<1>2. WireTypes'
  <2>1. spent' \in [FaultKinds -> Nat]
    <3>1. "late" \in FaultKinds /\ "throw" \in FaultKinds
      BY DEF FaultKinds
    <3> QED BY <3>1, FaultTypes DEF Start, Unheard
  <2>2. CASE Paste(<<Line("enter")>>)
    <3>1. <<Line("enter")>> \in Seq(Item)
      BY LineIsItem DEF Lines
    <3> QED BY <2>1, <2>2, <3>1, PasteTypes DEF Start, WireTypes
  <2>3. CASE UNCHANGED <<inq, got>>
    BY <2>1, <2>3 DEF Start, WireTypes
  <2> QED BY <2>2, <2>3 DEF Start
<1>3. GuestTypes'
  BY DEF Start, GuestTypes
<1> QED BY <1>1, <1>2, <1>3, PTL

\* The page types its own lines, or nothing.
LEMMA PageStepTypes ==
    ASSUME TypeOK, PageStep \/ GiveUp \/ Restore \/ Tidied \/ PasteThrows PROVE TypeOK'
<1> USE Types
<1>1. PageTypes'
  <2>1. UNCHANGED <<op, opNo>>
    BY DEF PageStep, Engage, PackTaken, Packed, Ready, Go, BlockTaken, Summed, Verdict, Recover,
           GiveUp, Restore, Tidied, PasteThrows, Finish
  <2>2. pc' \in Pcs
    BY DEF PageStep, Engage, PackTaken, Packed, Ready, Go, BlockTaken, Summed, Verdict, Recover,
           GiveUp, Restore, Tidied, PasteThrows, Finish, SendBlock, Pcs, Waits, PageTypes
  <2>3. blk' \in 1..NBlocks
    <3>1. CASE UNCHANGED blk
      BY <3>1 DEF PageTypes
    <3>2. CASE Ready
      BY <3>2, TransferAssumption DEF Ready, SendBlock
    <3>3. CASE BlockTaken /\ blk < NBlocks /\ blk' = blk + 1
      BY <3>3, TransferAssumption DEF PageTypes
    <3> QED BY <3>1, <3>2, <3>3 DEF PageStep, Engage, PackTaken, Packed, Go, BlockTaken, Summed,
               Verdict, Recover, GiveUp, Restore, Tidied, PasteThrows, Finish, SendBlock
  <2>4. engaged' \in BOOLEAN /\ clean' \in BOOLEAN
    BY DEF PageStep, Engage, PackTaken, Packed, Ready, Go, BlockTaken, Summed, Verdict, Recover,
           GiveUp, Restore, Tidied, PasteThrows, Finish, SendBlock, PageTypes
  <2>5. busy' \in BOOLEAN
    BY DEF PageStep, Engage, PackTaken, Packed, Ready, Go, BlockTaken, Summed, Verdict, Recover,
           GiveUp, Restore, Tidied, PasteThrows, Finish, SendBlock, PageTypes
  <2>6. result' \in Results
    <3>1. GiveUp => result' \in Results
      BY DEF GiveUp, Finish, GiveUpResult, Results, Waits
    <3> QED BY <3>1 DEF PageStep, Engage, PackTaken, Packed, Ready, Go, BlockTaken, Summed,
               Verdict, Recover, Restore, Tidied, PasteThrows, Finish, SendBlock, PageTypes, Results
  <2> QED BY <2>1, <2>2, <2>3, <2>4, <2>5, <2>6 DEF PageTypes
<1>2. WireTypes'
  <2>1. spent' \in [FaultKinds -> Nat]
    <3>1. "late" \in FaultKinds /\ "throw" \in FaultKinds
      BY DEF FaultKinds
    <3>2. \E k \in FaultKinds : Fault(k) \/ UNCHANGED spent
      BY <3>1 DEF PageStep, GiveUp, Restore, Tidied, PasteThrows, Unheard
    <3> QED BY <3>2, FaultTypes
  <2>2. UNCHANGED out
    BY DEF PageStep, GiveUp, Restore, Tidied, PasteThrows
  <2>3. CASE UNCHANGED <<inq, got>>
    BY <2>1, <2>2, <2>3 DEF WireTypes
  <2>4. ASSUME NEW items \in Seq(Item), Paste(items) PROVE WireTypes'
    BY <2>1, <2>2, <2>4, PasteTypes DEF WireTypes
  <2>5. /\ \A k \in Lines : <<Line(k)>> \in Seq(Item)
        /\ \A n \in 1..NBlocks : <<[Line("block") EXCEPT !.n = n]>> \in Seq(Item)
        /\ <<Line("intr"), Line("intr")>> \in Seq(Item)
        /\ <<Line("restore"), Line("clear")>> \in Seq(Item)
    <3>1. \A n \in 1..NBlocks : n \in 0..NBlocks
      BY TransferAssumption
    <3>2. "block" \in Lines /\ "restore" \in Lines /\ "clear" \in Lines
      BY DEF Lines
    <3> QED BY <3>1, <3>2, LineIsItem
  <2>6. CASE Go
    <3>1. [k |-> "payload", n |-> blk, q |-> "whole"] \in Item
      BY TransferAssumption DEF Item, PageTypes
    <3>2. inq' = Append(inq, [k |-> "payload", n |-> blk, q |-> "whole"]) /\ UNCHANGED got
      BY <2>6 DEF Go
    <3> QED BY <2>1, <2>2, <3>1, <3>2, AppendProperties DEF WireTypes
  <2>7. CASE Ready \/ BlockTaken
    <3>1. ASSUME NEW n \in 1..NBlocks, SendBlock(n) PROVE WireTypes'
      BY <2>4, <2>5, <3>1 DEF SendBlock
    <3>2. 1 \in 1..NBlocks /\ (blk < NBlocks => blk + 1 \in 1..NBlocks)
      BY TransferAssumption DEF PageTypes
    <3>3. CASE Paste(<<Line("sum")>>)
      BY <2>4, <2>5, <3>3 DEF Lines
    <3> QED BY <2>7, <3>1, <3>2, <3>3 DEF Ready, BlockTaken
  <2>8. CASE Engage \/ Summed \/ Recover \/ Restore
    BY <2>3, <2>4, <2>5, <2>8 DEF Engage, Summed, Recover, Restore, Finish, Lines
  <2> QED BY <2>3, <2>6, <2>7, <2>8 DEF PageStep, PackTaken, Packed, Verdict, GiveUp, Tidied,
             PasteThrows, Finish
<1>3. GuestTypes'
  BY DEF PageStep, GiveUp, Restore, Tidied, PasteThrows, GuestTypes, guestVars
<1> QED BY <1>1, <1>2, <1>3, PTL

\* What the guest reads and prints.
LEMMA GuestStepTypes ==
    ASSUME TypeOK, GuestStep \/ ProgramEnds \/ ProgramStarts PROVE TypeOK'
<1> USE Types
<1>1. PageTypes' \/ UNCHANGED pageVars
  BY DEF GuestStep, ShellRuns, HeadReads, ShortReads, PackEnds, UnpackEnds, Interrupt,
         ProgramReads, ProgramEnds, ProgramStarts
<1>2. PageTypes'
  BY <1>1 DEF PageTypes, pageVars
<1>3. got' \subseteq Markers
  BY DEF WireTypes, GuestStep, ShellRuns, HeadReads, ShortReads, PackEnds, UnpackEnds, Interrupt,
         ProgramReads, ProgramEnds, ProgramStarts
<1>4. spent' \in [FaultKinds -> Nat]
  <2>1. "noise" \in FaultKinds
    BY DEF FaultKinds
  <2>2. Fault("noise") \/ UNCHANGED spent
    BY DEF GuestStep, ShellRuns, HeadReads, ShortReads, PackEnds, UnpackEnds, Interrupt,
           ProgramReads, ProgramEnds, ProgramStarts
  <2> QED BY <2>1, <2>2, FaultTypes
<1>5. out' \in Seq(Markers)
  <2> DEFINE Heard(ms) == ms \in Seq(Markers) /\ Say(ms)
  <2>1. CASE UNCHANGED out
    BY <2>1 DEF WireTypes
  <2>2. ASSUME NEW ms, Heard(ms) PROVE out' \in Seq(Markers)
    BY <2>2, SayTypes
  <2>3. /\ <<>> \in Seq(Markers)
        /\ \A m \in Markers : <<m>> \in Seq(Markers) /\ <<m, "prompt">> \in Seq(Markers)
        /\ <<"OK", "OK-full", "prompt">> \in Seq(Markers)
        /\ <<"OK", "OK-home", "prompt">> \in Seq(Markers)
    BY DEF Markers
  <2>4. ASSUME NEW x, NEW ok, RunLine(x, ok) PROVE UNCHANGED out \/ \E ms : Heard(ms)
    <3>1. CASE Say(<<"prompt">>) \/ Say(<<"PACK">>) \/ Say(<<"READY", "prompt">>)
               \/ Say(<<"GO">>) \/ Say(<<>>) \/ Say(<<"SUM", "prompt">>) \/ Say(<<"SUM-bad", "prompt">>)
      BY <2>3, <3>1 DEF Markers
    <3> QED BY <2>4, <3>1 DEF RunLine
  <2>5. ShellRuns => UNCHANGED out \/ \E ms : Heard(ms)
    BY <2>4 DEF ShellRuns
  <2>6. CASE HeadReads \/ ShortReads \/ PackEnds \/ UnpackEnds \/ Interrupt \/ ProgramReads
             \/ ProgramEnds \/ ProgramStarts
    <3>1. \/ UNCHANGED out
          \/ Say(<<"BLK", "prompt">>) \/ Say(<<"BEGIN-END", "prompt">>)
          \/ Say(<<"BEGIN-bad", "prompt">>) \/ Say(<<"ERR", "prompt">>)
          \/ Say(<<"OK", "OK-full", "prompt">>) \/ Say(<<"OK", "OK-home", "prompt">>)
          \/ Say(<<"FAIL", "prompt">>) \/ Say(<<"prompt">>)
      BY <2>6 DEF HeadReads, ShortReads, PackEnds, UnpackEnds, Interrupt, ProgramReads,
                  ProgramEnds, ProgramStarts, guestVars
    <3>2. UNCHANGED out \/ \E ms : Heard(ms)
      BY <2>3, <3>1 DEF Markers
    <3> QED BY <2>1, <2>2, <3>2
  <2> QED BY <2>1, <2>2, <2>5, <2>6 DEF GuestStep
<1>6. inq' \in Seq(Item)
  <2>1. CASE UNCHANGED inq
    BY <2>1 DEF WireTypes
  <2>2. ASSUME NEW i \in 1..Len(inq), inq' = SubSeq(inq, i + 1, Len(inq)) PROVE inq' \in Seq(Item)
    BY <2>2, RestIsItems
  <2>3. CASE inq # <<>> /\ inq' = Tail(inq)
    BY <2>3, HeadTailProperties DEF WireTypes
  <2>4. <<>> \in Seq(Item) /\ <<Line("junk")>> \in Seq(Item)
    BY LineIsItem
  <2>5. CASE HeadReads
    <3>1. PICK i \in 1..Len(inq) :
               \/ inq' = Tail(inq)
               \/ inq' = (IF i > 1 THEN <<Line("junk")>> ELSE <<>>) \o SubSeq(inq, i + 1, Len(inq))
      BY <2>5 DEF HeadReads
    <3>2. inq # <<>>
      BY DEF WireTypes
    <3>3. SubSeq(inq, i + 1, Len(inq)) \in Seq(Item)
      BY RestIsItems
    <3> QED BY <2>3, <2>4, <3>1, <3>2, <3>3, ConcatProperties
  <2>6. CASE ShortReads
    <3>1. Tail(inq) \in Seq(Item)
      BY <2>6, HeadTailProperties DEF ShortReads, WireTypes
    <3> QED BY <2>4, <2>6, <3>1, ConcatProperties DEF ShortReads
  <2> QED BY <2>1, <2>2, <2>3, <2>5, <2>6 DEF GuestStep, ShellRuns, PackEnds, UnpackEnds,
             Interrupt, ProgramReads, ProgramEnds, ProgramStarts
<1>7. GuestTypes'
  <2>1. file' \in Seq(0..NBlocks)
    <3>1. CASE UNCHANGED file \/ file' = <<>>
      BY <3>1, NoBlocks DEF GuestTypes
    <3>2. ASSUME NEW n \in 0..NBlocks, file' = Append(file, n) PROVE file' \in Seq(0..NBlocks)
      BY <3>2, AppendProperties DEF GuestTypes
    <3>3. 0 \in 0..NBlocks /\ \A i \in 1..Len(inq) : inq[i].n \in 0..NBlocks
      <4>1. \A i \in 1..Len(inq) : inq[i] \in Item
        BY DEF WireTypes
      <4> QED BY <4>1, TransferAssumption DEF Item
    <3>4. CASE HeadReads \/ ShortReads
      <4>1. UNCHANGED file \/ \E n \in 0..NBlocks : file' = Append(file, n)
        BY <3>3, <3>4 DEF HeadReads, ShortReads
      <4> QED BY <3>1, <3>2, <4>1
    <3> QED BY <3>1, <3>4 DEF GuestStep, ShellRuns, RunLine, PackEnds, UnpackEnds, Interrupt,
               ProgramReads, ProgramEnds, ProgramStarts, guestVars
  <2>2. /\ fg' \in {"shell", "program", "head", "short", "pack", "unpack"}
        /\ tgz' \in {"none", "whole", "bad"} /\ work' \in {"before", "partial", "home", "full"}
    BY DEF GuestTypes, GuestStep, ShellRuns, RunLine, HeadReads, ShortReads, PackEnds, UnpackEnds,
           Interrupt, ProgramReads, ProgramEnds, ProgramStarts, guestVars
  <2>3. tmp' \in BOOLEAN /\ stopped' \in BOOLEAN
    BY DEF GuestTypes, GuestStep, ShellRuns, RunLine, HeadReads, ShortReads, PackEnds, UnpackEnds,
           Interrupt, ProgramReads, ProgramEnds, ProgramStarts, guestVars
  <2>4. echo' \in BOOLEAN
    BY DEF GuestTypes, GuestStep, ShellRuns, RunLine, HeadReads, ShortReads, PackEnds, UnpackEnds,
           Interrupt, ProgramReads, ProgramEnds, ProgramStarts, guestVars
  <2> QED BY <2>1, <2>2, <2>3, <2>4 DEF GuestTypes
<1>8. WireTypes'
  BY <1>3, <1>4, <1>5, <1>6 DEF WireTypes
<1> QED BY <1>2, <1>7, <1>8, PTL

LEMMA WireStepTypes ==
    ASSUME TypeOK, Deliver \/ LoseMarker \/ Damage \/ UserKey \/ GuestStops \/ UNCHANGED vars
    PROVE  TypeOK'
<1> USE Types
<1>1. PageTypes'
  BY DEF Deliver, LoseMarker, Damage, UserKey, GuestStops, PageTypes, pageVars, vars
<1>2. GuestTypes'
  BY DEF Deliver, LoseMarker, Damage, UserKey, GuestStops, GuestTypes, guestVars, vars
<1>3. spent' \in [FaultKinds -> Nat]
  <2>1. \E k \in FaultKinds : Fault(k) \/ UNCHANGED spent
    BY DEF Deliver, LoseMarker, Damage, UserKey, GuestStops, vars, FaultKinds
  <2> QED BY <2>1, FaultTypes
<1>4. out' \in Seq(Markers) /\ got' \subseteq Markers
  <2>1. CASE Deliver \/ LoseMarker
    BY <2>1, HeadTailProperties DEF Deliver, LoseMarker, WireTypes
  <2> QED BY <2>1 DEF Damage, UserKey, GuestStops, vars, WireTypes
<1>5. inq' \in Seq(Item)
  <2>1. CASE Damage
    <3>1. PICK i \in 1..Len(inq), q \in {"bad", "short"} : inq' = [inq EXCEPT ![i].q = q]
      BY <2>1 DEF Damage
    <3>2. [inq[i] EXCEPT !.q = q] \in Item
      <4>1. inq[i] \in Item
        BY DEF WireTypes
      <4> QED BY <4>1 DEF Item
    <3> QED BY <3>1, <3>2 DEF WireTypes
  <2>2. CASE UserKey
    BY <2>2, LineIsItem, AppendProperties DEF UserKey, WireTypes
  <2> QED BY <2>1, <2>2 DEF Deliver, LoseMarker, GuestStops, vars, WireTypes
<1>6. WireTypes'
  BY <1>3, <1>4, <1>5 DEF WireTypes
<1> QED BY <1>1, <1>2, <1>6, PTL

\* Every line typed, marker printed and state of a transfer is of its kind, for every number
\* of blocks, of transfers and of faults: exportWork() and importWork() with their guest.
THEOREM TransferTypes == Spec => []TypeOK
<1>1. Init => TypeOK
  <2> SUFFICES ASSUME Init PROVE TypeOK
    OBVIOUS
  <2>1. 0 \in 0..MaxOps /\ 1 \in 1..NBlocks
    BY TransferAssumption
  <2>2. PageTypes
    BY <2>1 DEF Init, PageTypes, Pcs, Results
  <2>3. WireTypes
    BY DEF Init, WireTypes, FaultKinds
  <2>4. GuestTypes
    BY NoBlocks DEF Init, GuestTypes
  <2> QED BY <2>2, <2>3, <2>4, Types
<1>2. TypeOK /\ [Next]_vars => TypeOK'
  BY StartTypes, PageStepTypes, GuestStepTypes, WireStepTypes DEF Next, ExportWork, ImportWork
<1> QED BY <1>1, <1>2, PTL DEF Spec
-----------------------------------------------------------------------------
(***************************************************************************)
(* What a transfer's reports rest on: of the three lines that matter here, *)
(* ready, sum and unpack, the guest has at most the one the page waits     *)
(* for, and what is printed is the answer to it.  Only a guest that lags   *)
(* behind a wait that gave up, or that has stopped, has another.           *)
(***************************************************************************)
KeyLines == {"ready", "sum", "unpack"}
Ordered  == KeyLines \cup {"restore"}

\* The wait of a line, and what answers it.
WaitOf     == [ready |-> "ready", sum |-> "sum", unpack |-> "verdict"]
Answers(L) == Awaited[WaitOf[L]]

Typed(k)     == \E i \in 1..Len(inq) : inq[i].k = k
UnderWay(L)  == Typed(L) \/ (L = "unpack" /\ fg = "unpack")
Printed(L)   == \E i \in 1..Len(out) : out[i] \in Answers(L)
Unread(L)    == got \cap Answers(L) = {}
OneAnswer(L) == \A i, j \in 1..Len(out) : out[i] \in Answers(L) /\ out[j] \in Answers(L) => i = j
Says(m)      == m \in got \/ \E i \in 1..Len(out) : out[i] = m

After   == {"recover", "interrupt", "restore", "idle"}
Lagging == spent["late"] > 0 /\ pc \in After
Dead    == stopped /\ out = <<>> /\ (pc \in After \/ (pc = "ensure" /\ got = {}))

Own(L) ==
    /\ UnderWay(L) => Lagging \/ Dead \/ (pc = WaitOf[L] /\ ~Printed(L) /\ Unread(L))
    /\ Printed(L) => Lagging \/ (pc = WaitOf[L] /\ Unread(L))
    /\ pc = WaitOf[L] => OneAnswer(L)

\* Each is typed once, and nothing that touches the archive before the unpack.
Once  == \A L \in KeyLines : \A i, j \in 1..Len(inq) : inq[i].k = L /\ inq[j].k = L => i = j
Ahead == \A i, j \in 1..Len(inq) : inq[i].k = "unpack" /\ j < i => inq[j].k \notin Ordered

\* recover()'s rm of an earlier transfer is before this one's ready.
RestoreFirst == \A j \in 1..Len(inq) : inq[j].k = "restore" =>
                    \E i \in 1..Len(inq) : i > j /\ inq[i].k = "ready"

RestoreInv == /\ pc = "ready" => RestoreFirst
              /\ pc \in {"go", "blk", "sum", "verdict"} => ~Typed("restore")

SumInv == pc = "sum" /\ Says("SUM") => tgz = "whole"

UnpackInv == /\ UnderWay("unpack") => tgz = "whole" /\ result \notin {"untouched", "full", "home"}
             /\ ~(Typed("unpack") /\ fg = "unpack")

WorkInv ==
    /\ pc \in Waits => result = "none" /\ (pc # "verdict" => work = "before")
    /\ pc = "verdict" => (Says("OK-full") => work = "full") /\ (Says("OK-home") => work = "home")
    /\ result = "untouched" => work = "before"
    /\ result \in {"full", "home"} => work = result

LedgerInv == /\ \A L \in KeyLines : Own(L)
             /\ Once /\ Ahead /\ RestoreInv /\ SumInv /\ UnpackInv /\ WorkInv

LEMMA AnswersAre ==
    /\ Answers("ready") = {"READY"} /\ Answers("sum") = {"SUM", "SUM-bad"}
    /\ Answers("unpack") = {"OK-full", "OK-home", "FAIL"}
    /\ WaitOf["ready"] = "ready" /\ WaitOf["sum"] = "sum" /\ WaitOf["unpack"] = "verdict"
  BY DEF Answers, Awaited, WaitOf

\* The lines in the queue after a step are those before it, less some at the front and
\* some that do not matter, d places further on.
Shifts(d) ==
    /\ \A j \in 1..Len(inq') : inq'[j].k \in Ordered =>
           j + d \in 1..Len(inq) /\ inq[j + d].k = inq'[j].k
    /\ \A j \in 1..Len(inq'), i \in 1..Len(inq) : inq'[j].k \in Ordered /\ i > j + d =>
           i - d \in 1..Len(inq') /\ inq'[i - d].k = inq[i].k

Fewer == \E d \in Int : Shifts(d)

LEMMA FewerKeeps ==
    ASSUME inq \in Seq(Item), inq' \in Seq(Item), Fewer
    PROVE  /\ \A k \in Ordered : Typed(k)' => Typed(k)
           /\ Once => Once'
           /\ Ahead => Ahead'
           /\ RestoreFirst => RestoreFirst'
<1>1. PICK d \in Int : Shifts(d)
  BY DEF Fewer
<1>2. Len(inq) \in Nat /\ Len(inq') \in Nat
  OBVIOUS
<1>3. \A j \in 1..Len(inq') : inq'[j].k \in Ordered => j + d \in 1..Len(inq) /\ inq[j + d].k = inq'[j].k
  BY <1>1 DEF Shifts
<1>4. \A j \in 1..Len(inq'), i \in 1..Len(inq) : inq'[j].k \in Ordered /\ i > j + d =>
         i - d \in 1..Len(inq') /\ inq'[i - d].k = inq[i].k
  BY <1>1 DEF Shifts
<1>5. ASSUME NEW k \in Ordered, Typed(k)' PROVE Typed(k)
  BY <1>3, <1>5 DEF Typed
<1>6. ASSUME Once, NEW L \in KeyLines, NEW i \in 1..Len(inq'), NEW j \in 1..Len(inq'),
             inq'[i].k = L, inq'[j].k = L
      PROVE  i = j
  <2>1. L \in Ordered
    BY DEF Ordered
  <2>2. i + d \in 1..Len(inq) /\ j + d \in 1..Len(inq) /\ inq[i + d].k = L /\ inq[j + d].k = L
    BY <1>3, <1>6, <2>1
  <2>3. i + d = j + d
    BY <1>6, <2>2 DEF Once
  <2> QED BY <1>2, <2>3
<1>7. ASSUME Ahead, NEW i \in 1..Len(inq'), NEW j \in 1..Len(inq'), inq'[i].k = "unpack", j < i,
             inq'[j].k \in Ordered
      PROVE  FALSE
  <2>1. "unpack" \in Ordered
    BY DEF Ordered, KeyLines
  <2>2. /\ i + d \in 1..Len(inq) /\ inq[i + d].k = "unpack"
        /\ j + d \in 1..Len(inq) /\ inq[j + d].k \in Ordered
    BY <1>3, <1>7, <2>1
  <2>3. j + d < i + d
    BY <1>2, <1>7
  <2> QED BY <1>7, <2>2, <2>3 DEF Ahead
<1>8. ASSUME RestoreFirst, NEW j \in 1..Len(inq'), inq'[j].k = "restore"
      PROVE  \E i \in 1..Len(inq') : i > j /\ inq'[i].k = "ready"
  <2>1. inq'[j].k \in Ordered
    BY <1>8 DEF Ordered
  <2>2. j + d \in 1..Len(inq) /\ inq[j + d].k = "restore"
    BY <1>3, <1>8, <2>1
  <2>3. PICK i \in 1..Len(inq) : i > j + d /\ inq[i].k = "ready"
    BY <1>8, <2>2 DEF RestoreFirst
  <2>4. i - d \in 1..Len(inq') /\ inq'[i - d].k = "ready"
    BY <1>4, <2>1, <2>3
  <2>5. i - d > j
    BY <1>2, <2>3
  <2> QED BY <2>4, <2>5
<1> QED BY <1>5, <1>6, <1>7, <1>8 DEF Once, Ahead, RestoreFirst

\* The ways the queue changes.
LEMMA SameIsFewer == ASSUME inq \in Seq(Item), inq' = inq PROVE Fewer
<1>1. Shifts(0)
  BY DEF Shifts
<1> QED BY <1>1 DEF Fewer

LEMMA MoreIsFewer ==
    ASSUME inq \in Seq(Item), NEW items \in Seq(Item), inq' = inq \o items,
           \A j \in 1..Len(items) : items[j].k \notin Ordered
    PROVE  Fewer
<1>1. /\ Len(inq) \in Nat /\ Len(items) \in Nat /\ Len(inq') = Len(inq) + Len(items)
      /\ \A j \in 1..Len(inq') : inq'[j] = IF j <= Len(inq) THEN inq[j] ELSE items[j - Len(inq)]
  BY ConcatProperties
<1>2. ASSUME NEW j \in 1..Len(inq'), inq'[j].k \in Ordered PROVE j \in 1..Len(inq)
  <2>1. CASE ~(j <= Len(inq))
    <3>1. j - Len(inq) \in 1..Len(items)
      BY <1>1, <2>1
    <3> QED BY <1>1, <1>2, <2>1, <3>1
  <2> QED BY <1>1, <2>1
<1>3. \A j \in 1..Len(inq) : j \in 1..Len(inq') /\ inq'[j] = inq[j]
  BY <1>1
<1>4. Shifts(0)
  BY <1>1, <1>2, <1>3 DEF Shifts
<1> QED BY <1>4 DEF Fewer

LEMMA RestIsFewer ==
    ASSUME WireTypes, NEW i \in 1..Len(inq), inq' = SubSeq(inq, i + 1, Len(inq))
    PROVE  Fewer /\ \A j \in 1..Len(inq') : i + j \in 1..Len(inq) /\ inq'[j] = inq[i + j]
<1>1. /\ Len(inq) \in Nat /\ Len(inq') = Len(inq) - i
      /\ \A j \in 1..Len(inq') : inq'[j] = inq[i + j]
  BY RestIsItems DEF WireTypes
<1>2. \A j \in 1..Len(inq') : i + j \in 1..Len(inq) /\ j + i \in 1..Len(inq) /\ j + i = i + j
  BY <1>1
<1>3. ASSUME NEW j \in 1..Len(inq'), NEW n \in 1..Len(inq), n > j + i
      PROVE  n - i \in 1..Len(inq') /\ inq'[n - i].k = inq[n].k
  <2>1. n - i \in 1..Len(inq') /\ i + (n - i) = n
    BY <1>1, <1>3
  <2> QED BY <1>1, <2>1
<1>4. Shifts(i)
  BY <1>1, <1>2, <1>3 DEF Shifts
<1>5. i \in Int
  BY <1>1
<1> QED BY <1>1, <1>2, <1>4, <1>5 DEF Fewer

\* The line at the front is used up by a block, and something harmless left over.
LEMMA LeftoverIsFewer ==
    ASSUME WireTypes, NEW i \in 1..Len(inq),
           inq' = <<Line("junk")>> \o SubSeq(inq, i + 1, Len(inq))
    PROVE  Fewer
<1> DEFINE rest == SubSeq(inq, i + 1, Len(inq))
<1>1. /\ Len(inq) \in Nat /\ rest \in Seq(Item) /\ Len(rest) = Len(inq) - i
      /\ \A j \in 1..(Len(inq) - i) : rest[j] = inq[i + j]
  BY RestIsItems DEF WireTypes
<1>2. <<Line("junk")>> \in Seq(Item) /\ Len(<<Line("junk")>>) = 1 /\ <<Line("junk")>>[1] = Line("junk")
  BY LineIsItem
<1> HIDE DEF rest
<1>3. /\ Len(inq') = 1 + Len(rest)
      /\ \A j \in 1..Len(inq') : inq'[j] = IF j <= 1 THEN <<Line("junk")>>[j] ELSE rest[j - 1]
  BY <1>1, <1>2, ConcatProperties DEF rest
<1>4. 1 \in 1..Len(inq') /\ inq'[1] = Line("junk") /\ Line("junk").k \notin Ordered
  BY <1>1, <1>2, <1>3, LineIsItem DEF Ordered, KeyLines
<1>5. \A j \in 1..Len(inq') : j # 1 => inq'[j] = inq[j + (i - 1)] /\ j + (i - 1) \in 1..Len(inq)
  <2> SUFFICES ASSUME NEW j \in 1..Len(inq'), j # 1
               PROVE  inq'[j] = inq[j + (i - 1)] /\ j + (i - 1) \in 1..Len(inq)
    OBVIOUS
  <2>1. j - 1 \in 1..(Len(inq) - i) /\ i + (j - 1) = j + (i - 1) /\ ~(j <= 1)
    BY <1>1, <1>3
  <2>2. i + (j - 1) \in 1..Len(inq)
    BY <1>1, <2>1
  <2> QED BY <1>1, <1>3, <2>1, <2>2
<1>6. ASSUME NEW j \in 1..Len(inq'), inq'[j].k \in Ordered, NEW n \in 1..Len(inq), n > j + (i - 1)
      PROVE  n - (i - 1) \in 1..Len(inq') /\ inq'[n - (i - 1)].k = inq[n].k
  <2>1. n - (i - 1) \in 1..Len(inq') /\ n - (i - 1) # 1 /\ (n - (i - 1)) + (i - 1) = n
    BY <1>1, <1>3, <1>6
  <2> QED BY <1>5, <2>1
<1>7. Shifts(i - 1)
  <2>1. \A j \in 1..Len(inq') : inq'[j].k \in Ordered =>
           j + (i - 1) \in 1..Len(inq) /\ inq[j + (i - 1)].k = inq'[j].k
    BY <1>4, <1>5
  <2> QED BY <1>6, <2>1 DEF Shifts
<1>8. i - 1 \in Int
  BY <1>1
<1> QED BY <1>7, <1>8 DEF Fewer

KeyAnswers == {"READY", "SUM", "SUM-bad", "OK-full", "OK-home", "FAIL"}

LEMMA AnswersOf == \A L \in KeyLines : Answers(L) \subseteq KeyAnswers
  BY AnswersAre DEF KeyLines, KeyAnswers

\* No answer is printed that the page could take for one to its line.
Quiet == /\ \A L \in KeyLines : (Printed(L)' => Printed(L)) /\ (OneAnswer(L) => OneAnswer(L)')
         /\ \A m \in KeyAnswers : Says(m)' => Says(m)

LEMMA SayAppends ==
    ASSUME WireTypes, NEW ms \in Seq(Markers), Say(ms)
    PROVE  /\ Len(out) \in Nat /\ Len(ms) \in Nat /\ Len(out') = Len(out) + Len(ms)
           /\ \A i \in 1..Len(out') :
                  \/ i \in 1..Len(out) /\ out'[i] = out[i]
                  \/ i - Len(out) \in 1..Len(ms) /\ out'[i] = ms[i - Len(out)] /\ i > Len(out)
<1>1. /\ Len(out) \in Nat /\ Len(ms) \in Nat /\ Len(out') = Len(out) + Len(ms)
      /\ \A i \in 1..Len(out') : out'[i] = IF i <= Len(out) THEN out[i] ELSE ms[i - Len(out)]
  BY ConcatProperties DEF WireTypes, Say
<1>2. ASSUME NEW i \in 1..Len(out')
      PROVE  \/ i \in 1..Len(out) /\ out'[i] = out[i]
             \/ i - Len(out) \in 1..Len(ms) /\ out'[i] = ms[i - Len(out)] /\ i > Len(out)
  <2>1. CASE i <= Len(out)
    BY <1>1, <2>1
  <2>2. CASE ~(i <= Len(out))
    <3>1. i - Len(out) \in 1..Len(ms) /\ i > Len(out)
      BY <1>1, <2>2
    <3> QED BY <1>1, <2>2, <3>1
  <2> QED BY <2>1, <2>2
<1> QED BY <1>1, <1>2

LEMMA SayQuiet ==
    ASSUME WireTypes, NEW ms \in Seq(Markers), Say(ms), UNCHANGED got,
           \A i \in 1..Len(ms) : ms[i] \notin KeyAnswers
    PROVE  Quiet
<1>1. \A i \in 1..Len(out') : out'[i] \in KeyAnswers => i \in 1..Len(out) /\ out'[i] = out[i]
  BY SayAppends
<1>2. ASSUME NEW L \in KeyLines, Printed(L)' PROVE Printed(L)
  BY <1>1, <1>2, AnswersOf DEF Printed
<1>3. ASSUME NEW L \in KeyLines, OneAnswer(L) PROVE OneAnswer(L)'
  BY <1>1, <1>3, AnswersOf DEF OneAnswer
<1>4. ASSUME NEW m \in KeyAnswers, Says(m)' PROVE Says(m)
  BY <1>1, <1>4 DEF Says
<1> QED BY <1>2, <1>3, <1>4 DEF Quiet

LEMMA SayAnswer ==
    ASSUME WireTypes, NEW ms \in Seq(Markers), Say(ms), UNCHANGED got,
           NEW n \in 1..Len(ms), \A i \in 1..Len(ms) : ms[i] \in KeyAnswers => i = n,
           NEW L \in KeyLines, ms[n] \in Answers(L), ~Printed(L)
    PROVE  /\ OneAnswer(L)'
           /\ \A M \in KeyLines \ {L} : (Printed(M)' => Printed(M)) /\ (OneAnswer(M) => OneAnswer(M)')
           /\ \A m \in KeyAnswers : Says(m)' => Says(m) \/ m = ms[n]
<1>1. \A i \in 1..Len(out') : out'[i] \in KeyAnswers =>
           (i \in 1..Len(out) /\ out'[i] = out[i]) \/ (i = Len(out) + n /\ out'[i] = ms[n])
  <2> SUFFICES ASSUME NEW i \in 1..Len(out'), out'[i] \in KeyAnswers, ~(i \in 1..Len(out) /\ out'[i] = out[i])
               PROVE  i = Len(out) + n /\ out'[i] = ms[n]
    OBVIOUS
  <2>1. i - Len(out) \in 1..Len(ms) /\ out'[i] = ms[i - Len(out)] /\ Len(out) \in Nat
    BY SayAppends
  <2>2. i - Len(out) = n
    BY <2>1
  <2> QED BY <2>1, <2>2
<1>2. ASSUME NEW M \in KeyLines \ {L} PROVE ms[n] \notin Answers(M)
  BY <1>2, AnswersAre DEF KeyLines
<1>3. \A i \in 1..Len(out) : out[i] \notin Answers(L)
  BY DEF Printed
<1>4. OneAnswer(L)'
  BY <1>1, <1>3, AnswersOf DEF OneAnswer
<1>5. ASSUME NEW M \in KeyLines \ {L}, Printed(M)' PROVE Printed(M)
  <2>1. PICK i \in 1..Len(out') : out'[i] \in Answers(M)
    BY <1>5 DEF Printed
  <2>2. out'[i] \in KeyAnswers /\ out'[i] # ms[n]
    BY <1>2, <2>1, AnswersOf
  <2> QED BY <1>1, <2>1, <2>2 DEF Printed
<1>6. ASSUME NEW M \in KeyLines \ {L}, OneAnswer(M) PROVE OneAnswer(M)'
  <2> SUFFICES ASSUME NEW i \in 1..Len(out'), NEW j \in 1..Len(out'),
                      out'[i] \in Answers(M), out'[j] \in Answers(M)
               PROVE  i = j
    BY DEF OneAnswer
  <2>1. out'[i] \in KeyAnswers /\ out'[i] # ms[n] /\ out'[j] \in KeyAnswers /\ out'[j] # ms[n]
    BY <1>2, AnswersOf
  <2>2. i \in 1..Len(out) /\ j \in 1..Len(out) /\ out'[i] = out[i] /\ out'[j] = out[j]
    BY <1>1, <2>1
  <2> QED BY <1>6, <2>2 DEF OneAnswer
<1>7. ASSUME NEW m \in KeyAnswers, Says(m)' PROVE Says(m) \/ m = ms[n]
  BY <1>1, <1>7 DEF Says
<1> QED BY <1>4, <1>5, <1>6, <1>7

LEMMA SameIsQuiet == ASSUME UNCHANGED <<out, got>> PROVE Quiet
  BY DEF Quiet, Printed, OneAnswer, Says

\* A step with neither a wait that ends nor an answer: the archive goes only when no unpack
\* is left, and what the unpack did changes only under it.
LEMMA Still ==
    ASSUME WireTypes, inq' \in Seq(Item), LedgerInv, Fewer, Quiet,
           UNCHANGED <<pc, result, got>>,
           tgz' # tgz => pc # "sum" /\ ~UnderWay("unpack")',
           work' # work => fg = "unpack" /\ ~stopped,
           spent["late"] > 0 => spent'["late"] > 0,
           fg' = "unpack" => fg = "unpack" \/ (Typed("unpack") /\ ~Typed("unpack")'),
           stopped /\ out = <<>> => stopped' /\ out' = <<>>
    PROVE  LedgerInv'
<1>0. inq \in Seq(Item)
  BY DEF WireTypes
<1>1. \A k \in Ordered : Typed(k)' => Typed(k)
  BY <1>0, FewerKeeps
<1>2. Once' /\ Ahead'
  BY <1>0, FewerKeeps DEF LedgerInv
<1>3. \A L \in KeyLines : UnderWay(L)' => UnderWay(L)
  <2>1. KeyLines \subseteq Ordered
    BY DEF Ordered
  <2> QED BY <1>1, <2>1 DEF UnderWay
<1>4. (Lagging => Lagging') /\ (Dead => Dead')
  BY DEF Lagging, Dead
<1>5. ASSUME NEW L \in KeyLines PROVE Own(L)'
  <2>1. Own(L) /\ (Printed(L)' => Printed(L)) /\ (OneAnswer(L) => OneAnswer(L)')
    BY DEF LedgerInv, Quiet
  <2>2. Unread(L)' <=> Unread(L)
    BY DEF Unread
  <2> QED BY <1>3, <1>4, <2>1, <2>2 DEF Own
<1>6. RestoreInv'
  <2>1. RestoreFirst => RestoreFirst'
    BY <1>0, FewerKeeps
  <2>2. Typed("restore")' => Typed("restore")
    BY <1>1 DEF Ordered
  <2> QED BY <2>1, <2>2 DEF LedgerInv, RestoreInv
<1>7. SumInv'
  BY DEF LedgerInv, SumInv, Quiet, KeyAnswers
<1>9. WorkInv'
  <2>1. \A m \in KeyAnswers : Says(m)' => Says(m)
    BY DEF Quiet
  <2>2. "OK-full" \in KeyAnswers /\ "OK-home" \in KeyAnswers
    BY DEF KeyAnswers
  <2>3. CASE work' = work
    BY <2>1, <2>2, <2>3 DEF LedgerInv, WorkInv
  <2>4. CASE work' # work
    <3>1. UnderWay("unpack") /\ ~Dead /\ "unpack" \in KeyLines
      BY <2>4 DEF UnderWay, Dead, KeyLines
    <3>2. Lagging \/ (pc = "verdict" /\ ~Printed("unpack") /\ Unread("unpack"))
      BY <3>1, AnswersAre DEF LedgerInv, Own
    <3>3. result \notin {"untouched", "full", "home"}
      BY <3>1 DEF LedgerInv, UnpackInv
    <3>4. CASE Lagging
      BY <3>3, <3>4 DEF Lagging, After, WorkInv, Waits
    <3>5. CASE pc = "verdict" /\ ~Printed("unpack") /\ Unread("unpack")
      <4>1. ~Says("OK-full") /\ ~Says("OK-home")
        BY <3>5, AnswersAre DEF Says, Printed, Unread
      <4>2. result = "none"
        BY <3>5 DEF LedgerInv, WorkInv, Waits
      <4> QED BY <2>1, <2>2, <3>5, <4>1, <4>2 DEF WorkInv
    <3> QED BY <3>2, <3>4, <3>5
  <2> QED BY <2>3, <2>4
<1>8. UnpackInv'
  <2>1. "unpack" \in KeyLines
    BY DEF KeyLines
  <2>2. Typed("unpack")' => Typed("unpack")
    BY <1>1, <2>1 DEF Ordered
  <2> QED BY <1>3, <2>1, <2>2 DEF LedgerInv, UnpackInv
<1> QED BY <1>2, <1>5, <1>6, <1>7, <1>8, <1>9 DEF LedgerInv

\* The page is past the answer to its line, or it waits for none of these: the guest has
\* no line, and has printed no answer.
LEMMA NothingLeft ==
    ASSUME LedgerInv, pc \notin After, pc = "ensure" => got # {},
           \A L \in KeyLines : pc = WaitOf[L] => ~Unread(L)
    PROVE  \A L \in KeyLines : ~UnderWay(L) /\ ~Printed(L) /\ ~Typed(L)
  BY DEF LedgerInv, Own, Lagging, Dead, UnderWay

\* A wait ends, well or not, and the finally block is next, or the latch is dropped.
LEMMA WaitEnds ==
    ASSUME LedgerInv, UNCHANGED <<inq, out, got, fg, tgz>>, pc' \in After,
           \A L \in KeyLines : UnderWay(L) => Lagging' \/ Dead',
           \A L \in KeyLines : Printed(L) => Lagging',
           UnderWay("unpack") => result' \notin {"untouched", "full", "home"},
           result' = "untouched" => work' = "before",
           result' \in {"full", "home"} => work' = result'
    PROVE  LedgerInv'
<1>1. pc' \notin Waits \cup {"ready", "sum", "verdict", "go", "blk"}
  BY DEF After, Waits
<1>2. \A L \in KeyLines : (UnderWay(L)' <=> UnderWay(L)) /\ (Printed(L)' <=> Printed(L)) /\ pc' # WaitOf[L]
  BY <1>1, AnswersAre DEF UnderWay, Typed, Printed, KeyLines
<1>3. \A L \in KeyLines : Own(L)'
  BY <1>2 DEF Own
<1>4. Once' /\ Ahead'
  BY DEF LedgerInv, Once, Ahead
<1>5. RestoreInv' /\ SumInv'
  BY <1>1 DEF RestoreInv, SumInv
<1>6. UnpackInv'
  <2>1. "unpack" \in KeyLines
    BY DEF KeyLines
  <2>2. Typed("unpack")' <=> Typed("unpack")
    BY DEF Typed
  <2> QED BY <1>2, <2>1, <2>2 DEF LedgerInv, UnpackInv
<1>7. WorkInv'
  BY <1>1 DEF WorkInv
<1> QED BY <1>3, <1>4, <1>5, <1>6, <1>7 DEF LedgerInv

\* The waits that an answer ends: the answer read, the guest has nothing of the transfer.
LEMMA PageEndsLedger ==
    ASSUME WireTypes, PcInv, EngagedInv, LedgerInv,
           PackTaken \/ Packed \/ (Summed /\ pc' = "recover") \/ Verdict \/ PasteThrows,
           UNCHANGED <<out, guestVars>>, spent'["late"] = spent["late"]
    PROVE  LedgerInv'
<1>k. KeyLines = {"ready", "sum", "unpack"} /\ "unpack" \in KeyLines
  BY DEF KeyLines
<1>u. UNCHANGED <<inq, out, got, fg, tgz, work, stopped>>
  BY DEF PackTaken, Packed, Summed, Verdict, PasteThrows, Finish, Paste, guestVars
<1>1. CASE PackTaken
  <2>1. \A L \in KeyLines : ~UnderWay(L) /\ ~Printed(L) /\ ~Typed(L)
    BY <1>1, <1>k, AnswersAre, NothingLeft DEF PackTaken, After
  <2>2. \A L \in KeyLines : (UnderWay(L)' <=> UnderWay(L)) /\ (Printed(L)' <=> Printed(L)) /\ pc' # WaitOf[L]
                            /\ (Typed(L)' <=> Typed(L))
    BY <1>1, <1>k, <1>u, AnswersAre DEF UnderWay, Typed, Printed, PackTaken
  <2>3. \A L \in KeyLines : Own(L)'
    BY <2>1, <2>2 DEF Own
  <2>4. Once' /\ Ahead'
    BY <1>u DEF LedgerInv, Once, Ahead
  <2>5. pc' = "begin" /\ pc = "pack" /\ UNCHANGED result
    BY <1>1 DEF PackTaken
  <2>6. RestoreInv' /\ SumInv' /\ UnpackInv'
    BY <1>k, <2>1, <2>2, <2>5 DEF RestoreInv, SumInv, UnpackInv
  <2>7. WorkInv'
    BY <1>u, <2>5 DEF LedgerInv, WorkInv, Waits
  <2> QED BY <2>3, <2>4, <2>6, <2>7 DEF LedgerInv
<1>2. CASE Packed \/ (Summed /\ pc' = "recover") \/ Verdict
  <2>1. \A L \in KeyLines : pc = WaitOf[L] => ~Unread(L)
    BY <1>2, <1>k, AnswersAre DEF Packed, Summed, Verdict, Unread
  <2>2. pc \in {"begin", "sum", "verdict"} /\ pc' = "recover"
    BY <1>2 DEF Packed, Summed, Verdict, Finish
  <2>3. \A L \in KeyLines : ~UnderWay(L) /\ ~Printed(L) /\ ~Typed(L)
    BY <2>1, <2>2, NothingLeft DEF After
  <2>4. result' = "untouched" => work = "before"
    BY <1>2, <2>2 DEF Packed, Summed, Verdict, Finish, LedgerInv, WorkInv, Waits
  <2>5. result' \in {"full", "home"} => work = result'
    BY <1>2, <2>2 DEF Packed, Summed, Verdict, Finish, LedgerInv, WorkInv, Says
  <2>6. pc' \in After
    BY <2>2 DEF After
  <2> QED BY <1>k, <1>u, <2>3, <2>4, <2>5, <2>6, WaitEnds
<1>3. CASE PasteThrows
  <2>1. result' = "thrown" /\ pc' \in After
    BY <1>3 DEF PasteThrows, After
  <2>2. CASE pc \in {"ensure", "ready", "go", "blk", "sum"} /\ got \cap (Awaited[pc] \ {"SUM-bad"}) # {}
    <3>1. \A L \in KeyLines : pc = WaitOf[L] => ~Unread(L)
      BY <1>k, <2>2, AnswersAre DEF Unread, Answers
    <3>2. got # {} /\ pc \notin After
      BY <2>2 DEF After
    <3>3. \A L \in KeyLines : ~UnderWay(L) /\ ~Printed(L) /\ ~Typed(L)
      BY <3>1, <3>2, NothingLeft
    <3> QED BY <1>k, <1>u, <2>1, <3>3, WaitEnds
  <2>3. CASE pc \in {"recover", "interrupt"}
    <3>1. (Lagging => Lagging') /\ (Dead => Dead')
      BY <1>u, <2>1, <2>3 DEF Lagging, Dead, After
    <3>2. \A L \in KeyLines : (UnderWay(L) => Lagging \/ Dead) /\ (Printed(L) => Lagging)
      BY <1>k, <2>3, AnswersAre DEF LedgerInv, Own
    <3> QED BY <1>k, <1>u, <2>1, <3>1, <3>2, WaitEnds
  <2> QED BY <1>3, <2>2, <2>3 DEF PasteThrows
<1> QED BY <1>1, <1>2, <1>3

\* A wait gives up: nothing is under way then, or the guest has stopped, or it lags.
LEMMA GiveUpLedger ==
    ASSUME WireTypes, PcInv, EngagedInv, LedgerInv, GiveUp
    PROVE  LedgerInv'
<1>k. KeyLines = {"ready", "sum", "unpack"} /\ "unpack" \in KeyLines
  BY DEF KeyLines
<1>u. UNCHANGED <<inq, out, got, fg, tgz, work, stopped>>
  BY DEF GiveUp, Finish, guestVars
<1>w. pc \in Waits
  BY DEF GiveUp
<1>1. CASE pc = "ensure"
  <2>1. pc' = "idle" /\ result' = "noprompt"
    BY <1>1 DEF GiveUp, EngagedInv
  <2>2. \A L \in KeyLines : (UnderWay(L) => Dead) /\ ~Printed(L)
    BY <1>1, <1>k, AnswersAre DEF LedgerInv, Own, Lagging, After
  <2>3. Dead => Dead'
    BY <1>u, <2>1 DEF Dead, After
  <2>4. pc' \in After
    BY <2>1 DEF After
  <2> QED BY <1>k, <1>u, <2>1, <2>2, <2>3, <2>4, WaitEnds
<1>2. CASE pc # "ensure"
  <2>1. pc' = "recover" /\ result' = GiveUpResult[pc] /\ pc' \in After /\ pc \notin After
    BY <1>2, <1>w DEF GiveUp, Finish, EngagedInv, After, Waits
  <2>2. \A L \in KeyLines : (UnderWay(L) => pc = WaitOf[L]) /\ (Printed(L) => pc = WaitOf[L])
    BY <1>2, <2>1 DEF LedgerInv, Own, Lagging, Dead
  <2>3. result' \notin {"full", "home"}
    BY <1>w, <2>1 DEF GiveUpResult, Waits
  <2>4. result' = "untouched" => pc # "verdict"
    BY <2>1 DEF GiveUpResult
  <2>5. result' = "untouched" => work = "before"
    BY <1>w, <2>4 DEF LedgerInv, WorkInv
  <2>6. UnderWay("unpack") => result' \notin {"untouched", "full", "home"}
    BY <1>k, <2>2, <2>3, <2>4, AnswersAre
  <2>7. CASE Silent
    <3>1. \A L \in KeyLines : ~Printed(L)
      <4>1. Len(out) = 0
        BY <2>7 DEF Silent
      <4> QED BY <4>1 DEF Printed
    <3>2. CASE stopped
      <4>1. Dead'
        BY <1>u, <2>1, <2>7, <3>2 DEF Dead, Silent
      <4> QED BY <1>u, <2>1, <2>3, <2>5, <2>6, <3>1, <4>1, WaitEnds
    <3>3. CASE ~stopped
      <4>1. fg # "unpack" /\ \A L \in KeyLines : ~Typed(L)
        <5>1. OnlyKeys \/ Len(inq) = 0
          BY <2>7, <3>3 DEF Silent
        <5>2. \A L \in KeyLines : L # "key"
          BY <1>k
        <5> QED BY <2>7, <3>3, <5>1, <5>2 DEF Silent, OnlyKeys, Typed
      <4>2. \A L \in KeyLines : ~UnderWay(L)
        BY <4>1 DEF UnderWay
      <4> QED BY <1>k, <1>u, <2>1, <2>3, <2>5, <3>1, <4>2, WaitEnds
    <3> QED BY <3>2, <3>3
  <2>8. CASE ~Silent
    <3>1. spent'["late"] > 0
      BY <2>8 DEF GiveUp, Unheard, Fault, WireTypes, FaultKinds
    <3>2. Lagging'
      BY <2>1, <3>1 DEF Lagging
    <3> QED BY <1>u, <2>1, <2>3, <2>5, <2>6, <3>2, WaitEnds
  <2> QED BY <2>7, <2>8
<1> QED BY <1>1, <1>2

LEMMA OneMore ==
    ASSUME WireTypes, NEW x \in Item, inq' = inq \o <<x>>
    PROVE  /\ Len(inq) \in Nat /\ Len(inq') = Len(inq) + 1 /\ inq'[Len(inq) + 1] = x
           /\ Len(inq) + 1 \in 1..Len(inq')
           /\ \A j \in 1..Len(inq) : j \in 1..Len(inq') /\ inq'[j] = inq[j]
           /\ \A j \in 1..Len(inq') : j = Len(inq) + 1 \/ j \in 1..Len(inq)
<1>1. <<x>> \in Seq(Item) /\ Len(<<x>>) = 1 /\ <<x>>[1] = x
  OBVIOUS
<1>2. /\ Len(inq) \in Nat /\ Len(inq') = Len(inq) + 1
      /\ \A j \in 1..(Len(inq) + 1) : inq'[j] = IF j <= Len(inq) THEN inq[j] ELSE <<x>>[j - Len(inq)]
  BY <1>1, ConcatProperties DEF WireTypes
<1>3. Len(inq) + 1 \in 1..(Len(inq) + 1) /\ ~(Len(inq) + 1 <= Len(inq)) /\ (Len(inq) + 1) - Len(inq) = 1
  BY <1>2
<1>4. inq'[Len(inq) + 1] = x
  BY <1>1, <1>2, <1>3
<1>5. \A j \in 1..Len(inq) : j \in 1..Len(inq') /\ inq'[j] = inq[j]
  BY <1>2
<1>6. \A j \in 1..Len(inq') : j = Len(inq) + 1 \/ j \in 1..Len(inq)
  BY <1>2
<1> QED BY <1>2, <1>3, <1>4, <1>5, <1>6

\* The page types one of the three lines, the one before it being answered.
LEMMA TypesKeyLine ==
    ASSUME WireTypes, LedgerInv, NEW L \in KeyLines, Paste(<<Line(L)>>), pc' = WaitOf[L],
           \A M \in KeyLines : ~UnderWay(M) /\ ~Printed(M) /\ ~Typed(M),
           UNCHANGED <<out, fg, tgz, work, result>>, result = "none",
           L # "unpack" => work = "before",
           L # "ready" => ~Typed("restore"),
           L = "unpack" => tgz = "whole"
    PROVE  LedgerInv'
<1>k. KeyLines = {"ready", "sum", "unpack"}
  BY DEF KeyLines
<1>x. Line(L) \in Item /\ Line(L).k = L
  BY LineIsItem DEF KeyLines, Lines
<1>i. inq' = inq \o <<Line(L)>> /\ got' = {}
  BY DEF Paste
<1> DEFINE n == Len(inq) + 1
<1>n. /\ Len(inq) \in Nat /\ Len(inq') = n /\ inq'[n].k = L /\ n \in 1..Len(inq')
      /\ \A j \in 1..Len(inq) : j \in 1..Len(inq') /\ inq'[j] = inq[j]
      /\ \A j \in 1..Len(inq') : j = n \/ j \in 1..Len(inq)
  BY <1>x, <1>i, OneMore
<1> HIDE DEF n
<1>1. \A M \in KeyLines, j \in 1..Len(inq) : inq[j].k # M
  BY DEF Typed
<1>2. \A j \in 1..Len(inq') : inq'[j].k \in KeyLines => j = n
  BY <1>1, <1>n
<1>3. \A M \in KeyLines : M # L => ~Typed(M)'
  BY <1>2, <1>n DEF Typed
<1>p. \A M \in KeyLines : ~Printed(M)' /\ Unread(M)' /\ OneAnswer(M)'
  <2>1. \A M \in KeyLines, j \in 1..Len(out) : out[j] \notin Answers(M)
    BY DEF Printed
  <2> QED BY <1>i, <2>1 DEF Printed, Unread, OneAnswer
<1>f. fg # "unpack"
  BY <1>k DEF UnderWay
<1>4. \A M \in KeyLines : M # L => ~UnderWay(M)'
  BY <1>3, <1>f DEF UnderWay
<1>5. ASSUME NEW M \in KeyLines PROVE Own(M)'
  BY <1>4, <1>p DEF Own
<1>6. Once'
  BY <1>2 DEF Once
<1>7. Ahead'
  <2> SUFFICES ASSUME NEW i \in 1..Len(inq'), NEW j \in 1..Len(inq'), inq'[i].k = "unpack", j < i
               PROVE  inq'[j].k \notin Ordered
    BY DEF Ahead
  <2>1. i = n /\ L = "unpack"
    BY <1>k, <1>2, <1>n
  <2>2. j \in 1..Len(inq) /\ inq'[j] = inq[j]
    BY <1>n, <2>1
  <2> QED BY <1>1, <2>1, <2>2 DEF Ordered, Typed
<1>8. RestoreInv'
  <2>1. CASE L = "ready"
    <3>1. \A j \in 1..Len(inq') : inq'[j].k = "restore" => n > j
      <4> SUFFICES ASSUME NEW j \in 1..Len(inq'), inq'[j].k = "restore" PROVE n > j
        OBVIOUS
      <4>1. j \in 1..Len(inq)
        BY <1>n, <2>1
      <4> QED BY <1>n, <4>1 DEF n
    <3>2. RestoreFirst'
      BY <1>n, <2>1, <3>1 DEF RestoreFirst
    <3> QED BY <2>1, <3>2, AnswersAre DEF RestoreInv
  <2>2. CASE L # "ready"
    <3>1. ~Typed("restore")'
      BY <1>k, <1>n, <2>2 DEF Typed
    <3>2. pc' # "ready"
      BY <1>k, <2>2, AnswersAre
    <3> QED BY <3>1, <3>2 DEF RestoreInv
  <2> QED BY <2>1, <2>2
<1>9. SumInv'
  <2>1. "sum" \in KeyLines /\ "SUM" \in Answers("sum")
    BY <1>k, AnswersAre
  <2>2. ~Says("SUM")'
    BY <1>i, <1>p, <2>1 DEF Says, Printed
  <2> QED BY <2>2 DEF SumInv
<1>10. UnpackInv'
  <2>1. "unpack" \in KeyLines
    BY <1>k
  <2>2. UnderWay("unpack")' => tgz' = "whole"
    BY <1>4, <2>1
  <2> QED BY <1>f, <2>2 DEF UnpackInv
<1>11. WorkInv'
  <2>1. "unpack" \in KeyLines /\ "OK-full" \in Answers("unpack") /\ "OK-home" \in Answers("unpack")
    BY <1>k, AnswersAre
  <2>2. ~Says("OK-full")' /\ ~Says("OK-home")'
    BY <1>i, <1>p, <2>1 DEF Says, Printed
  <2>3. pc' # "verdict" => work' = "before"
    BY <1>k, AnswersAre
  <2> QED BY <2>2, <2>3 DEF WorkInv
<1> QED BY <1>5, <1>6, <1>7, <1>8, <1>9, <1>10, <1>11 DEF LedgerInv

\* ... or a line that none of this depends on.
LEMMA TypesOther ==
    ASSUME WireTypes, inq' \in Seq(Item), LedgerInv, Fewer, got' \subseteq got,
           \A M \in KeyLines : ~UnderWay(M) /\ ~Printed(M) /\ ~Typed(M),
           UNCHANGED <<out, fg, tgz, work, result>>,
           pc \in Waits \ {"verdict"}, pc' \in {"pack", "go", "blk"},
           pc' # "pack" => ~Typed("restore")
    PROVE  LedgerInv'
<1>k. KeyLines = {"ready", "sum", "unpack"}
  BY DEF KeyLines
<1>0. inq \in Seq(Item)
  BY DEF WireTypes
<1>1. \A M \in KeyLines : ~UnderWay(M)' /\ ~Printed(M)' /\ ~Typed(M)' /\ pc' # WaitOf[M]
  <2>1. \A k \in Ordered : Typed(k)' => Typed(k)
    BY <1>0, FewerKeeps
  <2>2. \A M \in KeyLines : ~Printed(M)' /\ pc' # WaitOf[M]
    BY <1>k, AnswersAre DEF Printed
  <2> QED BY <1>k, <2>1, <2>2 DEF UnderWay, Ordered
<1>2. \A M \in KeyLines : Own(M)'
  BY <1>1 DEF Own
<1>3. Once' /\ Ahead'
  BY <1>0, FewerKeeps DEF LedgerInv
<1>4. RestoreInv'
  <2>1. Typed("restore")' => Typed("restore")
    BY <1>0, FewerKeeps DEF Ordered
  <2> QED BY <2>1 DEF RestoreInv
<1>5. SumInv' /\ UnpackInv'
  BY <1>k, <1>1 DEF SumInv, UnpackInv
<1>6. WorkInv'
  BY DEF LedgerInv, WorkInv, Waits
<1> QED BY <1>2, <1>3, <1>4, <1>5, <1>6 DEF LedgerInv

LEMMA PageTypesLedger ==
    ASSUME WireTypes, inq' \in Seq(Item), PcInv, LedgerInv, UNCHANGED <<out, guestVars>>,
           PageTypes,
           Engage \/ Ready \/ Go \/ BlockTaken \/ (Summed /\ pc' = "verdict")
    PROVE  LedgerInv'
<1>k. KeyLines = {"ready", "sum", "unpack"}
  BY DEF KeyLines
<1>u. UNCHANGED <<out, fg, tgz, work, result>>
  BY DEF guestVars, Engage, Ready, Go, BlockTaken, Summed, Finish
<1>1. \A L \in KeyLines : pc = WaitOf[L] => ~Unread(L)
  BY <1>k, AnswersAre DEF Engage, Ready, Go, BlockTaken, Summed, Unread, Finish
<1>2. pc \in {"ensure", "ready", "go", "blk", "sum"} /\ (pc = "ensure" => got # {})
  BY DEF Engage, Ready, Go, BlockTaken, Summed
<1>3. \A L \in KeyLines : ~UnderWay(L) /\ ~Printed(L) /\ ~Typed(L)
  BY <1>1, <1>2, NothingLeft DEF After
<1>4. result = "none" /\ work = "before"
  BY <1>2 DEF LedgerInv, WorkInv, Waits
<1>5. pc # "ensure" => ~Typed("restore")
  <2>1. CASE pc = "ready"
    BY <1>k, <1>3, <2>1 DEF LedgerInv, RestoreInv, RestoreFirst, Typed
  <2> QED BY <1>2, <2>1 DEF LedgerInv, RestoreInv
<1>6. ASSUME NEW x \in Item, x.k \notin Ordered, inq' = inq \o <<x>> PROVE Fewer
  <2>1. <<x>> \in Seq(Item) /\ \A j \in 1..Len(<<x>>) : <<x>>[j] = x
    OBVIOUS
  <2> QED BY <1>6, <2>1, MoreIsFewer DEF WireTypes
<1>w. pc \in Waits \ {"verdict"}
  BY <1>2 DEF Waits
<1>7. CASE Engage
  <2>1. CASE pc' = "ready" /\ Paste(<<Line("ready")>>)
    BY <1>k, <1>u, <1>3, <1>4, <2>1, AnswersAre, TypesKeyLine
  <2>2. CASE pc' = "pack" /\ Paste(<<Line("pack")>>)
    <3>1. Line("pack") \in Item /\ Line("pack").k \notin Ordered
      BY LineIsItem DEF Lines, Ordered, KeyLines
    <3>2. Fewer /\ got' \subseteq got
      BY <1>6, <2>2, <3>1 DEF Paste
    <3> QED BY <1>u, <1>w, <1>3, <2>2, <3>2, TypesOther
  <2> QED BY <1>7, <2>1, <2>2 DEF Engage
<1>8. ASSUME NEW n \in 1..NBlocks, SendBlock(n), pc # "ensure" PROVE LedgerInv'
  <2>1. n \in 0..NBlocks
    BY TransferAssumption
  <2>2. [Line("block") EXCEPT !.n = n] \in Item /\ [Line("block") EXCEPT !.n = n].k \notin Ordered
    BY <2>1, LineIsItem DEF Lines, Ordered, KeyLines
  <2>3. Fewer /\ got' \subseteq got /\ pc' = "go"
    BY <1>6, <1>8, <2>2 DEF SendBlock, Paste
  <2> QED BY <1>u, <1>w, <1>3, <1>5, <1>8, <2>3, TypesOther
<1>9. CASE Ready
  BY <1>8, <1>9, TransferAssumption DEF Ready
<1>10. CASE BlockTaken
  <2>1. CASE blk < NBlocks /\ SendBlock(blk + 1)
    <3>1. blk + 1 \in 1..NBlocks /\ pc # "ensure"
      BY <1>10, <2>1, TransferAssumption DEF BlockTaken, PageTypes
    <3> QED BY <1>8, <2>1, <3>1
  <2>2. CASE pc' = "sum" /\ Paste(<<Line("sum")>>)
    BY <1>k, <1>u, <1>3, <1>4, <1>5, <1>10, <2>2, AnswersAre, TypesKeyLine DEF BlockTaken
  <2> QED BY <1>10, <2>1, <2>2 DEF BlockTaken
<1>11. CASE Go
  <2> DEFINE x == [k |-> "payload", n |-> blk, q |-> "whole"]
  <2>1. x \in Item /\ x.k \notin Ordered
    BY TransferAssumption DEF Item, PageTypes, Ordered, KeyLines
  <2>2. inq' = inq \o <<x>>
    BY <1>11, <2>1, AppendIsConcat DEF Go, WireTypes
  <2>3. Fewer /\ got' \subseteq got /\ pc' = "blk" /\ pc # "ensure"
    BY <1>6, <1>11, <2>1, <2>2 DEF Go
  <2> QED BY <1>u, <1>w, <1>3, <1>5, <2>3, TypesOther
<1>12. CASE Summed /\ pc' = "verdict"
  <2>1. Paste(<<Line("unpack")>>) /\ "SUM" \in got /\ pc = "sum"
    BY <1>12 DEF Summed, Finish
  <2>2. tgz = "whole"
    BY <2>1 DEF LedgerInv, SumInv, Says
  <2> QED BY <1>k, <1>u, <1>3, <1>4, <1>5, <1>12, <2>1, <2>2, AnswersAre, TypesKeyLine
<1> QED BY <1>7, <1>9, <1>10, <1>11, <1>12

\* A guest that prints nothing more and has not stopped has nothing of a transfer to do.
LEMMA SilentGuest ==
    ASSUME Silent PROVE /\ \A L \in KeyLines : ~Printed(L)
                        /\ ~stopped => \A L \in KeyLines : ~UnderWay(L)
<1>1. Len(out) = 0
  BY DEF Silent
<1>2. ASSUME ~stopped PROVE fg # "unpack" /\ \A L \in KeyLines : ~Typed(L)
  <2>1. OnlyKeys \/ Len(inq) = 0
    BY <1>2 DEF Silent
  <2>2. \A L \in KeyLines : L # "key"
    BY DEF KeyLines
  <2> QED BY <1>2, <2>1, <2>2 DEF Silent, OnlyKeys, Typed
<1> QED BY <1>1, <1>2 DEF Printed, UnderWay

\* A transfer begins: what the one before left behind has been done, or never will be.
LEMMA StartLedger ==
    ASSUME WireTypes, PcInv, LedgerInv, OneLate', NEW kind, Start(kind)
    PROVE  LedgerInv'
<1>1. pc = "idle" /\ pc \in After
  BY DEF Start, PcInv, After
<1>2. \A L \in KeyLines : pc # WaitOf[L]
  BY <1>1, AnswersAre DEF KeyLines
<1>u. UNCHANGED <<out, fg, tgz, stopped>> /\ work' = "before"
  BY DEF Start
<1>3. CASE Fault("throw") /\ result' = "thrown" /\ UNCHANGED <<pc, inq, got>>
  <2>1. spent'["late"] = spent["late"]
    BY <1>3 DEF Fault, WireTypes, FaultKinds
  <2>2. (Lagging => Lagging') /\ (Dead => Dead')
    BY <1>u, <1>1, <1>3, <2>1 DEF Lagging, Dead
  <2>3. \A L \in KeyLines : (UnderWay(L) => Lagging \/ Dead) /\ (Printed(L) => Lagging)
    BY <1>2 DEF LedgerInv, Own
  <2> QED BY <1>u, <1>1, <1>3, <2>2, <2>3, WaitEnds
<1>4. CASE Unheard /\ result' = "none" /\ pc' = "ensure" /\ Paste(<<Line("enter")>>)
  <2>1. inq' = inq \o <<Line("enter")>> /\ got' = {} /\ inq \in Seq(Item)
    BY <1>4 DEF Paste, WireTypes
  <2>2. Line("enter") \in Item /\ Line("enter").k \notin Ordered
    BY LineIsItem DEF Lines, Ordered, KeyLines
  <2>3. <<Line("enter")>> \in Seq(Item) /\ \A j \in 1..Len(<<Line("enter")>>) : <<Line("enter")>>[j] = Line("enter")
    BY <2>2
  <2>4. Fewer /\ inq' \in Seq(Item)
    BY <2>1, <2>2, <2>3, MoreIsFewer, ConcatProperties
  <2>5. \A k \in Ordered : Typed(k)' => Typed(k)
    BY <2>1, <2>4, FewerKeeps
  <2>6. Once' /\ Ahead'
    BY <2>1, <2>4, FewerKeeps DEF LedgerInv
  <2>7. \A L \in KeyLines : (UnderWay(L)' => UnderWay(L)) /\ (Printed(L)' <=> Printed(L))
    BY <1>u, <2>5 DEF UnderWay, Printed, Ordered
  <2>8. \A L \in KeyLines : (UnderWay(L) => Dead') /\ ~Printed(L)
    <3>1. CASE Silent
      <4>1. stopped => Dead'
        BY <1>u, <1>4, <2>1, <3>1 DEF Dead, Silent
      <4> QED BY <3>1, <4>1, SilentGuest
    <3>2. CASE ~Silent
      <4>1. spent["late"] = 0
        BY <1>4, <3>2 DEF Unheard, Fault, OneLate, WireTypes, FaultKinds
      <4>2. ~Lagging /\ ~Dead
        BY <3>2, <4>1 DEF Lagging, Dead, Silent
      <4> QED BY <1>2, <4>2 DEF LedgerInv, Own
    <3> QED BY <3>1, <3>2
  <2>9. \A L \in KeyLines : pc' # WaitOf[L]
    BY <1>4, AnswersAre DEF KeyLines
  <2>10. \A L \in KeyLines : Own(L)'
    BY <2>7, <2>8, <2>9 DEF Own
  <2>11. RestoreInv' /\ SumInv'
    BY <1>4 DEF RestoreInv, SumInv
  <2>12. UnpackInv'
    <3>1. "unpack" \in KeyLines /\ "unpack" \in Ordered
      BY DEF KeyLines, Ordered
    <3> QED BY <1>u, <1>4, <2>5, <2>7, <3>1 DEF LedgerInv, UnpackInv
  <2>13. WorkInv'
    BY <1>u, <1>4 DEF WorkInv
  <2> QED BY <2>6, <2>10, <2>11, <2>12, <2>13 DEF LedgerInv
<1> QED BY <1>3, <1>4 DEF Start

\* recover() types its own lines after whatever is left.
LEMMA RecoverLedger ==
    ASSUME WireTypes, PcInv, LedgerInv, NEW x \in Item, NEW y \in Item, Paste(<<x, y>>),
           x.k \notin KeyLines, y.k \notin KeyLines,
           UNCHANGED <<out, fg, tgz, work, stopped, result>>,
           pc \in {"recover", "interrupt"}, pc' \in {"interrupt", "restore"},
           spent["late"] > 0 => spent'["late"] > 0
    PROVE  LedgerInv'
<1> DEFINE n == Len(inq)
<1>1. /\ n \in Nat /\ Len(inq') = n + 2
      /\ \A j \in 1..Len(inq') : IF j <= n THEN inq'[j] = inq[j] ELSE inq'[j] \in {x, y}
  <2>1. <<x, y>> \in Seq(Item) /\ Len(<<x, y>>) = 2 /\ <<x, y>>[1] = x /\ <<x, y>>[2] = y
    OBVIOUS
  <2>2. /\ n \in Nat /\ Len(inq') = n + 2
        /\ \A j \in 1..Len(inq') : inq'[j] = IF j <= n THEN inq[j] ELSE <<x, y>>[j - n]
    BY <2>1, ConcatProperties DEF Paste, WireTypes
  <2>3. \A j \in 1..Len(inq') : ~(j <= n) => j - n \in {1, 2}
    BY <2>2
  <2> QED BY <2>1, <2>2, <2>3
<1> HIDE DEF n
<1>2. \A j \in 1..Len(inq') : inq'[j].k \in KeyLines => j \in 1..n /\ inq'[j] = inq[j]
  BY <1>1
<1>3. \A L \in KeyLines : Typed(L)' => Typed(L)
  BY <1>2 DEF Typed, n
<1>4. Once'
  BY <1>2 DEF LedgerInv, Once, n
<1>5. Ahead'
  <2> SUFFICES ASSUME NEW i \in 1..Len(inq'), NEW j \in 1..Len(inq'), inq'[i].k = "unpack", j < i
               PROVE  inq'[j].k \notin Ordered
    BY DEF Ahead
  <2>1. i \in 1..n /\ inq'[i] = inq[i]
    BY <1>2 DEF KeyLines
  <2>2. j \in 1..n /\ inq'[j] = inq[j]
    BY <1>1, <2>1
  <2> QED BY <2>1, <2>2 DEF LedgerInv, Ahead, n
<1>6. \A L \in KeyLines : /\ UnderWay(L)' => UnderWay(L)
                          /\ Printed(L)' <=> Printed(L)
                          /\ pc # WaitOf[L] /\ pc' # WaitOf[L]
  BY <1>3, AnswersAre DEF UnderWay, Printed, KeyLines
<1>7. (Lagging => Lagging') /\ (Dead => Dead')
  BY DEF Lagging, Dead, After
<1>8. \A L \in KeyLines : Own(L)'
  BY <1>6, <1>7 DEF LedgerInv, Own
<1>9. RestoreInv' /\ SumInv'
  BY DEF RestoreInv, SumInv
<1>10. UnpackInv'
  BY <1>3, <1>6 DEF LedgerInv, UnpackInv, KeyLines
<1>11. WorkInv'
  BY DEF LedgerInv, WorkInv, Waits
<1> QED BY <1>4, <1>5, <1>8, <1>9, <1>10, <1>11 DEF LedgerInv

\* recover() to its end.
LEMMA LeaveLedger ==
    ASSUME WireTypes, PcInv, LedgerInv,
           (Recover /\ UNCHANGED <<out, guestVars, spent>>) \/ Restore \/ Tidied
    PROVE  LedgerInv'
<1>1. spent["late"] > 0 => spent'["late"] > 0
  BY DEF Restore, Tidied, Unheard, Fault, WireTypes, FaultKinds
<1>u. UNCHANGED <<out, fg, tgz, work, stopped, result>>
  BY DEF guestVars, Recover, Restore, Tidied
<1>2. \A k \in {"restore", "clear", "intr"} : Line(k) \in Item /\ Line(k).k \notin KeyLines
  BY LineIsItem DEF Lines, KeyLines
<1>3. CASE Recover \/ Restore
  <2>1. \/ Paste(<<Line("restore"), Line("clear")>>) /\ pc' = "restore"
        \/ Paste(<<Line("intr"), Line("intr")>>) /\ pc' = "interrupt"
    BY <1>3 DEF Recover, Restore
  <2>2. pc \in {"recover", "interrupt"}
    BY <1>3 DEF Recover, Restore
  <2> QED BY <1>1, <1>u, <1>2, <2>1, <2>2, RecoverLedger
<1>4. CASE Tidied
  <2>1. pc = "restore" /\ pc' = "idle" /\ UNCHANGED <<inq, got>>
    BY <1>4 DEF Tidied
  <2>2. (Lagging => Lagging') /\ (Dead => Dead') /\ pc' \in After
    BY <1>1, <1>u, <2>1 DEF Lagging, Dead, After
  <2>3. \A L \in KeyLines : (UnderWay(L) => Lagging \/ Dead) /\ (Printed(L) => Lagging)
    BY <2>1, AnswersAre DEF LedgerInv, Own, KeyLines
  <2>4. UnderWay("unpack") => result' \notin {"untouched", "full", "home"}
    BY <1>u DEF LedgerInv, UnpackInv
  <2>5. (result' = "untouched" => work' = "before") /\ (result' \in {"full", "home"} => work' = result')
    BY <1>u DEF LedgerInv, WorkInv
  <2> QED BY <1>u, <2>1, <2>2, <2>3, <2>4, <2>5, WaitEnds
<1> QED BY <1>3, <1>4

\* A guest that lags behind answers the last of a transfer's lines after the page gave up.
LEMMA Lags ==
    ASSUME WireTypes, inq' \in Seq(Item), LedgerInv, Fewer, Lagging, UNCHANGED <<pc, result, spent>>,
           ~UnderWay("unpack")',
           work' # work => UnderWay("unpack")
    PROVE  LedgerInv'
<1>0. inq \in Seq(Item) /\ Lagging' /\ pc \in After
  BY DEF WireTypes, Lagging
<1>1. \A L \in KeyLines : pc' # WaitOf[L]
  BY <1>0, AnswersAre DEF After, KeyLines
<1>2. \A L \in KeyLines : Own(L)'
  BY <1>0, <1>1 DEF Own
<1>3. Once' /\ Ahead'
  BY <1>0, FewerKeeps DEF LedgerInv
<1>4. RestoreInv' /\ SumInv'
  BY <1>0 DEF RestoreInv, SumInv, After
<1>5. UnpackInv'
  BY DEF UnpackInv, UnderWay
<1>6. WorkInv'
  BY <1>0 DEF LedgerInv, WorkInv, UnpackInv, After, Waits
<1> QED BY <1>2, <1>3, <1>4, <1>5, <1>6 DEF LedgerInv

\* The answer to the line the page waits for.
LEMMA Answered ==
    ASSUME WireTypes, inq' \in Seq(Item), LedgerInv, Fewer, UNCHANGED <<pc, result, got, spent>>,
           NEW L \in KeyLines, UnderWay(L), ~stopped,
           NEW ms \in Seq(Markers), Say(ms), NEW n \in 1..Len(ms),
           \A i \in 1..Len(ms) : ms[i] \in KeyAnswers => i = n,
           ms[n] \in Answers(L),
           ~UnderWay(L)', ~UnderWay("unpack")', fg' # "unpack",
           work' # work => L = "unpack",
           ms[n] = "SUM" => tgz' = "whole",
           ms[n] = "OK-full" => work' = "full", ms[n] = "OK-home" => work' = "home"
    PROVE  LedgerInv'
<1>k. KeyLines = {"ready", "sum", "unpack"} /\ KeyLines \subseteq Ordered /\ "restore" \in Ordered
  BY DEF KeyLines, Ordered
<1>0. inq \in Seq(Item) /\ ~Dead
  BY DEF WireTypes, Dead, Say
<1>1. CASE Lagging
  BY <1>1, Lags
<1>2. CASE ~Lagging
  <2>1. pc = WaitOf[L] /\ ~Printed(L) /\ Unread(L)
    BY <1>0, <1>2 DEF LedgerInv, Own
  <2>2. /\ OneAnswer(L)'
        /\ \A M \in KeyLines \ {L} : (Printed(M)' => Printed(M)) /\ (OneAnswer(M) => OneAnswer(M)')
        /\ \A m \in KeyAnswers : Says(m)' => Says(m) \/ m = ms[n]
    BY <2>1, SayAnswer
  <2>3. \A k \in Ordered : Typed(k)' => Typed(k)
    BY <1>0, FewerKeeps
  <2>4. \A M \in KeyLines \ {L} : pc # WaitOf[M]
    BY <1>k, <2>1, AnswersAre
  <2>5. \A M \in KeyLines \ {L} : ~UnderWay(M) /\ ~Printed(M)
    BY <1>0, <1>2, <2>4 DEF LedgerInv, Own
  <2>6. \A M \in KeyLines : ~UnderWay(M)'
    BY <1>k, <2>3, <2>5 DEF UnderWay
  <2>7. Unread(L)'
    BY <2>1 DEF Unread
  <2>8. \A M \in KeyLines : Own(M)'
    <3>1. Own(L)'
      BY <2>1, <2>2, <2>6, <2>7 DEF Own
    <3>2. ASSUME NEW M \in KeyLines \ {L} PROVE Own(M)'
      BY <2>2, <2>4, <2>5, <2>6 DEF Own
    <3> QED BY <3>1, <3>2
  <2>9. Once' /\ Ahead'
    BY <1>0, FewerKeeps DEF LedgerInv
  <2>10. RestoreInv'
    <3>1. RestoreFirst => RestoreFirst'
      BY <1>0, FewerKeeps
    <3>2. Typed("restore")' => Typed("restore")
      BY <1>k, <2>3
    <3> QED BY <3>1, <3>2 DEF LedgerInv, RestoreInv
  <2>11. SumInv'
    <3> SUFFICES ASSUME pc = "sum", Says("SUM")' PROVE tgz' = "whole"
      BY DEF SumInv
    <3>1. L = "sum" /\ "SUM" \in KeyAnswers
      BY <1>k, <2>1, AnswersAre DEF KeyAnswers
    <3>2. ~Says("SUM")
      BY <2>1, <3>1, AnswersAre DEF Says, Printed, Unread
    <3> QED BY <2>2, <3>1, <3>2
  <2>12. UnpackInv'
    BY DEF UnpackInv, UnderWay
  <2>13. WorkInv'
    <3>1. pc \in Waits /\ result = "none"
      BY <1>k, <2>1, AnswersAre DEF LedgerInv, WorkInv, Waits
    <3>2. pc # "verdict" => work' = "before"
      BY <1>k, <2>1, <3>1, AnswersAre DEF LedgerInv, WorkInv
    <3>3. ASSUME pc = "verdict"
          PROVE  (Says("OK-full")' => work' = "full") /\ (Says("OK-home")' => work' = "home")
      <4>1. L = "unpack" /\ "OK-full" \in KeyAnswers /\ "OK-home" \in KeyAnswers
        BY <1>k, <2>1, <3>3, AnswersAre DEF KeyAnswers
      <4>2. ~Says("OK-full") /\ ~Says("OK-home")
        BY <2>1, <4>1, AnswersAre DEF Says, Printed, Unread
      <4> QED BY <2>2, <4>1, <4>2
    <3> QED BY <3>1, <3>2, <3>3 DEF WorkInv
  <2> QED BY <2>8, <2>9, <2>10, <2>11, <2>12, <2>13 DEF LedgerInv
<1> QED BY <1>1, <1>2

\* bash runs a line of the queue.
LEMMA ShellLedger ==
    ASSUME WireTypes, inq' \in Seq(Item), LedgerInv, ShellRuns PROVE LedgerInv'
<1>1. PICK i \in 1..Len(inq) : /\ NextAt(i)
                               /\ RunLine(inq[i], i = 1 \/ inq[i].k = "enter")
                               /\ inq' = SubSeq(inq, i + 1, Len(inq))
  BY DEF ShellRuns
<1>2. Fewer /\ \A j \in 1..Len(inq') : i + j \in 1..Len(inq) /\ inq'[j] = inq[i + j]
  BY <1>1, RestIsFewer
<1>u. UNCHANGED <<pc, result, got, spent, stopped>> /\ fg = "shell" /\ ~stopped /\ i \in Nat
  BY DEF ShellRuns, pageVars
<1>3. \A L \in KeyLines : inq[i].k = L => Typed(L) /\ UnderWay(L) /\ ~Typed(L)'
  <2> SUFFICES ASSUME NEW L \in KeyLines, inq[i].k = L PROVE Typed(L) /\ UnderWay(L) /\ ~Typed(L)'
    OBVIOUS
  <2>1. Typed(L) /\ UnderWay(L)
    BY DEF Typed, UnderWay
  <2>2. ASSUME NEW j \in 1..Len(inq'), inq'[j].k = L PROVE FALSE
    <3>1. i + j = i /\ j > 0
      BY <1>2, <2>2 DEF LedgerInv, Once
    <3> QED BY <1>u, <2>2, <3>1
  <2> QED BY <2>1, <2>2 DEF Typed
<1>4. inq[i].k \in Ordered => ~Typed("unpack")'
  <2> SUFFICES ASSUME inq[i].k \in Ordered, NEW j \in 1..Len(inq'), inq'[j].k = "unpack" PROVE FALSE
    BY DEF Typed
  <2>1. i + j \in 1..Len(inq) /\ inq[i + j].k = "unpack" /\ i < i + j
    BY <1>2, <1>u
  <2> QED BY <2>1 DEF LedgerInv, Ahead
<1>q. <<"prompt">> \in Seq(Markers) /\ <<"PACK">> \in Seq(Markers) /\ <<"GO">> \in Seq(Markers)
      /\ <<>> \in Seq(Markers)
  BY DEF Markers
<1>p. Say(<<"prompt">>) \/ Say(<<"PACK">>) \/ Say(<<"GO">>) \/ Say(<<>>) => Quiet
  <2>1. ASSUME NEW m \in {"prompt", "PACK", "GO"}, Say(<<m>>) PROVE Quiet
    <3>1. <<m>> \in Seq(Markers) /\ \A n \in 1..Len(<<m>>) : <<m>>[n] = m
      BY <1>q
    <3>2. m \notin KeyAnswers
      BY DEF KeyAnswers
    <3> QED BY <1>u, <2>1, <3>1, <3>2, SayQuiet
  <2>2. ASSUME Say(<<>>) PROVE Quiet
    <3>1. \A n \in 1..Len(<<>>) : FALSE
      OBVIOUS
    <3> QED BY <1>q, <1>u, <2>2, <3>1, SayQuiet
  <2> QED BY <2>1, <2>2
<1>5. CASE Quiet /\ UNCHANGED <<tgz, work>> /\ (fg' # "unpack")
  BY <1>2, <1>5, <1>u, Still
<1>6. CASE inq[i].k \in {"enter", "clear", "payload", "junk"}
  BY <1>1, <1>5, <1>6, <1>p, <1>u DEF RunLine
<1>7. CASE inq[i].k \in {"pack", "block"}
  BY <1>1, <1>5, <1>7, <1>p, <1>u DEF RunLine
<1>8. CASE inq[i].k = "ready"
  <2>1. Say(<<"READY", "prompt">>) /\ UNCHANGED <<fg, work>>
    BY <1>1, <1>8 DEF RunLine
  <2> DEFINE ms == <<"READY", "prompt">>
  <2>2. ms \in Seq(Markers) /\ 1 \in 1..Len(ms) /\ ms[1] = "READY"
        /\ \A j \in 1..Len(ms) : ms[j] \in KeyAnswers => j = 1
    BY DEF Markers, KeyAnswers
  <2>3. "ready" \in KeyLines /\ "ready" \in Ordered /\ "READY" \in Answers("ready")
    BY AnswersAre DEF KeyLines, Ordered
  <2>4. ~UnderWay("ready")' /\ ~UnderWay("unpack")' /\ fg' # "unpack" /\ UnderWay("ready")
    BY <1>3, <1>4, <1>8, <1>u, <2>1, <2>3 DEF UnderWay
  <2> HIDE DEF ms
  <2>5. Say(ms)
    BY <2>1 DEF ms
  <2> QED BY <1>2, <1>u, <2>1, <2>2, <2>3, <2>4, <2>5, Answered
<1>9. CASE inq[i].k = "sum"
  <2>1. /\ Say(<<IF tgz' = "whole" THEN "SUM" ELSE "SUM-bad", "prompt">>)
        /\ UNCHANGED <<fg, work>>
    BY <1>1, <1>9 DEF RunLine
  <2> DEFINE ms == <<IF tgz' = "whole" THEN "SUM" ELSE "SUM-bad", "prompt">>
  <2>2. ms \in Seq(Markers) /\ 1 \in 1..Len(ms) /\ ms[1] \in {"SUM", "SUM-bad"}
        /\ (ms[1] = "SUM" => tgz' = "whole")
        /\ \A j \in 1..Len(ms) : ms[j] \in KeyAnswers => j = 1
    BY DEF Markers, KeyAnswers
  <2>3. "sum" \in KeyLines /\ "sum" \in Ordered /\ ms[1] \in Answers("sum")
    BY <2>2, AnswersAre DEF KeyLines, Ordered
  <2>4. ~UnderWay("sum")' /\ ~UnderWay("unpack")' /\ fg' # "unpack" /\ UnderWay("sum")
    BY <1>3, <1>4, <1>9, <1>u, <2>1, <2>3 DEF UnderWay
  <2> HIDE DEF ms
  <2>5. Say(ms)
    BY <2>1 DEF ms
  <2> QED BY <1>2, <1>u, <2>1, <2>2, <2>3, <2>4, <2>5, Answered
<1>10. CASE inq[i].k = "unpack"
  <2>1. Typed("unpack") /\ ~Typed("unpack")'
    BY <1>3, <1>10 DEF KeyLines
  <2>2. \/ fg' = "unpack" /\ UNCHANGED <<out, tgz, work>>
        \/ fg' = fg /\ Say(<<"prompt">>) /\ UNCHANGED <<tgz, work>>
    BY <1>1, <1>10 DEF RunLine
  <2>3. Quiet
    BY <1>p, <1>u, <2>2, SameIsQuiet
  <2> QED BY <1>2, <1>u, <2>1, <2>2, <2>3, Still
<1>11. CASE inq[i].k = "restore"
  <2>1. Say(<<"prompt">>) /\ UNCHANGED <<fg, work>>
    BY <1>1, <1>11 DEF RunLine
  <2>2. ~UnderWay("unpack")'
    BY <1>4, <1>11, <1>u, <2>1 DEF UnderWay, Ordered
  <2>3. pc # "sum"
    BY <1>11 DEF LedgerInv, RestoreInv, Typed
  <2> QED BY <1>2, <1>p, <1>u, <2>1, <2>2, <2>3, Still
<1> QED BY <1>1, <1>6, <1>7, <1>8, <1>9, <1>10, <1>11 DEF RunLine

\* Tail is what is left after the first.
LEMMA TailIsFewer == ASSUME WireTypes, inq # <<>>, inq' = Tail(inq) PROVE Fewer
<1>1. 1 \in 1..Len(inq) /\ Tail(inq) = SubSeq(inq, 1 + 1, Len(inq))
  BY DEF WireTypes
<1> QED BY <1>1, RestIsFewer

\* What is left when the keys and the item after them are taken, with or without a rest of a line.
LEMMA PrefixIsFewer ==
    ASSUME WireTypes, NEW i \in 1..Len(inq), NEW left \in {<<>>, <<Line("junk")>>},
           inq' = left \o SubSeq(inq, i + 1, Len(inq))
    PROVE  Fewer
<1>1. SubSeq(inq, i + 1, Len(inq)) \in Seq(Item)
  BY RestIsItems
<1>2. CASE left = <<>>
  <2>1. inq' = SubSeq(inq, i + 1, Len(inq))
    BY <1>1, <1>2
  <2> QED BY <2>1, RestIsFewer
<1> QED BY <1>2, LeftoverIsFewer

\* head reads, a job runs, a program has the terminal: none of it answers the page's lines.
LEMMA OtherLedger ==
    ASSUME WireTypes, inq' \in Seq(Item), LedgerInv,
           HeadReads \/ ShortReads \/ PackEnds \/ Interrupt \/ ProgramReads \/ ProgramEnds
             \/ ProgramStarts
    PROVE  LedgerInv'
<1>u. UNCHANGED <<pc, result, got, tgz, stopped>> /\ ~stopped /\ fg' # "unpack"
      /\ (work' # work => fg = "unpack")
  BY DEF HeadReads, ShortReads, PackEnds, Interrupt, ProgramReads, ProgramEnds, ProgramStarts,
         pageVars, guestVars
<1>s. spent["late"] > 0 => spent'["late"] > 0
  BY DEF HeadReads, ShortReads, PackEnds, Interrupt, ProgramReads, ProgramEnds, ProgramStarts,
         Fault, WireTypes, FaultKinds
<1>1. Quiet
  <2>1. ASSUME NEW m \in {"BLK", "BEGIN-END", "BEGIN-bad", "ERR"}, Say(<<m, "prompt">>) PROVE Quiet
    <3>1. <<m, "prompt">> \in Seq(Markers)
          /\ \A n \in 1..Len(<<m, "prompt">>) : <<m, "prompt">>[n] \in {m, "prompt"}
      BY DEF Markers
    <3>2. m \notin KeyAnswers /\ "prompt" \notin KeyAnswers
      BY DEF KeyAnswers
    <3> QED BY <1>u, <2>1, <3>1, <3>2, SayQuiet
  <2>2. ASSUME Say(<<"prompt">>) PROVE Quiet
    <3>1. <<"prompt">> \in Seq(Markers) /\ \A n \in 1..Len(<<"prompt">>) : <<"prompt">>[n] = "prompt"
      BY DEF Markers
    <3>2. "prompt" \notin KeyAnswers
      BY DEF KeyAnswers
    <3> QED BY <1>u, <2>2, <3>1, <3>2, SayQuiet
  <2>3. \/ UNCHANGED out \/ Say(<<"prompt">>)
        \/ \E m \in {"BLK", "BEGIN-END", "BEGIN-bad", "ERR"} : Say(<<m, "prompt">>)
    BY DEF HeadReads, ShortReads, PackEnds, Interrupt, ProgramReads, ProgramEnds, ProgramStarts,
           guestVars
  <2> QED BY <1>u, <2>1, <2>2, <2>3, SameIsQuiet
<1>2. Fewer
  <2>1. CASE UNCHANGED inq
    BY <2>1, SameIsFewer DEF WireTypes
  <2>2. CASE HeadReads
    <3>1. PICK i \in 1..Len(inq) :
               \/ inq' = Tail(inq)
               \/ inq' = (IF i > 1 THEN <<Line("junk")>> ELSE <<>>) \o SubSeq(inq, i + 1, Len(inq))
      BY <2>2 DEF HeadReads
    <3>2. inq # <<>>
      BY DEF WireTypes
    <3>3. (IF i > 1 THEN <<Line("junk")>> ELSE <<>>) \in {<<>>, <<Line("junk")>>}
      OBVIOUS
    <3> QED BY <3>1, <3>2, <3>3, TailIsFewer, PrefixIsFewer
  <2>3. CASE ShortReads
    <3>1. inq # <<>> /\ Tail(inq) = SubSeq(inq, 1 + 1, Len(inq)) /\ 1 \in 1..Len(inq)
      BY <2>3 DEF ShortReads, WireTypes
    <3>2. (IF Head(inq).k = "key" THEN <<>> ELSE <<Line("junk")>>) \in {<<>>, <<Line("junk")>>}
      OBVIOUS
    <3>3. inq' = (IF Head(inq).k = "key" THEN <<>> ELSE <<Line("junk")>>) \o SubSeq(inq, 1 + 1, Len(inq))
      BY <2>3, <3>1 DEF ShortReads
    <3> QED BY <3>1, <3>2, <3>3, PrefixIsFewer
  <2>4. CASE Interrupt
    BY <2>4, RestIsFewer DEF Interrupt
  <2>5. CASE ProgramReads
    BY <2>5, TailIsFewer DEF ProgramReads
  <2> QED BY <2>1, <2>2, <2>3, <2>4, <2>5 DEF PackEnds, ProgramEnds, ProgramStarts
<1> QED BY <1>u, <1>s, <1>1, <1>2, Still

\* The unpack ends, with its verdict.
LEMMA UnpackLedger ==
    ASSUME WireTypes, inq' \in Seq(Item), LedgerInv, UnpackEnds PROVE LedgerInv'
<1>u. UNCHANGED <<pc, result, got, inq, spent, stopped>> /\ ~stopped /\ fg = "unpack" /\ fg' = "shell"
  BY DEF UnpackEnds, pageVars
<1>k. "unpack" \in KeyLines /\ UnderWay("unpack") /\ ~UnderWay("unpack")'
  BY <1>u DEF KeyLines, UnderWay, Typed, LedgerInv, UnpackInv
<1>f. Fewer
  BY <1>u, SameIsFewer DEF WireTypes
<1>1. ASSUME NEW ms \in Seq(Markers), Say(ms), NEW n \in 1..Len(ms),
             \A i \in 1..Len(ms) : ms[i] \in KeyAnswers => i = n,
             ms[n] \in Answers("unpack"),
             ms[n] = "OK-full" => work' = "full", ms[n] = "OK-home" => work' = "home"
      PROVE  LedgerInv'
  <2>1. ms[n] # "SUM" /\ fg' # "unpack"
    BY <1>u, <1>1, AnswersAre
  <2> QED BY <1>u, <1>k, <1>f, <1>1, <2>1, Answered
<1>a. {"OK-full", "OK-home", "FAIL"} \subseteq Answers("unpack") \cap KeyAnswers
      /\ "OK" \notin KeyAnswers /\ "prompt" \notin KeyAnswers
      /\ {"OK", "OK-full", "OK-home", "FAIL", "prompt"} \subseteq Markers
  BY AnswersAre DEF KeyAnswers, Markers
<1>2. ASSUME NEW w \in {"full", "home"}, NEW m \in {"OK-full", "OK-home"}, work' = w,
             m = (IF w = "full" THEN "OK-full" ELSE "OK-home"), Say(<<"OK", m, "prompt">>)
      PROVE  LedgerInv'
  <2> DEFINE ms == <<"OK", m, "prompt">>
  <2>1. /\ ms \in Seq(Markers) /\ 2 \in 1..Len(ms) /\ ms[2] = m
        /\ \A i \in 1..Len(ms) : i = 2 \/ ms[i] \in {"OK", "prompt"}
    BY <1>a
  <2>2. \A i \in 1..Len(ms) : ms[i] \in KeyAnswers => i = 2
    BY <1>a, <2>1
  <2>3. ms[2] \in Answers("unpack") /\ (ms[2] = "OK-full" => w = "full") /\ (ms[2] = "OK-home" => w = "home")
    BY <1>a, <1>2, <2>1
  <2> HIDE DEF ms
  <2>4. Say(ms)
    BY <1>2 DEF ms
  <2> QED BY <1>1, <1>2, <2>1, <2>2, <2>3, <2>4
<1>3. ASSUME Say(<<"FAIL", "prompt">>) PROVE LedgerInv'
  <2> DEFINE ms == <<"FAIL", "prompt">>
  <2>1. /\ ms \in Seq(Markers) /\ 1 \in 1..Len(ms) /\ ms[1] = "FAIL"
        /\ \A i \in 1..Len(ms) : i = 1 \/ ms[i] = "prompt"
    BY <1>a
  <2>2. (\A i \in 1..Len(ms) : ms[i] \in KeyAnswers => i = 1) /\ ms[1] \in Answers("unpack")
    BY <1>a, <2>1
  <2> HIDE DEF ms
  <2>3. Say(ms)
    BY <1>3 DEF ms
  <2> QED BY <1>1, <2>1, <2>2, <2>3
<1> QED BY <1>2, <1>3 DEF UnpackEnds

\* What is printed reaches the mirror, or is lost.
LEMMA HeardLedger ==
    ASSUME WireTypes, LedgerInv, Deliver \/ LoseMarker PROVE LedgerInv'
<1>u. UNCHANGED <<pc, result, inq, fg, tgz, work, stopped>> /\ out # <<>> /\ out' = Tail(out)
  BY DEF Deliver, LoseMarker, pageVars, guestVars
<1>g. got \subseteq got' /\ got' \subseteq got \cup {out[1]}
  BY DEF Deliver, LoseMarker
<1>s. (Lagging => Lagging') /\ ~Dead
  <2>1. spent["late"] > 0 => spent'["late"] > 0
    BY DEF Deliver, LoseMarker, Fault, WireTypes, FaultKinds
  <2> QED BY <1>u, <2>1 DEF Lagging, Dead
<1>t. /\ 1 \in 1..Len(out) /\ Len(out) \in Nat
      /\ \A j \in 1..Len(out') : j + 1 \in 1..Len(out) /\ j + 1 # 1 /\ out'[j] = out[j + 1] /\ j \in Nat
  BY <1>u DEF WireTypes
<1>1. \A L \in KeyLines : (UnderWay(L)' <=> UnderWay(L)) /\ (Printed(L)' => Printed(L))
  <2>1. \A L \in KeyLines : UnderWay(L)' <=> UnderWay(L)
    BY <1>u DEF UnderWay, Typed
  <2> QED BY <1>t, <2>1 DEF Printed
<1>2. ASSUME NEW L \in KeyLines, OneAnswer(L) PROVE OneAnswer(L)'
  <2> SUFFICES ASSUME NEW i \in 1..Len(out'), NEW j \in 1..Len(out'),
                      out'[i] \in Answers(L), out'[j] \in Answers(L)
               PROVE  i = j
    BY DEF OneAnswer
  <2>1. i + 1 = j + 1
    BY <1>t, <1>2 DEF OneAnswer
  <2> QED BY <1>t, <2>1
<1>3. ASSUME NEW L \in KeyLines, Unread(L), ~Printed(L) PROVE Unread(L)'
  BY <1>3, <1>g, <1>t DEF Unread, Printed
<1>4. ASSUME NEW L \in KeyLines, Unread(L), OneAnswer(L), Printed(L)' PROVE Unread(L)'
  <2>1. PICK j \in 1..Len(out') : out'[j] \in Answers(L)
    BY <1>4 DEF Printed
  <2>2. out[1] \notin Answers(L)
    BY <1>4, <1>t, <2>1 DEF OneAnswer
  <2> QED BY <1>4, <1>g, <2>2 DEF Unread
<1>5. ASSUME NEW L \in KeyLines PROVE Own(L)'
  <2>1. UnderWay(L)' => Lagging \/ (pc = WaitOf[L] /\ ~Printed(L)' /\ Unread(L)')
    BY <1>s, <1>1, <1>3 DEF LedgerInv, Own
  <2>2. Printed(L)' => Lagging \/ (pc = WaitOf[L] /\ Unread(L)')
    BY <1>1, <1>4 DEF LedgerInv, Own
  <2> QED BY <1>s, <1>u, <1>2, <2>1, <2>2 DEF LedgerInv, Own
<1>6. Once' /\ Ahead' /\ RestoreInv'
  BY <1>u DEF LedgerInv, Once, Ahead, RestoreInv, RestoreFirst, Typed
<1>7. \A m \in KeyAnswers : Says(m)' => Says(m)
  BY <1>g, <1>t DEF Says
<1>8. SumInv' /\ WorkInv'
  <2>1. {"SUM", "OK-full", "OK-home"} \subseteq KeyAnswers
    BY DEF KeyAnswers
  <2> QED BY <1>u, <1>7, <2>1 DEF LedgerInv, SumInv, WorkInv
<1>9. UnpackInv'
  BY <1>u DEF LedgerInv, UnpackInv, UnderWay, Typed
<1> QED BY <1>5, <1>6, <1>8, <1>9 DEF LedgerInv

\* A block damaged on the way, a key typed in between, a guest that stops, and nothing at all.
LEMMA WireLedger ==
    ASSUME WireTypes, inq' \in Seq(Item), LedgerInv,
           Damage \/ UserKey \/ GuestStops \/ UNCHANGED vars
    PROVE  LedgerInv'
<1>u. UNCHANGED <<pc, result, got, fg, tgz, work, out>> /\ (stopped => stopped')
  BY DEF Damage, UserKey, GuestStops, vars, pageVars, guestVars
<1>s. spent["late"] > 0 => spent'["late"] > 0
  BY DEF Damage, UserKey, GuestStops, vars, Fault, WireTypes, FaultKinds
<1>1. Fewer
  <2>1. CASE Damage
    <3>1. PICK i \in 1..Len(inq), q \in {"bad", "short"} : inq' = [inq EXCEPT ![i].q = q]
      BY <2>1 DEF Damage
    <3>2. Len(inq') = Len(inq) /\ Len(inq) \in Nat
      BY <3>1 DEF WireTypes
    <3>3. \A j \in 1..Len(inq) : inq'[j].k = inq[j].k
      <4>1. \A j \in 1..Len(inq) : inq[j] \in Item
        BY DEF WireTypes
      <4>2. [inq[i] EXCEPT !.q = q].k = inq[i].k
        BY <4>1 DEF Item
      <4> QED BY <3>1, <4>2 DEF WireTypes
    <3>4. Shifts(0)
      BY <3>2, <3>3 DEF Shifts
    <3> QED BY <3>4 DEF Fewer
  <2>2. CASE UserKey
    <3> DEFINE items == <<Line("key")>>
    <3>1. Line("key") \in Item /\ Line("key").k \notin Ordered
      BY LineIsItem DEF Ordered, KeyLines
    <3>2. items \in Seq(Item) /\ \A j \in 1..Len(items) : items[j] = Line("key")
      BY <3>1
    <3>3. inq' = inq \o items
      BY <2>2, <3>1, AppendIsConcat DEF UserKey, WireTypes
    <3> QED BY <3>1, <3>2, <3>3, MoreIsFewer DEF WireTypes
  <2>3. CASE GuestStops \/ UNCHANGED vars
    BY <2>3, SameIsFewer DEF GuestStops, vars, WireTypes
  <2> QED BY <2>1, <2>2, <2>3
<1> QED BY <1>u, <1>s, <1>1, SameIsQuiet, Still

LEMMA LedgerInit == Init => LedgerInv
<1> SUFFICES ASSUME Init PROVE LedgerInv
  OBVIOUS
<1>1. /\ inq = <<>> /\ out = <<>> /\ fg # "unpack" /\ pc = "idle" /\ work = "before"
      /\ result = "none"
  BY DEF Init
<1>2. \A L \in KeyLines : ~UnderWay(L) /\ ~Printed(L) /\ ~Typed(L) /\ pc # WaitOf[L]
  <2>1. Len(inq) = 0 /\ Len(out) = 0
    BY <1>1
  <2> QED BY <1>1, <2>1, AnswersAre DEF UnderWay, Typed, Printed, KeyLines
<1>3. \A L \in KeyLines : Own(L)
  BY <1>2 DEF Own
<1>4. Once /\ Ahead
  BY <1>1 DEF Once, Ahead
<1>5. RestoreInv /\ SumInv
  BY <1>1 DEF RestoreInv, SumInv
<1>6. UnpackInv
  BY <1>1, <1>2 DEF UnpackInv, KeyLines
<1>7. WorkInv
  BY <1>1 DEF WorkInv, Waits
<1> QED BY <1>3, <1>4, <1>5, <1>6, <1>7 DEF LedgerInv

\* Late answers are counted, and never forgotten.
LEMMA LateGrows ==
    ASSUME WireTypes, [Next]_vars
    PROVE  spent["late"] \in Nat /\ spent'["late"] >= spent["late"]
<1>1. UNCHANGED spent \/ \E k \in FaultKinds : Fault(k)
  BY DEF Next, ExportWork, ImportWork, Start, Unheard, PageStep, GiveUp, Restore, Tidied, PasteThrows,
         GuestStep, ShellRuns, HeadReads, ShortReads, PackEnds, UnpackEnds, Interrupt, ProgramReads,
         ProgramEnds, ProgramStarts, Deliver, LoseMarker, Damage, UserKey, GuestStops, vars, FaultKinds
<1> QED BY <1>1 DEF Fault, WireTypes, FaultKinds

LEMMA LedgerNext ==
    ASSUME TypeOK, TypeOK', IInv, LedgerInv, OneLate', [Next]_vars PROVE LedgerInv'
<1>1. WireTypes /\ PageTypes /\ PcInv /\ EngagedInv /\ inq \in Seq(Item)
  BY Types DEF IInv, WireTypes
<1>2. inq' \in Seq(Item)
  BY DEF TypeOK
<1>3. CASE ExportWork \/ ImportWork
  BY <1>1, <1>3, StartLedger DEF ExportWork, ImportWork
<1>4. CASE PageStep
  <2>1. UNCHANGED <<out, guestVars>> /\ spent'["late"] = spent["late"] /\ UNCHANGED spent
    BY <1>4 DEF PageStep
  <2>2. CASE PackTaken \/ Packed \/ Verdict
    BY <1>1, <2>1, <2>2, PageEndsLedger
  <2>3. CASE Summed
    <3>1. pc' = "recover" \/ pc' = "verdict"
      BY <2>3 DEF Summed, Finish
    <3> QED BY <1>1, <1>2, <2>1, <2>3, <3>1, PageEndsLedger, PageTypesLedger
  <2>4. CASE Engage \/ Ready \/ Go \/ BlockTaken
    BY <1>1, <1>2, <2>1, <2>4, PageTypesLedger
  <2>5. CASE Recover
    BY <1>1, <2>1, <2>5, LeaveLedger
  <2> QED BY <1>4, <2>2, <2>3, <2>4, <2>5 DEF PageStep
<1>5. CASE GiveUp
  BY <1>1, <1>5, GiveUpLedger
<1>6. CASE Restore \/ Tidied
  BY <1>1, <1>6, LeaveLedger
<1>7. CASE PasteThrows
  <2>1. UNCHANGED <<out, guestVars>> /\ spent'["late"] = spent["late"]
    BY <1>1, <1>7 DEF PasteThrows, Fault, WireTypes, FaultKinds
  <2> QED BY <1>1, <1>7, <2>1, PageEndsLedger
<1>8. CASE GuestStep \/ ProgramEnds \/ ProgramStarts
  BY <1>1, <1>2, <1>8, ShellLedger, OtherLedger, UnpackLedger DEF GuestStep
<1>9. CASE Deliver \/ LoseMarker
  BY <1>1, <1>9, HeardLedger
<1>10. CASE Damage \/ UserKey \/ GuestStops \/ UNCHANGED vars
  BY <1>1, <1>2, <1>10, WireLedger
<1> QED BY <1>3, <1>4, <1>5, <1>6, <1>7, <1>8, <1>9, <1>10 DEF Next

\* The ledger is kept as long as no second answer comes after the page gave up on it.
LEMMA LedgerHolds == Spec => [](OneLate => LedgerInv)
<1>1. Init => LedgerInv
  BY LedgerInit
<1>2. TypeOK /\ TypeOK' /\ IInv /\ (OneLate => LedgerInv) /\ [Next]_vars => (OneLate => LedgerInv)'
  <2> SUFFICES ASSUME TypeOK, TypeOK', IInv, OneLate => LedgerInv, [Next]_vars, OneLate'
               PROVE  LedgerInv'
    OBVIOUS
  <2>1. OneLate
    <3>1. WireTypes
      BY Types
    <3>2. spent["late"] \in Nat /\ spent'["late"] \in Nat /\ spent'["late"] >= spent["late"]
      BY <3>1, LateGrows DEF TypeOK, FaultKinds
    <3> QED BY <3>2 DEF OneLate
  <2> QED BY <2>1, LedgerNext
<1> QED BY <1>1, <1>2, TransferTypes, TransferInit, TransferNext, PTL DEF Spec

\* bashtion-unpack is only ever run on an archive whose size and cksum were compared:
\* importWork() types it after SUM matched, and no rm or new sum of another transfer comes in
\* between, for archives of every length and whatever the wire does.
THEOREM OnlyWholeIsUnpacked == Spec => []UnpacksOnlyWhole
<1>1. (OneLate => LedgerInv) => UnpacksOnlyWhole
  BY DEF LedgerInv, UnpackInv, UnderWay, UnpacksOnlyWhole
<1> QED BY <1>1, LedgerHolds, PTL

\* "Nothing was changed" is true when importWork() says so, and stays true: no unpack has
\* run or will, however many faults there were.
THEOREM UntouchedStays == Spec => []UntouchedIsTrue
<1>1. (OneLate => LedgerInv) => UntouchedIsTrue
  <2> SUFFICES ASSUME LedgerInv, result = "untouched"
               PROVE  work = "before" /\ fg # "unpack" /\ \A i \in 1..Len(inq) : inq[i].k # "unpack"
    BY DEF UntouchedIsTrue
  <2>1. ~UnderWay("unpack")
    BY DEF LedgerInv, UnpackInv
  <2> QED BY <2>1 DEF LedgerInv, WorkInv, UnderWay, Typed
<1> QED BY <1>1, LedgerHolds, PTL

\* What load() tells the user came back did: everything, or the home directory alone.
THEOREM VerdictsAreTrue == Spec => []VerdictIsTrue
<1>1. (OneLate => LedgerInv) => VerdictIsTrue
  BY DEF LedgerInv, WorkInv, VerdictIsTrue
<1> QED BY <1>1, LedgerHolds, PTL

-----------------------------------------------------------------------------
(***************************************************************************)
(* Handing the terminal back.  HandedBack is not inductive: it says        *)
(* nothing while an operation runs, and its premise, a guest that has gone *)
(* silent, comes about by a read.  HandInv has three parts.  LeaveInv is   *)
(* what recover() owes at each of its stages; WorkingInv what holds in the *)
(* waits for a transfer's own lines; StepInv that, until the first fault,  *)
(* page and guest are in step, which is why a second fault is needed for   *)
(* the first to do harm.                                                   *)
(***************************************************************************)
\* Between operations the terminal is as it was found, and nothing on its way to it can
\* change that.
Common == {"intr", "key", "restore", "clear", "enter"}
Tidy == /\ echo /\ ~tmp /\ fg \in {"shell", "program"}
        /\ \A i \in 1..Len(inq) : inq[i].k \in Common

\* Or recover()'s line that mends it will be read, whole and by the shell: it is the next to
\* be read there, or right behind a Ctrl-C.
Mends == \E i \in 1..Len(inq) :
            /\ inq[i].k = "restore" /\ \A j \in 1..Len(inq) : j > i => inq[j].k = "clear"
            /\ \/ i = 1 /\ fg = "shell"
               \/ i > 1 /\ inq[i - 1].k = "intr"

\* Recover()'s Ctrl-C is the last thing typed, or has been read.
Breaks == \/ inq # <<>> /\ inq[Len(inq)].k = "intr"
          \/ inq = <<>> /\ fg = "shell"

AtPrompt == fg = "shell" /\ (inq = <<>> \/ (Tidy /\ OnlyKeys))

Foreign == {"BEGIN-END", "OK-full", "OK-home", "SUM", "SUM-bad"}

\* What a transfer finds and leaves, outside its own lines.
LeaveInv ==
    /\ pc \in {"idle", "restore"} => Tidy \/ Mends
    /\ pc = "ensure" => Tidy /\ \A m \in Foreign : ~Says(m)
    /\ pc = "interrupt" => Tidy \/ Breaks
    /\ pc = "recover" /\ clean => AtPrompt

Working == Waits \ {"ensure"}
Ends    == {"BEGIN-END", "OK-full", "OK-home"}
Upto(n) == [i \in 1..n |-> i]

\* What follows a line is only what the user typed.
LastIs(L) == \A i, j \in 1..Len(inq) : inq[i].k = L /\ j > i => inq[j].k = "key"

\* The answers recover() spares its Ctrl-C for leave the shell at its prompt.
EndsInv == (\E m \in Ends : Says(m)) =>
               pc \in {"pack", "begin", "verdict"} /\ fg = "shell" /\ echo /\ ~tmp /\ OnlyKeys
BadInv  == Says("SUM-bad") => pc = "sum" /\ fg = "shell" /\ inq = <<>>
GoodInv == Says("SUM") => pc \in {"sum", "verdict"} /\ ~Typed("sum") /\ ~Says("SUM-bad")

\* The lines of the two jobs and of the sum, and the jobs, belong to their waits.
LineInv == /\ LastIs("pack") /\ LastIs("sum") /\ LastIs("unpack")
           /\ Typed("pack") => pc \in {"pack", "begin"}
           /\ Typed("unpack") => pc = "verdict"
           /\ Typed("sum") => pc = "sum"
JobInv  == /\ fg = "pack" => pc \in {"pack", "begin"} /\ OnlyKeys
           /\ fg = "unpack" => pc = "verdict" /\ OnlyKeys

\* A key behind the sum means that all before it went well.
KeyInv  == Typed("sum") /\ inq[Len(inq)].k = "key" =>
               inq[1].k = "sum" /\ fg = "shell" /\ file = Upto(NBlocks)

WorkingInv == pc \in Working => EndsInv /\ BadInv /\ GoodInv /\ LineInv /\ JobInv /\ KeyInv

\* As long as nothing has gone wrong the page and the guest are in step: one line is on its
\* way, or its job runs, or its one answer is on its way back.
Harmless == {"prompt", "PACK", "OK"}
Hushed == \A i \in 1..Len(out) : out[i] \in Harmless
Expected == Awaited[IF pc = "pack" THEN "begin" ELSE pc]
Asked == Hushed /\ got \cap Expected = {}
Bare == inq = <<>> /\ fg = "shell"

OneIsDue ==
    /\ \A i, j \in 1..Len(out) : out[i] \notin Harmless /\ out[j] \notin Harmless => i = j
    /\ got \cap Expected # {} => Hushed

Sent(L) == /\ fg = "shell" /\ Asked
           /\ inq # <<>> /\ inq[Len(inq)].k = L
           /\ \A j \in 1..Len(inq) : j < Len(inq) => inq[j].k = "enter"
Runs(job) == fg = job /\ Asked /\ inq = <<>>
Done(answers) == Bare /\ \E m \in answers : Says(m)

PackStep == \/ Sent("pack")
            \/ /\ pc = "begin" \/ Says("PACK")
               /\ Runs("pack") \/ (Done({"BEGIN-END", "ERR"}) /\ echo /\ ~tmp)
ReadyStep == Sent("ready") \/ (Done({"READY"}) /\ file = <<>>)
GoStep == /\ file = Upto(blk - 1) /\ ~Says("BLK")
          /\ Sent("block") \/ (inq = <<>> /\ fg = "head" /\ Says("GO"))
BlkStep == \/ /\ fg = "head" /\ Asked /\ file = Upto(blk - 1)
              /\ inq = <<[k |-> "payload", n |-> blk, q |-> "whole"]>>
           \/ Done({"BLK"}) /\ file = Upto(blk)
SumStep == (Sent("sum") /\ Len(inq) = 1 /\ file = Upto(NBlocks)) \/ Done({"SUM"})
VerdictStep == \/ Sent("unpack") \/ Runs("unpack")
               \/ Done({"OK-full", "OK-home", "FAIL"}) /\ echo /\ ~tmp

WaitStep == /\ OneIsDue
            /\ pc \in {"pack", "begin"} => PackStep
            /\ pc = "ready" => ReadyStep
            /\ pc = "go" => GoStep
            /\ pc = "blk" => BlkStep
            /\ pc = "sum" => SumStep
            /\ pc = "verdict" => VerdictStep

StepInv ==
    /\ ~Typed("key")
    /\ pc \notin Working => Tidy /\ Hushed
    /\ pc = "ensure" => \A i \in 1..Len(inq) : inq[i].k = "enter"
    /\ pc = "recover" => Bare
    /\ pc \in Working => WaitStep

\* Why a terminal is handed back as it was found, after any one fault.
HandInv == ~stopped /\ Faults <= 1 => LeaveInv /\ WorkingInv /\ (Faults = 0 => StepInv)

\* The queue after a step is what was behind the d-th item.
Drops(d) ==
    /\ d \in Nat /\ Len(inq) \in Nat /\ Len(inq') \in Nat /\ Len(inq') = Len(inq) - d
    /\ \A j \in 1..Len(inq') : j + d \in 1..Len(inq) /\ inq'[j].k = inq[j + d].k

\* The same, where the rest of a line may have taken the place of the first.
Shrinks(d) ==
    /\ d \in Nat /\ Len(inq) \in Nat /\ Len(inq') \in Nat /\ Len(inq') = Len(inq) - d
    /\ \A j \in 1..Len(inq') : /\ j + d \in 1..Len(inq)
                               /\ j > 1 \/ inq'[j].k # "junk" => inq'[j].k = inq[j + d].k

LEMMA QueueLengths ==
    ASSUME WireTypes
    PROVE  /\ Len(inq) \in Nat /\ (inq = <<>> <=> Len(inq) = 0)
           /\ Len(out) \in Nat /\ (out = <<>> <=> Len(out) = 0)
  BY DEF WireTypes

LEMMA RestDrops ==
    ASSUME WireTypes, NEW i \in 1..Len(inq), inq' = SubSeq(inq, i + 1, Len(inq))
    PROVE  Drops(i)
<1>1. /\ Len(inq) \in Nat /\ Len(inq') = Len(inq) - i
      /\ \A j \in 1..Len(inq') : inq'[j] = inq[i + j]
  BY RestIsItems DEF WireTypes
<1>2. \A j \in 1..Len(inq') : j + i \in 1..Len(inq) /\ inq'[j].k = inq[j + i].k
  BY <1>1
<1> QED BY <1>1, <1>2 DEF Drops

LEMMA TailDrops == ASSUME WireTypes, inq # <<>>, inq' = Tail(inq) PROVE Drops(1)
<1>1. 1 \in 1..Len(inq) /\ Tail(inq) = SubSeq(inq, 1 + 1, Len(inq))
  BY DEF WireTypes
<1> QED BY <1>1, RestDrops

LEMMA SameDrops == ASSUME WireTypes, inq' = inq PROVE Drops(0)
  BY QueueLengths DEF Drops

LEMMA DamageDrops == ASSUME WireTypes, Damage PROVE Drops(0)
<1>1. PICK n \in 1..Len(inq), q \in {"bad", "short"} : inq' = [inq EXCEPT ![n].q = q]
  BY DEF Damage
<1>2. Len(inq) \in Nat /\ Len(inq') = Len(inq)
  BY <1>1 DEF WireTypes
<1>3. ASSUME NEW j \in 1..Len(inq) PROVE inq'[j].k = inq[j].k
  <2>1. inq[j] \in Item
    BY DEF WireTypes
  <2> QED BY <1>1, <2>1 DEF WireTypes, Item
<1> QED BY <1>2, <1>3 DEF Drops

LEMMA DropsShrinks == ASSUME NEW d, Drops(d) PROVE Shrinks(d)
  BY DEF Drops, Shrinks

LEMMA LeftoverShrinks ==
    ASSUME WireTypes, NEW i \in 1..Len(inq),
           inq' = <<Line("junk")>> \o SubSeq(inq, i + 1, Len(inq))
    PROVE  Shrinks(i - 1)
<1> DEFINE rest == SubSeq(inq, i + 1, Len(inq))
<1>1. /\ Len(inq) \in Nat /\ rest \in Seq(Item) /\ Len(rest) = Len(inq) - i
      /\ \A j \in 1..(Len(inq) - i) : rest[j] = inq[i + j]
  BY RestIsItems DEF WireTypes
<1>2. <<Line("junk")>> \in Seq(Item) /\ Len(<<Line("junk")>>) = 1 /\ <<Line("junk")>>[1] = Line("junk")
  BY LineIsItem
<1> HIDE DEF rest
<1>3. /\ Len(inq') = 1 + Len(rest)
      /\ \A j \in 1..Len(inq') : inq'[j] = IF j <= 1 THEN <<Line("junk")>>[j] ELSE rest[j - 1]
  BY <1>1, <1>2, ConcatProperties DEF rest
<1>4. ASSUME NEW j \in 1..Len(inq')
      PROVE  j + (i - 1) \in 1..Len(inq) /\ (j > 1 \/ inq'[j].k # "junk" => inq'[j].k = inq[j + (i - 1)].k)
  <2>1. j + (i - 1) \in 1..Len(inq)
    BY <1>1, <1>3
  <2>2. CASE j <= 1
    <3>1. inq'[j].k = "junk"
      BY <1>2, <1>3, <2>2, LineIsItem
    <3> QED BY <2>1, <2>2, <3>1
  <2>3. CASE ~(j <= 1)
    <3>1. j - 1 \in 1..(Len(inq) - i) /\ i + (j - 1) = j + (i - 1)
      BY <1>1, <1>3, <2>3
    <3>2. inq'[j] = inq[j + (i - 1)]
      BY <1>1, <1>3, <2>3, <3>1
    <3> QED BY <2>1, <3>2
  <2> QED BY <2>2, <2>3
<1>5. i - 1 \in Nat /\ Len(inq') \in Nat /\ Len(inq') = Len(inq) - (i - 1)
  BY <1>1, <1>3
<1> QED BY <1>1, <1>4, <1>5 DEF Shrinks

\* What such a step keeps.
LEMMA DropsKeeps ==
    ASSUME NEW d, Drops(d)
    PROVE  \A S : (\A i \in 1..Len(inq) : inq[i].k \in S) => (\A i \in 1..Len(inq') : inq'[i].k \in S)
  BY DEF Drops

LEMMA ShrinksKeeps ==
    ASSUME NEW d, Shrinks(d)
    PROVE  /\ \A k : k # "junk" => (Typed(k)' => Typed(k)) /\ (LastIs(k) => LastIs(k)')
           /\ Len(inq') > 0 /\ inq'[Len(inq')].k # "junk" =>
                  Len(inq) > 0 /\ inq[Len(inq)].k = inq'[Len(inq')].k
<1>1. ASSUME NEW j \in 1..Len(inq'), inq'[j].k # "junk"
      PROVE  j + d \in 1..Len(inq) /\ inq'[j].k = inq[j + d].k
  BY <1>1 DEF Shrinks
<1>2. \A k : k # "junk" => (Typed(k)' => Typed(k))
  BY <1>1 DEF Typed
<1>3. ASSUME NEW k, k # "junk", LastIs(k), NEW i \in 1..Len(inq'), NEW j \in 1..Len(inq'),
             inq'[i].k = k, j > i
      PROVE  inq'[j].k = "key"
  <2>1. i + d \in 1..Len(inq) /\ inq[i + d].k = k
    BY <1>1, <1>3
  <2>2. j + d \in 1..Len(inq) /\ inq'[j].k = inq[j + d].k
    BY <1>3 DEF Shrinks
  <2>3. j + d > i + d
    BY <1>3 DEF Shrinks
  <2> QED BY <1>3, <2>1, <2>2, <2>3 DEF LastIs
<1>4. ASSUME Len(inq') > 0, inq'[Len(inq')].k # "junk"
      PROVE  Len(inq) > 0 /\ inq[Len(inq)].k = inq'[Len(inq')].k
  <2>1. Len(inq') \in 1..Len(inq') /\ Len(inq') + d = Len(inq) /\ Len(inq) > 0
    BY <1>4 DEF Shrinks
  <2> QED BY <1>1, <1>4, <2>1
<1> QED BY <1>2, <1>3, <1>4 DEF LastIs

\* The queue after a step that types a line.
LEMMA TypesOne ==
    ASSUME WireTypes, NEW x \in Item, inq' = inq \o <<x>> \/ inq' = Append(inq, x)
    PROVE  /\ Len(inq) \in Nat /\ Len(inq') = Len(inq) + 1 /\ inq'[Len(inq')] = x
           /\ Len(inq') \in 1..Len(inq') /\ inq' # <<>>
           /\ \A j \in 1..Len(inq') : j # Len(inq') => j \in 1..Len(inq) /\ inq'[j] = inq[j]
<1>1. inq' = inq \o <<x>>
  BY AppendIsConcat DEF WireTypes
<1>2. /\ Len(inq) \in Nat /\ Len(inq') = Len(inq) + 1 /\ inq'[Len(inq) + 1] = x
      /\ \A j \in 1..Len(inq) : inq'[j] = inq[j]
      /\ \A j \in 1..Len(inq') : j = Len(inq) + 1 \/ j \in 1..Len(inq)
  BY <1>1, OneMore
<1>3. Len(inq') \in 1..Len(inq') /\ inq' # <<>>
  BY <1>2
<1> QED BY <1>2, <1>3

LEMMA TypesTwo ==
    ASSUME WireTypes, NEW x \in Item, NEW y \in Item, inq' = inq \o <<x, y>>
    PROVE  /\ Len(inq) \in Nat /\ Len(inq') = Len(inq) + 2 /\ inq' # <<>>
           /\ inq'[Len(inq) + 1] = x /\ inq'[Len(inq')] = y /\ Len(inq) + 1 \in 1..Len(inq')
           /\ \A j \in 1..Len(inq') : \/ j \in 1..Len(inq) /\ inq'[j] = inq[j]
                                      \/ j = Len(inq) + 1
                                      \/ j = Len(inq')
<1>1. /\ <<x, y>> \in Seq(Item) /\ Len(<<x, y>>) = 2 /\ <<x, y>>[1] = x /\ <<x, y>>[2] = y
  OBVIOUS
<1>2. /\ Len(inq) \in Nat /\ Len(inq') = Len(inq) + 2
      /\ \A j \in 1..(Len(inq) + 2) : inq'[j] = IF j <= Len(inq) THEN inq[j] ELSE <<x, y>>[j - Len(inq)]
  BY <1>1, ConcatProperties DEF WireTypes
<1>3. Len(inq) + 1 \in 1..(Len(inq) + 2) /\ ~(Len(inq) + 1 <= Len(inq)) /\ (Len(inq) + 1) - Len(inq) = 1
  BY <1>2
<1>4. Len(inq) + 2 \in 1..(Len(inq) + 2) /\ ~(Len(inq) + 2 <= Len(inq)) /\ (Len(inq) + 2) - Len(inq) = 2
  BY <1>2
<1>5. inq'[Len(inq) + 1] = x
  BY <1>1, <1>2, <1>3
<1>6. inq'[Len(inq')] = y
  BY <1>1, <1>2, <1>4
<1>7. \A j \in 1..Len(inq') : \/ j \in 1..Len(inq) /\ inq'[j] = inq[j]
                              \/ j = Len(inq) + 1
                              \/ j = Len(inq')
  BY <1>2
<1>8. inq' # <<>>
  BY <1>2
<1> QED BY <1>2, <1>3, <1>5, <1>6, <1>7, <1>8

\* head, and a block that came up short, take what is next, and may leave the rest of a line.
LEMMA HeadTakes ==
    ASSUME WireTypes, HeadReads
    PROVE  \E i \in 1..Len(inq) : NextAt(i) /\ (Drops(i) \/ Shrinks(i - 1))
<1>1. PICK i \in 1..Len(inq) :
          /\ NextAt(i)
          /\ \/ i = 1 /\ inq' = Tail(inq)
             \/ inq' = (IF i > 1 THEN <<Line("junk")>> ELSE <<>>) \o SubSeq(inq, i + 1, Len(inq))
  BY DEF HeadReads
<1>2. CASE i = 1 /\ inq' = Tail(inq)
  BY <1>1, <1>2, TailDrops, QueueLengths
<1>3. CASE i > 1 /\ inq' = <<Line("junk")>> \o SubSeq(inq, i + 1, Len(inq))
  BY <1>1, <1>3, LeftoverShrinks
<1>4. CASE inq' = <<>> \o SubSeq(inq, i + 1, Len(inq))
  <2>1. inq' = SubSeq(inq, i + 1, Len(inq))
    BY <1>4, RestIsItems
  <2> QED BY <1>1, <2>1, RestDrops
<1> QED BY <1>1, <1>2, <1>3, <1>4

LEMMA ShortTakes ==
    ASSUME WireTypes, ShortReads PROVE inq[1].k # "intr" /\ (Drops(1) \/ Shrinks(0))
<1>1. inq[1].k # "intr" /\ Tail(inq) = SubSeq(inq, 1 + 1, Len(inq)) /\ 1 \in 1..Len(inq)
  BY DEF ShortReads, WireTypes
<1>2. CASE inq' = <<Line("junk")>> \o Tail(inq)
  <2>1. Shrinks(1 - 1)
    BY <1>1, <1>2, LeftoverShrinks
  <2> QED BY <1>1, <2>1
<1>3. CASE inq' = <<>> \o Tail(inq)
  <2>1. inq' = SubSeq(inq, 1 + 1, Len(inq))
    BY <1>1, <1>3, RestIsItems
  <2> QED BY <1>1, <2>1, RestDrops
<1> QED BY <1>2, <1>3 DEF ShortReads

\* Outside a transfer's own lines the guest reads, one after the other, what leaves the
\* terminal as it was found.
LEMMA TidyDrops ==
    ASSUME WireTypes, Tidy,
           GuestStep \/ Deliver \/ ProgramEnds \/ ProgramStarts \/ LoseMarker \/ Damage
    PROVE  (\E d : Drops(d)) /\ echo' /\ ~tmp' /\ fg' \in {"shell", "program"}
<1>1. CASE ShellRuns
  <2>1. PICK i \in 1..Len(inq) : /\ NextAt(i) /\ RunLine(inq[i], i = 1 \/ inq[i].k = "enter")
                                 /\ inq' = SubSeq(inq, i + 1, Len(inq))
    BY <1>1 DEF ShellRuns
  <2>2. inq[i].k \in {"restore", "clear", "enter"}
    BY <2>1 DEF Tidy, Common, NextAt
  <2>3. echo' /\ ~tmp' /\ fg' \in {"shell", "program"}
    <3>1. CASE inq[i].k = "restore"
      <4>1. echo' = (echo \/ i = 1 \/ inq[i].k = "enter") /\ tmp' = FALSE /\ UNCHANGED fg
        BY <2>1, <3>1 DEF RunLine
      <4> QED BY <4>1 DEF Tidy
    <3>2. CASE inq[i].k # "restore"
      <4>1. UNCHANGED <<echo, tmp, fg>>
        BY <2>1, <2>2, <3>2 DEF RunLine
      <4> QED BY <4>1 DEF Tidy
    <3> QED BY <3>1, <3>2
  <2> QED BY <2>1, <2>3, RestDrops
<1>2. CASE HeadReads \/ ShortReads \/ PackEnds \/ UnpackEnds
  BY <1>2 DEF HeadReads, ShortReads, PackEnds, UnpackEnds, Tidy
<1>3. CASE Interrupt
  <2>1. PICK i \in 1..Len(inq) : inq' = SubSeq(inq, i + 1, Len(inq))
    BY <1>3 DEF Interrupt
  <2>2. Drops(i)
    BY <2>1, RestDrops
  <2> QED BY <1>3, <2>2 DEF Interrupt, Tidy
<1>4. CASE ProgramReads
  <2>1. Drops(1)
    BY <1>4, TailDrops DEF ProgramReads
  <2> QED BY <1>4, <2>1 DEF ProgramReads, Tidy, guestVars
<1>5. CASE Deliver \/ ProgramEnds \/ ProgramStarts \/ LoseMarker \/ Damage
  <2>1. Drops(0)
    BY <1>5, SameDrops, DamageDrops DEF Deliver, ProgramEnds, ProgramStarts, LoseMarker
  <2>2. UNCHANGED <<echo, tmp>> /\ (UNCHANGED fg \/ fg' \in {"shell", "program"})
    BY <1>5 DEF Deliver, ProgramEnds, ProgramStarts, LoseMarker, Damage, guestVars
  <2>3. echo' /\ ~tmp' /\ fg' \in {"shell", "program"}
    BY <2>2 DEF Tidy
  <2> QED BY <2>1, <2>3
<1> QED BY <1>1, <1>2, <1>3, <1>4, <1>5 DEF GuestStep

LEMMA TidyStays ==
    ASSUME WireTypes, Tidy,
           GuestStep \/ Deliver \/ ProgramEnds \/ ProgramStarts \/ LoseMarker \/ Damage
    PROVE  Tidy'
<1>1. PICK d : Drops(d)
  BY TidyDrops
<1>2. \A i \in 1..Len(inq') : inq'[i].k \in Common
  BY <1>1, DropsKeeps DEF Tidy
<1> QED BY <1>2, TidyDrops DEF Tidy

\* What is in front of recover()'s line, and is not its Ctrl-C, may go.
LEMMA MendsBehind ==
    ASSUME NEW d, NEW r \in 1..Len(inq), inq[r].k = "restore",
           \A j \in 1..Len(inq) : j > r => inq[j].k = "clear",
           \/ Shrinks(d) /\ d + 1 < r - 1 /\ inq[r - 1].k = "intr"
           \/ Drops(d) /\ d < r - 1 /\ inq[r - 1].k = "intr"
           \/ Drops(d) /\ d = r - 1 /\ fg' = "shell"
    PROVE  Mends'
<1>1. Shrinks(d)
  BY DropsShrinks
<1>2. d \in Nat /\ Len(inq) \in Nat /\ Len(inq') \in Nat /\ Len(inq') = Len(inq) - d /\ d < r
  BY <1>1 DEF Shrinks
<1>3. r - d \in 1..Len(inq') /\ (r - d) + d = r
  <2>1. r \in Int /\ r <= Len(inq)
    BY <1>2
  <2>2. r - d \in Int /\ 1 <= r - d /\ r - d <= Len(inq') /\ (r - d) + d = r
    BY <1>2, <2>1
  <2> QED BY <1>2, <2>2
<1>4. inq'[r - d].k = "restore"
  <2>1. CASE r - d > 1
    BY <1>1, <1>3, <2>1 DEF Shrinks
  <2>2. CASE ~(r - d > 1)
    <3>1. Drops(d)
      BY <1>2, <2>2
    <3> QED BY <1>3, <3>1 DEF Drops
  <2> QED BY <2>1, <2>2
<1>5. ASSUME NEW j \in 1..Len(inq'), j > r - d PROVE inq'[j].k = "clear"
  <2>1. j \in Nat /\ r \in Nat /\ r - d >= 1
    <3>1. j \in Nat
      BY <1>2
    <3>2. r \in Nat
      BY <1>2
    <3> QED BY <1>2, <3>1, <3>2
  <2>2. j + d > r /\ j > 1
    BY <1>2, <1>5, <2>1
  <2> QED BY <1>1, <2>2 DEF Shrinks
<1>6. CASE d = r - 1
  <2>1. r - d = 1 /\ fg' = "shell"
    BY <1>2, <1>6
  <2> QED BY <1>3, <1>4, <1>5, <2>1 DEF Mends
<1>7. CASE d # r - 1
  <2>1. /\ inq[r - 1].k = "intr" /\ d < r - 1
        /\ Drops(d) \/ d + 1 < r - 1
    BY <1>2, <1>7
  <2>2. (r - d) - 1 \in 1..Len(inq') /\ ((r - d) - 1) + d = r - 1 /\ r - d > 1
    BY <1>2, <1>3, <2>1
  <2>3. inq'[(r - d) - 1].k = "intr"
    <3>1. CASE Drops(d)
      BY <2>1, <2>2, <3>1 DEF Drops
    <3>2. CASE d + 1 < r - 1
      <4>1. (r - d) - 1 > 1
        BY <1>2, <3>2
      <4> QED BY <1>1, <2>1, <2>2, <4>1 DEF Shrinks
    <3> QED BY <2>1, <3>1, <3>2
  <2> QED BY <1>3, <1>4, <1>5, <2>2, <2>3 DEF Mends
<1> QED BY <1>6, <1>7

\* recover()'s line is read by the shell and nobody else: head and the programs end with the
\* Ctrl-C before it.
LEMMA MendsStays ==
    ASSUME WireTypes, Mends,
           GuestStep \/ Deliver \/ ProgramEnds \/ ProgramStarts \/ LoseMarker \/ Damage
    PROVE  Tidy' \/ Mends'
<1>1. PICK r \in 1..Len(inq) :
          /\ inq[r].k = "restore" /\ \A j \in 1..Len(inq) : j > r => inq[j].k = "clear"
          /\ \/ r = 1 /\ fg = "shell"
             \/ r > 1 /\ inq[r - 1].k = "intr"
  BY DEF Mends
<1>2. Len(inq) \in Nat /\ r \in Nat
  BY QueueLengths
<1>i. r > 1 => r - 1 \in 1..Len(inq)
  BY <1>2
<1>3. ASSUME NEW i \in 1..Len(inq), NextAt(i)
      PROVE  \/ r > 1 /\ inq[r - 1].k = "intr" /\ i < r - 1
             \/ r = 1 /\ i = 1 /\ fg = "shell"
  <2>1. i <= r
    <3>1. i > r => inq[r].k = "key"
      BY <1>2, <1>3 DEF NextAt
    <3> QED BY <1>1, <1>2, <3>1
  <2>2. CASE r > 1
    <3>1. inq[r - 1].k = "intr"
      BY <1>1, <2>2
    <3>2. i # r - 1
      BY <1>3, <3>1 DEF NextAt
    <3>3. i # r
      <4>1. i = r => inq[r - 1].k = "key"
        BY <1>2, <1>3, <1>i, <2>2 DEF NextAt
      <4> QED BY <3>1, <4>1
    <3> QED BY <1>2, <2>1, <2>2, <3>1, <3>2, <3>3
  <2> QED BY <1>1, <1>2, <2>1, <2>2
<1>4. CASE Drops(0) /\ (fg = "shell" => fg' = "shell")
  <2>1. CASE r = 1 /\ fg = "shell"
    BY <1>1, <1>4, <2>1, MendsBehind
  <2>2. CASE r > 1 /\ inq[r - 1].k = "intr"
    <3>1. 0 < r - 1
      BY <1>2, <2>2
    <3> QED BY <1>1, <1>4, <2>2, <3>1, MendsBehind
  <2> QED BY <1>1, <2>1, <2>2
<1>5. CASE ShellRuns
  <2>1. PICK i \in 1..Len(inq) : /\ NextAt(i) /\ RunLine(inq[i], i = 1 \/ inq[i].k = "enter")
                                 /\ inq' = SubSeq(inq, i + 1, Len(inq))
    BY <1>5 DEF ShellRuns
  <2>2. Drops(i)
    BY <2>1, RestDrops
  <2>3. CASE r > 1 /\ inq[r - 1].k = "intr" /\ i < r - 1
    BY <1>1, <2>2, <2>3, MendsBehind
  <2>4. CASE r = 1 /\ i = 1 /\ fg = "shell"
    <3>1. inq[1].k = "restore"
      BY <1>1, <2>4
    <3>2. echo' = (echo \/ i = 1 \/ inq[i].k = "enter") /\ tmp' = FALSE /\ UNCHANGED fg
      BY <2>1, <2>4, <3>1 DEF RunLine
    <3>3. \A j \in 1..Len(inq') : inq'[j].k = "clear"
      <4>1. \A j \in 1..Len(inq') : j + 1 \in 1..Len(inq) /\ j + 1 > 1 /\ inq'[j].k = inq[j + 1].k
        BY <2>2, <2>4 DEF Drops
      <4> QED BY <1>1, <2>4, <4>1
    <3>4. echo' /\ ~tmp' /\ fg' \in {"shell", "program"}
      BY <2>4, <3>2
    <3> QED BY <3>3, <3>4 DEF Tidy, Common
  <2> QED BY <1>3, <2>1, <2>3, <2>4
<1>6. CASE HeadReads
  <2>1. PICK i \in 1..Len(inq) : NextAt(i) /\ (Drops(i) \/ Shrinks(i - 1))
    BY <1>6, HeadTakes
  <2>2. r > 1 /\ inq[r - 1].k = "intr" /\ i < r - 1
    BY <1>3, <1>6, <2>1 DEF HeadReads
  <2>3. CASE Drops(i)
    BY <1>1, <2>2, <2>3, MendsBehind
  <2>4. CASE Shrinks(i - 1)
    <3>1. (i - 1) + 1 < r - 1
      BY <2>2, <1>2
    <3> QED BY <1>1, <2>2, <2>4, <3>1, MendsBehind
  <2> QED BY <2>1, <2>3, <2>4
<1>7. CASE ShortReads
  <2>1. fg # "shell" /\ inq[1].k # "intr" /\ (Drops(1) \/ Shrinks(0))
    BY <1>7, ShortTakes DEF ShortReads
  <2>2. r > 1 /\ inq[r - 1].k = "intr" /\ 1 < r - 1
    <3>1. r - 1 # 1
      BY <1>1, <1>2, <2>1
    <3> QED BY <1>1, <1>2, <2>1, <3>1
  <2>3. CASE Drops(1)
    BY <1>1, <2>2, <2>3, MendsBehind
  <2>4. CASE Shrinks(0)
    <3>1. 0 + 1 < r - 1
      BY <2>2
    <3> QED BY <1>1, <2>2, <2>4, <3>1, MendsBehind
  <2> QED BY <2>1, <2>3, <2>4
<1>8. CASE Interrupt
  <2>1. PICK i \in 1..Len(inq) : /\ inq[i].k = "intr" /\ inq' = SubSeq(inq, i + 1, Len(inq))
                                 /\ \A j \in 1..(i - 1) : inq[j].k # "intr"
    BY <1>8 DEF Interrupt
  <2>2. Drops(i) /\ fg' = "shell"
    BY <1>8, <2>1, RestDrops DEF Interrupt
  <2>3. r > 1 /\ inq[r - 1].k = "intr" /\ i <= r - 1
    <3>1. i <= r
      BY <1>1, <1>2, <2>1
    <3>2. i # r
      BY <1>1, <2>1
    <3>3. i < r
      BY <1>2, <3>1, <3>2
    <3>4. r > 1
      BY <1>2, <3>3
    <3> QED BY <1>1, <1>2, <3>3, <3>4
  <2>4. i < r - 1 \/ i = r - 1
    BY <1>2, <2>3
  <2> QED BY <1>1, <2>2, <2>3, <2>4, MendsBehind
<1>9. CASE ProgramReads
  <2>1. inq # <<>> /\ inq[1].k # "intr" /\ fg # "shell"
    BY <1>9 DEF ProgramReads, WireTypes
  <2>2. r > 1 /\ inq[r - 1].k = "intr" /\ 1 < r - 1
    <3>1. r - 1 # 1
      BY <1>1, <1>2, <2>1
    <3> QED BY <1>1, <1>2, <2>1, <3>1
  <2>3. Drops(1)
    BY <1>9, TailDrops DEF ProgramReads
  <2> QED BY <1>1, <2>2, <2>3, MendsBehind
<1>10. CASE PackEnds \/ UnpackEnds \/ Deliver \/ ProgramEnds \/ LoseMarker \/ Damage
  <2>1. Drops(0)
    BY <1>10, SameDrops, DamageDrops DEF PackEnds, UnpackEnds, Deliver, ProgramEnds, LoseMarker
  <2>2. fg = "shell" => fg' = "shell"
    BY <1>10 DEF PackEnds, UnpackEnds, Deliver, ProgramEnds, LoseMarker, Damage, guestVars
  <2> QED BY <1>4, <2>1, <2>2
<1>11. CASE ProgramStarts
  BY <1>2, <1>11, QueueLengths DEF ProgramStarts
<1> QED BY <1>5, <1>6, <1>7, <1>8, <1>9, <1>10, <1>11 DEF GuestStep

\* What the page can have heard after a step.
Hears(M) == \A m : Says(m)' => Says(m) \/ m \in M

LEMMA SayHears ==
    ASSUME WireTypes, UNCHANGED got
    PROVE  /\ \A a \in Markers : Say(<<a>>) => Hears({a}) /\ Says(a)'
           /\ \A a, b \in Markers : Say(<<a, b>>) => Hears({a, b}) /\ Says(a)'
           /\ \A a, b, c \in Markers : Say(<<a, b, c>>) => Hears({a, b, c}) /\ Says(b)'
           /\ Say(<<>>) => Hears({})
           /\ \A ms \in Seq(Markers) : Say(ms) => \A m : Says(m) => Says(m)'
<1>1. ASSUME NEW ms \in Seq(Markers), Say(ms), NEW m
      PROVE  Says(m)' => Says(m) \/ \E i \in 1..Len(ms) : ms[i] = m
  BY <1>1, SayAppends DEF Says
<1>2. ASSUME NEW ms \in Seq(Markers), Say(ms), NEW i \in 1..Len(ms)
      PROVE  Says(ms[i])'
  <2>1. /\ Len(out) \in Nat /\ Len(ms) \in Nat /\ Len(out') = Len(out) + Len(ms)
        /\ \A j \in 1..Len(out') : out'[j] = IF j <= Len(out) THEN out[j] ELSE ms[j - Len(out)]
    BY <1>2, ConcatProperties DEF WireTypes, Say
  <2>2. /\ Len(out) + i \in 1..Len(out') /\ ~(Len(out) + i <= Len(out))
        /\ (Len(out) + i) - Len(out) = i
    BY <2>1
  <2>3. out'[Len(out) + i] = ms[i]
    BY <2>1, <2>2
  <2> QED BY <2>2, <2>3 DEF Says
<1>3. ASSUME NEW ms \in Seq(Markers), Say(ms), NEW m, Says(m) PROVE Says(m)'
  <2>1. /\ Len(out) \in Nat /\ Len(ms) \in Nat /\ Len(out') = Len(out) + Len(ms)
        /\ \A j \in 1..Len(out') : out'[j] = IF j <= Len(out) THEN out[j] ELSE ms[j - Len(out)]
    BY <1>3, ConcatProperties DEF WireTypes, Say
  <2>2. \A j \in 1..Len(out) : j \in 1..Len(out') /\ out'[j] = out[j]
    BY <2>1
  <2> QED BY <1>3, <2>2 DEF Says
<1>4. ASSUME NEW a \in Markers, Say(<<a>>) PROVE Hears({a}) /\ Says(a)'
  <2>1. <<a>> \in Seq(Markers) /\ Len(<<a>>) = 1 /\ <<a>>[1] = a /\ 1 \in 1..Len(<<a>>)
    OBVIOUS
  <2>2. \A i \in 1..Len(<<a>>) : <<a>>[i] \in {a}
    BY <2>1
  <2> DEFINE s == <<a>>
  <2>3. s \in Seq(Markers) /\ Say(s) /\ s[1] = a /\ 1 \in 1..Len(s) /\ \A i \in 1..Len(s) : s[i] \in {a}
    BY <1>4, <2>1, <2>2
  <2> HIDE DEF s
  <2>4. Says(s[1])'
    BY <1>2, <2>3
  <2>5. Hears({a})
    BY <1>1, <2>3 DEF Hears
  <2> QED BY <2>3, <2>4, <2>5 DEF Says
<1>5. ASSUME NEW a \in Markers, NEW b \in Markers, Say(<<a, b>>) PROVE Hears({a, b}) /\ Says(a)'
  <2>1. <<a, b>> \in Seq(Markers) /\ <<a, b>>[1] = a /\ 1 \in 1..Len(<<a, b>>)
    OBVIOUS
  <2>2. \A i \in 1..Len(<<a, b>>) : <<a, b>>[i] \in {a, b}
    OBVIOUS
  <2> QED BY <1>1, <1>2, <1>5, <2>1, <2>2 DEF Hears
<1>6. ASSUME NEW a \in Markers, NEW b \in Markers, NEW c \in Markers, Say(<<a, b, c>>)
      PROVE  Hears({a, b, c}) /\ Says(b)'
  <2>1. <<a, b, c>> \in Seq(Markers) /\ <<a, b, c>>[2] = b /\ 2 \in 1..Len(<<a, b, c>>)
    OBVIOUS
  <2>2. \A i \in 1..Len(<<a, b, c>>) : <<a, b, c>>[i] \in {a, b, c}
    OBVIOUS
  <2> QED BY <1>1, <1>2, <1>6, <2>1, <2>2 DEF Hears
<1>7. Say(<<>>) => Hears({})
  <2>1. Say(<<>>) => out' = out
    BY DEF Say, WireTypes
  <2> QED BY <2>1 DEF Hears, Says
<1> QED BY <1>3, <1>4, <1>5, <1>6, <1>7

\* What is on its way is delivered, or lost.
LEMMA WireHears ==
    ASSUME WireTypes, \/ Deliver \/ LoseMarker \/ UNCHANGED <<out, got>>
    PROVE  Hears({}) /\ (Deliver => \A m : Says(m) => Says(m)')
<1>1. CASE UNCHANGED <<out, got>> /\ ~Deliver
  BY <1>1 DEF Hears, Says
<1>2. CASE Deliver \/ LoseMarker
  <2>1. out # <<>> /\ out' = Tail(out) /\ (got' = got \cup {Head(out)} \/ (got' = got /\ ~Deliver))
    BY <1>2 DEF Deliver, LoseMarker
  <2>2. /\ Len(out) \in Nat /\ Len(out) > 0 /\ Head(out) = out[1] /\ Len(out') = Len(out) - 1
        /\ \A j \in 1..Len(out') : out'[j] = out[j + 1]
    BY <2>1, HeadTailProperties, QueueLengths DEF WireTypes
  <2>3. 1 \in 1..Len(out) /\ \A j \in 1..Len(out') : j + 1 \in 1..Len(out)
    BY <2>2
  <2>4. Hears({})
    BY <2>1, <2>2, <2>3 DEF Hears, Says
  <2>5. ASSUME Deliver, NEW m, Says(m) PROVE Says(m)'
    <3>1. \A i \in 1..Len(out) : i = 1 \/ (i - 1 \in 1..Len(out') /\ (i - 1) + 1 = i)
      BY <2>2
    <3>2. got' = got \cup {out[1]}
      BY <2>2, <2>5 DEF Deliver
    <3>3. CASE m \in got
      BY <3>2, <3>3 DEF Says
    <3>4. CASE \E i \in 1..Len(out) : out[i] = m
      <4>1. PICK i \in 1..Len(out) : out[i] = m
        BY <3>4
      <4>2. CASE i = 1
        BY <3>2, <4>1, <4>2 DEF Says
      <4>3. CASE i # 1
        <5>1. i - 1 \in 1..Len(out') /\ out'[i - 1] = m
          BY <2>2, <3>1, <4>1, <4>3
        <5> QED BY <5>1 DEF Says
      <4> QED BY <4>2, <4>3
    <3> QED BY <2>5, <3>3, <3>4 DEF Says
  <2> QED BY <2>4, <2>5
<1> QED BY <1>1, <1>2

LEMMA SayHushed ==
    ASSUME WireTypes, NEW ms \in Seq(Markers), Say(ms), \A i \in 1..Len(ms) : ms[i] \in Harmless, Hushed
    PROVE  Hushed'
  BY SayAppends DEF Hushed

LEMMA WireHushed == ASSUME WireTypes, Deliver \/ LoseMarker, Hushed PROVE Hushed'
<1>1. out # <<>> /\ out' = Tail(out)
  BY DEF Deliver, LoseMarker
<1>2. /\ Len(out) \in Nat /\ Len(out) > 0 /\ Len(out') = Len(out) - 1
      /\ \A j \in 1..Len(out') : out'[j] = out[j + 1]
  BY <1>1, HeadTailProperties, QueueLengths DEF WireTypes
<1>3. \A j \in 1..Len(out') : j + 1 \in 1..Len(out)
  BY <1>2
<1> QED BY <1>2, <1>3 DEF Hushed

\* Outside a transfer's own lines the guest says its prompt and nothing else.
LEMMA TidyHears ==
    ASSUME WireTypes, Tidy,
           GuestStep \/ Deliver \/ ProgramEnds \/ ProgramStarts \/ LoseMarker \/ Damage
    PROVE  Hears({"prompt"}) /\ (Hushed => Hushed')
<1>1. CASE Say(<<"prompt">>) /\ UNCHANGED got
  <2> DEFINE s == <<"prompt">>
  <2>1. s \in Seq(Markers) /\ \A i \in 1..Len(s) : s[i] \in Harmless
    BY DEF Markers, Harmless
  <2>2. Hears({"prompt"})
    BY <1>1, SayHears DEF Markers
  <2> HIDE DEF s
  <2>3. Say(s)
    BY <1>1 DEF s
  <2> QED BY <2>1, <2>2, <2>3, SayHushed
<1>2. CASE Deliver \/ LoseMarker \/ UNCHANGED <<out, got>>
  <2>1. Hears({"prompt"})
    BY <1>2, WireHears DEF Hears
  <2>2. UNCHANGED out => (Hushed => Hushed')
    BY DEF Hushed
  <2> QED BY <1>2, <2>1, <2>2, WireHushed
<1>3. CASE ShellRuns
  <2>1. PICK i \in 1..Len(inq) : NextAt(i) /\ RunLine(inq[i], i = 1 \/ inq[i].k = "enter") /\ UNCHANGED got
    BY <1>3 DEF ShellRuns
  <2>2. inq[i].k \in {"restore", "clear", "enter"}
    BY <2>1 DEF Tidy, Common, NextAt
  <2>3. Say(<<"prompt">>)
    BY <2>1, <2>2 DEF RunLine
  <2> QED BY <1>1, <2>1, <2>3
<1>4. CASE HeadReads \/ ShortReads \/ PackEnds \/ UnpackEnds
  BY <1>4 DEF HeadReads, ShortReads, PackEnds, UnpackEnds, Tidy
<1>5. CASE Interrupt \/ ProgramEnds
  BY <1>1, <1>5 DEF Interrupt, ProgramEnds
<1>6. CASE ProgramReads \/ ProgramStarts \/ Damage
  BY <1>2, <1>6 DEF ProgramReads, ProgramStarts, Damage
<1> QED BY <1>2, <1>3, <1>4, <1>5, <1>6 DEF GuestStep

\* recover()'s Ctrl-C is read, and not before what was typed in front of it.
LEMMA BreaksStays ==
    ASSUME WireTypes, Breaks, busy,
           GuestStep \/ Deliver \/ ProgramEnds \/ ProgramStarts \/ LoseMarker \/ Damage
    PROVE  Breaks'
<1>1. Len(inq) \in Nat /\ (inq = <<>> <=> Len(inq) = 0)
  BY QueueLengths
<1>2. ASSUME NEW d, Shrinks(d), d < Len(inq), inq[Len(inq)].k = "intr",
             Drops(d) \/ d + 1 < Len(inq)
      PROVE  Breaks'
  <2>1. Len(inq') \in Nat /\ Len(inq') > 0 /\ Len(inq') + d = Len(inq) /\ Len(inq') \in 1..Len(inq')
    BY <1>2 DEF Shrinks
  <2>2. inq'[Len(inq')].k = "intr"
    <3>1. CASE Drops(d)
      BY <1>2, <2>1, <3>1 DEF Drops
    <3>2. CASE d + 1 < Len(inq)
      <4>1. Len(inq') > 1
        BY <2>1, <3>2, <1>2 DEF Shrinks
      <4> QED BY <1>2, <2>1, <4>1 DEF Shrinks
    <3> QED BY <1>2, <3>1, <3>2
  <2>3. inq' # <<>>
    BY <2>1
  <2> QED BY <2>2, <2>3 DEF Breaks
<1>3. ASSUME inq = <<>> PROVE UNCHANGED inq /\ (fg = "shell" => UNCHANGED fg)
  BY <1>1, <1>3 DEF GuestStep, ShellRuns, HeadReads, ShortReads, PackEnds, UnpackEnds, Interrupt,
         ProgramReads, Deliver, ProgramEnds, ProgramStarts, LoseMarker, Damage, guestVars
<1>4. CASE inq = <<>>
  BY <1>1, <1>3, <1>4 DEF Breaks
<1>5. ASSUME inq # <<>> PROVE inq[Len(inq)].k = "intr" /\ Len(inq) > 0 /\ Len(inq) \in 1..Len(inq)
  BY <1>1, <1>5 DEF Breaks
<1>6. ASSUME inq # <<>>, NEW i \in 1..Len(inq), NextAt(i) PROVE i < Len(inq)
  BY <1>1, <1>5, <1>6 DEF NextAt
<1>7. CASE inq # <<>> /\ ShellRuns
  <2>1. PICK i \in 1..Len(inq) : NextAt(i) /\ inq' = SubSeq(inq, i + 1, Len(inq))
    BY <1>7 DEF ShellRuns
  <2> QED BY <1>2, <1>5, <1>6, <1>7, <2>1, RestDrops, DropsShrinks
<1>8. CASE inq # <<>> /\ HeadReads
  <2>1. PICK i \in 1..Len(inq) : NextAt(i) /\ (Drops(i) \/ Shrinks(i - 1))
    BY <1>8, HeadTakes
  <2>2. i < Len(inq) /\ i - 1 < Len(inq) /\ (i - 1) + 1 < Len(inq)
    BY <1>1, <1>6, <1>8, <2>1
  <2> QED BY <1>2, <1>5, <1>8, <2>1, <2>2, DropsShrinks
<1>9. CASE inq # <<>> /\ ShortReads
  <2>1. inq[1].k # "intr" /\ (Drops(1) \/ Shrinks(0))
    BY <1>9, ShortTakes
  <2>2. 1 < Len(inq) /\ 0 + 1 < Len(inq) /\ 0 < Len(inq)
    BY <1>1, <1>5, <1>9, <2>1
  <2> QED BY <1>2, <1>5, <1>9, <2>1, <2>2, DropsShrinks
<1>10. CASE inq # <<>> /\ Interrupt
  <2>1. PICK i \in 1..Len(inq) : inq' = SubSeq(inq, i + 1, Len(inq))
    BY <1>10 DEF Interrupt
  <2>2. Drops(i) /\ fg' = "shell"
    BY <1>10, <2>1, RestDrops DEF Interrupt
  <2>3. CASE i < Len(inq)
    BY <1>2, <1>5, <1>10, <2>2, <2>3, DropsShrinks
  <2>4. CASE i = Len(inq)
    <3>1. Len(inq') = 0
      BY <1>1, <2>2, <2>4 DEF Drops
    <3>2. inq' = <<>>
      BY <2>1, <2>4, <3>1, RestIsItems
    <3> QED BY <2>2, <3>2 DEF Breaks
  <2> QED BY <1>1, <2>3, <2>4
<1>11. CASE inq # <<>> /\ ProgramReads
  <2>1. inq[1].k # "intr"
    BY <1>11 DEF ProgramReads, WireTypes
  <2>2. 1 < Len(inq)
    BY <1>1, <1>5, <1>11, <2>1
  <2>3. Drops(1)
    BY <1>11, TailDrops DEF ProgramReads
  <2> QED BY <1>2, <1>5, <1>11, <2>2, <2>3, DropsShrinks
<1>12. CASE inq # <<>> /\ (PackEnds \/ UnpackEnds \/ Deliver \/ ProgramEnds \/ LoseMarker \/ Damage)
  <2>1. Drops(0)
    BY <1>12, SameDrops, DamageDrops DEF PackEnds, UnpackEnds, Deliver, ProgramEnds, LoseMarker
  <2> QED BY <1>2, <1>5, <1>12, <2>1, DropsShrinks
<1>13. ~ProgramStarts
  BY DEF ProgramStarts
<1> QED BY <1>4, <1>7, <1>8, <1>9, <1>10, <1>11, <1>12, <1>13 DEF GuestStep

\* At its prompt, with nothing but keys to read, the shell does nothing.
LEMMA AtPromptStays ==
    ASSUME WireTypes, AtPrompt, busy,
           GuestStep \/ Deliver \/ ProgramEnds \/ ProgramStarts \/ LoseMarker \/ Damage
    PROVE  AtPrompt'
<1>1. Len(inq) \in Nat /\ (inq = <<>> <=> Len(inq) = 0)
  BY QueueLengths
<1>2. \A i \in 1..Len(inq) : inq[i].k = "key"
  BY <1>1 DEF AtPrompt, OnlyKeys
<1>3. UNCHANGED <<inq, fg>>
  BY <1>2 DEF GuestStep, ShellRuns, HeadReads, ShortReads, PackEnds, UnpackEnds, Interrupt, NextAt,
         ProgramReads, Deliver, ProgramEnds, ProgramStarts, LoseMarker, Damage, guestVars, AtPrompt
<1>4. OnlyKeys' <=> OnlyKeys
  BY <1>3 DEF OnlyKeys
<1> QED BY <1>3, <1>4, TidyStays DEF AtPrompt

LEMMA LeaveStays ==
    ASSUME WireTypes, PcInv, LeaveInv,
           GuestStep \/ Deliver \/ ProgramEnds \/ ProgramStarts \/ LoseMarker \/ Damage
    PROVE  LeaveInv'
<1>1. UNCHANGED <<pc, clean>>
  BY DEF GuestStep, ShellRuns, HeadReads, ShortReads, PackEnds, UnpackEnds, Interrupt,
         ProgramReads, Deliver, ProgramEnds, ProgramStarts, LoseMarker, Damage, pageVars
<1>2. pc \in {"ensure", "interrupt", "recover"} => busy
  BY DEF PcInv
<1>3. CASE pc = "ensure"
  <2>1. Tidy /\ \A m \in Foreign : ~Says(m)
    BY <1>3 DEF LeaveInv
  <2>2. Tidy' /\ Hears({"prompt"})
    BY <2>1, TidyStays, TidyHears
  <2>3. \A m \in Foreign : ~Says(m)'
    BY <2>1, <2>2 DEF Hears, Foreign
  <2> QED BY <1>1, <1>3, <2>2, <2>3 DEF LeaveInv
<1>4. CASE pc \in {"idle", "restore"}
  BY <1>1, <1>4, TidyStays, MendsStays DEF LeaveInv
<1>5. CASE pc = "interrupt"
  BY <1>1, <1>2, <1>5, TidyStays, BreaksStays DEF LeaveInv
<1>6. CASE pc = "recover"
  BY <1>1, <1>2, <1>6, AtPromptStays DEF LeaveInv
<1>7. CASE pc \in Working
  BY <1>1, <1>7 DEF LeaveInv, Working, Waits
<1> QED BY <1>3, <1>4, <1>5, <1>6, <1>7 DEF PcInv, Pcs, Working

\* A step of the guest or the wire that is none of a transfer's own: nothing is heard that
\* the transfer decides by, no job begins, and a shell with nothing to run does nothing.
LEMMA WorkingFrame ==
    ASSUME WireTypes, pc \in Working, WorkingInv, UNCHANGED pc,
           NEW d, Shrinks(d), NEW M, Hears(M), M \cap Foreign = {},
           OnlyKeys /\ fg = "shell" => UNCHANGED <<inq, fg, echo, tmp>>,
           fg' \in {"pack", "unpack"} => UNCHANGED fg /\ (OnlyKeys => OnlyKeys'),
           inq[1].k = "sum" /\ fg = "shell" /\ Typed("sum")' => inq'[1].k = "sum" /\ UNCHANGED <<fg, file>>
    PROVE  WorkingInv'
<1>1. EndsInv /\ BadInv /\ GoodInv /\ LineInv /\ JobInv /\ KeyInv
  BY DEF WorkingInv
<1>2. \A m \in Foreign : Says(m)' => Says(m)
  BY DEF Hears
<1>3. /\ \A k : k # "junk" => (Typed(k)' => Typed(k)) /\ (LastIs(k) => LastIs(k)')
      /\ Len(inq') > 0 /\ inq'[Len(inq')].k # "junk" =>
             Len(inq) > 0 /\ inq[Len(inq)].k = inq'[Len(inq')].k
  BY ShrinksKeeps
<1>4. EndsInv'
  <2> SUFFICES ASSUME \E m \in Ends : Says(m)'
               PROVE  /\ pc' \in {"pack", "begin", "verdict"} /\ fg' = "shell" /\ echo' /\ ~tmp'
                      /\ OnlyKeys'
    BY Zenon DEF EndsInv
  <2>1. \E m \in Ends : Says(m)
    BY <1>2 DEF Ends, Foreign
  <2>2. pc \in {"pack", "begin", "verdict"} /\ fg = "shell" /\ echo /\ ~tmp /\ OnlyKeys
    BY <1>1, <2>1 DEF EndsInv
  <2>3. UNCHANGED <<inq, fg, echo, tmp, pc>>
    BY <2>2
  <2>4. OnlyKeys'
    BY <2>2, <2>3 DEF OnlyKeys
  <2> QED BY <2>2, <2>3, <2>4
<1>5. BadInv'
  <2> SUFFICES ASSUME Says("SUM-bad")' PROVE pc' = "sum" /\ fg' = "shell" /\ inq' = <<>>
    BY DEF BadInv
  <2>1. pc = "sum" /\ fg = "shell" /\ inq = <<>>
    BY <1>1, <1>2 DEF BadInv, Foreign
  <2>2. OnlyKeys
    BY <2>1, QueueLengths DEF OnlyKeys
  <2> QED BY <2>1, <2>2
<1>6. GoodInv'
  BY <1>1, <1>2, <1>3 DEF GoodInv, Foreign
<1>7. LineInv'
  BY <1>1, <1>3 DEF LineInv
<1>8. JobInv'
  BY <1>1 DEF JobInv
<1>9. KeyInv'
  <2> SUFFICES ASSUME Typed("sum")', inq'[Len(inq')].k = "key"
               PROVE  inq'[1].k = "sum" /\ fg' = "shell" /\ file' = Upto(NBlocks)
    BY DEF KeyInv, Upto
  <2>1. Len(inq') > 0
    BY DEF Typed, Shrinks
  <2>2. Typed("sum") /\ inq[Len(inq)].k = "key"
    BY <1>3, <2>1
  <2> QED BY <1>1, <2>2 DEF KeyInv
<1> QED BY <1>4, <1>5, <1>6, <1>7, <1>8, <1>9 DEF WorkingInv

LEMMA EmptyKeys == ASSUME WireTypes, inq = <<>> PROVE OnlyKeys /\ \A k : ~Typed(k)
  BY QueueLengths DEF OnlyKeys, Typed

\* bash reads the line at i: what follows one of the transfer's own lines is only keys.
LEMMA LineLeaves ==
    ASSUME NEW i \in 1..Len(inq), Drops(i), LastIs(inq[i].k)
    PROVE  OnlyKeys' /\ \A k : k # "key" => ~Typed(k)'
<1>1. \A j \in 1..Len(inq') : inq'[j].k = "key"
  <2> SUFFICES ASSUME NEW j \in 1..Len(inq') PROVE inq'[j].k = "key"
    OBVIOUS
  <2>1. j + i \in 1..Len(inq) /\ j + i > i /\ inq'[j].k = inq[j + i].k
    BY DEF Drops
  <2> QED BY <2>1 DEF LastIs
<1> QED BY <1>1 DEF OnlyKeys, Typed

\* One of the transfer's own lines is read: only keys are left, and nothing was decided before.
LEMMA OwnLineRead ==
    ASSUME WireTypes, pc \in Working, WorkingInv, UNCHANGED pc, fg = "shell",
           NEW i \in 1..Len(inq), Drops(i), inq[i].k \in {"pack", "sum", "unpack"},
           NEW M, Hears(M), M \cap Ends = {}
    PROVE  /\ EndsInv' /\ LineInv' /\ KeyInv' /\ OnlyKeys' /\ ~Typed("sum")'
           /\ ~Says("SUM-bad") /\ (Says("SUM") => inq[i].k # "sum")
           /\ inq[i].k = "pack" => pc \in {"pack", "begin"}
           /\ inq[i].k = "unpack" => pc = "verdict"
           /\ inq[i].k = "sum" => pc = "sum"
<1>1. EndsInv /\ BadInv /\ GoodInv /\ LineInv /\ JobInv /\ KeyInv
  BY DEF WorkingInv
<1>2. LastIs(inq[i].k)
  BY <1>1 DEF LineInv
<1>3. OnlyKeys' /\ \A k : k # "key" => ~Typed(k)'
  BY <1>2, LineLeaves
<1>4. ~OnlyKeys /\ Typed(inq[i].k)
  BY DEF OnlyKeys, Typed
<1>5. EndsInv'
  BY <1>1, <1>4 DEF EndsInv, Hears, Ends
<1>6. LineInv'
  <2>1. LastIs("pack")' /\ LastIs("sum")' /\ LastIs("unpack")'
    BY <1>3 DEF LastIs, OnlyKeys
  <2> QED BY <1>3, <2>1 DEF LineInv
<1>7. KeyInv'
  BY <1>3 DEF KeyInv
<1>8. ~Says("SUM-bad")
  BY <1>1, <1>4, EmptyKeys DEF BadInv
<1>9. Says("SUM") => inq[i].k # "sum"
  BY <1>1, <1>4 DEF GoodInv
<1> QED BY <1>1, <1>3, <1>4, <1>5, <1>6, <1>7, <1>8, <1>9 DEF LineInv

LEMMA WorkingShell ==
    ASSUME WireTypes, pc \in Working, WorkingInv, ShellRuns PROVE WorkingInv'
<1>1. PICK i \in 1..Len(inq) : /\ NextAt(i) /\ RunLine(inq[i], i = 1 \/ inq[i].k = "enter")
                               /\ inq' = SubSeq(inq, i + 1, Len(inq))
  BY DEF ShellRuns
<1>2. UNCHANGED <<pc, got>> /\ fg = "shell"
  BY DEF ShellRuns, pageVars
<1>3. Drops(i) /\ Shrinks(i) /\ ~OnlyKeys /\ inq[i].k # "key"
  BY <1>1, RestDrops, DropsShrinks DEF NextAt, OnlyKeys
<1>4. CASE inq[i].k \notin {"pack", "sum", "unpack"} \/ (inq[i].k = "unpack" /\ i # 1)
  <2>1. \/ Say(<<"prompt">>) /\ UNCHANGED fg
        \/ Say(<<"READY", "prompt">>) /\ UNCHANGED fg
        \/ (Say(<<"GO">>) \/ Say(<<>>)) /\ fg' = "head"
    BY <1>1, <1>4 DEF RunLine
  <2>2. Hears({"prompt", "READY", "GO"})
    <3>1. Hears({"prompt"}) \/ Hears({"READY", "prompt"}) \/ Hears({"GO"}) \/ Hears({})
      BY <1>2, <2>1, SayHears DEF Markers
    <3> QED BY <3>1 DEF Hears
  <2>3. {"prompt", "READY", "GO"} \cap Foreign = {}
    BY DEF Foreign
  <2>4. inq[1].k # "sum"
    <3>1. i = 1 \/ inq[1].k = "key"
      BY <1>1, QueueLengths DEF NextAt
    <3> QED BY <1>4, <3>1
  <2>5. fg' \notin {"pack", "unpack"}
    BY <1>2, <2>1
  <2> QED BY <1>2, <1>3, <2>2, <2>3, <2>4, <2>5, WorkingFrame
<1>5. CASE inq[i].k = "pack"
  <2>1. Say(<<"PACK">>) /\ fg' = "pack"
    BY <1>1, <1>5 DEF RunLine
  <2>2. Hears({"PACK"})
    BY <1>2, <2>1, SayHears DEF Markers
  <2>3. /\ EndsInv' /\ LineInv' /\ KeyInv' /\ OnlyKeys' /\ pc \in {"pack", "begin"}
        /\ ~Says("SUM-bad")
    BY <1>2, <1>3, <1>5, <2>2, OwnLineRead DEF Ends
  <2>4. ~Says("SUM")
    BY <2>3 DEF WorkingInv, GoodInv
  <2>5. BadInv' /\ GoodInv'
    BY <2>2, <2>3, <2>4 DEF Hears, BadInv, GoodInv
  <2>6. JobInv'
    BY <1>2, <2>1, <2>3 DEF JobInv
  <2> QED BY <2>3, <2>5, <2>6 DEF WorkingInv
<1>6. CASE inq[i].k = "unpack" /\ i = 1
  <2>1. UNCHANGED out /\ fg' = "unpack"
    BY <1>1, <1>6 DEF RunLine
  <2>2. Hears({})
    BY <1>2, <2>1, WireHears
  <2>3. /\ EndsInv' /\ LineInv' /\ KeyInv' /\ OnlyKeys' /\ pc = "verdict"
        /\ ~Says("SUM-bad") /\ ~Typed("sum")'
    BY <1>2, <1>3, <1>6, <2>2, OwnLineRead
  <2>4. BadInv' /\ GoodInv'
    BY <1>2, <2>2, <2>3 DEF Hears, BadInv, GoodInv
  <2>5. JobInv'
    BY <1>2, <2>1, <2>3 DEF JobInv
  <2> QED BY <2>3, <2>4, <2>5 DEF WorkingInv
<1>7. CASE inq[i].k = "sum"
  <2>1. /\ tgz' = IF i = 1 /\ file = [n \in 1..NBlocks |-> n] THEN "whole" ELSE "bad"
        /\ Say(<<IF tgz' = "whole" THEN "SUM" ELSE "SUM-bad", "prompt">>)
        /\ UNCHANGED <<fg, file>>
    BY <1>1, <1>7 DEF RunLine
  <2>2. /\ tgz' = "whole" => Hears({"SUM", "prompt"})
        /\ tgz' # "whole" => Hears({"SUM-bad", "prompt"})
    BY <1>2, <2>1, SayHears DEF Markers
  <2>3. Hears({"SUM", "SUM-bad", "prompt"})
    BY <2>2 DEF Hears
  <2>4. /\ EndsInv' /\ LineInv' /\ KeyInv' /\ OnlyKeys' /\ pc = "sum"
        /\ ~Says("SUM-bad") /\ ~Says("SUM") /\ ~Typed("sum")'
    BY <1>2, <1>3, <1>7, <2>3, OwnLineRead DEF Ends
  <2>5. CASE tgz' = "whole"
    <3>1. ~Says("SUM-bad")'
      BY <2>2, <2>4, <2>5 DEF Hears
    <3>2. BadInv' /\ GoodInv'
      BY <1>2, <2>4, <3>1 DEF BadInv, GoodInv
    <3>3. JobInv'
      BY <1>2, <2>1 DEF JobInv
    <3> QED BY <2>4, <3>2, <3>3 DEF WorkingInv
  <2>6. CASE tgz' # "whole"
    <3>1. inq' = <<>>
      <4> SUFFICES ASSUME Len(inq') > 0 PROVE FALSE
        BY <1>1, RestIsItems
      <4>1. inq'[Len(inq')].k = "key" /\ Typed("sum")
        BY <1>3, <1>7, <2>4 DEF OnlyKeys, Drops, Typed
      <4>2. inq[Len(inq)].k = "key"
        BY <1>3, <4>1, ShrinksKeeps
      <4>3. inq[1].k = "sum" /\ file = Upto(NBlocks)
        BY <4>1, <4>2 DEF WorkingInv, KeyInv
      <4>4. i = 1
        <5>1. i = 1 \/ inq[1].k = "key"
          BY <1>1, QueueLengths DEF NextAt
        <5> QED BY <4>3, <5>1
      <4> QED BY <2>1, <2>6, <4>3, <4>4 DEF Upto
    <3>2. BadInv'
      BY <1>2, <2>1, <2>4, <3>1 DEF BadInv
    <3>3. GoodInv'
      BY <2>2, <2>4, <2>6 DEF GoodInv, Hears
    <3>4. JobInv'
      BY <1>2, <2>1 DEF JobInv
    <3> QED BY <2>4, <3>2, <3>3, <3>4 DEF WorkingInv
  <2> QED BY <2>5, <2>6
<1> QED BY <1>4, <1>5, <1>6, <1>7

\* The guest's other steps, and the wire's, during a wait of the transfer.
LEMMA WorkingGuest ==
    ASSUME WireTypes, IInv, pc \in Working, WorkingInv,
           GuestStep \/ Deliver \/ ProgramEnds \/ ProgramStarts \/ LoseMarker \/ Damage
    PROVE  WorkingInv'
<1>1. UNCHANGED pc
  BY DEF GuestStep, ShellRuns, HeadReads, ShortReads, PackEnds, UnpackEnds, Interrupt,
         ProgramReads, Deliver, ProgramEnds, ProgramStarts, LoseMarker, Damage, pageVars
<1>2. fg # "program" /\ busy
  BY DEF IInv, ProgramInv, PcInv, Working, Waits
<1>3. Len(inq) \in Nat /\ (inq = <<>> <=> Len(inq) = 0)
  BY QueueLengths
<1>4. EndsInv /\ BadInv /\ GoodInv /\ LineInv /\ JobInv /\ KeyInv
  BY DEF WorkingInv
<1>5. CASE HeadReads \/ ShortReads
  <2>1. \E d : Shrinks(d)
    BY <1>5, HeadTakes, ShortTakes, DropsShrinks
  <2>2. Say(<<"BLK", "prompt">>) \/ UNCHANGED out
    BY <1>5 DEF HeadReads, ShortReads
  <2>3. UNCHANGED got /\ fg \in {"head", "short"} /\ fg' \in {"shell", "short"}
    BY <1>5 DEF HeadReads, ShortReads
  <2>4. Hears({"BLK", "prompt"})
    <3>1. Hears({"BLK", "prompt"}) \/ Hears({})
      BY <2>2, <2>3, SayHears, WireHears DEF Markers
    <3> QED BY <3>1 DEF Hears
  <2>5. {"BLK", "prompt"} \cap Foreign = {}
    BY DEF Foreign
  <2> QED BY <1>1, <2>1, <2>3, <2>4, <2>5, WorkingFrame
<1>6. CASE PackEnds \/ UnpackEnds
  <2>1. OnlyKeys /\ pc \in {"pack", "begin", "verdict"} /\ fg # "shell"
    BY <1>4, <1>6 DEF JobInv, PackEnds, UnpackEnds
  <2>2. fg' = "shell" /\ echo' /\ ~tmp' /\ UNCHANGED <<inq, got>>
    BY <1>6 DEF PackEnds, UnpackEnds
  <2>3. OnlyKeys' /\ \A k : k # "key" => ~Typed(k)'
    BY <2>1, <2>2 DEF OnlyKeys, Typed
  <2>4. EndsInv'
    BY <1>1, <2>1, <2>2, <2>3 DEF EndsInv
  <2>5. Hears({"BEGIN-END", "BEGIN-bad", "ERR", "OK", "OK-full", "OK-home", "FAIL", "prompt"})
    <3>1. \/ Say(<<"BEGIN-END", "prompt">>) \/ Say(<<"BEGIN-bad", "prompt">>) \/ Say(<<"ERR", "prompt">>)
          \/ Say(<<"FAIL", "prompt">>)
          \/ Say(<<"OK", "OK-full", "prompt">>) \/ Say(<<"OK", "OK-home", "prompt">>)
      BY <1>6 DEF PackEnds, UnpackEnds
    <3>2. \/ Hears({"BEGIN-END", "prompt"}) \/ Hears({"BEGIN-bad", "prompt"}) \/ Hears({"ERR", "prompt"})
          \/ Hears({"FAIL", "prompt"})
          \/ Hears({"OK", "OK-full", "prompt"}) \/ Hears({"OK", "OK-home", "prompt"})
      <4>1. {"BEGIN-END", "BEGIN-bad", "ERR", "FAIL", "OK", "OK-full", "OK-home", "prompt"} \subseteq Markers
        BY DEF Markers
      <4>2. \A a \in Markers : Say(<<a, "prompt">>) => Hears({a, "prompt"})
        BY <2>2, <4>1, SayHears
      <4>3. \A a \in Markers : Say(<<"OK", a, "prompt">>) => Hears({"OK", a, "prompt"})
        BY <2>2, <4>1, SayHears
      <4> QED BY <3>1, <4>1, <4>2, <4>3
    <3> QED BY <3>2 DEF Hears
  <2>6. Says("SUM-bad")' => Says("SUM-bad")
    BY <2>5 DEF Hears
  <2>7. Says("SUM")' => Says("SUM")
    BY <2>5 DEF Hears
  <2>8. ~Says("SUM-bad")'
    BY <1>4, <2>1, <2>6 DEF BadInv
  <2>9. BadInv' /\ GoodInv'
    BY <1>1, <1>4, <2>3, <2>7, <2>8 DEF BadInv, GoodInv
  <2>10. LineInv'
    <3>1. LastIs("pack")' /\ LastIs("sum")' /\ LastIs("unpack")'
      BY <2>3 DEF LastIs, OnlyKeys
    <3> QED BY <2>3, <3>1 DEF LineInv
  <2>11. JobInv' /\ KeyInv'
    BY <2>2, <2>3 DEF JobInv, KeyInv
  <2> QED BY <2>4, <2>9, <2>10, <2>11 DEF WorkingInv
<1>7. CASE Interrupt
  <2>1. PICK i \in 1..Len(inq) : inq[i].k = "intr" /\ inq' = SubSeq(inq, i + 1, Len(inq))
    BY <1>7 DEF Interrupt
  <2>2. Drops(i) /\ Shrinks(i) /\ ~OnlyKeys
    BY <2>1, RestDrops, DropsShrinks DEF OnlyKeys
  <2>3. Hears({"prompt"}) /\ {"prompt"} \cap Foreign = {} /\ fg' = "shell"
    BY <1>7, SayHears DEF Interrupt, Markers, Foreign
  <2>4. inq[1].k # "sum"
    <3> SUFFICES ASSUME inq[1].k = "sum" PROVE FALSE
      OBVIOUS
    <3>1. 1 \in 1..Len(inq) /\ i # 1 /\ i > 1
      BY <1>3, <2>1
    <3> QED BY <1>4, <2>1, <3>1 DEF LineInv, LastIs
  <2> QED BY <1>1, <2>2, <2>3, <2>4, WorkingFrame
<1>8. CASE Deliver \/ LoseMarker \/ Damage
  <2>1. Drops(0) /\ Shrinks(0)
    BY <1>8, SameDrops, DamageDrops, DropsShrinks DEF Deliver, LoseMarker
  <2>2. Hears({}) /\ {} \cap Foreign = {}
    BY <1>8, WireHears DEF Damage
  <2>3. UNCHANGED <<fg, echo, tmp, file>>
    BY <1>8 DEF Deliver, LoseMarker, Damage, guestVars
  <2>4. OnlyKeys => UNCHANGED inq
    BY <1>8 DEF OnlyKeys, Deliver, LoseMarker, Damage
  <2>5. OnlyKeys => OnlyKeys'
    BY <2>4 DEF OnlyKeys
  <2>6. inq[1].k = "sum" /\ Typed("sum")' => inq'[1].k = "sum"
    <3>1. Typed("sum")' => 1 \in 1..Len(inq')
      BY <2>1 DEF Typed, Shrinks
    <3>2. 1 \in 1..Len(inq') => inq'[1].k = inq[1].k
      BY <2>1 DEF Drops
    <3> QED BY <3>1, <3>2
  <2> QED BY <1>1, <2>1, <2>2, <2>3, <2>4, <2>5, <2>6, WorkingFrame
<1>9. ~ProgramReads /\ ~ProgramEnds /\ ~ProgramStarts
  BY <1>2 DEF ProgramReads, ProgramEnds, ProgramStarts
<1> QED BY <1>5, <1>6, <1>7, <1>8, <1>9, WorkingShell DEF GuestStep

\* When nothing more will be printed and recover()'s line has been read, the terminal is as
\* it was found.
LEMMA SilentTidy == ASSUME WireTypes, ~stopped, Silent, Tidy \/ Mends PROVE Tidy /\ Hushed
<1>1. Hushed
  BY QueueLengths DEF Silent, Hushed
<1>2. \A i \in 1..Len(inq) : inq[i].k = "key"
  BY QueueLengths DEF Silent, OnlyKeys
<1>3. ~Mends
  BY <1>2 DEF Mends
<1> QED BY <1>1, <1>3

LEMMA TypesTidy ==
    ASSUME WireTypes, Tidy, UNCHANGED <<echo, tmp, fg>>,
           \/ \E k \in Common : inq' = inq \o <<Line(k)>>
           \/ \E k, l \in Common : inq' = inq \o <<Line(k), Line(l)>>
           \/ inq' = Append(inq, Line("key"))
    PROVE  Tidy'
<1>1. \A k \in Common : Line(k) \in Item /\ Line(k).k = k
  <2>1. Common \subseteq Lines \cup {"payload", "key", "junk", "intr"}
    BY DEF Common, Lines
  <2> QED BY <2>1, LineIsItem
<1>2. ASSUME \A i \in 1..Len(inq') : inq'[i].k \in Common PROVE Tidy'
  BY <1>2 DEF Tidy
<1>3. \A i \in 1..Len(inq) : inq[i].k \in Common
  BY DEF Tidy
<1>4. ASSUME NEW x \in Item, x.k \in Common, inq' = inq \o <<x>> \/ inq' = Append(inq, x) PROVE Tidy'
  <2>1. /\ inq'[Len(inq')] = x
        /\ \A j \in 1..Len(inq') : j # Len(inq') => j \in 1..Len(inq) /\ inq'[j] = inq[j]
    BY <1>4, TypesOne
  <2>2. \A i \in 1..Len(inq') : inq'[i].k \in Common
    BY <1>3, <1>4, <2>1
  <2> QED BY <1>2, <2>2
<1>5. ASSUME NEW x \in Item, NEW y \in Item, x.k \in Common, y.k \in Common, inq' = inq \o <<x, y>>
      PROVE  Tidy'
  <2>1. /\ inq'[Len(inq) + 1] = x /\ inq'[Len(inq')] = y
        /\ \A j \in 1..Len(inq') : \/ j \in 1..Len(inq) /\ inq'[j] = inq[j]
                                   \/ j = Len(inq) + 1
                                   \/ j = Len(inq')
    BY <1>5, TypesTwo
  <2>2. \A i \in 1..Len(inq') : inq'[i].k \in Common
    BY <1>3, <1>5, <2>1
  <2> QED BY <1>2, <2>2
<1>6. CASE \E k \in Common : inq' = inq \o <<Line(k)>>
  BY <1>1, <1>4, <1>6
<1>7. CASE \E k, l \in Common : inq' = inq \o <<Line(k), Line(l)>>
  BY <1>1, <1>5, <1>7
<1>8. CASE inq' = Append(inq, Line("key"))
  <2>1. "key" \in Common
    BY DEF Common
  <2> QED BY <1>1, <1>4, <1>8, <2>1
<1> QED BY <1>6, <1>7, <1>8

\* A transfer begins where the one before has handed back.
LEMMA StartHand ==
    ASSUME WireTypes, PcInv, LeaveInv, ~stopped, NEW kind, Start(kind), Silent \/ (Tidy /\ Hushed)
    PROVE  LeaveInv' /\ WorkingInv'
<1>1. pc = "idle" /\ (Tidy \/ Mends)
  BY DEF Start, PcInv, LeaveInv
<1>2. UNCHANGED <<out, fg, echo, tmp>>
  BY DEF Start
<1>3. CASE pc' = "ensure" /\ Paste(<<Line("enter")>>)
  <2>1. Tidy /\ Hushed
    BY <1>1, SilentTidy
  <2>2. "enter" \in Common
    BY DEF Common
  <2>3. Tidy'
    BY <1>2, <1>3, <2>1, <2>2, TypesTidy DEF Paste
  <2>4. \A m \in Foreign : ~Says(m)'
    BY <1>2, <1>3, <2>1 DEF Paste, Says, Hushed, Harmless, Foreign
  <2> QED BY <1>3, <2>3, <2>4 DEF LeaveInv, WorkingInv, Working
<1>4. CASE UNCHANGED <<pc, inq>>
  <2>1. Tidy' \/ Mends'
    BY <1>1, <1>2, <1>4 DEF Tidy, Mends
  <2> QED BY <1>1, <1>4, <2>1 DEF LeaveInv, WorkingInv, Working, Waits
<1> QED BY <1>3, <1>4 DEF Start

\* The page types the next line of its transfer.
LEMMA WorkingEnters ==
    ASSUME WireTypes, NEW x \in Item, inq' = inq \o <<x>> \/ inq' = Append(inq, x),
           \A i \in 1..Len(inq) : inq[i].k \notin {"pack", "sum", "unpack"},
           x.k # "key", x.k = "pack" => pc' = "pack", x.k = "sum" => pc' = "sum",
           x.k = "unpack" => pc' = "verdict",
           fg' \notin {"pack", "unpack"},
           \A m \in Foreign : Says(m)' => m = "SUM" /\ pc' = "verdict"
    PROVE  WorkingInv'
<1>1. /\ Len(inq) \in Nat /\ Len(inq') = Len(inq) + 1 /\ inq'[Len(inq')] = x
      /\ \A j \in 1..Len(inq') : j # Len(inq') => j \in 1..Len(inq) /\ inq'[j] = inq[j]
  BY TypesOne
<1>2. \A j \in 1..Len(inq') : inq'[j].k \in {"pack", "sum", "unpack"} => j = Len(inq')
  BY <1>1
<1>3. \A k \in {"pack", "sum", "unpack"} : Typed(k)' => x.k = k
  BY <1>1, <1>2 DEF Typed
<1>4. \A k \in {"pack", "sum", "unpack"} : LastIs(k)'
  BY <1>1, <1>2 DEF LastIs
<1>5. LineInv'
  BY <1>3, <1>4 DEF LineInv
<1>6. KeyInv'
  BY <1>1 DEF KeyInv
<1>7. EndsInv' /\ BadInv' /\ GoodInv' /\ JobInv'
  BY <1>3 DEF EndsInv, BadInv, GoodInv, JobInv, Foreign, Ends
<1> QED BY <1>5, <1>6, <1>7 DEF WorkingInv

\* The line or payload of each of the page's steps.
LEMMA PageTypesOne ==
    ASSUME PageTypes
    PROVE  /\ Ready => \E x \in Item : x.k = "block" /\ Paste(<<x>>)
           /\ BlockTaken => \E x \in Item : /\ x.k = "block" \/ (x.k = "sum" /\ pc' = "sum")
                                            /\ Paste(<<x>>)
           /\ Go => \E x \in Item : x.k = "payload" /\ inq' = Append(inq, x)
<1>1. \A n \in 1..NBlocks : \E x \in Item : x.k = "block" /\ x = [Line("block") EXCEPT !.n = n]
  <2>1. "block" \in Lines \cup {"payload", "key", "junk", "intr"} /\ \A n \in 1..NBlocks : n \in 0..NBlocks
    BY TransferAssumption DEF Lines
  <2> QED BY <2>1, LineIsItem
<1>2. ASSUME NEW n \in 1..NBlocks, SendBlock(n) PROVE \E x \in Item : x.k = "block" /\ Paste(<<x>>)
  BY <1>1, <1>2 DEF SendBlock
<1>3. 1 \in 1..NBlocks /\ (blk < NBlocks => blk + 1 \in 1..NBlocks)
  BY TransferAssumption DEF PageTypes
<1>4. Ready => \E x \in Item : x.k = "block" /\ Paste(<<x>>)
  BY <1>2, <1>3 DEF Ready
<1>5. ASSUME BlockTaken
      PROVE  \E x \in Item : (x.k = "block" \/ (x.k = "sum" /\ pc' = "sum")) /\ Paste(<<x>>)
  <2>1. CASE blk < NBlocks
    <3>1. SendBlock(blk + 1)
      BY <1>5, <2>1 DEF BlockTaken
    <3>2. \E x \in Item : x.k = "block" /\ Paste(<<x>>)
      BY <1>2, <1>3, <2>1, <3>1
    <3> QED BY <3>2
  <2>2. CASE ~(blk < NBlocks)
    <3>1. Line("sum") \in Item /\ Line("sum").k = "sum"
      BY LineIsItem DEF Lines
    <3>2. pc' = "sum" /\ Paste(<<Line("sum")>>)
      BY <1>5, <2>2 DEF BlockTaken
    <3> QED BY <3>1, <3>2
  <2> QED BY <2>1, <2>2
<1>6. ASSUME Go PROVE \E x \in Item : x.k = "payload" /\ inq' = Append(inq, x)
  <2> DEFINE x == [k |-> "payload", n |-> blk, q |-> "whole"]
  <2>1. x \in Item /\ x.k = "payload"
    BY TransferAssumption DEF Item, PageTypes
  <2>2. inq' = Append(inq, x)
    BY <1>6 DEF Go
  <2> HIDE DEF x
  <2> QED BY <2>1, <2>2
<1> QED BY <1>4, <1>5, <1>6

LEMMA EngageHand ==
    ASSUME WireTypes, LeaveInv, Engage, UNCHANGED <<out, guestVars>> PROVE LeaveInv' /\ WorkingInv'
<1>1. Tidy /\ \A m \in Foreign : ~Says(m)
  BY DEF Engage, LeaveInv
<1>2. UNCHANGED <<out, fg>> /\ got' = {} /\ pc' \in {"pack", "ready"}
  BY DEF Engage, guestVars, Paste
<1>3. \E k \in {"pack", "ready"} : pc' = k /\ inq' = inq \o <<Line(k)>>
  BY DEF Engage, Paste
<1>4. \A k \in {"pack", "ready"} : Line(k) \in Item /\ Line(k).k = k
  BY LineIsItem DEF Lines
<1>5. PICK x \in Item : x.k \in {"pack", "ready"} /\ pc' = x.k /\ inq' = inq \o <<x>>
  BY <1>3, <1>4
<1>6. \A m \in Foreign : ~Says(m)'
  BY <1>1, <1>2 DEF Says
<1>7. fg' \notin {"pack", "unpack"} /\ \A i \in 1..Len(inq) : inq[i].k \notin {"pack", "sum", "unpack"}
  BY <1>1, <1>2 DEF Tidy, Common
<1>8. WorkingInv'
  BY <1>5, <1>6, <1>7, WorkingEnters
<1> QED BY <1>2, <1>8 DEF LeaveInv

\* A block is asked for, sent or taken; or the sum is good, and the unpack typed.
LEMMA LinesHand ==
    ASSUME WireTypes, PageTypes, WorkingInv, UNCHANGED <<out, guestVars>>,
           Ready \/ Go \/ BlockTaken \/ (Summed /\ pc' = "verdict")
    PROVE  LeaveInv' /\ WorkingInv'
<1>1. /\ pc \in {"ready", "go", "blk"} \/ (pc = "sum" /\ Says("SUM") /\ pc' = "verdict")
      /\ pc' \in {"go", "blk", "sum", "verdict"}
  BY DEF Ready, Go, BlockTaken, Summed, SendBlock, Finish, Says
<1>2. UNCHANGED fg /\ \A m : Says(m)' => Says(m)
  <2>1. got' = {} \/ UNCHANGED got
    BY DEF Ready, Go, BlockTaken, Summed, SendBlock, Paste, Finish
  <2> QED BY <2>1 DEF guestVars, Says
<1>3. EndsInv /\ BadInv /\ GoodInv /\ LineInv /\ JobInv
  BY <1>1 DEF WorkingInv, Working, Waits
<1>4. \A i \in 1..Len(inq) : inq[i].k \notin {"pack", "sum", "unpack"}
  <2>1. ~Typed("pack") /\ ~Typed("sum") /\ ~Typed("unpack")
    BY <1>1, <1>3 DEF LineInv, GoodInv
  <2> QED BY <2>1 DEF Typed
<1>5. fg' \notin {"pack", "unpack"}
  BY <1>1, <1>2, <1>3 DEF JobInv
<1>6. \A m \in Foreign : Says(m)' => m = "SUM" /\ pc' = "verdict"
  <2>1. ~Says("SUM-bad") /\ \A m \in Ends : ~Says(m)
    BY <1>1, <1>3 DEF BadInv, GoodInv, EndsInv
  <2>2. Says("SUM") => pc' = "verdict"
    BY <1>1, <1>3 DEF GoodInv
  <2> QED BY <1>2, <2>1, <2>2 DEF Foreign, Ends
<1>7. \E x \in Item : /\ inq' = inq \o <<x>> \/ inq' = Append(inq, x)
                      /\ \/ x.k \in {"block", "payload"}
                         \/ x.k = "sum" /\ pc' = "sum"
                         \/ x.k = "unpack" /\ pc' = "verdict"
  <2>1. CASE Ready \/ Go \/ BlockTaken
    BY <2>1, PageTypesOne DEF Paste
  <2>2. CASE Summed /\ pc' = "verdict"
    <3>1. Line("unpack") \in Item /\ Line("unpack").k = "unpack"
      BY LineIsItem DEF Lines
    <3>2. inq' = inq \o <<Line("unpack")>>
      BY <2>2 DEF Summed, Paste, Finish
    <3> QED BY <2>2, <3>1, <3>2
  <2> QED BY <2>1, <2>2
<1>8. WorkingInv'
  BY <1>4, <1>5, <1>6, <1>7, WorkingEnters
<1> QED BY <1>1, <1>8 DEF LeaveInv

\* The wait ends with an answer, or with none, and the page goes to recover(): it spares the
\* Ctrl-C only where the shell is at its prompt.
LEMMA FinishHand ==
    ASSUME WireTypes, PcInv, EngagedInv, LeaveInv, WorkingInv, UNCHANGED <<out, guestVars>>,
           PackTaken \/ Packed \/ Verdict \/ GiveUp \/ (Summed /\ pc' = "recover")
    PROVE  LeaveInv' /\ WorkingInv'
<1>1. CASE PackTaken
  <2>1. pc = "pack" /\ pc' = "begin" /\ UNCHANGED <<inq, got, out, fg, echo, tmp, file>>
    BY <1>1 DEF PackTaken, guestVars
  <2>2. EndsInv /\ BadInv /\ GoodInv /\ LineInv /\ JobInv /\ KeyInv
    BY <2>1 DEF WorkingInv, Working, Waits
  <2>3. /\ \A m : Says(m)' <=> Says(m)
        /\ \A k : (Typed(k)' <=> Typed(k)) /\ (LastIs(k)' <=> LastIs(k))
        /\ OnlyKeys' <=> OnlyKeys
    BY <2>1 DEF Says, Typed, LastIs, OnlyKeys
  <2>4. EndsInv' /\ BadInv' /\ GoodInv'
    BY <2>1, <2>2, <2>3 DEF EndsInv, BadInv, GoodInv
  <2>5. LineInv' /\ JobInv' /\ KeyInv'
    BY <2>1, <2>2, <2>3 DEF LineInv, JobInv, KeyInv
  <2> QED BY <2>1, <2>4, <2>5 DEF LeaveInv, WorkingInv
<1>2. UNCHANGED <<out, fg, echo, tmp>>
  BY DEF guestVars
<1>3. ASSUME pc' = "recover", UNCHANGED inq, clean' => AtPrompt PROVE LeaveInv' /\ WorkingInv'
  <2>1. (OnlyKeys' <=> OnlyKeys) /\ (Tidy' <=> Tidy)
    BY <1>2, <1>3 DEF OnlyKeys, Tidy
  <2>2. AtPrompt' <=> AtPrompt
    BY <1>2, <1>3, <2>1 DEF AtPrompt
  <2> QED BY <1>3, <2>2 DEF LeaveInv, WorkingInv, Working, Waits
<1>4. ASSUME pc \in Working, \E m \in Ends : Says(m) PROVE AtPrompt
  <2>1. fg = "shell" /\ echo /\ ~tmp /\ OnlyKeys
    BY <1>4 DEF WorkingInv, EndsInv
  <2> QED BY <2>1 DEF AtPrompt, Tidy, OnlyKeys, Common
<1>5. CASE Packed \/ Verdict
  <2>1. pc' = "recover" /\ UNCHANGED inq /\ pc \in Working /\ (clean' => \E m \in Ends : m \in got)
    BY <1>5 DEF Packed, Verdict, Finish, Working, Waits, Ends
  <2> QED BY <1>3, <1>4, <2>1 DEF Says
<1>6. CASE Summed /\ pc' = "recover"
  <2>1. pc = "sum" /\ "SUM-bad" \in got /\ UNCHANGED inq
    BY <1>6 DEF Summed, Finish
  <2>2. fg = "shell" /\ inq = <<>>
    BY <2>1 DEF WorkingInv, BadInv, Says, Working, Waits
  <2> QED BY <1>3, <1>6, <2>1, <2>2 DEF AtPrompt
<1>7. CASE GiveUp /\ engaged
  <2>1. pc' = "recover" /\ UNCHANGED inq /\ clean' = FALSE
    BY <1>7 DEF GiveUp, Finish
  <2> QED BY <1>3, <2>1
<1>8. CASE GiveUp /\ ~engaged
  <2>1. pc = "ensure" /\ pc' = "idle" /\ UNCHANGED inq
    BY <1>8 DEF GiveUp, EngagedInv
  <2>2. Tidy'
    BY <1>2, <2>1 DEF LeaveInv, Tidy
  <2> QED BY <2>1, <2>2 DEF LeaveInv, WorkingInv, Working, Waits
<1> QED BY <1>1, <1>5, <1>6, <1>7, <1>8

\* recover() types its Ctrl-C where the shell may be busy, and then the line that mends.
LEMMA RecoverHand ==
    ASSUME WireTypes, LeaveInv, UNCHANGED <<out, guestVars>>, Recover \/ Restore \/ Tidied
    PROVE  LeaveInv' /\ WorkingInv'
<1>1. UNCHANGED <<fg, echo, tmp>> /\ Len(inq) \in Nat /\ (inq = <<>> <=> Len(inq) = 0)
  BY QueueLengths DEF guestVars
<1>2. ASSUME \/ pc' \in {"restore", "idle"} /\ (Tidy' \/ Mends')
             \/ pc' = "interrupt" /\ (Tidy' \/ Breaks')
      PROVE  LeaveInv' /\ WorkingInv'
  BY <1>2 DEF LeaveInv, WorkingInv, Working, Waits
<1>3. \A k \in {"restore", "clear", "intr"} : k \in Common /\ Line(k) \in Item /\ Line(k).k = k
  BY LineIsItem DEF Lines, Common
<1>4. ASSUME Tidy \/ Breaks \/ AtPrompt, inq' = inq \o <<Line("restore"), Line("clear")>>
      PROVE  Tidy' \/ Mends'
  <2>1. Tidy => Tidy'
    BY <1>1, <1>3, <1>4, TypesTidy
  <2> DEFINE n == Len(inq) + 1
  <2>2. /\ n \in 1..Len(inq') /\ inq'[n].k = "restore"
        /\ \A j \in 1..Len(inq') : j > n => inq'[j].k = "clear"
        /\ \A j \in 1..Len(inq) : j \in 1..Len(inq') => inq'[j] = inq[j]
        /\ Len(inq') = Len(inq) + 2
    BY <1>3, <1>4, TypesTwo
  <2>3. CASE inq = <<>> /\ fg = "shell"
    <3>1. n = 1 /\ fg' = "shell"
      BY <1>1, <2>3
    <3> QED BY <2>2, <3>1 DEF Mends
  <2>4. CASE inq # <<>> /\ inq[Len(inq)].k = "intr"
    <3>1. n - 1 = Len(inq) /\ n - 1 \in 1..Len(inq) /\ n - 1 \in 1..Len(inq') /\ n > 1
      BY <1>1, <2>2, <2>4
    <3>2. inq'[n - 1].k = "intr"
      BY <2>2, <2>4, <3>1
    <3> QED BY <2>2, <3>1, <3>2 DEF Mends
  <2> QED BY <1>4, <2>1, <2>3, <2>4 DEF Breaks, AtPrompt
<1>5. CASE Recover /\ clean
  <2>1. pc' = "restore" /\ inq' = inq \o <<Line("restore"), Line("clear")>> /\ AtPrompt
    BY <1>5 DEF Recover, Paste, LeaveInv
  <2> QED BY <1>2, <1>4, <2>1
<1>6. CASE Recover /\ ~clean
  <2>1. pc' = "interrupt" /\ inq' = inq \o <<Line("intr"), Line("intr")>>
    BY <1>6 DEF Recover, Paste
  <2>2. Breaks'
    BY <1>3, <2>1, TypesTwo DEF Breaks
  <2> QED BY <1>2, <2>1, <2>2
<1>7. CASE Restore
  <2>1. pc' = "restore" /\ inq' = inq \o <<Line("restore"), Line("clear")>> /\ (Tidy \/ Breaks)
    BY <1>7 DEF Restore, Paste, LeaveInv
  <2> QED BY <1>2, <1>4, <2>1
<1>8. CASE Tidied
  <2>1. pc' = "idle" /\ (Tidy \/ Mends) /\ UNCHANGED inq
    BY <1>8 DEF Tidied, LeaveInv
  <2>2. Tidy' \/ Mends'
    BY <1>1, <2>1 DEF Tidy, Mends
  <2> QED BY <1>2, <2>1, <2>2
<1> QED BY <1>5, <1>6, <1>7, <1>8

\* A paste throws where the page and the guest were in step.
LEMMA ThrowHand ==
    ASSUME WireTypes, LeaveInv, StepInv, PasteThrows PROVE LeaveInv' /\ WorkingInv'
<1>1. UNCHANGED <<inq, fg, echo, tmp>>
  BY DEF PasteThrows, guestVars
<1>2. CASE pc' = "recover" /\ clean' = FALSE
  BY <1>2 DEF LeaveInv, WorkingInv, Working, Waits
<1>3. CASE pc \in {"recover", "interrupt"} /\ pc' = "idle"
  <2>1. Tidy
    BY <1>3 DEF StepInv, Working, Waits
  <2>2. Tidy'
    BY <1>1, <2>1 DEF Tidy
  <2> QED BY <1>3, <2>2 DEF LeaveInv, WorkingInv, Working, Waits
<1> QED BY <1>2, <1>3 DEF PasteThrows

\* The user's key, where the page and the guest were in step: behind the sum it is read after
\* a sum that is good.
LEMMA KeyHand ==
    ASSUME WireTypes, PcInv, LeaveInv, WorkingInv, StepInv, UserKey PROVE LeaveInv' /\ WorkingInv'
<1>1. /\ inq' = Append(inq, Line("key")) /\ UNCHANGED <<pc, clean, got, out, fg, echo, tmp, file>>
      /\ Line("key") \in Item /\ Line("key").k = "key" /\ pc # "idle"
  BY LineIsItem DEF UserKey, pageVars, guestVars, PcInv
<1>2. /\ Len(inq) \in Nat /\ Len(inq') = Len(inq) + 1 /\ inq'[Len(inq')] = Line("key")
      /\ Len(inq') \in 1..Len(inq')
      /\ \A j \in 1..Len(inq') : j # Len(inq') => j \in 1..Len(inq) /\ inq'[j] = inq[j]
  BY <1>1, TypesOne
<1>3. \A m : Says(m)' <=> Says(m)
  BY <1>1 DEF Says
<1>4. OnlyKeys => OnlyKeys'
  BY <1>1, <1>2 DEF OnlyKeys
<1>5. CASE pc \notin Working
  <2>1. Tidy /\ (pc = "recover" => Bare)
    BY <1>5 DEF StepInv
  <2>2. Tidy'
    BY <1>1, <2>1, TypesTidy
  <2>3. pc = "recover" => AtPrompt'
    BY <1>1, <1>4, <2>1, <2>2, EmptyKeys DEF Bare, AtPrompt
  <2> QED BY <1>1, <1>3, <1>5, <2>2, <2>3 DEF LeaveInv, WorkingInv
<1>6. CASE pc \in Working
  <2>1. EndsInv /\ BadInv /\ GoodInv /\ LineInv /\ JobInv /\ KeyInv
    BY <1>6 DEF WorkingInv
  <2>2. \A k : k # "key" => (Typed(k)' => Typed(k)) /\ (LastIs(k) => LastIs(k)')
    <3>1. \A k : k # "key" => (Typed(k)' => Typed(k))
      BY <1>1, <1>2 DEF Typed
    <3>2. ASSUME NEW k, k # "key", LastIs(k), NEW i \in 1..Len(inq'), NEW j \in 1..Len(inq'),
                 inq'[i].k = k, j > i
          PROVE  inq'[j].k = "key"
      <4>1. CASE j = Len(inq')
        BY <1>1, <1>2, <4>1
      <4>2. CASE j # Len(inq')
        <5>1. i # Len(inq')
          BY <1>1, <1>2, <3>2
        <5> QED BY <1>2, <3>2, <4>2, <5>1 DEF LastIs
      <4> QED BY <4>1, <4>2
    <3> QED BY <3>1, <3>2 DEF LastIs
  <2>3. ~Says("SUM-bad")
    <3> SUFFICES ASSUME Says("SUM-bad") PROVE FALSE
      OBVIOUS
    <3>1. pc = "sum" /\ ~Says("SUM")
      BY <2>1 DEF BadInv, GoodInv
    <3>2. SumStep /\ "SUM-bad" \in Expected
      BY <1>6, <3>1 DEF StepInv, WaitStep, Expected, Awaited
    <3>3. Asked
      BY <3>1, <3>2 DEF SumStep, Done, Sent
    <3> QED BY <3>2, <3>3 DEF Asked, Hushed, Harmless, Says
  <2>4. EndsInv' /\ BadInv' /\ GoodInv'
    BY <1>1, <1>3, <1>4, <2>1, <2>2, <2>3 DEF EndsInv, BadInv, GoodInv
  <2>5. LineInv' /\ JobInv'
    BY <1>1, <1>4, <2>1, <2>2 DEF LineInv, JobInv
  <2>6. KeyInv'
    <3> SUFFICES ASSUME Typed("sum")' PROVE inq'[1].k = "sum" /\ fg' = "shell" /\ file' = Upto(NBlocks)
      BY DEF KeyInv, Upto
    <3>1. Typed("sum") /\ pc = "sum"
      BY <2>1, <2>2 DEF LineInv
    <3>2. SumStep /\ inq # <<>>
      BY <1>6, <3>1, EmptyKeys DEF StepInv, WaitStep
    <3>3. Sent("sum") /\ Len(inq) = 1 /\ file = Upto(NBlocks)
      BY <3>2 DEF SumStep, Done, Bare
    <3>4. inq[1].k = "sum" /\ fg = "shell"
      BY <3>3 DEF Sent
    <3>5. 1 \in 1..Len(inq') /\ 1 # Len(inq')
      BY <1>2, <3>3
    <3> QED BY <1>1, <1>2, <3>3, <3>4, <3>5
  <2> QED BY <1>1, <1>6, <2>4, <2>5, <2>6 DEF LeaveInv, WorkingInv, Working, Waits
<1> QED BY <1>5, <1>6

\* What the page waits for is no prompt, and nothing that comes on the way to an answer.
LEMMA ExpectedIs ==
    /\ pc \in Working => Expected \cap Harmless = {} /\ Expected \subseteq Markers
    /\ pc \in {"pack", "begin"} => Expected = {"BEGIN-END", "BEGIN-bad", "ERR"}
    /\ pc \in Working \ {"pack"} => Expected = Awaited[pc]
  BY DEF Expected, Awaited, Working, Waits, Harmless, Markers

LEMMA HushedIsDue == Hushed => OneIsDue
  BY DEF OneIsDue, Hushed

\* The guest prints, where nothing was due, something with one answer in it.
LEMMA SayDue ==
    ASSUME WireTypes, UNCHANGED <<got, pc>>, Asked, NEW ms \in Seq(Markers), Say(ms),
           \A i, j \in 1..Len(ms) : ms[i] \notin Harmless /\ ms[j] \notin Harmless => i = j
    PROVE  OneIsDue' /\ ((\A i \in 1..Len(ms) : ms[i] \in Harmless) => Asked')
<1>1. /\ Len(out) \in Nat /\ Len(ms) \in Nat /\ Len(out') = Len(out) + Len(ms)
      /\ \A i \in 1..Len(out') :
             \/ i \in 1..Len(out) /\ out'[i] = out[i]
             \/ i - Len(out) \in 1..Len(ms) /\ out'[i] = ms[i - Len(out)] /\ i > Len(out)
  BY SayAppends
<1>2. \A i \in 1..Len(out') : out'[i] \notin Harmless =>
          i - Len(out) \in 1..Len(ms) /\ out'[i] = ms[i - Len(out)]
  BY <1>1 DEF Asked, Hushed
<1>3. ASSUME NEW i \in 1..Len(out'), NEW j \in 1..Len(out'), out'[i] \notin Harmless, out'[j] \notin Harmless
      PROVE  i = j
  <2>1. i - Len(out) = j - Len(out)
    BY <1>2, <1>3
  <2> QED BY <1>1, <2>1
<1>4. got' \cap Expected' = {}
  BY DEF Asked, Expected
<1>5. ASSUME \A i \in 1..Len(ms) : ms[i] \in Harmless PROVE Hushed'
  BY <1>5, SayHushed DEF Asked
<1> QED BY <1>3, <1>4, <1>5 DEF OneIsDue, Asked

LEMMA DeliverDue ==
    ASSUME WireTypes, pc \in Working, UNCHANGED pc, Deliver
    PROVE  (OneIsDue => OneIsDue') /\ (Asked => Asked')
<1>1. out # <<>> /\ out' = Tail(out) /\ got' = got \cup {Head(out)}
  BY DEF Deliver
<1>2. /\ Len(out) \in Nat /\ Len(out) > 0 /\ Head(out) = out[1] /\ Len(out') = Len(out) - 1
      /\ \A j \in 1..Len(out') : out'[j] = out[j + 1]
  BY <1>1, HeadTailProperties, QueueLengths DEF WireTypes
<1>3. 1 \in 1..Len(out) /\ \A j \in 1..Len(out') : j + 1 \in 1..Len(out) /\ j + 1 # 1
  BY <1>2
<1>4. UNCHANGED Expected /\ Expected \cap Harmless = {}
  BY ExpectedIs DEF Expected
<1>5. Hushed => Hushed'
  BY WireHushed
<1>6. ASSUME Asked PROVE Asked'
  BY <1>1, <1>2, <1>3, <1>4, <1>5, <1>6 DEF Asked, Hushed
<1>7. ASSUME OneIsDue PROVE OneIsDue'
  <2>1. ASSUME NEW i \in 1..Len(out'), NEW j \in 1..Len(out'), out'[i] \notin Harmless, out'[j] \notin Harmless
        PROVE  i = j
    <3>1. i + 1 = j + 1
      BY <1>2, <1>3, <1>7, <2>1 DEF OneIsDue
    <3> QED BY <1>2, <3>1
  <2>2. ASSUME got' \cap Expected' # {} PROVE Hushed'
    <3>1. CASE got \cap Expected # {}
      BY <1>5, <1>7, <3>1 DEF OneIsDue
    <3>2. CASE got \cap Expected = {}
      <4>1. out[1] \notin Harmless
        BY <1>1, <1>2, <1>4, <2>2, <3>2
      <4>2. \A j \in 1..Len(out) : j # 1 => out[j] \in Harmless
        BY <1>3, <1>7, <4>1 DEF OneIsDue
      <4> QED BY <1>2, <1>3, <4>2 DEF Hushed
    <3> QED BY <3>1, <3>2
  <2> QED BY <2>1, <2>2 DEF OneIsDue
<1> QED BY <1>6, <1>7

\* Outside the waits for its lines the page and the guest stay in step.
LEMMA RestInStep ==
    ASSUME WireTypes, PcInv, StepInv, pc \notin Working,
           GuestStep \/ Deliver \/ ProgramEnds \/ ProgramStarts
    PROVE  StepInv'
<1>1. UNCHANGED pc
  BY DEF GuestStep, ShellRuns, HeadReads, ShortReads, PackEnds, UnpackEnds, Interrupt,
         ProgramReads, Deliver, ProgramEnds, ProgramStarts, pageVars
<1>2. Tidy /\ Hushed
  BY DEF StepInv
<1>3. Tidy' /\ Hushed'
  BY <1>2, TidyStays, TidyHears
<1>4. PICK d : Drops(d)
  BY <1>2, TidyDrops
<1>5. ~Typed("key")'
  BY <1>4, DropsShrinks, ShrinksKeeps DEF StepInv
<1>6. pc = "ensure" => \A i \in 1..Len(inq') : inq'[i].k = "enter"
  BY <1>4 DEF StepInv, Drops
<1>7. ASSUME pc = "recover" PROVE Bare'
  <2>1. inq = <<>> /\ fg = "shell" /\ busy /\ Len(inq) = 0
    BY <1>7, QueueLengths DEF StepInv, Bare, PcInv
  <2> QED BY <2>1 DEF Bare, GuestStep, ShellRuns, HeadReads, ShortReads, PackEnds, UnpackEnds,
             Interrupt, ProgramReads, Deliver, ProgramEnds, ProgramStarts, guestVars
<1> QED BY <1>1, <1>3, <1>5, <1>6, <1>7 DEF StepInv

LEMMA AnswerDue ==
    ASSUME WireTypes, UNCHANGED <<got, pc>>, Asked, NEW a \in Markers,
           Say(<<a>>) \/ Say(<<a, "prompt">>) \/ Say(<<"OK", a, "prompt">>)
    PROVE  OneIsDue' /\ Says(a)' /\ (a \in Harmless => Asked')
<1>1. "prompt" \in Markers /\ "OK" \in Markers /\ "prompt" \in Harmless /\ "OK" \in Harmless
  BY DEF Markers, Harmless
<1>2. Says(a)'
  BY <1>1, SayHears
<1>3. ASSUME NEW s \in Seq(Markers), Say(s), \E n \in 1..Len(s) : \A i \in 1..Len(s) : s[i] \notin Harmless => i = n,
             \A i \in 1..Len(s) : s[i] \in Harmless \cup {a}
      PROVE  OneIsDue' /\ (a \in Harmless => Asked')
  <2>1. \A i, j \in 1..Len(s) : s[i] \notin Harmless /\ s[j] \notin Harmless => i = j
    BY <1>3
  <2>2. a \in Harmless => \A i \in 1..Len(s) : s[i] \in Harmless
    BY <1>3
  <2> QED BY <1>3, <2>1, <2>2, SayDue
<1>4. CASE Say(<<a>>)
  <2> DEFINE s == <<a>>
  <2>1. s \in Seq(Markers) /\ Len(s) = 1 /\ s[1] = a
    OBVIOUS
  <2>2. Say(s)
    BY <1>4
  <2> HIDE DEF s
  <2>3. 1 \in 1..Len(s) /\ \A i \in 1..Len(s) : i = 1
    BY <2>1
  <2> QED BY <1>2, <1>3, <2>1, <2>2, <2>3
<1>5. CASE Say(<<a, "prompt">>)
  <2> DEFINE s == <<a, "prompt">>
  <2>1. s \in Seq(Markers) /\ Len(s) = 2 /\ s[1] = a /\ s[2] = "prompt"
    BY <1>1
  <2>2. Say(s)
    BY <1>5
  <2> HIDE DEF s
  <2>3. 1 \in 1..Len(s) /\ \A i \in 1..Len(s) : i = 1 \/ i = 2
    BY <2>1
  <2>4. \A i \in 1..Len(s) : /\ s[i] \notin Harmless => i = 1
                             /\ s[i] \in Harmless \cup {a}
    BY <1>1, <2>1, <2>3
  <2> QED BY <1>2, <1>3, <2>1, <2>2, <2>3, <2>4
<1>6. CASE Say(<<"OK", a, "prompt">>)
  <2> DEFINE s == <<"OK", a, "prompt">>
  <2>1. s \in Seq(Markers) /\ Len(s) = 3 /\ s[1] = "OK" /\ s[2] = a /\ s[3] = "prompt"
    BY <1>1
  <2>2. Say(s)
    BY <1>6
  <2> HIDE DEF s
  <2>3. 2 \in 1..Len(s) /\ \A i \in 1..Len(s) : i = 1 \/ i = 2 \/ i = 3
    BY <2>1
  <2>4. \A i \in 1..Len(s) : /\ s[i] \notin Harmless => i = 2
                             /\ s[i] \in Harmless \cup {a}
    BY <1>1, <2>1, <2>3
  <2> QED BY <1>2, <1>3, <2>1, <2>2, <2>3, <2>4
<1> QED BY <1>4, <1>5, <1>6

\* The shell reads the line it was sent: first the Enters before it, then it, whole.
LEMMA SentShell ==
    ASSUME WireTypes, ~Typed("key"), NEW L \in Lines \ {"enter"}, Sent(L), ShellRuns
    PROVE  \/ /\ Sent(L)' /\ UNCHANGED <<fg, echo, tmp, file>> /\ OneIsDue' /\ Len(inq) # 1
              /\ \A m : Says(m)' => Says(m) \/ m = "prompt"
           \/ /\ Len(inq) = 1 /\ inq[1].k = L /\ inq' = <<>>
              /\ RunLine(inq[1], 1 = 1 \/ inq[1].k = "enter")
<1>1. PICK i \in 1..Len(inq) : /\ NextAt(i) /\ RunLine(inq[i], i = 1 \/ inq[i].k = "enter")
                               /\ inq' = SubSeq(inq, i + 1, Len(inq))
  BY DEF ShellRuns
<1>2. UNCHANGED <<pc, got>> /\ Len(inq) \in Nat /\ (inq = <<>> <=> Len(inq) = 0)
  BY QueueLengths DEF ShellRuns, pageVars
<1>3. i = 1
  <2>1. i > 1 => 1 \in 1..(i - 1) /\ 1 \in 1..Len(inq)
    BY <1>2
  <2>2. i > 1 => inq[1].k = "key"
    BY <1>1, <2>1 DEF NextAt
  <2> QED BY <1>2, <2>1, <2>2 DEF Typed
<1>4. Drops(1)
  BY <1>1, <1>3, RestDrops
<1>5. CASE Len(inq) = 1
  <2>1. inq[1].k = L
    BY <1>5 DEF Sent
  <2>2. inq' = <<>>
    BY <1>1, <1>3, <1>4, <1>5, RestIsItems DEF Drops
  <2> QED BY <1>1, <1>3, <1>5, <2>1, <2>2
<1>6. CASE Len(inq) # 1
  <2>1. Len(inq) > 1 /\ 1 \in 1..Len(inq) /\ Len(inq') > 0
    BY <1>2, <1>4, <1>6 DEF Sent, Drops
  <2>2. inq[1].k = "enter"
    BY <2>1 DEF Sent
  <2>3. Say(<<"prompt">>) /\ UNCHANGED <<fg, echo, tmp, file>>
    BY <1>1, <1>3, <2>2 DEF RunLine
  <2>4. Asked' /\ OneIsDue'
    BY <1>2, <2>3, AnswerDue DEF Sent, Markers, Harmless
  <2>5. inq'[Len(inq')].k = L /\ inq' # <<>>
    <3>1. Len(inq') \in 1..Len(inq') /\ Len(inq') + 1 = Len(inq)
      BY <2>1, <1>4 DEF Drops
    <3> QED BY <1>4, <3>1 DEF Drops, Sent
  <2>6. \A j \in 1..Len(inq') : j < Len(inq') => inq'[j].k = "enter"
    <3> SUFFICES ASSUME NEW j \in 1..Len(inq'), j < Len(inq') PROVE inq'[j].k = "enter"
      OBVIOUS
    <3>1. j + 1 \in 1..Len(inq) /\ j + 1 < Len(inq) /\ inq'[j].k = inq[j + 1].k
      BY <1>4 DEF Drops
    <3> QED BY <3>1 DEF Sent
  <2>7. Hears({"prompt"})
    BY <1>2, <2>3, SayHears DEF Markers
  <2>8. Sent(L)'
    BY <2>3, <2>4, <2>5, <2>6 DEF Sent
  <2> QED BY <1>6, <2>3, <2>4, <2>7, <2>8 DEF Hears
<1> QED BY <1>5, <1>6

\* The shell in a wait: it reads the line the page typed, and what that does is what the page
\* waits for.
LEMMA WaitShell ==
    ASSUME WireTypes, pc \in Working, StepInv, ShellRuns PROVE WaitStep'
<1>1. WaitStep /\ ~Typed("key") /\ UNCHANGED <<pc, got, blk>> /\ fg = "shell" /\ inq # <<>>
  <2>1. inq # <<>>
    BY QueueLengths DEF ShellRuns
  <2> QED BY <2>1 DEF StepInv, ShellRuns, pageVars
<1>2. CASE pc \in {"pack", "begin"}
  <2>1. Sent("pack") /\ "pack" \in Lines \ {"enter"}
    BY <1>1, <1>2 DEF WaitStep, PackStep, Runs, Done, Bare, Lines
  <2>2. CASE Sent("pack")' /\ OneIsDue'
    BY <1>1, <1>2, <2>2 DEF WaitStep, PackStep
  <2>3. CASE inq[1].k = "pack" /\ inq' = <<>> /\ RunLine(inq[1], 1 = 1 \/ inq[1].k = "enter")
    <3>1. Say(<<"PACK">>) /\ fg' = "pack"
      BY <2>3 DEF RunLine
    <3>2. OneIsDue' /\ Says("PACK")' /\ Asked'
      BY <1>1, <2>1, <3>1, AnswerDue DEF Sent, Markers, Harmless
    <3> QED BY <1>1, <1>2, <2>3, <3>1, <3>2 DEF WaitStep, PackStep, Runs
  <2> QED BY <1>1, <2>1, <2>2, <2>3, SentShell
<1>3. CASE pc = "ready"
  <2>1. Sent("ready") /\ "ready" \in Lines \ {"enter"}
    BY <1>1, <1>3 DEF WaitStep, ReadyStep, Done, Bare, Lines
  <2>2. CASE Sent("ready")' /\ OneIsDue'
    BY <1>1, <1>3, <2>2 DEF WaitStep, ReadyStep
  <2>3. CASE inq[1].k = "ready" /\ inq' = <<>> /\ RunLine(inq[1], 1 = 1 \/ inq[1].k = "enter")
    <3>1. Say(<<"READY", "prompt">>) /\ UNCHANGED fg /\ file' = <<>>
      BY <2>3 DEF RunLine
    <3>2. OneIsDue' /\ Says("READY")'
      BY <1>1, <2>1, <3>1, AnswerDue DEF Sent, Markers
    <3> QED BY <1>1, <1>3, <2>3, <3>1, <3>2 DEF WaitStep, ReadyStep, Done, Bare
  <2> QED BY <1>1, <2>1, <2>2, <2>3, SentShell
<1>4. CASE pc = "go"
  <2>1. Sent("block") /\ "block" \in Lines \ {"enter"} /\ file = Upto(blk - 1) /\ ~Says("BLK")
    BY <1>1, <1>4 DEF WaitStep, GoStep, Lines
  <2>2. CASE Sent("block")' /\ OneIsDue' /\ UNCHANGED file /\ \A m : Says(m)' => Says(m) \/ m = "prompt"
    <3>1. ~Says("BLK")'
      BY <2>1, <2>2
    <3>2. file' = Upto(blk - 1)'
      BY <1>1, <2>1, <2>2 DEF Upto
    <3> QED BY <1>1, <1>4, <2>2, <3>1, <3>2 DEF WaitStep, GoStep
  <2>3. CASE inq[1].k = "block" /\ inq' = <<>> /\ RunLine(inq[1], 1 = 1 \/ inq[1].k = "enter")
    <3>1. Say(<<"GO">>) /\ fg' = "head" /\ UNCHANGED file
      BY <2>3 DEF RunLine
    <3>2. OneIsDue' /\ Says("GO")'
      BY <1>1, <2>1, <3>1, AnswerDue DEF Sent, Markers
    <3>3. ~Says("BLK")'
      <4>1. Hears({"GO"})
        BY <1>1, <3>1, SayHears DEF Markers
      <4> QED BY <2>1, <4>1 DEF Hears
    <3>4. file' = Upto(blk - 1)'
      BY <1>1, <2>1, <3>1 DEF Upto
    <3> QED BY <1>1, <1>4, <2>3, <3>1, <3>2, <3>3, <3>4 DEF WaitStep, GoStep
  <2> QED BY <1>1, <2>1, <2>2, <2>3, SentShell
<1>5. CASE pc = "blk"
  BY <1>1, <1>5 DEF WaitStep, BlkStep, Done, Bare
<1>6. CASE pc = "sum"
  <2>1. Sent("sum") /\ "sum" \in Lines \ {"enter"} /\ file = Upto(NBlocks) /\ Len(inq) = 1
    BY <1>1, <1>6 DEF WaitStep, SumStep, Done, Bare, Lines
  <2>2. inq[1].k = "sum" /\ inq' = <<>> /\ RunLine(inq[1], 1 = 1 \/ inq[1].k = "enter")
    BY <1>1, <2>1, SentShell
  <2>3. /\ tgz' = "whole" /\ UNCHANGED fg
        /\ Say(<<IF tgz' = "whole" THEN "SUM" ELSE "SUM-bad", "prompt">>)
    BY <2>1, <2>2 DEF RunLine, Upto
  <2>4. Say(<<"SUM", "prompt">>)
    BY <2>3
  <2>5. OneIsDue' /\ Says("SUM")'
    BY <1>1, <2>1, <2>4, AnswerDue DEF Sent, Markers
  <2> QED BY <1>1, <1>6, <2>2, <2>3, <2>5 DEF WaitStep, SumStep, Done, Bare
<1>7. CASE pc = "verdict"
  <2>1. Sent("unpack") /\ "unpack" \in Lines \ {"enter"}
    BY <1>1, <1>7 DEF WaitStep, VerdictStep, Runs, Done, Bare, Lines
  <2>2. CASE Sent("unpack")' /\ OneIsDue'
    BY <1>1, <1>7, <2>2 DEF WaitStep, VerdictStep
  <2>3. CASE inq[1].k = "unpack" /\ inq' = <<>> /\ RunLine(inq[1], 1 = 1 \/ inq[1].k = "enter")
    <3>1. UNCHANGED out /\ fg' = "unpack"
      BY <2>3 DEF RunLine
    <3>2. Asked' /\ OneIsDue'
      BY <1>1, <2>1, <3>1 DEF Sent, Asked, Hushed, Expected, OneIsDue
    <3> QED BY <1>1, <1>7, <2>3, <3>1, <3>2 DEF WaitStep, VerdictStep, Runs
  <2> QED BY <1>1, <2>1, <2>2, <2>3, SentShell
<1> QED BY <1>2, <1>3, <1>4, <1>5, <1>6, <1>7 DEF Working, Waits

\* One block more.
LEMMA UptoNext == ASSUME NEW n \in Nat \ {0} PROVE Append(Upto(n - 1), n) = Upto(n)
<1>1. Upto(n - 1) \in Seq(Nat) /\ Len(Upto(n - 1)) = n - 1
  BY DEF Upto
<1>2. Append(Upto(n - 1), n) = [i \in 1..((n - 1) + 1) |-> IF i = (n - 1) + 1 THEN n ELSE Upto(n - 1)[i]]
  BY <1>1
<1>3. \A i \in 1..n : (IF i = n THEN n ELSE Upto(n - 1)[i]) = i
  BY DEF Upto
<1>4. (n - 1) + 1 = n
  OBVIOUS
<1> QED BY <1>2, <1>3, <1>4 DEF Upto

\* The block the page sent is read whole, and is the next.
LEMMA BlockInStep ==
    ASSUME WireTypes, PageTypes, pc = "blk", BlkStep, HeadReads
    PROVE  inq' = <<>> /\ fg' = "shell" /\ Say(<<"BLK", "prompt">>) /\ file' = Upto(blk)
<1> DEFINE p == [k |-> "payload", n |-> blk, q |-> "whole"]
<1>1. inq = <<p>> /\ file = Upto(blk - 1)
  BY DEF BlkStep, Done, Bare, HeadReads
<1>2. Len(inq) = 1 /\ inq[1] = p /\ Tail(inq) = <<>>
  BY <1>1
<1>3. p.k = "payload" /\ p.n = blk /\ p.q = "whole"
  OBVIOUS
<1> HIDE DEF p
<1>4. \A i \in 1..Len(inq) : i = 1 /\ inq[i] = p
  BY <1>2
<1>5. /\ file' = Append(file, blk) /\ inq' = Tail(inq) /\ fg' = "shell"
      /\ Say(<<"BLK", "prompt">>)
  <2>1. PICK i \in 1..Len(inq) :
            \/ /\ file' = Append(file, inq[i].n) /\ inq' = Tail(inq) /\ fg' = "shell"
               /\ Say(<<"BLK", "prompt">>)
            \/ inq[i].q = "short"
            \/ i > 1 \/ inq[i].k # "payload" \/ inq[i].q = "bad"
    BY DEF HeadReads
  <2>2. i = 1 /\ inq[i] = p
    BY <1>4
  <2>3. inq[i].k = "payload" /\ inq[i].n = blk /\ inq[i].q = "whole"
    BY <1>3, <2>2
  <2> QED BY <2>1, <2>2, <2>3
<1>6. blk \in Nat \ {0}
  BY TransferAssumption DEF PageTypes
<1> QED BY <1>1, <1>2, <1>5, <1>6, UptoNext

LEMMA WaitInStep ==
    ASSUME WireTypes, PageTypes, IInv, pc \in Working, StepInv, UNCHANGED spent,
           GuestStep \/ Deliver \/ ProgramEnds \/ ProgramStarts
    PROVE  StepInv'
<1>1. UNCHANGED <<pc, blk>>
  BY DEF GuestStep, ShellRuns, HeadReads, ShortReads, PackEnds, UnpackEnds, Interrupt,
         ProgramReads, Deliver, ProgramEnds, ProgramStarts, pageVars
<1>2. fg # "program" /\ busy
  BY DEF IInv, ProgramInv, PcInv, Working, Waits
<1>3. WaitStep /\ ~Typed("key") /\ OneIsDue
  BY DEF StepInv, WaitStep
<1>4. fg # "short"
  BY <1>3 DEF WaitStep, PackStep, ReadyStep, GoStep, BlkStep, SumStep, VerdictStep, Sent, Runs, Done,
         Bare, Working, Waits
<1>5. ASSUME WaitStep', ~Typed("key")' PROVE StepInv'
  BY <1>1, <1>5 DEF StepInv, Working, Waits
<1>6. CASE ShellRuns
  <2>1. PICK i \in 1..Len(inq) : inq' = SubSeq(inq, i + 1, Len(inq))
    BY <1>6 DEF ShellRuns
  <2>2. ~Typed("key")'
    BY <1>3, <2>1, RestDrops, DropsShrinks, ShrinksKeeps
  <2> QED BY <1>5, <1>6, <2>2, WaitShell
<1>7. CASE HeadReads
  <2>1. fg = "head" /\ inq # <<>> /\ UNCHANGED got
    BY <1>7, QueueLengths DEF HeadReads
  <2>2. pc = "blk" /\ BlkStep
    BY <1>3, <2>1 DEF WaitStep, PackStep, ReadyStep, GoStep, SumStep, VerdictStep, Sent, Runs, Done,
           Bare, Working, Waits
  <2>3. inq' = <<>> /\ fg' = "shell" /\ Say(<<"BLK", "prompt">>) /\ file' = Upto(blk)
    BY <1>7, <2>2, BlockInStep
  <2>4. Asked
    BY <2>1, <2>2 DEF BlkStep, Done, Bare
  <2>5. OneIsDue' /\ Says("BLK")'
    BY <1>1, <2>1, <2>3, <2>4, AnswerDue DEF Markers
  <2>6. file' = Upto(blk)'
    BY <1>1, <2>3 DEF Upto
  <2>7. WaitStep'
    BY <1>1, <2>2, <2>3, <2>5, <2>6 DEF WaitStep, BlkStep, Done, Bare
  <2>8. ~Typed("key")'
    BY <2>3 DEF Typed
  <2> QED BY <1>5, <2>7, <2>8
<1>8. CASE PackEnds
  <2>1. fg = "pack" /\ fg' = "shell" /\ echo' /\ ~tmp' /\ UNCHANGED <<inq, got>>
    BY <1>8 DEF PackEnds
  <2>2. Say(<<"BEGIN-END", "prompt">>) \/ Say(<<"ERR", "prompt">>)
    <3>1. ~Fault("noise")
      BY DEF Fault, WireTypes, FaultKinds
    <3> QED BY <1>8, <3>1 DEF PackEnds
  <2>3. pc \in {"pack", "begin"} /\ Runs("pack") /\ (pc = "begin" \/ Says("PACK"))
    BY <1>3, <2>1 DEF WaitStep, PackStep, ReadyStep, GoStep, BlkStep, SumStep, VerdictStep, Sent, Runs,
           Done, Bare, Working, Waits
  <2>4. OneIsDue' /\ (Says("BEGIN-END")' \/ Says("ERR")')
    BY <1>1, <2>1, <2>2, <2>3, AnswerDue DEF Runs, Markers
  <2>5. pc = "begin" \/ Says("PACK")'
    <3>1. <<"BEGIN-END", "prompt">> \in Seq(Markers) /\ <<"ERR", "prompt">> \in Seq(Markers)
      BY DEF Markers
    <3> QED BY <2>1, <2>2, <2>3, <3>1, SayHears
  <2>6. WaitStep'
    BY <1>1, <2>1, <2>3, <2>4, <2>5 DEF WaitStep, PackStep, Runs, Done, Bare
  <2>7. ~Typed("key")'
    BY <1>3, <2>1 DEF Typed
  <2> QED BY <1>5, <2>6, <2>7
<1>9. CASE UnpackEnds
  <2>1. fg = "unpack" /\ fg' = "shell" /\ echo' /\ ~tmp' /\ UNCHANGED <<inq, got>>
    BY <1>9 DEF UnpackEnds
  <2>2. Say(<<"OK", "OK-full", "prompt">>) \/ Say(<<"OK", "OK-home", "prompt">>) \/ Say(<<"FAIL", "prompt">>)
    BY <1>9 DEF UnpackEnds
  <2>3. pc = "verdict" /\ Runs("unpack")
    BY <1>3, <2>1 DEF WaitStep, PackStep, ReadyStep, GoStep, BlkStep, SumStep, VerdictStep, Sent, Runs,
           Done, Bare, Working, Waits
  <2>4. OneIsDue' /\ (Says("OK-full")' \/ Says("OK-home")' \/ Says("FAIL")')
    BY <1>1, <2>1, <2>2, <2>3, AnswerDue DEF Runs, Markers
  <2>5. WaitStep'
    BY <1>1, <2>1, <2>3, <2>4 DEF WaitStep, VerdictStep, Runs, Done, Bare
  <2>6. ~Typed("key")'
    BY <1>3, <2>1 DEF Typed
  <2> QED BY <1>5, <2>5, <2>6
<1>10. CASE Interrupt
  <2>1. PICK i \in 1..Len(inq) : inq[i].k = "intr"
    BY <1>10 DEF Interrupt
  <2>2. \A L \in {"pack", "ready", "block", "sum", "unpack"} : ~Sent(L)
    <3>1. \A j \in 1..Len(inq) : j < Len(inq) \/ j = Len(inq)
      BY QueueLengths
    <3> QED BY <2>1, <3>1 DEF Sent
  <2>3. inq # <<>>
    BY <2>1
  <2>4. pc = "blk" /\ inq = <<[k |-> "payload", n |-> blk, q |-> "whole"]>>
    BY <1>3, <2>2, <2>3 DEF WaitStep, PackStep, ReadyStep, GoStep, BlkStep, SumStep, VerdictStep, Runs,
           Done, Bare, Working, Waits
  <2> QED BY <2>1, <2>4
<1>11. CASE Deliver
  <2>1. UNCHANGED <<inq, fg, echo, tmp, file>>
    BY <1>11 DEF Deliver, guestVars
  <2>2. OneIsDue' /\ (Asked => Asked')
    BY <1>1, <1>3, <1>11, DeliverDue
  <2>3. \A m : Says(m)' <=> Says(m)
    BY <1>11, WireHears DEF Hears
  <2>4. \A L : Sent(L) => Sent(L)'
    BY <2>1, <2>2 DEF Sent
  <2>5. \A L : Runs(L) => Runs(L)'
    BY <2>1, <2>2 DEF Runs
  <2>6. \A M : Done(M) => Done(M)'
    BY <2>1, <2>3 DEF Done, Bare
  <2>7. \A n : Upto(n)' = Upto(n)
    BY DEF Upto
  <2>8. /\ PackStep => PackStep'
        /\ ReadyStep => ReadyStep'
        /\ SumStep => SumStep'
        /\ VerdictStep => VerdictStep'
    BY <1>1, <2>1, <2>3, <2>4, <2>5, <2>6 DEF PackStep, ReadyStep, SumStep, VerdictStep, Upto
  <2>9. GoStep => GoStep'
    BY <1>1, <2>1, <2>3, <2>4 DEF GoStep, Upto
  <2>10. BlkStep => BlkStep'
    BY <1>1, <2>1, <2>2, <2>6 DEF BlkStep, Upto
  <2>11. WaitStep'
    BY <1>1, <1>3, <2>2, <2>8, <2>9, <2>10 DEF WaitStep
  <2>12. ~Typed("key")'
    BY <1>3, <2>1 DEF Typed
  <2> QED BY <1>5, <2>11, <2>12
<1> QED BY <1>2, <1>4, <1>6, <1>7, <1>8, <1>9, <1>10, <1>11
        DEF GuestStep, ShortReads, ProgramReads, ProgramEnds, ProgramStarts

\* One line more, where only Enters are on their way to the shell.
LEMMA LineSent ==
    ASSUME WireTypes, NEW x \in Item, Paste(<<x>>), UNCHANGED <<out, fg>>, fg = "shell", Hushed,
           \A i \in 1..Len(inq) : inq[i].k = "enter", x.k # "key"
    PROVE  /\ Sent(x.k)' /\ OneIsDue' /\ ~Typed("key")' /\ Len(inq') = Len(inq) + 1
           /\ \A m : Says(m)' => m \in Harmless
<1>1. got' = {} /\ inq' = inq \o <<x>>
  BY DEF Paste
<1>2. /\ Len(inq) \in Nat /\ Len(inq') = Len(inq) + 1 /\ inq'[Len(inq')] = x /\ inq' # <<>>
      /\ \A j \in 1..Len(inq') : j # Len(inq') => j \in 1..Len(inq) /\ inq'[j] = inq[j]
  BY <1>1, TypesOne
<1>3. Asked' /\ Hushed'
  BY <1>1 DEF Asked, Hushed
<1>4. OneIsDue'
  BY <1>3 DEF OneIsDue, Hushed
<1>5. \A j \in 1..Len(inq') : j < Len(inq') => inq'[j].k = "enter"
  BY <1>2
<1>6. Sent(x.k)'
  BY <1>2, <1>3, <1>5 DEF Sent
<1>7. ~Typed("key")'
  BY <1>2, <1>5 DEF Typed
<1>8. \A m : Says(m)' => m \in Harmless
  BY <1>1, <1>3 DEF Says, Hushed
<1> QED BY <1>2, <1>4, <1>6, <1>7, <1>8

\* A silent guest that no key was typed to has read everything.
LEMMA NothingTyped == ASSUME WireTypes, Silent, ~stopped, ~Typed("key") PROVE inq = <<>> /\ out = <<>>
<1>1. OnlyKeys => inq = <<>>
  <2> SUFFICES ASSUME OnlyKeys, inq # <<>> PROVE FALSE
    OBVIOUS
  <2>1. 1 \in 1..Len(inq)
    BY QueueLengths
  <2> QED BY <2>1 DEF OnlyKeys, Typed
<1> QED BY <1>1 DEF Silent

LEMMA StartInStep ==
    ASSUME WireTypes, PcInv, StepInv, ~stopped, NEW kind, Start(kind), UNCHANGED spent
    PROVE  StepInv'
<1>1. ~Fault("throw") /\ ~Fault("late")
  BY DEF Fault, WireTypes, FaultKinds
<1>2. /\ ~busy /\ Silent /\ pc' = "ensure" /\ Paste(<<Line("enter")>>)
      /\ UNCHANGED <<out, fg, echo, tmp, file, tgz, stopped>>
  BY <1>1 DEF Start, Unheard
<1>3. pc = "idle"
  BY <1>2 DEF PcInv
<1>4. Tidy /\ Hushed /\ ~Typed("key")
  BY <1>3 DEF StepInv, Working, Waits
<1>5. inq = <<>> /\ inq' = inq \o <<Line("enter")>> /\ "enter" \in Common /\ "enter" \in Lines
  BY <1>2, <1>4, NothingTyped DEF Paste, Common, Lines
<1>6. Tidy' /\ Hushed'
  <2>1. Tidy'
    BY <1>2, <1>4, <1>5, TypesTidy
  <2> QED BY <1>2, <1>4, <2>1 DEF Hushed
<1>7. Line("enter") \in Item /\ Line("enter").k = "enter"
  BY <1>5, LineIsItem
<1>8. \A j \in 1..Len(inq') : inq'[j].k = "enter"
  <2>1. Len(inq) = 0 /\ Len(inq') = Len(inq) + 1 /\ inq'[Len(inq')] = Line("enter")
    BY <1>5, <1>7, QueueLengths, TypesOne
  <2> QED BY <1>7, <2>1
<1>9. ~Typed("key")'
  BY <1>8 DEF Typed
<1> QED BY <1>2, <1>6, <1>8, <1>9 DEF StepInv, Working, Waits

LEMMA EngageInStep ==
    ASSUME WireTypes, IInv, StepInv, Engage, UNCHANGED <<out, guestVars>> PROVE StepInv'
<1>1. pc = "ensure" /\ "prompt" \in got
  BY DEF Engage
<1>2. Tidy /\ Hushed /\ ~Typed("key") /\ \A i \in 1..Len(inq) : inq[i].k = "enter"
  BY <1>1 DEF StepInv, Working, Waits
<1>3. fg = "shell"
  BY <1>1, <1>2 DEF Tidy, IInv, ProgramInv
<1>4. PICK L \in {"pack", "ready"} : pc' = L /\ Paste(<<Line(L)>>)
  BY DEF Engage
<1>5. L \in Lines /\ L # "key"
  BY DEF Lines
<1>6. Line(L) \in Item /\ Line(L).k = L
  BY <1>5, LineIsItem
<1>7. \E x \in Item : x.k = L /\ Paste(<<x>>)
  BY <1>4, <1>6
<1>8. UNCHANGED <<out, fg>>
  BY DEF guestVars
<1>9. Sent(L)' /\ OneIsDue' /\ ~Typed("key")'
  BY <1>2, <1>3, <1>5, <1>7, <1>8, LineSent
<1>10. WaitStep'
  BY <1>4, <1>9 DEF WaitStep, PackStep, ReadyStep
<1> QED BY <1>4, <1>9, <1>10 DEF StepInv, Working, Waits

\* An answer that has come was the one due: nothing is on its way but prompts.
LEMMA AnswerCame ==
    ASSUME pc \in Working, OneIsDue, got \cap Expected # {}
    PROVE  Hushed /\ (\A L : ~Sent(L)) /\ (\A job : ~Runs(job))
  BY DEF OneIsDue, Asked, Sent, Runs

\* What a wait leaves: nothing on its way and the shell at its prompt.
LEMMA NothingBehind ==
    ASSUME WireTypes, inq = <<>> PROVE (\A i \in 1..Len(inq) : inq[i].k = "enter") /\ Len(inq) = 0
  BY QueueLengths

LEMMA ReadyInStep ==
    ASSUME WireTypes, PageTypes, StepInv, Ready, UNCHANGED <<out, guestVars>> PROVE StepInv'
<1>1. pc = "ready" /\ "READY" \in got /\ SendBlock(1)
  BY DEF Ready
<1>2. pc \in Working /\ WaitStep /\ ReadyStep /\ OneIsDue
  BY <1>1 DEF StepInv, WaitStep, Working, Waits
<1>3. got \cap Expected # {}
  BY <1>1, <1>2, ExpectedIs DEF Awaited
<1>4. Hushed /\ Bare /\ file = <<>>
  BY <1>2, <1>3, AnswerCame DEF ReadyStep, Done
<1>5. PICK x \in Item : x.k = "block" /\ Paste(<<x>>)
  BY PageTypesOne
<1>6. UNCHANGED <<out, fg, file>> /\ fg = "shell" /\ inq = <<>>
  BY <1>4 DEF guestVars, Bare
<1>7. Sent("block")' /\ OneIsDue' /\ ~Typed("key")' /\ ~Says("BLK")'
  BY <1>4, <1>5, <1>6, NothingBehind, LineSent DEF Harmless
<1>8. pc' = "go" /\ blk' = 1
  BY <1>1 DEF SendBlock
<1>9. Upto(blk - 1)' = <<>>
  BY <1>8 DEF Upto
<1>10. WaitStep'
  BY <1>4, <1>6, <1>7, <1>8, <1>9 DEF WaitStep, GoStep
<1> QED BY <1>7, <1>8, <1>10 DEF StepInv, Working, Waits

LEMMA GoInStep ==
    ASSUME WireTypes, PageTypes, StepInv, Go, UNCHANGED <<out, guestVars>> PROVE StepInv'
<1>1. /\ pc = "go" /\ "GO" \in got /\ pc' = "blk" /\ UNCHANGED <<blk, got>>
      /\ inq' = Append(inq, [k |-> "payload", n |-> blk, q |-> "whole"])
  BY DEF Go
<1>2. pc \in Working /\ WaitStep /\ GoStep /\ OneIsDue
  BY <1>1 DEF StepInv, WaitStep, Working, Waits
<1>3. got \cap Expected # {}
  BY <1>1, <1>2, ExpectedIs DEF Awaited
<1>4. Hushed /\ inq = <<>> /\ fg = "head" /\ file = Upto(blk - 1) /\ ~Says("BLK")
  BY <1>2, <1>3, AnswerCame DEF GoStep
<1>5. UNCHANGED <<out, fg, file>>
  BY DEF guestVars
<1>6. Hushed' /\ OneIsDue'
  BY <1>4, <1>5 DEF Hushed, OneIsDue
<1>7. Expected' = {"BLK"}
  BY <1>1 DEF Expected, Awaited
<1>8. Asked'
  BY <1>1, <1>4, <1>6, <1>7 DEF Asked, Says
<1>9. inq' = <<[k |-> "payload", n |-> blk', q |-> "whole"]>>
  BY <1>1, <1>4
<1>10. UNCHANGED Upto(blk - 1)
  BY <1>1 DEF Upto
<1>11. WaitStep'
  BY <1>1, <1>4, <1>5, <1>6, <1>8, <1>9, <1>10 DEF WaitStep, BlkStep
<1>12. ~Typed("key")'
  <2>1. Len(inq') = 1 /\ inq'[1].k = "payload"
    BY <1>9
  <2> QED BY <2>1 DEF Typed
<1> QED BY <1>1, <1>11, <1>12 DEF StepInv, Working, Waits

LEMMA BlockTakenInStep ==
    ASSUME WireTypes, PageTypes, StepInv, BlockTaken, UNCHANGED <<out, guestVars>> PROVE StepInv'
<1>1. pc = "blk" /\ "BLK" \in got
  BY DEF BlockTaken
<1>2. pc \in Working /\ WaitStep /\ BlkStep /\ OneIsDue
  BY <1>1 DEF StepInv, WaitStep, Working, Waits
<1>3. Expected = {"BLK"} /\ got \cap Expected # {}
  BY <1>1, <1>2, ExpectedIs DEF Awaited
<1>4. Hushed /\ Bare /\ file = Upto(blk)
  BY <1>2, <1>3, AnswerCame DEF BlkStep, Done, Asked
<1>5. UNCHANGED <<out, fg, file>> /\ fg = "shell" /\ inq = <<>>
  BY <1>4 DEF guestVars, Bare
<1>6. blk \in Nat /\ blk <= NBlocks /\ NBlocks \in Nat
  BY TransferAssumption DEF PageTypes
<1>7. CASE pc' = "go" /\ SendBlock(blk + 1)
  <2>1. \E x \in Item : x.k = "block" /\ Paste(<<x>>)
    BY <1>7, PageTypesOne
  <2>2. Sent("block")' /\ OneIsDue' /\ ~Typed("key")' /\ ~Says("BLK")'
    BY <1>4, <1>5, <2>1, NothingBehind, LineSent DEF Harmless
  <2>3. blk' - 1 = blk
    BY <1>6, <1>7 DEF SendBlock
  <2>4. file' = Upto(blk - 1)'
    BY <1>4, <1>5, <2>3 DEF Upto
  <2>5. WaitStep'
    BY <1>7, <2>2, <2>4 DEF WaitStep, GoStep
  <2> QED BY <1>7, <2>2, <2>5 DEF StepInv, Working, Waits
<1>8. CASE pc' = "sum" /\ blk = NBlocks
  <2>1. \E x \in Item : x.k = "sum" /\ Paste(<<x>>)
    <3>1. Line("sum") \in Item /\ Line("sum").k = "sum"
      BY LineIsItem DEF Lines
    <3>2. Paste(<<Line("sum")>>)
      BY <1>6, <1>8 DEF BlockTaken, SendBlock
    <3> QED BY <3>1, <3>2
  <2>2. Sent("sum")' /\ OneIsDue' /\ ~Typed("key")' /\ Len(inq') = Len(inq) + 1
    BY <1>4, <1>5, <2>1, NothingBehind, LineSent
  <2>3. Len(inq') = 1
    BY <1>5, <2>2
  <2>4. file' = Upto(NBlocks)'
    BY <1>4, <1>5, <1>8 DEF Upto
  <2>5. WaitStep'
    BY <1>8, <2>2, <2>3, <2>4 DEF WaitStep, SumStep
  <2> QED BY <1>8, <2>2, <2>5 DEF StepInv, Working, Waits
<1> QED BY <1>6, <1>7, <1>8 DEF BlockTaken, SendBlock

LEMMA SummedInStep ==
    ASSUME WireTypes, PageTypes, StepInv, WorkingInv, Summed, UNCHANGED <<out, guestVars>> PROVE StepInv'
<1>1. pc = "sum" /\ got \cap {"SUM", "SUM-bad"} # {}
  BY DEF Summed
<1>2. pc \in Working /\ WaitStep /\ SumStep /\ OneIsDue
  BY <1>1 DEF StepInv, WaitStep, Working, Waits
<1>3. got \cap Expected # {}
  BY <1>1, <1>2, ExpectedIs DEF Awaited
<1>4. Hushed /\ Bare /\ Says("SUM")
  BY <1>2, <1>3, AnswerCame DEF SumStep, Done
<1>5. "SUM-bad" \notin got
  BY <1>2, <1>4 DEF WorkingInv, GoodInv, Says
<1>6. pc' = "verdict" /\ Paste(<<Line("unpack")>>)
  BY <1>5 DEF Summed
<1>7. UNCHANGED <<out, fg>> /\ fg = "shell" /\ inq = <<>>
  BY <1>4 DEF guestVars, Bare
<1>8. Line("unpack") \in Item /\ Line("unpack").k = "unpack"
  BY LineIsItem DEF Lines
<1>9. Sent("unpack")' /\ OneIsDue' /\ ~Typed("key")'
  BY <1>4, <1>6, <1>7, <1>8, NothingBehind, LineSent
<1>10. WaitStep'
  BY <1>6, <1>9 DEF WaitStep, VerdictStep
<1> QED BY <1>6, <1>9, <1>10 DEF StepInv, Working, Waits

LEMMA PackTakenInStep ==
    ASSUME WireTypes, StepInv, PackTaken, UNCHANGED <<out, guestVars>> PROVE StepInv'
<1>1. pc = "pack" /\ "PACK" \in got /\ pc' = "begin" /\ UNCHANGED <<inq, got>>
  BY DEF PackTaken
<1>2. PackStep /\ OneIsDue /\ ~Typed("key")
  BY <1>1 DEF StepInv, WaitStep, Working, Waits
<1>3. UNCHANGED <<Expected, Hushed>> /\ UNCHANGED <<fg, echo, tmp, inq, out, got>>
  BY <1>1 DEF Expected, Hushed, guestVars
<1>4. UNCHANGED <<Asked, OneIsDue>>
  BY <1>3 DEF Asked, OneIsDue
<1>5. \A L : UNCHANGED <<Sent(L), Runs(L), Done(L), Typed(L)>>
  BY <1>3, <1>4 DEF Sent, Runs, Done, Bare, Says, Typed
<1>6. PackStep'
  BY <1>1, <1>2, <1>3, <1>5 DEF PackStep
<1>7. WaitStep'
  BY <1>1, <1>2, <1>4, <1>6 DEF WaitStep
<1> QED BY <1>1, <1>2, <1>5, <1>7 DEF StepInv, Working, Waits

\* The two jobs' answers leave the terminal tidy and the shell at its prompt.
LEMMA VerdictInStep ==
    ASSUME WireTypes, StepInv, Packed \/ Verdict, UNCHANGED <<out, guestVars>> PROVE StepInv'
<1>1. /\ pc \in {"begin", "verdict"} /\ got \cap Awaited[pc] # {}
      /\ pc' = "recover" /\ UNCHANGED <<inq, got>>
  BY DEF Packed, Verdict, Finish, Awaited
<1>2. pc \in Working /\ WaitStep /\ OneIsDue /\ ~Typed("key")
  BY <1>1 DEF StepInv, WaitStep, Working, Waits
<1>3. got \cap Expected # {}
  BY <1>1, <1>2, ExpectedIs
<1>4. Hushed /\ Bare /\ echo /\ ~tmp
  BY <1>1, <1>2, <1>3, AnswerCame DEF WaitStep, PackStep, VerdictStep, Done
<1>5. UNCHANGED <<fg, echo, tmp, inq, out, got>>
  BY <1>1 DEF guestVars
<1>6. Tidy' /\ Bare' /\ Hushed' /\ ~Typed("key")'
  <2>1. inq' = <<>> /\ Len(inq') = 0
    BY <1>4, <1>5, QueueLengths DEF Bare
  <2> QED BY <1>4, <1>5, <2>1 DEF Tidy, Bare, Hushed, Typed
<1> QED BY <1>1, <1>6 DEF StepInv, Working, Waits

\* No wait times out on a guest that lives.
LEMMA GiveUpInStep ==
    ASSUME WireTypes, IInv, StepInv, ~stopped, GiveUp, UNCHANGED spent PROVE StepInv'
<1>1. ~Fault("late")
  BY DEF Fault, WireTypes, FaultKinds
<1>2. Silent /\ pc \in Waits /\ got \cap Awaited[pc] = {} /\ UNCHANGED <<out, guestVars>>
  BY <1>1 DEF GiveUp, Unheard
<1>3. inq = <<>> /\ out = <<>>
  BY <1>2, NothingTyped DEF StepInv
<1>4. \A m : Says(m) => m \in got
  BY <1>3, QueueLengths DEF Says
<1>5. pc = "ensure"
  <2> SUFFICES ASSUME pc \in Working PROVE FALSE
    BY <1>2 DEF Working
  <2>1. WaitStep
    BY DEF StepInv
  <2>2. \A L : ~Sent(L)
    BY <1>3 DEF Sent
  <2>3. fg \in {"shell", "head"}
    BY <1>2, <2>1, <2>2 DEF Silent, WaitStep, PackStep, ReadyStep, GoStep, BlkStep, SumStep, VerdictStep,
           Runs, Done, Bare, Working, Waits
  <2>4. \A job : Runs(job) => job \in {"shell", "head"}
    BY <2>3 DEF Runs
  <2>5. ASSUME NEW M, M \subseteq Awaited[pc] PROVE ~Done(M)
    BY <1>2, <1>4, <2>5 DEF Done
  <2>6. pc \in {"pack", "begin"} => FALSE
    BY <1>2, <1>4, <2>1, <2>2, <2>4, <2>5 DEF WaitStep, PackStep, Awaited
  <2>7. pc = "ready" => FALSE
    BY <2>1, <2>2, <2>5 DEF WaitStep, ReadyStep, Awaited
  <2>8. pc = "go" => FALSE
    BY <1>2, <1>4, <2>1, <2>2 DEF WaitStep, GoStep, Awaited
  <2>9. pc = "blk" => FALSE
    <3>1. inq # <<[k |-> "payload", n |-> blk, q |-> "whole"]>>
      BY <1>3
    <3> QED BY <2>1, <2>5, <3>1 DEF WaitStep, BlkStep, Awaited
  <2>10. pc = "sum" => FALSE
    BY <2>1, <2>2, <2>5 DEF WaitStep, SumStep, Awaited
  <2>11. pc = "verdict" => FALSE
    BY <2>1, <2>2, <2>4, <2>5 DEF WaitStep, VerdictStep, Awaited
  <2> QED BY <2>6, <2>7, <2>8, <2>9, <2>10, <2>11 DEF Working, Waits
<1>6. pc' = "idle" /\ inq' = inq
  BY <1>5 DEF GiveUp, IInv, EngagedInv
<1>7. UNCHANGED <<fg, echo, tmp, inq, out>>
  BY <1>2, <1>6 DEF guestVars
<1>8. Tidy /\ Hushed /\ ~Typed("key")
  BY <1>5 DEF StepInv, Working, Waits
<1> QED BY <1>6, <1>7, <1>8 DEF StepInv, Tidy, Hushed, Typed, Working, Waits

\* Recover's lines, typed to a shell at its prompt, leave it tidy.
LEMMA RecoverInStep ==
    ASSUME WireTypes, StepInv, Recover \/ Restore \/ Tidied, UNCHANGED <<out, guestVars>> PROVE StepInv'
<1>1. pc \in {"recover", "interrupt", "restore"} /\ pc' \in {"interrupt", "restore", "idle"}
  BY DEF Recover, Restore, Tidied
<1>2. Tidy /\ Hushed /\ ~Typed("key")
  BY <1>1 DEF StepInv, Working, Waits
<1>3. UNCHANGED <<fg, echo, tmp, out>>
  BY DEF guestVars
<1>4. Tidy' /\ ~Typed("key")'
  <2>1. CASE inq' = inq
    BY <1>2, <1>3, <2>1 DEF Tidy, Typed
  <2>2. CASE \E k, l \in {"intr", "restore", "clear"} : inq' = inq \o <<Line(k), Line(l)>>
    <3>1. PICK k \in {"intr", "restore", "clear"}, l \in {"intr", "restore", "clear"} :
              inq' = inq \o <<Line(k), Line(l)>>
      BY <2>2
    <3>2. {"intr", "restore", "clear"} \subseteq Common
      BY DEF Common
    <3>3. Tidy'
      BY <1>2, <1>3, <3>1, <3>2, TypesTidy
    <3>4. /\ Line(k) \in Item /\ Line(k).k = k /\ Line(l) \in Item /\ Line(l).k = l
      BY LineIsItem DEF Lines
    <3>5. \A j \in 1..Len(inq') : \/ j \in 1..Len(inq) /\ inq'[j] = inq[j]
                                  \/ inq'[j] \in {Line(k), Line(l)}
      BY <3>1, <3>4, TypesTwo
    <3>6. ~Typed("key")'
      BY <1>2, <3>4, <3>5 DEF Typed
    <3> QED BY <3>3, <3>6
  <2> QED BY <2>1, <2>2 DEF Recover, Restore, Tidied, Paste
<1> QED BY <1>1, <1>2, <1>3, <1>4 DEF StepInv, Hushed, Working, Waits

\* The one fault a behaviour may have is counted.
LEMMA FaultsCount ==
    ASSUME WireTypes, [Next]_vars
    PROVE  /\ Faults \in Nat /\ Faults' \in Nat /\ Faults' >= Faults
           /\ \A k \in {"noise", "lost", "late", "throw"} : Fault(k) => Faults' = Faults + 1
           /\ ~stopped' => ~stopped /\ (Faults' = Faults => UNCHANGED spent)
<1>1. /\ UNCHANGED spent \/ \E k \in {"noise", "lost", "late", "throw"} : Fault(k)
      /\ UNCHANGED stopped
      \/ GuestStops
  BY DEF Next, ExportWork, ImportWork, Start, Unheard, PageStep, GiveUp, Restore, Tidied, PasteThrows,
         GuestStep, ShellRuns, HeadReads, ShortReads, PackEnds, UnpackEnds, Interrupt, ProgramReads,
         ProgramEnds, ProgramStarts, Deliver, LoseMarker, Damage, UserKey, guestVars, vars
<1>2. /\ spent["noise"] \in Nat /\ spent["lost"] \in Nat /\ spent["late"] \in Nat /\ spent["throw"] \in Nat
      /\ Faults \in Nat
  BY DEF WireTypes, FaultKinds, Faults
<1>3. ASSUME NEW k \in {"noise", "lost", "late", "throw"}, Fault(k) PROVE Faults' = Faults + 1
  <2>1. spent' = [spent EXCEPT ![k] = @ + 1]
    BY <1>3 DEF Fault
  <2>2. \A l \in FaultKinds : spent'[l] = IF l = k THEN spent[l] + 1 ELSE spent[l]
    BY <2>1 DEF WireTypes
  <2> QED BY <1>2, <2>2 DEF FaultKinds, Faults
<1>4. Fault("hang") => Faults' = Faults
  <2> SUFFICES ASSUME Fault("hang") PROVE Faults' = Faults
    OBVIOUS
  <2>1. spent' = [spent EXCEPT !["hang"] = @ + 1]
    BY DEF Fault
  <2>2. \A l \in FaultKinds : l # "hang" => spent'[l] = spent[l]
    BY <2>1 DEF WireTypes
  <2> QED BY <2>2 DEF FaultKinds, Faults
<1>5. UNCHANGED spent => Faults' = Faults
  BY DEF Faults
<1>6. GuestStops => Fault("hang") /\ stopped'
  BY DEF GuestStops
<1> QED BY <1>1, <1>2, <1>3, <1>4, <1>5, <1>6

LEMMA HandInit == Init => HandInv
<1> SUFFICES ASSUME Init PROVE HandInv
  OBVIOUS
<1>1. pc = "idle" /\ inq = <<>> /\ out = <<>> /\ Len(inq) = 0 /\ Len(out) = 0
  BY DEF Init
<1>2. Tidy
  BY <1>1 DEF Init, Tidy
<1>3. Hushed /\ ~Typed("key")
  BY <1>1 DEF Hushed, Typed
<1>4. LeaveInv
  BY <1>1, <1>2 DEF LeaveInv
<1> QED BY <1>1, <1>2, <1>3, <1>4 DEF HandInv, WorkingInv, StepInv, Working, Waits

\* A step that leaves the page, the wire and the guest alone.
LEMMA NothingHappens ==
    ASSUME UNCHANGED vars PROVE UNCHANGED <<LeaveInv, WorkingInv, StepInv>>
<1>1. UNCHANGED <<pc, blk, clean, got, inq, out, fg, echo, tmp, file>>
  BY DEF vars, pageVars, guestVars
<1>2. UNCHANGED <<Tidy, OnlyKeys, Mends, Breaks, Hushed, Expected, Bare>>
  BY <1>1 DEF Tidy, OnlyKeys, Mends, Breaks, Hushed, Expected, Bare
<1>3. \A m : UNCHANGED <<Says(m), Typed(m), LastIs(m)>>
  BY <1>1 DEF Says, Typed, LastIs
<1>4. UNCHANGED LeaveInv
  BY <1>1, <1>2, <1>3 DEF LeaveInv, AtPrompt
<1>5. UNCHANGED WorkingInv
  <2>1. UNCHANGED <<EndsInv, BadInv, GoodInv>>
    BY <1>1, <1>2, <1>3 DEF EndsInv, BadInv, GoodInv
  <2>2. UNCHANGED <<LineInv, JobInv>>
    BY <1>1, <1>2, <1>3 DEF LineInv, JobInv
  <2>3. UNCHANGED KeyInv
    BY <1>1, <1>3 DEF KeyInv, Upto
  <2> QED BY <1>1, <2>1, <2>2, <2>3 DEF WorkingInv
<1>6. UNCHANGED <<Asked, OneIsDue>>
  BY <1>1, <1>2 DEF Asked, OneIsDue
<1>7. \A L : UNCHANGED <<Sent(L), Runs(L), Done(L), Upto(L)>>
  BY <1>1, <1>2, <1>3, <1>6 DEF Sent, Runs, Done, Upto
<1>8. UNCHANGED WaitStep
  <2>1. UNCHANGED <<PackStep, ReadyStep, SumStep, VerdictStep>>
    BY <1>1, <1>3, <1>7 DEF PackStep, ReadyStep, SumStep, VerdictStep
  <2>2. UNCHANGED <<GoStep, BlkStep>>
    BY <1>1, <1>3, <1>6, <1>7 DEF GoStep, BlkStep, Upto
  <2> QED BY <1>1, <1>6, <2>1, <2>2 DEF WaitStep
<1>9. UNCHANGED StepInv
  BY <1>1, <1>2, <1>3, <1>8 DEF StepInv
<1> QED BY <1>4, <1>5, <1>9

LEMMA HandNext == ASSUME TypeOK, IInv, HandInv, [Next]_vars PROVE HandInv'
<1> SUFFICES ASSUME ~stopped', Faults' <= 1
             PROVE  LeaveInv' /\ WorkingInv' /\ (Faults' = 0 => StepInv')
  BY DEF HandInv
<1>1. WireTypes /\ PageTypes /\ PcInv /\ EngagedInv
  BY Types DEF IInv
<1>2. /\ Faults \in Nat /\ Faults' \in Nat /\ Faults' >= Faults
      /\ \A k \in {"noise", "lost", "late", "throw"} : Fault(k) => Faults' = Faults + 1
      /\ ~stopped /\ (Faults' = Faults => UNCHANGED spent)
  BY <1>1, FaultsCount
<1>3. LeaveInv /\ WorkingInv /\ (Faults = 0 => StepInv)
  BY <1>2 DEF HandInv
<1>4. ASSUME NEW k \in {"noise", "lost", "late", "throw"}, Fault(k) PROVE StepInv /\ Faults' # 0
  BY <1>2, <1>3, <1>4
<1>5. Faults' = 0 => StepInv /\ UNCHANGED spent
  BY <1>2, <1>3
<1>6. CASE ExportWork \/ ImportWork
  <2>1. PICK kind : Start(kind)
    BY <1>6 DEF ExportWork, ImportWork
  <2>2. Silent \/ StepInv
    BY <1>4, <2>1 DEF Start, Unheard
  <2>3. pc = "idle"
    BY <1>1, <2>1 DEF Start, PcInv
  <2>4. Silent \/ (Tidy /\ Hushed)
    BY <2>2, <2>3 DEF StepInv, Working, Waits
  <2> QED BY <1>1, <1>2, <1>3, <1>5, <2>1, <2>4, StartHand, StartInStep
<1>7. CASE PageStep
  <2>1. UNCHANGED <<out, guestVars>>
    BY <1>7 DEF PageStep
  <2>2. CASE Engage
    BY <1>1, <1>3, <1>5, <2>1, <2>2, EngageHand, EngageInStep
  <2>3. CASE Ready \/ Go \/ BlockTaken
    BY <1>1, <1>3, <1>5, <2>1, <2>3, LinesHand, ReadyInStep, GoInStep, BlockTakenInStep
  <2>4. CASE Summed
    <3>1. pc' = "recover" \/ pc' = "verdict"
      BY <2>4 DEF Summed, Finish
    <3> QED BY <1>1, <1>3, <1>5, <2>1, <2>4, <3>1, LinesHand, FinishHand, SummedInStep
  <2>5. CASE PackTaken \/ Packed \/ Verdict
    BY <1>1, <1>3, <1>5, <2>1, <2>5, FinishHand, PackTakenInStep, VerdictInStep
  <2>6. CASE Recover
    BY <1>1, <1>3, <1>5, <2>1, <2>6, RecoverHand, RecoverInStep
  <2> QED BY <1>7, <2>2, <2>3, <2>4, <2>5, <2>6 DEF PageStep
<1>8. CASE GiveUp
  <2>1. UNCHANGED <<out, guestVars>>
    BY <1>8 DEF GiveUp
  <2> QED BY <1>1, <1>2, <1>3, <1>5, <1>8, <2>1, FinishHand, GiveUpInStep
<1>9. CASE Restore \/ Tidied
  <2>1. UNCHANGED <<out, guestVars>>
    BY <1>9 DEF Restore, Tidied
  <2> QED BY <1>1, <1>3, <1>5, <1>9, <2>1, RecoverHand, RecoverInStep
<1>10. CASE PasteThrows
  <2>1. StepInv /\ Faults' # 0
    BY <1>4, <1>10 DEF PasteThrows
  <2> QED BY <1>1, <1>3, <1>10, <2>1, ThrowHand
<1>11. CASE UserKey
  <2>1. StepInv /\ Faults' # 0
    BY <1>4, <1>11 DEF UserKey
  <2> QED BY <1>1, <1>3, <1>11, <2>1, KeyHand
<1>12. CASE GuestStep \/ Deliver \/ ProgramEnds \/ ProgramStarts \/ LoseMarker \/ Damage
  <2>1. UNCHANGED pc
    BY <1>12 DEF GuestStep, ShellRuns, HeadReads, ShortReads, PackEnds, UnpackEnds, Interrupt,
           ProgramReads, Deliver, ProgramEnds, ProgramStarts, LoseMarker, Damage, pageVars
  <2>2. LeaveInv'
    BY <1>1, <1>3, <1>12, LeaveStays
  <2>3. WorkingInv'
    <3>1. CASE pc \in Working
      BY <1>1, <1>3, <1>12, <3>1, WorkingGuest
    <3>2. CASE pc \notin Working
      BY <2>1, <3>2 DEF WorkingInv, Working, Waits
    <3> QED BY <3>1, <3>2
  <2>4. ASSUME Faults' = 0 PROVE StepInv'
    <3>1. ~LoseMarker /\ ~Damage
      BY <1>4, <2>4 DEF LoseMarker, Damage
    <3>2. StepInv /\ UNCHANGED spent
      BY <1>5, <2>4
    <3>3. pc \in Working \/ pc \notin Working
      OBVIOUS
    <3> QED BY <1>1, <1>12, <3>1, <3>2, <3>3, RestInStep, WaitInStep
  <2> QED BY <2>2, <2>3, <2>4
<1>13. CASE UNCHANGED vars
  <2>1. UNCHANGED <<LeaveInv, WorkingInv, StepInv>>
    BY <1>13, NothingHappens
  <2> QED BY <1>3, <1>5, <2>1
<1>14. ~GuestStops
  BY DEF GuestStops
<1> QED BY <1>6, <1>7, <1>8, <1>9, <1>10, <1>11, <1>12, <1>13, <1>14 DEF Next

\* However a transfer ends, and whatever one fault it met - a byte lost or garbled, a key
\* typed in between, a marker lost, an answer too late, a paste that throws - the user gets
\* the terminal back as it was: echo on, no head or job in front, no transfer file left.
THEOREM TerminalIsHandedBack == Spec => []HandedBack
<1>1. PcInv /\ TypeOK /\ HandInv => HandedBack
  <2> SUFFICES ASSUME PcInv, TypeOK, HandInv, ~busy, Silent, ~stopped, Faults <= 1
               PROVE  echo /\ ~tmp /\ fg \notin {"head", "short", "pack", "unpack"}
    BY DEF HandedBack
  <2>1. pc = "idle" /\ LeaveInv
    BY DEF PcInv, HandInv
  <2>2. WireTypes
    BY Types
  <2>3. Tidy
    BY <2>1, <2>2, SilentTidy DEF LeaveInv
  <2> QED BY <2>3 DEF Tidy
<1>2. TypeOK /\ IInv /\ HandInv /\ [Next]_vars => HandInv'
  BY HandNext
<1>3. IInv => PcInv
  BY DEF IInv
<1> QED BY <1>1, <1>2, <1>3, HandInit, TransferTypes, TransferInit, TransferNext, PTL DEF Spec
=============================================================================
