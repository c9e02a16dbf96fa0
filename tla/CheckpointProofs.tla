-------------------------- MODULE CheckpointProofs --------------------------
(***************************************************************************)
(* Proofs about Checkpoint, for every number of operations and every fault *)
(* budget: its type invariant, that the page's count of switches is the    *)
(* truth about the mux, that no key of the user reaches the mux while the  *)
(* page has moved it, and that the operations take turns at the console;   *)
(* then where the page types, what it may conclude from a reply of the     *)
(* monitor, and that no accident leaves the machine stopped.               *)
(***************************************************************************)
EXTENDS Checkpoint, SequenceTheorems, TLAPS

\* What follows a leave() only touches the keyboard, the latch and the report.
LEMMA AfterLeaveType ==
    ASSUME TypeOK, AfterLeave
    PROVE  /\ kbd' \in BOOLEAN /\ busy' \in BOOLEAN /\ fin' \in BOOLEAN
           /\ pc' \in Pcs /\ outcome' \in Outcomes
<1>1. kbd' \in BOOLEAN /\ busy' \in BOOLEAN /\ fin' \in BOOLEAN
  BY Zenon DEF AfterLeave, Conclude, TypeOK, FlagsTypeOK
<1>2. pc' \in Pcs /\ outcome' \in Outcomes
  BY DEF AfterLeave, Conclude, TypeOK, ValuesTypeOK, Pcs, PastePcs, Outcomes
<1> QED
  BY <1>1, <1>2

\* What mux() typed up to its n-th paste is again a mux state.
LEMMA TypedType ==
    ASSUME TypeOK, NEW n \in 0..4
    PROVE  Typed(n).side \in Sides /\ Typed(n).held \in BOOLEAN
<1>1. CASE bracketed
  BY <1>1 DEF TypeOK, FlagsTypeOK, ValuesTypeOK, Typed
<1>2. CASE ~bracketed
  <2> DEFINE m == [side |-> side, held |-> held]
  <2> DEFINE M == [side : Sides, held : BOOLEAN]
  <2>1. ASSUME NEW x \in M, NEW key \in {"ctrlA", "nul", "c"}
        PROVE  MuxKey(x, key) \in M
    BY <2>1 DEF MuxKey, Sides, Other
  <2>2. m \in M
    BY DEF TypeOK, FlagsTypeOK, ValuesTypeOK
  <2> HIDE DEF m, M
  <2>3. SwitchKeys(m, n) \in M
    BY <2>1, <2>2 DEF SwitchKeys
  <2> QED
    BY <1>2, <2>3 DEF Typed, m, M
<1> QED
  BY <1>1, <1>2

\* A whole mux() keeps the mux, the replies and the count well typed.
LEMMA SwitchType ==
    ASSUME TypeOK, TypeSwitch
    PROVE  /\ side' \in Sides /\ held' \in BOOLEAN /\ switches' \in {0, 1}
           /\ out' \in Seq([err : BOOLEAN, row : BOOLEAN])
<1>1. side' \in Sides /\ held' \in BOOLEAN
  BY TypedType DEF TypeSwitch
<1>2. switches' \in {0, 1}
  BY DEF TypeSwitch, TypeOK, ValuesTypeOK
<1>3. Prompt \in [err : BOOLEAN, row : BOOLEAN]
  BY DEF Prompt
<1>4. out' \in Seq([err : BOOLEAN, row : BOOLEAN])
  <2>1. out' = out \/ out' = Append(out, Prompt)
    BY DEF TypeSwitch, PromptOnSwitch
  <2> DEFINE R == [err : BOOLEAN, row : BOOLEAN]
  <2>2. out \in Seq(R) /\ Prompt \in R
    BY <1>3 DEF TypeOK, QueuesTypeOK
  <2> HIDE DEF R
  <2>3. out' \in Seq(R)
    BY <2>1, <2>2
  <2> QED
    BY <2>3 DEF R
<1> QED
  BY <1>1, <1>2, <1>4

\* The first key of a command keeps the mux well typed, and the mux then holds nothing.
LEMMA FirstKeyType ==
    ASSUME TypeOK
    PROVE  AfterFirstKey.side \in Sides /\ AfterFirstKey.held = FALSE
<1> DEFINE m == [side |-> side, held |-> held]
           key == IF cmd = "cont" /\ ~bracketed THEN "c" ELSE "other"
<1>1. m.side = side /\ m.held = held /\ side \in Sides /\ held \in BOOLEAN
  BY DEF TypeOK, FlagsTypeOK, ValuesTypeOK
<1>2. key # "ctrlA" /\ Other(side) \in Sides
  BY DEF Other, Sides
<1> HIDE DEF m, key
<1>3. MuxKey(m, key).side \in Sides /\ MuxKey(m, key).held = FALSE
  BY <1>1, <1>2 DEF MuxKey
<1> QED
  BY <1>3 DEF AfterFirstKey, m, key

\* A command typed at a mux that holds nothing goes where the mux is; with its first
\* key gone it switches, if at all, to the other side, and is no command there.
LEMMA CommandGoes ==
    ASSUME TypeOK, TypeCommand
    PROVE  /\ ~held => /\ side' = side /\ out' = out
                       /\ inq' = (IF side = "monitor"
                                   THEN Append(inq, [cmd |-> cmd, op |-> opNo]) ELSE inq)
           /\ held => inq' = inq \/ inq' = Append(inq, [cmd |-> "unknown", op |-> opNo])
           /\ cmd # "cont" => side' = side
           /\ out' = out \/ out' = Append(out, Prompt)
           /\ side' \in Sides /\ held' = FALSE /\ got' = Nothing
           /\ UNCHANGED <<home, hung>>
<1> DEFINE m == [side |-> side, held |-> held]
           key == IF cmd = "cont" /\ ~bracketed THEN "c" ELSE "other"
<1>1. m.side = side /\ m.held = held /\ key \in {"c", "other"} /\ (cmd # "cont" => key = "other")
  OBVIOUS
<1> HIDE DEF m, key
<1>2. (~held \/ cmd # "cont") => MuxKey(m, key).side = side
  BY <1>1 DEF MuxKey
<1>3. (~held \/ cmd # "cont") => AfterFirstKey.side = side
  BY <1>2 DEF AfterFirstKey, m, key
<1>4. AfterFirstKey.side = side => out' = out
  BY DEF TypeCommand, PromptOnSwitch
<1>5. inq' = (IF side' = "monitor"
              THEN Append(inq, [cmd |-> IF held THEN "unknown" ELSE cmd, op |-> opNo]) ELSE inq)
  BY DEF TypeCommand
<1>6. ~held => inq' = (IF side = "monitor"
                       THEN Append(inq, [cmd |-> cmd, op |-> opNo]) ELSE inq)
  BY <1>3, <1>5 DEF TypeCommand
<1>7. held => inq' = inq \/ inq' = Append(inq, [cmd |-> "unknown", op |-> opNo])
  BY <1>5
<1> QED
  BY <1>3, <1>4, <1>6, <1>7, FirstKeyType DEF TypeCommand, PromptOnSwitch

\* Whatever run() made of a reply, the page's state keeps its types.
LEMMA SettledType ==
    ASSUME TypeOK, NEW ok \in BOOLEAN, RunSettled(ok) \/ MuxSettled(ok)
    PROVE  /\ paused' \in BOOLEAN /\ unanswered' \in BOOLEAN /\ layered' \in BOOLEAN
           /\ why' \in BOOLEAN /\ resumable' \in BOOLEAN /\ loadOpen' \in BOOLEAN
           /\ unresumed' \in BOOLEAN
           /\ fin' = fin /\ op' = op /\ opNo' = opNo /\ outcome' = outcome
           /\ switches' = switches
           /\ savedAt' \in Nat /\ pc' \in Pcs /\ cmd' \in Commands
<1>1. CASE StopSettled(ok) /\ RunSettled(ok)
  <2>1. /\ paused' \in BOOLEAN /\ unanswered' \in BOOLEAN /\ why' \in BOOLEAN
        /\ resumable' \in BOOLEAN /\ loadOpen' \in BOOLEAN
    BY <1>1, Zenon DEF StopSettled
  <2>2. pc' \in Pcs /\ cmd' \in Commands
    BY <1>1 DEF StopSettled, TypeOK, ValuesTypeOK, Pcs, PastePcs, Commands
  <2>3. layered' = layered /\ savedAt' = savedAt
    BY <1>1 DEF StopSettled
  <2> QED
    BY <1>1, <2>1, <2>2, <2>3 DEF RunSettled, TypeOK, FlagsTypeOK, ValuesTypeOK
<1>2. CASE LayerSettled(ok) /\ RunSettled(ok)
  BY <1>2 DEF RunSettled, LayerSettled, TypeOK, FlagsTypeOK, ValuesTypeOK, Pcs, PastePcs, Commands
<1>3. CASE SavevmSettled(ok) /\ RunSettled(ok)
  BY <1>3 DEF RunSettled, SavevmSettled, TypeOK, FlagsTypeOK, ValuesTypeOK, Pcs, PastePcs, Commands
<1>4. CASE InfoSettled(ok) /\ RunSettled(ok)
  BY <1>4 DEF RunSettled, InfoSettled, TypeOK, FlagsTypeOK, ValuesTypeOK, Pcs, PastePcs, Commands
<1>5. CASE LoadvmSettled(ok) /\ RunSettled(ok)
  BY <1>5 DEF RunSettled, LoadvmSettled, TypeOK, FlagsTypeOK, ValuesTypeOK, Pcs, PastePcs, Commands
<1>6. CASE ContSettled(ok) /\ RunSettled(ok)
  BY <1>6 DEF RunSettled, ContSettled, TypeOK, FlagsTypeOK, ValuesTypeOK, Pcs, PastePcs, Commands
<1>7. CASE MuxSettled(ok)
  BY <1>7 DEF MuxSettled, flags, TypeOK, FlagsTypeOK, ValuesTypeOK, Pcs, PastePcs, Commands
<1>8. unresumed' \in BOOLEAN
  <2>1. CASE RunSettled(ok)
    BY <2>1, Zenon DEF RunSettled
  <2>2. CASE MuxSettled(ok)
    BY <2>2 DEF MuxSettled, TypeOK, FlagsTypeOK
  <2> QED
    BY <2>1, <2>2
<1> QED
  BY <1>1, <1>2, <1>3, <1>4, <1>5, <1>6, <1>7, <1>8 DEF RunSettled

\* Every step keeps the Boolean variables Boolean.
LEMMA FlagsStep ==
    ASSUME TypeOK, [Next]_vars
    PROVE  FlagsTypeOK'
<1> USE DEF TypeOK, FlagsTypeOK, opVars, flags, muxVars, monVars, machine
<1>1. CASE CheckpointStart
  BY <1>1 DEF CheckpointStart
<1>2. CASE RollbackStart
  BY <1>2 DEF RollbackStart
<1>3. CASE AskForPrompt
  <2>1. held' \in BOOLEAN
    BY <1>3, Zenon DEF AskForPrompt
  <2> QED
    BY <1>3, <2>1 DEF AskForPrompt
<1>4. CASE PromptCame
  <2>1. kbd' \in BOOLEAN
    BY <1>4, Zenon DEF PromptCame
  <2> QED
    BY <1>4, <2>1 DEF PromptCame
<1>5. CASE NoPrompt
  BY <1>5 DEF NoPrompt, Conclude
<1>6. CASE ResetPaste
  <2>1. bracketed' \in BOOLEAN
    BY <1>6, Zenon DEF ResetPaste
  <2> QED
    BY <1>6, <2>1 DEF ResetPaste
<1>7. CASE SwitchIn
  <2>1. held' \in BOOLEAN /\ hung' = hung
    BY <1>7, SwitchType DEF SwitchIn, TypeSwitch
  <2> QED
    BY <1>7, <2>1 DEF SwitchIn
<1>8. CASE SwitchOut
  <2>1. held' \in BOOLEAN /\ hung' = hung
    BY <1>8, SwitchType DEF SwitchOut, TypeSwitch
  <2>2. kbd' \in BOOLEAN /\ busy' \in BOOLEAN /\ fin' \in BOOLEAN
    BY <1>8, AfterLeaveType DEF SwitchOut
  <2> QED
    BY <1>8, <2>1, <2>2 DEF SwitchOut
<1>9. CASE SendCommand
  <2>1. held' \in BOOLEAN /\ hung' = hung
    BY <1>9, CommandGoes, Zenon DEF SendCommand
  <2>2. unanswered' \in BOOLEAN
    BY <1>9, Zenon DEF SendCommand
  <2> QED
    BY <1>9, <2>1, <2>2 DEF SendCommand
<1>10. CASE Leave
  <2>1. /\ kbd' \in BOOLEAN /\ busy' \in BOOLEAN /\ fin' \in BOOLEAN
        /\ unanswered' \in BOOLEAN
    BY <1>10, AfterLeaveType, Zenon DEF Leave
  <2> QED
    BY <1>10, <2>1 DEF Leave
<1>11. CASE Answered
  <2>1. PICK ok \in BOOLEAN : RunSettled(ok) \/ MuxSettled(ok)
    BY <1>11, Zenon DEF Answered
  <2> QED
    BY <1>11, <2>1, SettledType DEF Answered
<1>12. CASE GiveUp
  <2>1. RunSettled(FALSE) \/ MuxSettled(FALSE)
    BY <1>12 DEF GiveUp
  <2> QED
    BY <1>12, <2>1, SettledType DEF GiveUp
<1>13. CASE TypeResync
  <2>1. held' \in BOOLEAN
    BY <1>13, Zenon DEF TypeResync
  <2> QED
    BY <1>13, <2>1 DEF TypeResync
<1>14. CASE Resynced
  BY <1>14 DEF Resynced, Conclude
<1>15. CASE PasteThrows
  <2>1. held' \in BOOLEAN
    BY <1>15, TypedType DEF PasteThrows
  <2>2. unanswered' \in BOOLEAN /\ fin' \in BOOLEAN /\ busy' \in BOOLEAN
    BY <1>15, Zenon DEF PasteThrows
  <2> QED
    BY <1>15, <2>1, <2>2 DEF PasteThrows
<1>16. CASE MonitorRuns
  <2>1. PICK err \in BOOLEAN : Execute(Head(inq), err)
    BY <1>16 DEF MonitorRuns
  <2>2. running' \in BOOLEAN /\ layer' \in BOOLEAN
    BY <2>1, Zenon DEF Execute, RunStop, RunCont, RunLayer, RunSavevm, RunLoadvm
  <2> QED
    BY <1>16, <2>2 DEF MonitorRuns
<1>17. CASE Deliver
  BY <1>17 DEF Deliver
<1>18. CASE MonitorHangs
  BY <1>18 DEF MonitorHangs
<1>19. CASE LoseReply
  BY <1>19 DEF LoseReply
<1>20. CASE ProgramSetsPasteMode
  BY <1>20 DEF ProgramSetsPasteMode
<1>21. ASSUME NEW key \in {"ctrlA", "c", "other"}, UserPresses(key)
       PROVE  FlagsTypeOK'
  <2>1. held' \in BOOLEAN
    BY <1>21 DEF UserPresses, MuxKey
  <2> QED
    BY <1>21, <2>1 DEF UserPresses
<1>22. CASE UNCHANGED vars
  BY <1>22 DEF vars
<1> QED
  BY <1>1, <1>2, <1>3, <1>4, <1>5, <1>6, <1>7, <1>8, <1>9, <1>10, <1>11, <1>12, <1>13,
     <1>14, <1>15, <1>16, <1>17, <1>18, <1>19, <1>20, <1>21, <1>22 DEF Next, PageStep

\* Every step keeps counters, program counter and mux sides in their sets.
LEMMA ValuesStep ==
    ASSUME TypeOK, [Next]_vars
    PROVE  ValuesTypeOK'
<1> USE DEF TypeOK, ValuesTypeOK, opVars, flags, muxVars, monVars, machine, Pcs, PastePcs,
        WaitPcs, Commands, Outcomes
<1>1. CASE CheckpointStart
  BY <1>1 DEF CheckpointStart
<1>2. CASE RollbackStart
  BY <1>2 DEF RollbackStart
<1>3. CASE AskForPrompt
  BY <1>3 DEF AskForPrompt
<1>4. CASE PromptCame
  BY <1>4 DEF PromptCame
<1>5. CASE NoPrompt
  BY <1>5 DEF NoPrompt, Conclude
<1>6. CASE ResetPaste
  BY <1>6 DEF ResetPaste
<1>7. CASE SwitchIn
  <2>1. side' \in Sides /\ switches' \in {0, 1} /\ home' = home
    BY <1>7, SwitchType DEF SwitchIn, TypeSwitch
  <2> QED
    BY <1>7, <2>1 DEF SwitchIn
<1>8. CASE SwitchOut
  <2>1. side' \in Sides /\ switches' \in {0, 1} /\ home' = home
    BY <1>8, SwitchType DEF SwitchOut, TypeSwitch
  <2>2. pc' \in Pcs /\ outcome' \in Outcomes
    BY <1>8, AfterLeaveType DEF SwitchOut
  <2> QED
    BY <1>8, <2>1, <2>2 DEF SwitchOut
<1>9. CASE SendCommand
  <2>1. side' \in Sides /\ home' = home
    BY <1>9, CommandGoes DEF SendCommand
  <2> QED
    BY <1>9, <2>1 DEF SendCommand
<1>10. CASE Leave
  <2>1. pc' \in Pcs /\ outcome' \in Outcomes /\ cmd' \in Commands
    BY <1>10, AfterLeaveType DEF Leave
  <2> QED
    BY <1>10, <2>1 DEF Leave
<1>11. CASE Answered
  <2>1. PICK ok \in BOOLEAN : RunSettled(ok) \/ MuxSettled(ok)
    BY <1>11, Zenon DEF Answered
  <2> QED
    BY <1>11, <2>1, SettledType DEF Answered
<1>12. CASE GiveUp
  <2>1. RunSettled(FALSE) \/ MuxSettled(FALSE)
    BY <1>12 DEF GiveUp
  <2> QED
    BY <1>12, <2>1, SettledType DEF GiveUp
<1>13. CASE TypeResync
  BY <1>13 DEF TypeResync
<1>14. CASE Resynced
  BY <1>14 DEF Resynced, Conclude
<1>15. CASE PasteThrows
  <2>1. side' \in Sides
    BY <1>15, TypedType DEF PasteThrows
  <2>2. pc' \in Pcs /\ outcome' \in Outcomes
    BY <1>15 DEF PasteThrows
  <2> QED
    BY <1>15, <2>1, <2>2 DEF PasteThrows
<1>16. CASE MonitorRuns
  <2>1. PICK err \in BOOLEAN : Execute(Head(inq), err)
    BY <1>16 DEF MonitorRuns
  <2> DEFINE K == [cmd : Commands \cup {"unknown"}, op : Nat]
  <2>2. Head(inq).op \in Nat
    <3>1. inq \in Seq(K) /\ inq # <<>>
      BY <1>16 DEF MonitorRuns, QueuesTypeOK
    <3> HIDE DEF K
    <3>2. Head(inq) \in K
      BY <3>1
    <3> QED
      BY <3>2 DEF K
  <2>3. slot' \in Nat /\ loadedBy' \in Nat /\ damagedBy' \in Nat
    BY <2>1, <2>2 DEF Execute, RunStop, RunCont, RunLayer, RunSavevm, RunLoadvm
  <2> QED
    BY <1>16, <2>3 DEF MonitorRuns
<1>17. CASE Deliver
  BY <1>17 DEF Deliver
<1>18. CASE MonitorHangs
  BY <1>18 DEF MonitorHangs
<1>19. CASE LoseReply
  BY <1>19 DEF LoseReply
<1>20. CASE ProgramSetsPasteMode
  BY <1>20 DEF ProgramSetsPasteMode
<1>21. ASSUME NEW key \in {"ctrlA", "c", "other"}, UserPresses(key)
       PROVE  ValuesTypeOK'
  BY <1>21 DEF UserPresses, MuxKey, Sides, Other
<1>22. CASE UNCHANGED vars
  BY <1>22 DEF vars
<1> QED
  BY <1>1, <1>2, <1>3, <1>4, <1>5, <1>6, <1>7, <1>8, <1>9, <1>10, <1>11, <1>12, <1>13,
     <1>14, <1>15, <1>16, <1>17, <1>18, <1>19, <1>20, <1>21, <1>22 DEF Next, PageStep

\* A fault only raises one counter of the budget.
LEMMA FaultType ==
    ASSUME TypeOK, NEW k \in FaultKinds, Fault(k)
    PROVE  spent' \in [FaultKinds -> Nat]
  BY DEF TypeOK, QueuesTypeOK, Fault

\* Going on without an answer spends one unit of the budget at most.
LEMMA UnheardType ==
    ASSUME TypeOK, Unheard
    PROVE  spent' \in [FaultKinds -> Nat]
  BY FaultType DEF TypeOK, QueuesTypeOK, Unheard, FaultKinds

\* Every step keeps the queues of commands and replies well formed.
LEMMA QueuesStep ==
    ASSUME TypeOK, [Next]_vars
    PROVE  QueuesTypeOK'
<1> DEFINE R == [err : BOOLEAN, row : BOOLEAN]
           G == [seen : BOOLEAN, err : BOOLEAN, row : BOOLEAN]
           K == [cmd : Commands \cup {"unknown"}, op : Nat]
<1> SUFFICES got' \in G /\ inq' \in Seq(K) /\ out' \in Seq(R) /\ spent' \in [FaultKinds -> Nat]
  BY DEF QueuesTypeOK
<1>a. got \in G /\ inq \in Seq(K) /\ out \in Seq(R) /\ spent \in [FaultKinds -> Nat]
  BY DEF TypeOK, QueuesTypeOK
<1>b. Nothing \in G
  BY DEF Nothing
<1>c. /\ "lost" \in FaultKinds /\ "late" \in FaultKinds /\ "throw" \in FaultKinds
      /\ "hang" \in FaultKinds /\ "race" \in FaultKinds
  BY DEF FaultKinds
<1>p. Prompt \in R
  BY DEF Prompt
<1>d. ASSUME TypeSwitch PROVE inq' = inq /\ out' \in Seq(R) /\ got' = Nothing
  BY <1>d, SwitchType DEF TypeSwitch
<1> HIDE DEF R, G, K
<1> USE <1>a DEF monVars
<1>1. CASE CheckpointStart
  BY <1>1, UnheardType DEF CheckpointStart
<1>2. CASE RollbackStart
  BY <1>2, UnheardType DEF RollbackStart
<1>3. CASE AskForPrompt
  BY <1>3 DEF AskForPrompt
<1>4. CASE PromptCame
  BY <1>4 DEF PromptCame
<1>5. CASE NoPrompt
  BY <1>5 DEF NoPrompt
<1>6. CASE ResetPaste
  BY <1>6 DEF ResetPaste
<1>7. CASE SwitchIn
  BY <1>7, <1>b, <1>d DEF SwitchIn
<1>8. CASE SwitchOut
  BY <1>8, <1>b, <1>d DEF SwitchOut
<1>9. CASE SendCommand
  <2>1. [cmd |-> cmd, op |-> opNo] \in K /\ [cmd |-> "unknown", op |-> opNo] \in K
    BY DEF K, TypeOK, ValuesTypeOK
  <2>2. /\ \/ inq' = inq
           \/ inq' = Append(inq, [cmd |-> cmd, op |-> opNo])
           \/ inq' = Append(inq, [cmd |-> "unknown", op |-> opNo])
        /\ out' = out \/ out' = Append(out, Prompt)
        /\ got' = Nothing
    BY <1>9, CommandGoes DEF SendCommand
  <2>3. /\ Append(inq, [cmd |-> cmd, op |-> opNo]) \in Seq(K)
        /\ Append(inq, [cmd |-> "unknown", op |-> opNo]) \in Seq(K)
    BY <2>1
  <2>4. inq' \in Seq(K)
    BY <2>2, <2>3
  <2>5. Append(out, Prompt) \in Seq(R)
    BY <1>p
  <2>6. out' \in Seq(R)
    BY <2>2, <2>5
  <2> QED
    BY <1>9, <1>b, <2>2, <2>4, <2>6 DEF SendCommand
<1>10. CASE Leave
  BY <1>10 DEF Leave
<1>11. CASE Answered
  BY <1>11, <1>b DEF Answered
<1>12. CASE GiveUp
  BY <1>12, UnheardType DEF GiveUp
<1>13. CASE TypeResync
  BY <1>13 DEF TypeResync
<1>14. CASE Resynced
  BY <1>14 DEF Resynced
<1>15. CASE PasteThrows
  BY <1>15, <1>c, FaultType DEF PasteThrows
<1>16. CASE MonitorRuns
  <2>1. PICK err \in BOOLEAN : out' = Append(out, Reply(err, Head(inq).cmd = "info" /\ slot # 0))
    BY <1>16 DEF MonitorRuns
  <2>2. Reply(err, Head(inq).cmd = "info" /\ slot # 0) \in R
    BY DEF Reply, R
  <2>3. out' \in Seq(R)
    BY <2>1, <2>2
  <2>4. inq' \in Seq(K)
    BY <1>16 DEF MonitorRuns
  <2> QED
    BY <1>16, <2>3, <2>4 DEF MonitorRuns
<1>17. CASE Deliver
  <2>1. Head(out) \in R /\ out' \in Seq(R)
    BY <1>17 DEF Deliver
  <2>2. got' \in G
    BY <1>17, <2>1 DEF Deliver, R, G
  <2> QED
    BY <1>17, <2>1, <2>2 DEF Deliver
<1>18. CASE MonitorHangs
  BY <1>18, <1>c, FaultType DEF MonitorHangs
<1>19. CASE LoseReply
  BY <1>19, <1>c, FaultType DEF LoseReply
<1>20. CASE ProgramSetsPasteMode
  BY <1>20, <1>c, FaultType DEF ProgramSetsPasteMode
<1>21. ASSUME NEW key \in {"ctrlA", "c", "other"}, UserPresses(key)
       PROVE  got' = got /\ inq' = inq /\ out' = out /\ spent' = spent
  BY <1>21 DEF UserPresses
<1>22. CASE UNCHANGED vars
  BY <1>22 DEF vars
<1> QED
  BY <1>1, <1>2, <1>3, <1>4, <1>5, <1>6, <1>7, <1>8, <1>9, <1>10, <1>11, <1>12, <1>13,
     <1>14, <1>15, <1>16, <1>17, <1>18, <1>19, <1>20, <1>21, <1>22 DEF Next, PageStep

\* TypeOK holds in every reachable state of the checkpoint operations of
\* serialfs.js, for every bound on operations and every fault budget.
THEOREM TypeCorrect == Spec => []TypeOK
<1>1. Init => TypeOK
  <2> SUFFICES ASSUME Init PROVE TypeOK
    OBVIOUS
  <2>1. FlagsTypeOK
    BY Zenon DEF Init, FlagsTypeOK
  <2>2. ValuesTypeOK
    BY DEF Init, ValuesTypeOK, Pcs, Commands, Outcomes, Sides
  <2>3. QueuesTypeOK
    BY DEF Init, QueuesTypeOK, Nothing
  <2> QED
    BY <2>1, <2>2, <2>3 DEF TypeOK
<1>2. TypeOK /\ [Next]_vars => TypeOK'
  BY FlagsStep, ValuesStep, QueuesStep DEF TypeOK
<1> QED
  BY <1>1, <1>2, PTL DEF Spec

-----------------------------------------------------------------------------
(***************************************************************************)
(* Where in an operation the page's count is odd, and the keyboard away    *)
(* from the terminal.                                                      *)
(***************************************************************************)
AwayPcs == {"mux", "muxtype", "muxwait", "send", "wait", "muxback", "backtype"}

\* What the place in the operation says of the count and of the keyboard, whatever
\* becomes of the keys that mux() types.
PlaceInv ==
    /\ kbd => switches = 0
    /\ pc \in AwayPcs => ~kbd
    /\ pc \in {"muxwait", "muxback", "backtype"} => switches = 1
    /\ pc \in {"send", "wait"} /\ cmd = "cont" => switches = 1
    /\ pc \in {"sync", "syncwait"} => switches = 0
    /\ pc \in {"ask", "ensure"} /\ op # "ckpt" => switches = 0

\* Where the wait of run() or mux() leads.
LEMMA SettledLeads ==
    ASSUME NEW ok, (pc = "wait" /\ RunSettled(ok)) \/ (pc = "muxwait" /\ MuxSettled(ok))
    PROVE  /\ UNCHANGED <<op, opNo, fin, outcome, switches>>
           /\ \/ pc' = "leave"
              \/ pc' = "send" /\ cmd' # "cont"
              \/ pc' = "muxback" /\ pc = "wait" /\ cmd = "cont"
<1>1. CASE pc = "muxwait" /\ MuxSettled(ok)
  BY <1>1 DEF MuxSettled, flags
<1>2. CASE pc = "wait" /\ RunSettled(ok)
  <2>1. UNCHANGED <<op, opNo, fin, outcome, switches>>
    BY <1>2 DEF RunSettled
  <2>2. \/ pc' = "leave"
        \/ pc' = "send" /\ cmd' # "cont"
        \/ pc' = "muxback" /\ cmd = "cont"
    BY <1>2 DEF RunSettled, StopSettled, LayerSettled, SavevmSettled, InfoSettled,
                LoadvmSettled, ContSettled
  <2> QED BY <1>2, <2>1, <2>2
<1> QED BY <1>1, <1>2

\* A wait that ends, ends in one of two ways.
LEMMA AnsweredSettles ==
    ASSUME Answered
    PROVE  \/ pc = "muxwait" /\ MuxSettled(TRUE)
           \/ pc = "wait" /\ RunSettled(cmd = "stop" \/ ~got.err)
  BY DEF Answered

LEMMA GiveUpSettles ==
    ASSUME GiveUp
    PROVE  \/ pc = "muxwait" /\ MuxSettled(FALSE)
           \/ pc = "wait" /\ RunSettled(FALSE)
  BY DEF GiveUp

\* PlaceInv is inductive.
LEMMA PlaceStep ==
    ASSUME TypeOK, PlaceInv, [Next]_vars
    PROVE  PlaceInv'
<1> USE DEF PlaceInv, AwayPcs
<1> USE DEF opVars, flags, muxVars
<1>1. CASE CheckpointStart
  BY <1>1 DEF CheckpointStart
<1>2. CASE RollbackStart
  BY <1>2 DEF RollbackStart
<1>3. CASE AskForPrompt
  BY <1>3 DEF AskForPrompt
<1>4. CASE PromptCame
  BY <1>4 DEF PromptCame, TypeOK, ValuesTypeOK
<1>5. CASE NoPrompt
  BY <1>5 DEF NoPrompt, Conclude
<1>6. CASE ResetPaste
  BY <1>6 DEF ResetPaste
<1>7. CASE SwitchIn
  <2>1. switches' = 1 - switches /\ kbd' = kbd /\ ~kbd /\ op' = op
    BY <1>7 DEF SwitchIn, TypeSwitch
  <2>2. \/ pc' = "muxwait" /\ switches = 0
        \/ pc' = "send" /\ cmd' = "stop"
    BY <1>7 DEF SwitchIn
  <2> QED
    BY <2>1, <2>2
<1>8. CASE SwitchOut
  <2>1. switches' = 0
    BY <1>8 DEF SwitchOut, TypeSwitch
  <2>2. pc' \in {"idle", "sync", "leave", "ask"}
    BY <1>8 DEF SwitchOut, AfterLeave, Conclude
  <2> QED
    BY <2>1, <2>2
<1>9. CASE SendCommand
  BY <1>9 DEF SendCommand
<1>10. CASE Leave
  <2>1. CASE switches = 0
    <3>1. pc' \in {"idle", "sync", "leave", "ask"} /\ switches' = 0
      BY <1>10, <2>1 DEF Leave, AfterLeave, Conclude
    <3> QED
      BY <3>1
  <2>2. CASE switches = 1
    BY <1>10, <2>2 DEF Leave
  <2> QED
    BY <2>1, <2>2 DEF TypeOK, ValuesTypeOK
<1>11. ASSUME NEW ok, UNCHANGED kbd,
              (pc = "wait" /\ RunSettled(ok)) \/ (pc = "muxwait" /\ MuxSettled(ok))
       PROVE  PlaceInv'
  <2>1. UNCHANGED <<op, switches, kbd>>
    BY <1>11, SettledLeads
  <2>2. \/ pc' = "leave"
        \/ pc' = "send" /\ cmd' # "cont"
        \/ pc' = "muxback" /\ switches = 1
    BY <1>11, SettledLeads
  <2>3. pc \in AwayPcs
    BY <1>11
  <2> QED
    BY <2>1, <2>2, <2>3
<1>12. CASE Answered
  <2>1. UNCHANGED kbd
    BY <1>12 DEF Answered
  <2> QED
    BY <1>12, <2>1, <1>11, AnsweredSettles
<1>13. CASE GiveUp
  <2>1. UNCHANGED kbd
    BY <1>13 DEF GiveUp
  <2> QED
    BY <1>13, <2>1, <1>11, GiveUpSettles
<1>14. CASE TypeResync
  BY <1>14 DEF TypeResync
<1>15. CASE Resynced
  BY <1>15 DEF Resynced, Conclude
<1>16. CASE PasteThrows
  BY <1>16 DEF PasteThrows
<1>17. CASE MonitorRuns
  BY <1>17 DEF MonitorRuns
<1>18. CASE Deliver
  BY <1>18 DEF Deliver
<1>19. CASE MonitorHangs
  BY <1>19 DEF MonitorHangs
<1>20. CASE LoseReply
  BY <1>20 DEF LoseReply
<1>21. CASE ProgramSetsPasteMode
  BY <1>21 DEF ProgramSetsPasteMode
<1>22. ASSUME NEW key \in {"ctrlA", "c", "other"}, UserPresses(key)
       PROVE  PlaceInv'
  BY <1>22 DEF UserPresses
<1>23. CASE UNCHANGED vars
  BY <1>23 DEF vars
<1> QED
  BY <1>1, <1>2, <1>3, <1>4, <1>5, <1>6, <1>7, <1>8, <1>9, <1>10, <1>12, <1>13, <1>14,
     <1>15, <1>16, <1>17, <1>18, <1>19, <1>20, <1>21, <1>22, <1>23 DEF Next, PageStep

\* Whatever is pasted bracketed or not, and whatever fails: PlaceInv holds.
LEMMA PlaceInvariant == Spec => []PlaceInv
<1>1. Init => PlaceInv
  BY DEF Init, PlaceInv, AwayPcs
<1>2. TypeOK /\ PlaceInv /\ [Next]_vars => PlaceInv'
  BY PlaceStep
<1> QED
  BY <1>1, <1>2, TypeCorrect, PTL DEF Spec

-----------------------------------------------------------------------------
\* The latch is set exactly while an operation runs, which is one of Console's calls.
Numbered == opNo \in 0..MaxOps /\ (busy => opNo # 0)
Latched  == busy \in BOOLEAN /\ (busy <=> pc # "idle")

stages == [n \in 1..MaxOps |-> StageOf(n)]

Starts == CheckpointStart \/ RollbackStart

\* What a step of the running operation leaves as it is: a finally block is left only
\* with the latch dropped, and a checkpoint asks for a prompt once.
Proceeds ==
    /\ busy /\ busy' \in BOOLEAN /\ UNCHANGED <<op, opNo>>
    /\ busy' <=> pc' # "idle"
    /\ fin => fin' \/ ~busy'
    /\ op = "ckpt" /\ pc \notin {"ask", "ensure"} => fin' \/ pc' \notin {"ask", "ensure"}

LEMMA LeavesProceed ==
    ASSUME Latched, busy, pc \notin {"ask", "ensure"}, AfterLeave, UNCHANGED <<op, opNo>>
    PROVE  Proceeds
  BY DEF AfterLeave, Conclude, Proceeds, Latched

LEMMA RunsProceed ==
    ASSUME Latched, busy, pc \in {"muxwait", "wait"}, UNCHANGED busy, NEW ok,
           MuxSettled(ok) \/ RunSettled(ok)
    PROVE  Proceeds
  <1>1. UNCHANGED <<op, opNo, fin>> /\ pc' \in {"send", "leave", "muxback"}
    <2>1. CASE MuxSettled(ok)
      BY <2>1 DEF MuxSettled
    <2>2. CASE RunSettled(ok)
      <3>1. UNCHANGED <<op, opNo, fin>>
        BY <2>2 DEF RunSettled
      <3>2. pc' \in {"send", "leave", "muxback"}
        BY <2>2 DEF RunSettled, StopSettled, LayerSettled, SavevmSettled, InfoSettled,
                    LoadvmSettled, ContSettled
      <3> QED BY <3>1, <3>2
    <2> QED BY <2>1, <2>2
  <1> QED BY <1>1 DEF Proceeds, Latched

LEMMA PageProceeds ==
    ASSUME Latched, PageStep \/ GiveUp \/ PasteThrows PROVE Proceeds
  <1>1. pc # "idle"
    BY DEF PageStep, GiveUp, PasteThrows, AskForPrompt, PromptCame, NoPrompt, ResetPaste,
           SwitchIn, SwitchOut, SendCommand, Leave, Answered, TypeResync, Resynced, MayType,
           PastePcs
  <1>2. busy
    BY <1>1 DEF Latched
  <1> USE DEF Latched, opVars
  <1>3. CASE AskForPrompt
    BY <1>2, <1>3 DEF AskForPrompt, Proceeds
  <1>4. CASE PromptCame
    BY <1>2, <1>4 DEF PromptCame, Proceeds
  <1>5. CASE NoPrompt
    BY <1>2, <1>5 DEF NoPrompt, Conclude, Proceeds
  <1>6. CASE ResetPaste
    BY <1>2, <1>6 DEF ResetPaste, Proceeds
  <1>7. CASE SwitchIn
    <2>1. UNCHANGED <<busy, op, opNo, fin>> /\ pc' \in {"muxwait", "send"}
      BY <1>7 DEF SwitchIn
    <2> QED BY <1>2, <2>1 DEF Proceeds
  <1>8. CASE SwitchOut
    <2>1. AfterLeave /\ UNCHANGED <<op, opNo>> /\ pc \notin {"ask", "ensure"}
      BY <1>8 DEF SwitchOut
    <2> QED BY <1>2, <2>1, LeavesProceed
  <1>9. CASE SendCommand
    BY <1>2, <1>9 DEF SendCommand, Proceeds
  <1>10. CASE Leave
    <2>1. CASE AfterLeave
      BY <1>2, <1>10, <2>1, LeavesProceed DEF Leave
    <2>2. CASE pc' \in {"send", "muxback"} /\ UNCHANGED <<busy, fin>>
      BY <1>2, <1>10, <2>2 DEF Leave, Proceeds
    <2> QED BY <1>10, <2>1, <2>2 DEF Leave
  <1>11. CASE Answered
    <2>1. pc \in {"muxwait", "wait"} /\ UNCHANGED busy
          /\ \E ok : MuxSettled(ok) \/ RunSettled(ok)
      BY <1>11 DEF Answered
    <2> QED BY <1>2, <2>1, RunsProceed
  <1>12. CASE GiveUp
    <2>1. pc \in {"muxwait", "wait"} /\ UNCHANGED busy
          /\ \E ok : MuxSettled(ok) \/ RunSettled(ok)
      BY <1>12 DEF GiveUp
    <2> QED BY <1>2, <2>1, RunsProceed
  <1>13. CASE TypeResync
    BY <1>2, <1>13 DEF TypeResync, Proceeds
  <1>14. CASE Resynced
    BY <1>2, <1>14 DEF Resynced, Conclude, Proceeds
  <1>15. CASE PasteThrows
    BY <1>2, <1>15 DEF PasteThrows, Proceeds
  <1> QED BY <1>3, <1>4, <1>5, <1>6, <1>7, <1>8, <1>9, <1>10, <1>11, <1>12, <1>13, <1>14,
             <1>15 DEF PageStep

\* What is neither the page's nor a beginning leaves the page as it is.
LEMMA OthersStay ==
    ASSUME [Next]_vars, ~Starts, ~(PageStep \/ GiveUp \/ PasteThrows)
    PROVE  UNCHANGED <<busy, pc, op, opNo, fin>>
  BY DEF Next, Starts, MonitorRuns, Deliver, MonitorHangs, LoseReply, ProgramSetsPasteMode,
         UserPresses, vars, opVars

LEMMA LatchedInit == Init => Latched /\ Numbered
  <1> SUFFICES ASSUME Init PROVE Latched /\ Numbered
    OBVIOUS
  <1>1. busy = FALSE /\ pc = "idle"
    BY DEF Init
  <1>2. opNo \in 0..MaxOps
    BY CheckpointAssumption DEF Init
  <1> QED BY <1>1, <1>2, Zenon DEF Latched, Numbered

LEMMA LatchedNext == Latched /\ Numbered /\ [Next]_vars => Latched' /\ Numbered'
  <1> SUFFICES ASSUME Latched, Numbered, [Next]_vars PROVE Latched' /\ Numbered'
    OBVIOUS
  <1>1. CASE Starts
    <2>1. busy' = TRUE /\ pc' # "idle"
      BY <1>1 DEF Starts, CheckpointStart, RollbackStart
    <2>2. opNo' \in 0..MaxOps /\ opNo' # 0
      BY <1>1, CheckpointAssumption DEF Starts, CheckpointStart, RollbackStart, Numbered
    <2> QED BY <2>1, <2>2, Zenon DEF Latched, Numbered
  <1>2. CASE PageStep \/ GiveUp \/ PasteThrows
    BY <1>2, PageProceeds, Zenon DEF Proceeds, Latched, Numbered
  <1>3. CASE UNCHANGED <<busy, pc, op, opNo, fin>>
    <2>1. busy' = busy /\ pc' = pc /\ opNo' = opNo
      BY <1>3
    <2> QED BY <2>1, Zenon DEF Latched, Numbered
  <1> QED BY <1>1, <1>2, <1>3, OthersStay

\* An operation that begins finds the console free.
LEMMA StartTakes == ASSUME Latched, Numbered, Starts PROVE C!Next
  <1> DEFINE c == opNo + 1
  <1>1. opNo \in Nat /\ MaxOps \in Nat /\ opNo < MaxOps /\ opNo' = c
    BY CheckpointAssumption DEF Numbered, Starts, CheckpointStart, RollbackStart
  <1>2. c \in 1..MaxOps /\ stages[c] = "idle"
    BY <1>1 DEF stages, StageOf
  <1>3. ~busy /\ Stage = "over"
    BY DEF Starts, CheckpointStart, RollbackStart, Stage
  <1>4. stages' = [stages EXCEPT ![c] = Stage']
    <2>1. \A n \in 1..MaxOps : StageOf(n)' = IF n = c THEN Stage' ELSE StageOf(n)
      BY <1>1, <1>3 DEF StageOf
    <2> QED BY <2>1 DEF stages
  <1>5. C!Free
    BY <1>1, <1>3 DEF C!Free, C!InUse, StageOf
  <1>6. Stage' \in {"ask", "work"}
    BY DEF Starts, CheckpointStart, RollbackStart, Stage
  <1> QED BY <1>2, <1>4, <1>5, <1>6 DEF C!Next, C!Take, C!Comes, stages

\* What a stage may be followed by.
Follows == [ask |-> {"ask", "work", "leave", "over"}, work |-> {"work", "leave", "over"},
            leave |-> {"leave", "over"}, over |-> {"over"}]

\* A step of the running operation is one of Console's, or none.
LEMMA StageSteps ==
    ASSUME Numbered, UNCHANGED opNo, busy, Stage \in DOMAIN Follows, Stage' \in Follows[Stage]
    PROVE  C!Next \/ stages' = stages
  <1>1. opNo \in 1..MaxOps
    BY CheckpointAssumption DEF Numbered
  <1>2. stages[opNo] = Stage
    BY <1>1 DEF stages, StageOf
  <1>3. stages' = [stages EXCEPT ![opNo] = Stage']
    <2>1. \A n \in 1..MaxOps : StageOf(n)' = IF n = opNo THEN Stage' ELSE StageOf(n)
      BY <1>1 DEF StageOf
    <2> QED BY <2>1 DEF stages
  <1>4. Stage' = Stage => stages' = stages
    BY <1>1, <1>2, <1>3 DEF stages
  <1>5. Stage = "over" => Stage' = Stage
    BY DEF Follows
  <1>6. Stage = "ask" /\ Stage' # Stage => C!Next
    <2>1. Stage = "ask" /\ Stage' # Stage => Stage' \in {"work", "leave", "over"}
      BY DEF Follows
    <2> QED BY <1>1, <1>2, <1>3, <2>1 DEF C!Next, C!Asked, C!Comes, stages
  <1>7. Stage = "work" /\ Stage' # Stage => C!Next
    <2>1. Stage = "work" /\ Stage' # Stage => Stage' \in {"leave", "over"}
      BY DEF Follows
    <2> QED BY <1>1, <1>2, <1>3, <2>1 DEF C!Next, C!Worked, C!Comes, stages
  <1>8. Stage = "leave" /\ Stage' # Stage => C!Next
    <2>1. Stage = "leave" /\ Stage' # Stage => Stage' \in {"over"}
      BY DEF Follows
    <2> QED BY <1>1, <1>2, <1>3, <2>1 DEF C!Next, C!HandBack, C!Comes, stages
  <1> QED BY <1>4, <1>5, <1>6, <1>7, <1>8 DEF Follows

LEMMA ConsoleNext == Latched /\ Numbered /\ [Next]_vars => [C!Next]_stages
  <1> SUFFICES ASSUME Latched, Numbered, [Next]_vars PROVE C!Next \/ stages' = stages
    OBVIOUS
  <1>1. CASE Starts
    BY <1>1, StartTakes
  <1>2. CASE PageStep \/ GiveUp \/ PasteThrows
    <2>1. Proceeds
      BY <1>2, PageProceeds
    <2>2. Stage \in {"ask", "work", "leave"}
      BY <2>1 DEF Proceeds, Stage
    <2>3. Stage' \in Follows[Stage]
      BY <2>1 DEF Proceeds, Stage, Follows
    <2> QED BY <2>1, <2>2, <2>3, StageSteps DEF Proceeds, Follows
  <1>3. CASE UNCHANGED <<busy, pc, op, opNo, fin>>
    BY <1>3 DEF stages, StageOf, Stage
  <1> QED BY <1>1, <1>2, <1>3, OthersStay

LEMMA ConsoleInit == Init => C!Init
  <1> SUFFICES ASSUME Init PROVE stages = [n \in 1..MaxOps |-> "idle"]
    BY DEF C!Init, stages
  <1>1. opNo = 0 /\ MaxOps \in Nat
    BY CheckpointAssumption DEF Init
  <1> QED BY <1>1 DEF stages, StageOf

\* Checkpoints and rollbacks use the console as Console has it: the safety part of
\* UsesConsole.
THEOREM OperationsShareConsole == Spec => C!Spec
  <1>1. [C!Next]_stages => [C!Next]_[n \in 1..MaxOps |-> StageOf(n)]
    BY DEF stages
  <1> QED BY LatchedInit, LatchedNext, ConsoleInit, ConsoleNext, <1>1, PTL DEF Spec, C!Spec
-----------------------------------------------------------------------------
(***************************************************************************)
(* The monitor.  All but the last of these rest on one argument: while no  *)
(* answer comes after the page has given up on it, an answer on its way is *)
(* the answer to the command the page is waiting for.                      *)
(***************************************************************************)
\* A fault raises its own counter by one.
LEMMA FaultSpends ==
    ASSUME TypeOK, NEW k \in FaultKinds, Fault(k)
    PROVE  /\ spent[k] \in Nat /\ spent'[k] = spent[k] + 1
           /\ \A j \in FaultKinds \ {k} : spent'[j] = spent[j]
  BY DEF TypeOK, QueuesTypeOK, Fault

\* Without a late answer, the page goes on unheard only when nothing will come.
LEMMA UnheardSpends ==
    ASSUME TypeOK, Unheard
    PROVE  /\ spent'["throw"] = spent["throw"] /\ spent'["race"] = spent["race"]
           /\ Punctual' => Punctual /\ Silent
<1>1. CASE Fault("late")
  BY <1>1, FaultSpends DEF FaultKinds, Punctual
<1>2. CASE Silent /\ UNCHANGED spent
  BY <1>2 DEF Punctual
<1> QED BY <1>1, <1>2 DEF Unheard

\* Faults are never forgotten, and only a paste that throws counts as one.
LEMMA SpentGrows ==
    ASSUME TypeOK, [Next]_vars
    PROVE  /\ Punctual' => Punctual
           /\ spent'["race"] = 0 => spent["race"] = 0
           /\ spent["throw"] \in Nat
           /\ PasteThrows => spent'["throw"] = spent["throw"] + 1
           /\ PasteThrows \/ spent'["throw"] = spent["throw"]
<1>t. /\ "throw" \in FaultKinds /\ "late" \in FaultKinds /\ "lost" \in FaultKinds
      /\ "hang" \in FaultKinds /\ "race" \in FaultKinds
  BY DEF FaultKinds
<1>n. spent["throw"] \in Nat /\ spent["race"] \in Nat
  BY <1>t DEF TypeOK, QueuesTypeOK
<1>1. CASE UNCHANGED spent
  <2>1. ~PasteThrows
    BY <1>1, <1>t, FaultSpends DEF PasteThrows
  <2> QED BY <1>1, <1>n, <2>1 DEF Punctual
<1>2. CASE Unheard /\ ~PasteThrows
  BY <1>2, <1>n, UnheardSpends
<1>3. CASE PasteThrows
  <2>1. /\ spent'["throw"] = spent["throw"] + 1
        /\ spent'["late"] = spent["late"] /\ spent'["race"] = spent["race"]
    BY <1>3, <1>t, FaultSpends DEF PasteThrows
  <2> QED BY <1>3, <1>n, <2>1 DEF Punctual
<1>4. CASE (MonitorHangs \/ LoseReply) /\ ~PasteThrows
  <2>1. /\ spent'["throw"] = spent["throw"]
        /\ spent'["late"] = spent["late"] /\ spent'["race"] = spent["race"]
    BY <1>4, <1>t, FaultSpends DEF MonitorHangs, LoseReply
  <2> QED BY <1>4, <1>n, <2>1 DEF Punctual
<1>5. CASE Fault("race") /\ ~PasteThrows
  <2>1. /\ spent'["throw"] = spent["throw"]
        /\ spent'["late"] = spent["late"] /\ spent'["race"] = spent["race"] + 1
    BY <1>5, <1>t, FaultSpends
  <2> QED BY <1>5, <1>n, <2>1 DEF Punctual
<1>6. UNCHANGED spent \/ Unheard \/ PasteThrows \/ MonitorHangs \/ LoseReply \/ Fault("race")
  BY DEF Next, PageStep, CheckpointStart, RollbackStart, AskForPrompt, PromptCame, NoPrompt,
         ResetPaste, SwitchIn, SwitchOut, SendCommand, Leave, Answered, TypeResync, Resynced,
         GiveUp, MonitorRuns, Deliver, ProgramSetsPasteMode, UserPresses, vars
<1> QED BY <1>1, <1>2, <1>3, <1>4, <1>5, <1>6

\* A program that sets bracketed paste costs no other fault.
LEMMA ProgramSpends ==
    ASSUME TypeOK, ProgramSetsPasteMode
    PROVE  \A k \in {"throw", "late", "lost"} : spent'[k] = spent[k]
<1>1. CASE Fault("race")
  BY <1>1, FaultSpends DEF FaultKinds
<1> QED BY <1>1 DEF ProgramSetsPasteMode

-----------------------------------------------------------------------------
(***************************************************************************)
(* Where the page types.  The finally block only ever sends cont, and with *)
(* at most one paste that throws the count is even outside the monitor's   *)
(* part and odd inside.                                                    *)
(***************************************************************************)
FinPcs == {"idle", "leave", "send", "wait", "muxback", "backtype"}

TurnInv ==
    /\ fin => pc \in FinPcs
    /\ fin /\ pc \in {"send", "wait"} => cmd = "cont"
    /\ OneThrow =>
         /\ pc \in {"idle", "ask", "ensure", "mux", "muxtype"} => switches = 0
         /\ pc \in {"send", "wait"} => switches = 1
         /\ fin /\ switches = 1 => outcome = "thrown" /\ spent["throw"] = 1

LEMMA TurnStep ==
    ASSUME TypeOK, Latched, PlaceInv, TurnInv, [Next]_vars
    PROVE  TurnInv'
<1>t. /\ spent["throw"] \in Nat
      /\ PasteThrows => spent'["throw"] = spent["throw"] + 1
      /\ PasteThrows \/ spent'["throw"] = spent["throw"]
  BY SpentGrows
<1>s. switches \in {0, 1}
  BY DEF TypeOK, ValuesTypeOK
<1> USE <1>t, <1>s DEF TurnInv, FinPcs, OneThrow, opVars, flags
<1>1. CASE CheckpointStart
  <2>1. spent'["throw"] = spent["throw"] /\ pc = "idle"
    BY <1>1, UnheardSpends DEF CheckpointStart, Latched
  <2> QED BY <1>1, <2>1 DEF CheckpointStart
<1>2. CASE RollbackStart
  <2>1. spent'["throw"] = spent["throw"] /\ pc = "idle"
    BY <1>2, UnheardSpends DEF RollbackStart, Latched
  <2> QED BY <1>2, <2>1 DEF RollbackStart
<1>3. CASE AskForPrompt
  BY <1>3 DEF AskForPrompt
<1>4. CASE PromptCame
  BY <1>4 DEF PromptCame
<1>5. CASE NoPrompt
  BY <1>5 DEF NoPrompt, Conclude
<1>6. CASE ResetPaste
  BY <1>6 DEF ResetPaste
<1>7. CASE SwitchIn
  <2>1. switches' = 1 - switches /\ UNCHANGED <<fin, outcome, spent>>
    BY <1>7 DEF SwitchIn, TypeSwitch
  <2>2. ~fin
    BY <1>7 DEF SwitchIn
  <2>3. \/ pc' = "muxwait" /\ switches = 0
        \/ pc' = "send" /\ switches = 1
    BY <1>7 DEF SwitchIn
  <2>4. OneThrow => switches = 0
    BY <1>7 DEF SwitchIn
  <2> QED BY <2>1, <2>2, <2>3, <2>4
<1>8. CASE SwitchOut
  <2>1. switches' = 0 /\ UNCHANGED spent
    BY <1>8 DEF SwitchOut, TypeSwitch, PlaceInv
  <2>2. \/ pc' = "idle"
        \/ pc' = "leave"
        \/ pc' \in {"sync", "ask"} /\ ~fin'
    BY <1>8 DEF SwitchOut, AfterLeave, Conclude
  <2> QED BY <2>1, <2>2
<1>9. CASE SendCommand
  BY <1>9 DEF SendCommand
<1>10. CASE Leave
  <2>1. CASE switches = 0
    <3>1. \/ pc' = "idle"
          \/ pc' = "leave"
          \/ pc' \in {"sync", "ask"} /\ ~fin'
      BY <1>10, <2>1 DEF Leave, AfterLeave, Conclude
    <3> QED BY <1>10, <2>1, <3>1 DEF Leave
  <2>2. CASE switches = 1
    BY <1>10, <2>2 DEF Leave
  <2> QED BY <2>1, <2>2
<1>11. ASSUME NEW ok, spent'["throw"] = spent["throw"],
              (pc = "wait" /\ RunSettled(ok)) \/ (pc = "muxwait" /\ MuxSettled(ok))
       PROVE  TurnInv'
  <2>1. UNCHANGED <<fin, outcome, switches>>
    BY <1>11, SettledLeads
  <2>2. \/ pc' = "leave"
        \/ pc' = "send" /\ ~fin /\ (OneThrow => switches = 1)
        \/ pc' = "muxback"
    <3>1. CASE pc = "wait" /\ RunSettled(ok) /\ cmd = "cont"
      BY <3>1 DEF RunSettled, ContSettled
    <3>2. CASE pc = "wait" /\ cmd # "cont"
      BY <1>11, <3>2, SettledLeads
    <3>3. CASE pc = "muxwait"
      BY <1>11, <3>3, SettledLeads DEF PlaceInv
    <3> QED BY <1>11, <3>1, <3>2, <3>3
  <2> QED BY <1>11, <2>1, <2>2
<1>12. CASE Answered
  <2>1. spent'["throw"] = spent["throw"]
    BY <1>12 DEF Answered
  <2> QED BY <1>12, <2>1, <1>11, AnsweredSettles
<1>13. CASE GiveUp
  <2>1. spent'["throw"] = spent["throw"]
    BY <1>13, UnheardSpends DEF GiveUp
  <2> QED BY <1>13, <2>1, <1>11, GiveUpSettles
<1>14. CASE TypeResync
  BY <1>14 DEF TypeResync
<1>15. CASE Resynced
  BY <1>15 DEF Resynced, Conclude, PlaceInv
<1>16. CASE PasteThrows
  <2>1. UNCHANGED switches /\ fin' = TRUE /\ outcome' = "thrown" /\ pc' \in {"idle", "leave"}
    BY <1>16 DEF PasteThrows
  <2>2. ~fin => pc' = "leave"
    BY <1>16 DEF PasteThrows
  <2>3. fin /\ OneThrow => switches = 1
    BY <1>16 DEF PasteThrows, PastePcs, PlaceInv
  <2> QED BY <1>16, <2>1, <2>2, <2>3
<1>17. CASE MonitorRuns
  BY <1>17 DEF MonitorRuns
<1>18. CASE Deliver
  BY <1>18 DEF Deliver
<1>19. ASSUME UNCHANGED <<pc, cmd, fin, outcome, switches>>, spent'["throw"] = spent["throw"]
       PROVE  TurnInv'
  BY <1>19
<1>20. CASE MonitorHangs
  <2>1. spent'["throw"] = spent["throw"]
    BY <1>20, FaultSpends DEF MonitorHangs, FaultKinds
  <2> QED BY <1>19, <1>20, <2>1 DEF MonitorHangs
<1>21. CASE LoseReply
  <2>1. spent'["throw"] = spent["throw"]
    BY <1>21, FaultSpends DEF LoseReply, FaultKinds
  <2> QED BY <1>19, <1>21, <2>1 DEF LoseReply
<1>22. CASE ProgramSetsPasteMode
  BY <1>19, <1>22, ProgramSpends DEF ProgramSetsPasteMode
<1>23. ASSUME NEW key \in {"ctrlA", "c", "other"}, UserPresses(key)
       PROVE  TurnInv'
  BY <1>19, <1>23 DEF UserPresses
<1>24. CASE UNCHANGED vars
  BY <1>19, <1>24 DEF vars
<1> QED
  BY <1>1, <1>2, <1>3, <1>4, <1>5, <1>6, <1>7, <1>8, <1>9, <1>10, <1>12, <1>13, <1>14,
     <1>15, <1>16, <1>17, <1>18, <1>20, <1>21, <1>22, <1>23, <1>24 DEF Next, PageStep

LEMMA LatchInvariant == Spec => [](Latched /\ Numbered)
  BY LatchedInit, LatchedNext, PTL DEF Spec

LEMMA TurnInvariant == Spec => []TurnInv
<1>1. Init => TurnInv
  BY DEF Init, TurnInv, FinPcs
<1>2. TypeOK /\ Latched /\ PlaceInv /\ TurnInv /\ [Next]_vars => TurnInv'
  BY TurnStep
<1> QED BY <1>1, <1>2, TypeCorrect, LatchInvariant, PlaceInvariant, PTL DEF Spec

-----------------------------------------------------------------------------
(***************************************************************************)
(* Held keys.  mux() leaves its own Ctrl-A held only where a paste of it   *)
(* throws, and the next keys are then those of another mux(), of           *)
(* ensureShell() or of the cont of the finally block.  That one is typed   *)
(* only if the operation had sent one before, unanswered.                  *)
(***************************************************************************)
\* What mux() throws at is followed by no cont.
Resumed == spent["throw"] <= 2 /\ (unresumed => spent["throw"] = 0)

HeldInv ==
    /\ pc \in {"wait", "muxwait"} => ~held
    /\ pc = "ensure" /\ switches = 1 => ~held
    /\ ~fin /\ pc \in {"send", "leave"} => ~held
    /\ ~fin /\ pc = "leave" => ~kbd
    /\ pc \in {"send", "wait"} /\ cmd = "cont" => ~unanswered
    /\ pc \in {"muxback", "backtype"} => ~unanswered
    /\ pc \in {"muxback", "backtype"} /\ paused /\ resumable => unresumed
    /\ Resumed /\ held /\ switches = 1 =>
         /\ pc # "send"
         /\ pc = "leave" => ~unanswered /\ ~(paused /\ resumable)

\* Typing all four keys of mux() leaves nothing held, bracketed or not.
LEMMA FullyTypedReleases ==
    ASSUME TypeOK
    PROVE  Typed(4).held = FALSE
<1>1. CASE bracketed
  <2>1. 4 # 0
    OBVIOUS
  <2> QED
    BY <1>1, <2>1, Zenon DEF Typed
<1>2. CASE ~bracketed
  BY <1>2 DEF Typed, SwitchKeys, MuxKey, TypeOK, FlagsTypeOK
<1> QED
  BY <1>1, <1>2

\* The excuses of Resumed do not come back.
LEMMA ResumedStays ==
    ASSUME TypeOK, [Next]_vars, Resumed'
    PROVE  Resumed
<1>1. /\ spent["throw"] \in Nat
      /\ PasteThrows => spent'["throw"] = spent["throw"] + 1
      /\ PasteThrows \/ spent'["throw"] = spent["throw"]
  BY SpentGrows
<1>2. unresumed => unresumed'
  <2>1. CASE UNCHANGED unresumed
    BY <2>1
  <2>2. CASE \E ok \in BOOLEAN : RunSettled(ok)
    BY <2>2, Zenon DEF RunSettled
  <2>3. UNCHANGED unresumed \/ \E ok \in BOOLEAN : RunSettled(ok)
    <3>1. CASE Answered
      BY <3>1, AnsweredSettles, Zenon DEF MuxSettled
    <3>2. CASE GiveUp
      BY <3>2, GiveUpSettles, Zenon DEF MuxSettled
    <3> QED
      BY <3>1, <3>2 DEF Next, PageStep, CheckpointStart, RollbackStart, AskForPrompt, PromptCame,
         NoPrompt, ResetPaste, SwitchIn, SwitchOut, SendCommand, Leave, TypeResync, Resynced,
         PasteThrows, MonitorRuns, Deliver, MonitorHangs, LoseReply, ProgramSetsPasteMode,
         UserPresses, opVars, vars
  <2> QED
    BY <2>1, <2>2, <2>3
<1> QED
  BY <1>1, <1>2 DEF Resumed

LEMMA HeldStep ==
    ASSUME TypeOK, PlaceInv, TurnInv, HeldInv, [Next]_vars
    PROVE  HeldInv'
<1>t. /\ spent["throw"] \in Nat
      /\ PasteThrows => spent'["throw"] = spent["throw"] + 1
      /\ Resumed' => Resumed
  BY SpentGrows, ResumedStays
<1>s. switches \in {0, 1}
  BY DEF TypeOK, ValuesTypeOK
<1> USE <1>t, <1>s DEF HeldInv, opVars, flags, muxVars
<1>0. ASSUME UNCHANGED <<pc, cmd, fin, kbd, resumable, unresumed, switches, paused, unanswered, held>>
      PROVE  HeldInv'
  BY <1>0
<1>1. CASE CheckpointStart
  BY <1>1 DEF CheckpointStart
<1>2. CASE RollbackStart
  BY <1>2 DEF RollbackStart
<1>3. CASE AskForPrompt
  BY <1>3 DEF AskForPrompt
<1>4. CASE PromptCame
  BY <1>4 DEF PromptCame
<1>5. CASE NoPrompt
  BY <1>5 DEF NoPrompt, Conclude
<1>6. CASE ResetPaste
  BY <1>6 DEF ResetPaste
<1>7. CASE SwitchIn
  <2>1. held' = FALSE
    BY <1>7, FullyTypedReleases DEF SwitchIn, TypeSwitch
  <2>2. pc' = "muxwait" \/ (pc' = "send" /\ cmd' = "stop")
    BY <1>7 DEF SwitchIn
  <2> QED
    BY <2>1, <2>2
<1>8. CASE SwitchOut
  <2>1. held' = FALSE
    BY <1>8, FullyTypedReleases DEF SwitchOut, TypeSwitch
  <2>2. pc' \in {"idle", "sync", "leave", "ask"} /\ (pc' = "leave" => fin')
    BY <1>8 DEF SwitchOut, AfterLeave, Conclude
  <2> QED
    BY <2>1, <2>2
<1>9. CASE SendCommand
  <2>1. held' = FALSE
    BY <1>9, CommandGoes DEF SendCommand
  <2> QED
    BY <1>9, <2>1 DEF SendCommand
<1>10. CASE Leave
  <2>1. CASE switches = 0
    <3>1. pc' \in {"idle", "sync", "leave", "ask"} /\ switches' = 0
      BY <1>10, <2>1 DEF Leave, AfterLeave, Conclude
    <3>2. pc' = "leave" => fin'
      BY <1>10, <2>1 DEF Leave, AfterLeave, Conclude
    <3> QED
      BY <3>1, <3>2
  <2>2. CASE switches = 1
    <3>1. /\ UNCHANGED <<held, fin, paused, resumable, unresumed, switches>> /\ ~unanswered'
          /\ pc = "leave"
      BY <1>10, <2>2 DEF Leave
    <3>2. \/ pc' = "send" /\ cmd' = "cont" /\ (unanswered \/ paused) /\ resumable
          \/ pc' = "muxback" /\ ~((unanswered \/ paused) /\ resumable)
      BY <1>10, <2>2 DEF Leave
    <3> QED
      BY <3>1, <3>2
  <2> QED
    BY <2>1, <2>2
<1>11. ASSUME NEW ok, UNCHANGED <<held, kbd>>,
              (pc = "wait" /\ RunSettled(ok)) \/ (pc = "muxwait" /\ MuxSettled(ok))
       PROVE  HeldInv'
  <2>1. ~held' /\ ~kbd'
    BY <1>11 DEF PlaceInv, AwayPcs
  <2>2. CASE pc = "wait" /\ cmd = "cont" /\ RunSettled(ok)
    <3>1. /\ pc' = "muxback" /\ unanswered' = unanswered /\ paused' = (paused /\ ~ok)
          /\ unresumed' = (unresumed \/ ~ok)
      BY <2>2 DEF RunSettled, ContSettled
    <3> QED
      BY <2>1, <2>2, <3>1
  <2>3. CASE pc' = "leave" \/ (pc' = "send" /\ cmd' # "cont")
    BY <2>1, <2>3
  <2> QED
    BY <1>11, <2>2, <2>3, SettledLeads
<1>12. CASE Answered
  <2>1. UNCHANGED <<held, kbd>>
    BY <1>12 DEF Answered
  <2> QED
    BY <1>12, <2>1, <1>11, AnsweredSettles
<1>13. CASE GiveUp
  <2>1. UNCHANGED <<held, kbd>>
    BY <1>13 DEF GiveUp
  <2> QED
    BY <1>13, <2>1, <1>11, GiveUpSettles
<1>14. CASE TypeResync
  BY <1>14 DEF TypeResync
<1>15. CASE Resynced
  BY <1>15 DEF Resynced, Conclude, PlaceInv
<1>16. CASE PasteThrows
  <2>1. /\ pc \in PastePcs /\ fin' = TRUE /\ pc' = (IF fin THEN "idle" ELSE "leave")
        /\ UNCHANGED <<switches, paused, resumable, unresumed>>
        /\ unanswered' = (unanswered \/ (pc = "send" /\ cmd = "stop"))
    BY <1>16 DEF PasteThrows
  <2>2. CASE pc \in {"ask", "mux", "muxtype"}
    <3>1. switches = 0 \/ spent'["throw"] > 2
      BY <1>16, <2>2 DEF TurnInv, OneThrow
    <3>2. switches' = 0 \/ ~Resumed'
      BY <1>16, <2>1, <3>1 DEF Resumed
    <3>3. pc' \in {"idle", "leave"} /\ fin'
      BY <2>1
    <3> QED
      BY <3>2, <3>3
  <2>3. CASE pc = "send"
    <3>1. held' = held
      BY <1>16, <2>3 DEF PasteThrows
    <3> QED
      BY <2>1, <2>3, <3>1
  <2>4. CASE pc \in {"muxback", "backtype"}
    <3>2. spent'["throw"] # 0
      BY <1>16
    <3>3. Resumed' => ~unresumed
      BY <2>1, <3>2 DEF Resumed
    <3>1. ~unanswered' /\ (Resumed' => ~(paused' /\ resumable'))
      BY <2>1, <2>4, <3>3
    <3> QED
      BY <2>1, <3>1
  <2>5. CASE pc = "sync"
    BY <2>1, <2>5 DEF PlaceInv
  <2> QED
    BY <2>1, <2>2, <2>3, <2>4, <2>5 DEF PastePcs
<1>17. CASE MonitorRuns
  BY <1>0, <1>17 DEF MonitorRuns
<1>18. CASE Deliver
  BY <1>0, <1>18 DEF Deliver
<1>19. CASE MonitorHangs
  BY <1>0, <1>19 DEF MonitorHangs
<1>20. CASE LoseReply
  BY <1>0, <1>20 DEF LoseReply
<1>21. CASE ProgramSetsPasteMode
  BY <1>0, <1>21 DEF ProgramSetsPasteMode
<1>22. ASSUME NEW key \in {"ctrlA", "c", "other"}, UserPresses(key)
       PROVE  HeldInv'
  <2>1. /\ kbd /\ switches = 0 /\ pc \notin {"wait", "muxwait", "send", "muxback", "backtype"}
    BY <1>22 DEF UserPresses, PlaceInv, AwayPcs
  <2>2. UNCHANGED <<pc, cmd, fin, resumable, unresumed, switches, paused, unanswered>>
    BY <1>22 DEF UserPresses
  <2>3. pc = "leave" => fin
    BY <2>1
  <2>4. kbd' = kbd
    BY <1>22 DEF UserPresses
  <2> QED
    BY <2>1, <2>2, <2>3, <2>4
<1>23. CASE UNCHANGED vars
  BY <1>0, <1>23 DEF vars
<1> QED
  BY <1>1, <1>2, <1>3, <1>4, <1>5, <1>6, <1>7, <1>8, <1>9, <1>10, <1>12, <1>13, <1>14,
     <1>15, <1>16, <1>17, <1>18, <1>19, <1>20, <1>21, <1>22, <1>23 DEF Next, PageStep

LEMMA HeldInvariant == Spec => []HeldInv
<1>1. Init => HeldInv
  BY DEF Init, HeldInv
<1>2. TypeOK /\ PlaceInv /\ TurnInv /\ HeldInv /\ [Next]_vars => HeldInv'
  BY HeldStep
<1> QED
  BY <1>1, <1>2, TypeCorrect, PlaceInvariant, TurnInvariant, PTL DEF Spec

\* While nothing of Undisturbed's has gone wrong no cont meets a held Ctrl-A.
LEMMA NoContHeld ==
    ASSUME PlaceInv, HeldInv, Resumed, pc = "send", cmd = "cont"
    PROVE  ~held
  BY DEF PlaceInv, HeldInv

-----------------------------------------------------------------------------
(***************************************************************************)
(* The mux.  MuxWhereFound is not inductive: the two switches of mux() only *)
(* switch while paste is not bracketed, no command of run() may, and       *)
(* focus() is only right if the count is even by then, which the place in  *)
(* the operation decides.                                                  *)
(***************************************************************************)
NoRace == spent["race"] = 0

MuxInv ==
    /\ NoRace /\ Resumed => side = (IF switches = 0 THEN home ELSE Other(home))
    /\ NoRace /\ pc \in {"muxtype", "backtype"} => ~bracketed

\* The first three pastes of mux() never switch, whatever Ctrl-A the user left
\* held and whether or not paste is bracketed.
LEMMA HalfTypedStays ==
    ASSUME TypeOK, NEW n \in 0..3
    PROVE  Typed(n).side = side
  BY DEF Typed, SwitchKeys, MuxKey

\* All four pastes switch, unless paste is bracketed.
LEMMA FullyTypedSwitches ==
    ASSUME TypeOK, ~bracketed
    PROVE  Typed(4).side = Other(side)
  BY DEF Typed, SwitchKeys, MuxKey, TypeOK, FlagsTypeOK

\* There are two sides: leaving the other side is coming back.
LEMMA OtherOther ==
    ASSUME NEW s \in Sides
    PROVE  Other(Other(s)) = s /\ Other(s) # s
  BY DEF Sides, Other

\* The count and the mux agree.
Agree == side = (IF switches = 0 THEN home ELSE Other(home))

\* One full mux() keeps the count the truth about the mux.
LEMMA SwitchKeepsCount ==
    ASSUME TypeOK, MuxInv, NoRace, Agree, MayType, TypeSwitch
    PROVE  Agree'
<1>1. ~bracketed
  BY DEF MayType, MuxInv
<1>2. side' = Other(side) /\ switches' = 1 - switches /\ home' = home
  BY <1>1, FullyTypedSwitches DEF TypeSwitch
<1>3. CASE switches = 0
  BY <1>2, <1>3 DEF Agree
<1>4. CASE switches = 1
  BY <1>2, <1>4, OtherOther DEF Agree, TypeOK, ValuesTypeOK
<1> QED
  BY <1>3, <1>4 DEF TypeOK, ValuesTypeOK

\* MuxInv is inductive.
LEMMA MuxStep ==
    ASSUME TypeOK, PlaceInv, HeldInv, MuxInv, [Next]_vars
    PROVE  MuxInv'
<1> DEFINE Plain == pc \in {"muxtype", "backtype"} => ~bracketed
<1>r. (NoRace' => NoRace) /\ (Resumed' => Resumed)
  BY SpentGrows, ResumedStays DEF NoRace
<1> SUFFICES ASSUME NoRace'
             PROVE  (Resumed' => Agree') /\ Plain'
  BY DEF MuxInv, Agree
<1>i. NoRace /\ (Resumed => Agree) /\ Plain
  BY <1>r DEF MuxInv, Agree
<1>0. ASSUME UNCHANGED <<side, home, switches>> PROVE Resumed' => Agree'
  BY <1>0, <1>i, <1>r DEF Agree
<1> USE <1>i, <1>r DEF opVars, flags, muxVars
<1>1. CASE CheckpointStart
  BY <1>0, <1>1 DEF CheckpointStart
<1>2. CASE RollbackStart
  BY <1>0, <1>2 DEF RollbackStart
<1>3. CASE AskForPrompt
  BY <1>0, <1>3 DEF AskForPrompt
<1>4. CASE PromptCame
  BY <1>0, <1>4 DEF PromptCame
<1>5. CASE NoPrompt
  BY <1>0, <1>5 DEF NoPrompt, Conclude
<1>6. CASE ResetPaste
  BY <1>0, <1>6 DEF ResetPaste
<1>7. CASE SwitchIn
  <2>1. Resumed' => Agree'
    BY <1>7, SwitchKeepsCount DEF SwitchIn
  <2>2. pc' = "muxwait" \/ pc' = "send"
    BY <1>7 DEF SwitchIn
  <2> QED
    BY <2>1, <2>2
<1>8. CASE SwitchOut
  <2>1. Resumed' => Agree'
    BY <1>8, SwitchKeepsCount DEF SwitchOut
  <2>2. pc' \in {"idle", "sync", "leave", "ask"}
    BY <1>8 DEF SwitchOut, AfterLeave, Conclude
  <2> QED
    BY <2>1, <2>2
<1>9. CASE SendCommand
  <2>1. Resumed => side' = side
    BY <1>9, CommandGoes, NoContHeld DEF SendCommand
  <2>2. UNCHANGED <<home, switches>> /\ pc' = "wait"
    BY <1>9, CommandGoes DEF SendCommand
  <2> QED
    BY <1>0, <2>1, <2>2
<1>10. CASE Leave
  <2>1. pc' \in {"idle", "sync", "leave", "ask", "send", "muxback"}
    BY <1>10 DEF Leave, AfterLeave, Conclude
  <2> QED
    BY <1>0, <1>10, <2>1 DEF Leave
<1>11. ASSUME NEW ok, UNCHANGED muxVars,
              (pc = "wait" /\ RunSettled(ok)) \/ (pc = "muxwait" /\ MuxSettled(ok))
       PROVE  (Resumed' => Agree') /\ Plain'
  BY <1>0, <1>11, SettledLeads
<1>12. CASE Answered
  <2>1. UNCHANGED muxVars
    BY <1>12 DEF Answered
  <2> QED
    BY <1>12, <2>1, <1>11, AnsweredSettles
<1>13. CASE GiveUp
  <2>1. UNCHANGED muxVars
    BY <1>13 DEF GiveUp
  <2> QED
    BY <1>13, <2>1, <1>11, GiveUpSettles
<1>14. CASE TypeResync
  BY <1>0, <1>14 DEF TypeResync
<1>15. CASE Resynced
  BY <1>0, <1>15 DEF Resynced, Conclude
<1>16. CASE PasteThrows
  <2>1. side' = side
    BY <1>16, HalfTypedStays DEF PasteThrows
  <2> QED
    BY <1>0, <1>16, <2>1 DEF PasteThrows
<1>17. CASE MonitorRuns
  BY <1>0, <1>17 DEF MonitorRuns
<1>18. CASE Deliver
  BY <1>0, <1>18 DEF Deliver
<1>19. CASE MonitorHangs
  BY <1>0, <1>19 DEF MonitorHangs
<1>20. CASE LoseReply
  BY <1>0, <1>20 DEF LoseReply
<1>21. CASE ProgramSetsPasteMode
  <2>1. pc \notin {"muxtype", "backtype"}
    <3>1. ASSUME Fault("race") PROVE FALSE
      BY <3>1, FaultSpends DEF FaultKinds, NoRace
    <3> QED
      BY <1>21, <3>1 DEF ProgramSetsPasteMode
  <2> QED
    BY <1>0, <1>21, <2>1 DEF ProgramSetsPasteMode
<1>22. ASSUME NEW key \in {"ctrlA", "c", "other"}, UserPresses(key)
       PROVE  (Resumed' => Agree') /\ Plain'
  <2>1. switches = 0 /\ kbd /\ switches' = 0
    BY <1>22 DEF UserPresses, PlaceInv
  <2>2. side' = side \/ side' = Other(side)
    BY <1>22 DEF UserPresses, MuxKey
  <2>3. side = home => side' = home'
    BY <1>22, <2>2, OtherOther DEF UserPresses, TypeOK, ValuesTypeOK
  <2> QED
    BY <1>22, <2>1, <2>3 DEF UserPresses, Agree
<1>23. CASE UNCHANGED vars
  BY <1>0, <1>23 DEF vars
<1> QED
  BY <1>1, <1>2, <1>3, <1>4, <1>5, <1>6, <1>7, <1>8, <1>9, <1>10, <1>12, <1>13, <1>14,
     <1>15, <1>16, <1>17, <1>18, <1>19, <1>20, <1>21, <1>22, <1>23 DEF Next, PageStep

LEMMA MuxInvariant == Spec => []MuxInv
<1>1. Init => MuxInv
  BY DEF Init, MuxInv
<1>2. TypeOK /\ PlaceInv /\ HeldInv /\ MuxInv /\ [Next]_vars => MuxInv'
  BY MuxStep
<1> QED
  BY <1>1, <1>2, TypeCorrect, PlaceInvariant, HeldInvariant, PTL DEF Spec

\* For any number of operations and keys, and any faults but the two of Undisturbed: the
\* parity of switches in serialfs.js says which side of the mux the page is on.
THEOREM MuxIsWhereFound == Spec => []MuxWhereFound
<1>1. MuxInv => MuxWhereFound
  BY DEF MuxInv, NoRace, Resumed, MuxWhereFound, Undisturbed
<1> QED
  BY <1>1, MuxInvariant, PTL

\* Under the same proviso no key of the user reaches the mux between blur() and
\* focus() while it is not where the user left it.
THEOREM KeyboardIsGuarded == Spec => []KeyboardGuarded
<1>1. MuxInv /\ PlaceInv => KeyboardGuarded
  BY DEF MuxInv, PlaceInv, NoRace, Resumed, KeyboardGuarded, Undisturbed
<1> QED
  BY <1>1, MuxInvariant, PlaceInvariant, PTL

\* For any number of operations, one paste that throws and any other faults but those of
\* Undisturbed: what run() types reaches the monitor and the two lines of ensureShell()
\* and resync() reach the serial side.
THEOREM TypesAtRightSide == Spec => []TypedAtRightSide
<1>1. MuxWhereFound /\ PlaceInv /\ TurnInv => TypedAtRightSide
  BY DEF MuxWhereFound, PlaceInv, TurnInv, TypedAtRightSide, Other
<1> QED BY <1>1, MuxIsWhereFound, PlaceInvariant, TurnInvariant, PTL
-----------------------------------------------------------------------------
(***************************************************************************)
(* Whose answer it is.  While no answer comes late, the page sends when    *)
(* nothing is under way, so at most one command or its reply is, and what  *)
(* a clean reply says has been done.  (A page that two pastes failed goes  *)
(* through the monitor's part with an even count: there none of this is    *)
(* claimed but that the commands are this operation's.  And where the cont *)
(* of the finally block meets a held Ctrl-A, what the monitor prints is    *)
(* no answer to it: from there on it will run no command.)                 *)
(***************************************************************************)
Calm == inq = <<>> \/ hung

\* The monitor has nothing to run that it knows.
Quiet == hung \/ \A i \in 1..Len(inq) : inq[i].cmd = "unknown"

\* Where nothing may be under way.
Between ==
    \/ pc \in {"mux", "muxtype"}
    \/ pc \in {"ask", "ensure"} /\ op = "ckpt"
    \/ pc \in {"send", "leave"} /\ switches = 1
    \/ pc \in {"muxback", "backtype"} /\ ~fin /\ switches = 1

\* A reply without an error, and one that lists a snapshot, read or on its way.
Clean  == (got.seen /\ ~got.err) \/ (out # <<>> /\ ~out[1].err)
Listed == got.row \/ (out # <<>> /\ out[1].row)

OneReply == /\ Len(out) <= 1
            /\ got.seen => out = <<>>

OneAnswer ==
    /\ OneReply
    /\ Calm \/ (inq = <<[cmd |-> cmd, op |-> opNo]>> /\ out = <<>> /\ ~got.seen)

\* What the reply to cmd says has been done.
Done ==
    /\ cmd = "layer"  /\ Clean  => layer
    /\ cmd = "savevm" /\ Clean  => slot = opNo
    /\ cmd = "info"   /\ Listed => slot # 0
    /\ cmd = "loadvm" /\ Clean  => loadedBy = opNo /\ damagedBy = 0

OwnCommands == ~hung => \A i \in 1..Len(inq) : inq[i].op = opNo

QueueInv ==
    /\ got.err \/ got.row => got.seen
    /\ Punctual =>
         /\ Between => Silent
         /\ pc = "muxwait" => Calm /\ OneReply
         /\ pc = "wait" /\ switches = 1 => (OneAnswer \/ (fin /\ Quiet)) /\ Done
         /\ OwnCommands
         /\ OneThrow /\ pc # "wait" => Quiet

LEMMA CalmIsQuiet == Calm => Quiet
<1>1. ASSUME inq = <<>>, NEW i \in 1..Len(inq) PROVE FALSE
  BY <1>1
<1> QED
  BY <1>1 DEF Calm, Quiet

\* The types of the two queues and of their ends.
LEMMA QueueTypes ==
    ASSUME TypeOK
    PROVE  /\ Len(out) \in Nat /\ (Len(out) = 0 <=> out = <<>>)
           /\ out # <<>> => /\ Head(out) = out[1] /\ Len(Tail(out)) = Len(out) - 1
                            /\ Tail(out) \in Seq([err : BOOLEAN, row : BOOLEAN])
                            /\ out[1] \in [err : BOOLEAN, row : BOOLEAN]
           /\ Len(inq) \in Nat /\ (Len(inq) = 0 <=> inq = <<>>)
           /\ inq # <<>> => /\ Head(inq) = inq[1] /\ Len(Tail(inq)) = Len(inq) - 1
                            /\ \A i \in 1..Len(inq) - 1 : Tail(inq)[i] = inq[i + 1]
                            /\ Head(inq) \in [cmd : Commands \cup {"unknown"}, op : Nat]
<1> DEFINE R == [err : BOOLEAN, row : BOOLEAN]
           K == [cmd : Commands \cup {"unknown"}, op : Nat]
<1>1. out \in Seq(R) /\ inq \in Seq(K)
  BY DEF TypeOK, QueuesTypeOK
<1> HIDE DEF R, K
<1>2. Len(out) \in Nat /\ (Len(out) = 0 <=> out = <<>>)
  BY <1>1, EmptySeq
<1>3. Len(inq) \in Nat /\ (Len(inq) = 0 <=> inq = <<>>)
  BY <1>1, EmptySeq
<1>4. ASSUME out # <<>>
      PROVE  /\ Head(out) = out[1] /\ Len(Tail(out)) = Len(out) - 1
             /\ Tail(out) \in Seq(R) /\ out[1] \in R
  BY <1>1, <1>2, <1>4
<1>5. ASSUME inq # <<>>
      PROVE  /\ Head(inq) = inq[1] /\ Len(Tail(inq)) = Len(inq) - 1
             /\ \A i \in 1..Len(inq) - 1 : Tail(inq)[i] = inq[i + 1]
             /\ Head(inq) \in K
  BY <1>1, <1>3, <1>5
<1> QED BY <1>2, <1>3, <1>4, <1>5 DEF R, K

\* An answered wait leaves nothing under way: what was read was the only reply.
LEMMA WaitEndsSilent ==
    ASSUME TypeOK, PlaceInv, TurnInv, QueueInv, Answered \/ GiveUp, Punctual'
    PROVE  /\ Punctual /\ UNCHANGED <<op, opNo, switches, inq, hung, out>> /\ (OneThrow' => OneThrow)
           /\ switches = 1 => (~fin => Silent) /\ Quiet
<1>1. CASE Answered
  <2>1. Punctual /\ UNCHANGED <<inq, hung, out, spent>>
    BY <1>1 DEF Answered, monVars, Punctual
  <2>2. UNCHANGED <<op, opNo, switches>>
    BY <1>1, AnsweredSettles, SettledLeads
  <2>3. CASE pc = "muxwait" \/ OneAnswer
    <3>1. Calm /\ out = <<>>
      BY <1>1, <2>1, <2>3, AnsweredSettles DEF Answered, QueueInv, OneReply, OneAnswer
    <3>2. Silent /\ Quiet
      BY <3>1, CalmIsQuiet DEF Calm, Silent
    <3> QED BY <2>1, <2>2, <3>2 DEF OneThrow
  <2>4. CASE pc = "wait" /\ (switches = 1 => fin /\ Quiet)
    BY <2>1, <2>2, <2>4 DEF OneThrow
  <2> QED BY <1>1, <2>1, <2>3, <2>4, AnsweredSettles DEF QueueInv
<1>2. CASE GiveUp
  <2>1. Punctual /\ UNCHANGED <<inq, hung, out>> /\ Silent /\ Quiet
    BY <1>2, UnheardSpends, CalmIsQuiet DEF GiveUp, monVars, Silent, Calm
  <2>2. UNCHANGED <<op, opNo, switches>>
    BY <1>2, GiveUpSettles, SettledLeads
  <2>3. OneThrow' => OneThrow
    BY <1>2, UnheardSpends DEF GiveUp, OneThrow
  <2> QED BY <2>1, <2>2, <2>3
<1> QED BY <1>1, <1>2

\* A step that leaves the queues, the command and the machine alone keeps what QueueInv
\* says but of the place.
LEMMA QueuesStay ==
    ASSUME QueueInv, UNCHANGED <<cmd, opNo, got, monVars, machine>>
    PROVE  /\ UNCHANGED <<Calm, Silent, Quiet, OneReply, OneAnswer, Done, OwnCommands>>
           /\ got'.err \/ got'.row => got'.seen
<1>1. UNCHANGED <<inq, out, hung, got, cmd, opNo>>
  BY DEF monVars
<1>2. UNCHANGED <<Calm, Silent, Quiet, OneReply, OwnCommands>>
  BY <1>1 DEF Calm, Silent, Quiet, OneReply, OwnCommands
<1>3. UNCHANGED <<OneAnswer, Done>>
  BY <1>1, <1>2 DEF machine, OneAnswer, Done, Clean, Listed
<1> QED
  BY <1>1, <1>2, <1>3 DEF QueueInv

LEMMA QueueStep ==
    ASSUME TypeOK, Latched, PlaceInv, TurnInv, HeldInv, QueueInv, [Next]_vars
    PROVE  QueueInv'
<1>g. /\ Punctual' => Punctual
      /\ OneThrow' => OneThrow
  BY SpentGrows DEF OneThrow
<1>s. switches \in {0, 1}
  BY DEF TypeOK, ValuesTypeOK
<1>c. (Silent => Calm) /\ (Calm => Quiet)
  BY CalmIsQuiet DEF Silent, Calm
<1> USE <1>g, <1>s, <1>c DEF Between
<1>0. ASSUME UNCHANGED <<pc, op, cmd, opNo, fin, switches, got, monVars, machine>>,
             OneThrow' => OneThrow
      PROVE  QueueInv'
  BY <1>0, QueuesStay DEF QueueInv
<1>1. CASE CheckpointStart \/ RollbackStart
  <2>1. UNCHANGED <<inq, out, hung, got>> /\ pc' # "muxwait" /\ pc' # "wait"
    BY <1>1 DEF CheckpointStart, RollbackStart, monVars
  <2>2. Punctual' => Silent
    BY <1>1, UnheardSpends DEF CheckpointStart, RollbackStart
  <2>3. Punctual' => OwnCommands'
    BY <2>1, <2>2 DEF Silent, OwnCommands
  <2>4. Punctual' => Quiet'
    BY <2>1, <2>2 DEF Quiet
  <2> QED BY <2>1, <2>2, <2>3, <2>4 DEF QueueInv, Silent
<1>2. CASE AskForPrompt
  <2>1. UNCHANGED <<op, cmd, opNo, switches, got, monVars, machine>> /\ pc = "ask" /\ pc' = "ensure"
    BY <1>2 DEF AskForPrompt, opVars, flags
  <2> QED BY <2>1, QueuesStay DEF QueueInv
<1>3. CASE PromptCame
  <2>1. UNCHANGED <<op, cmd, opNo, switches, got, monVars, machine>> /\ pc = "ensure"
    BY <1>3 DEF PromptCame, opVars, flags
  <2>2. pc' = (IF op = "ckpt" THEN "mux" ELSE "sync")
    BY <1>3 DEF PromptCame
  <2> QED BY <2>1, <2>2, QueuesStay DEF QueueInv
<1>4. CASE NoPrompt
  <2>1. UNCHANGED <<op, cmd, opNo, switches, got, monVars, machine>> /\ pc = "ensure" /\ pc' = "leave"
    BY <1>4 DEF NoPrompt, Conclude, flags
  <2> QED BY <2>1, QueuesStay DEF QueueInv, PlaceInv
<1>5. CASE ResetPaste
  <2>1. UNCHANGED <<op, cmd, opNo, fin, switches, got, monVars, machine>>
    BY <1>5 DEF ResetPaste, opVars, flags
  <2>2. (pc = "mux" /\ pc' = "muxtype") \/ (pc = "muxback" /\ pc' = "backtype")
    BY <1>5 DEF ResetPaste
  <2> QED BY <2>1, <2>2, QueuesStay DEF QueueInv
<1>6. CASE SwitchIn
  <2>1. UNCHANGED <<inq, hung, opNo, spent>> /\ got' = Nothing /\ switches' = 1 - switches
    BY <1>6 DEF SwitchIn, TypeSwitch, opVars
  <2>2. (pc' = "muxwait" /\ switches' = 1) \/ (pc' = "send" /\ switches' = 0)
    BY <1>6, <2>1 DEF SwitchIn
  <2>3. Punctual => Silent
    BY <1>6 DEF SwitchIn, QueueInv
  <2>4. Punctual => OneReply'
    <3>1. out' = out \/ out' = Append(out, Prompt)
      BY <1>6 DEF SwitchIn, TypeSwitch, PromptOnSwitch
    <3>2. Len(<<>>) = 0 /\ Len(Append(<<>>, Prompt)) = 1
      OBVIOUS
    <3>3. ASSUME out = <<>> PROVE Len(out') <= 1
      <4>1. out' = <<>> \/ out' = Append(<<>>, Prompt)
        BY <3>1, <3>3
      <4>2. Len(out') = 0 \/ Len(out') = 1
        BY <3>2, <4>1, Zenon
      <4>3. 0 <= 1 /\ 1 <= 1
        OBVIOUS
      <4> QED BY <4>2, <4>3, Zenon
    <3>4. ~got'.seen
      BY <2>1 DEF Nothing
    <3> QED BY <2>3, <3>3, <3>4 DEF OneReply, Silent
  <2>5. OwnCommands' <=> OwnCommands
    BY <2>1 DEF OwnCommands
  <2>6. (Calm' <=> Calm) /\ (Quiet' <=> Quiet)
    BY <2>1 DEF Calm, Quiet
  <2> QED BY <2>1, <2>2, <2>3, <2>4, <2>5, <2>6 DEF QueueInv, Nothing
<1>7. CASE SwitchOut
  <2>1. UNCHANGED <<op, inq, hung, opNo, spent>> /\ got' = Nothing /\ switches' = 0
    BY <1>7 DEF SwitchOut, TypeSwitch, PlaceInv
  <2>2. \/ pc' \in {"idle", "leave", "sync"}
        \/ pc' = "ask" /\ op = "roll"
    BY <1>7 DEF SwitchOut, AfterLeave, Conclude
  <2>3. Punctual /\ OneThrow => Quiet
    BY <1>7 DEF SwitchOut, QueueInv, PlaceInv
  <2>5. OwnCommands' <=> OwnCommands
    BY <2>1 DEF OwnCommands
  <2>6. (Calm' <=> Calm) /\ (Quiet' <=> Quiet)
    BY <2>1 DEF Calm, Quiet
  <2> QED BY <2>1, <2>2, <2>3, <2>5, <2>6 DEF QueueInv, Nothing
<1>8. CASE SendCommand
  <2>1. /\ UNCHANGED <<cmd, opNo, fin, switches, hung>> /\ got' = Nothing
        /\ pc = "send" /\ pc' = "wait"
    BY <1>8, CommandGoes DEF SendCommand, opVars
  <2>2. PICK c \in {cmd, "unknown"} :
           /\ inq' = inq \/ inq' = Append(inq, [cmd |-> c, op |-> opNo])
           /\ held => c = "unknown"
           /\ ~held => c = cmd /\ out' = out
    <3>1. CASE held
      BY <1>8, <3>1, CommandGoes DEF SendCommand
    <3>2. CASE ~held
      BY <1>8, <3>2, CommandGoes DEF SendCommand
    <3> QED BY <3>1, <3>2
  <2> DEFINE x == [cmd |-> c, op |-> opNo]
  <2>k. /\ Len(inq) \in Nat /\ x.op = opNo /\ x.cmd = c
        /\ Len(Append(inq, x)) = Len(inq) + 1
        /\ \A i \in 1..Len(inq) + 1 : Append(inq, x)[i] = (IF i <= Len(inq) THEN inq[i] ELSE x)
    <3> DEFINE K == [cmd : Commands \cup {"unknown"}, op : Nat]
    <3>1. inq \in Seq(K) /\ x \in K /\ x.op = opNo /\ x.cmd = c
      BY DEF TypeOK, QueuesTypeOK, ValuesTypeOK
    <3> HIDE DEF K, x
    <3> QED BY <3>1
  <2>x. inq' = inq \/ inq' = Append(inq, x)
    BY <2>2
  <2> HIDE DEF x
  <2>3. ASSUME Punctual PROVE OwnCommands'
    BY <2>1, <2>3, <2>k, <2>x DEF OwnCommands, QueueInv
  <2>4. ASSUME Punctual, switches = 1 PROVE (OneAnswer' \/ (fin' /\ Quiet')) /\ Done'
    <3>1. Silent /\ out = <<>>
      BY <2>1, <2>4 DEF QueueInv, Silent
    <3>2. CASE held
      <4>1. fin /\ cmd = "cont" /\ c = "unknown"
        BY <2>1, <2>2, <3>2 DEF HeldInv, TurnInv
      <4>2. Done'
        BY <2>1, <4>1 DEF Done
      <4>3. Quiet'
        BY <2>1, <2>k, <2>x, <3>1, <4>1 DEF Silent, Quiet
      <4> QED BY <2>1, <4>1, <4>2, <4>3
    <3>3. CASE ~held
      <4>1. c = cmd /\ out' = <<>>
        BY <2>2, <3>1, <3>3
      <4>2. OneReply'
        BY <4>1 DEF OneReply
      <4>3. ~Clean' /\ ~Listed'
        BY <2>1, <4>1 DEF Clean, Listed, Nothing
      <4>4. inq' = <<[cmd |-> cmd, op |-> opNo]>> \/ Calm'
        <5>1. inq = <<>> => inq' = <<>> \/ inq' = <<[cmd |-> cmd, op |-> opNo]>>
          BY <2>x, <4>1 DEF x
        <5>2. inq = <<>> \/ hung'
          BY <2>1, <3>1 DEF Silent
        <5> QED BY <5>1, <5>2 DEF Calm
      <4> QED BY <2>1, <4>1, <4>2, <4>3, <4>4 DEF OneAnswer, Done, Nothing
    <3> QED BY <3>2, <3>3
  <2> QED BY <2>1, <2>3, <2>4 DEF QueueInv, Nothing
<1>9. CASE Leave
  <2>1. UNCHANGED <<op, opNo, switches, got, monVars, machine>> /\ pc = "leave"
    BY <1>9 DEF Leave
  <2>2. CASE switches = 0
    <3>1. \/ pc' \in {"idle", "leave", "sync"}
          \/ pc' = "ask" /\ op = "roll"
      BY <1>9, <2>2 DEF Leave, AfterLeave, Conclude
    <3>2. UNCHANGED cmd /\ (OneThrow' => OneThrow)
      BY <1>9, <2>2 DEF Leave, OneThrow
    <3> QED BY <2>1, <2>2, <3>1, <3>2, QueuesStay DEF QueueInv
  <2>3. CASE switches = 1
    <3>1. pc' \in {"send", "muxback"}
      BY <1>9, <2>3 DEF Leave
    <3>2. UNCHANGED <<Quiet, Silent, OwnCommands, got>>
      BY <2>1 DEF Quiet, Silent, OwnCommands, monVars
    <3> QED BY <2>1, <2>3, <3>1, <3>2 DEF QueueInv
  <2> QED BY <2>2, <2>3
<1>10. CASE Answered \/ GiveUp
  <2>1. got' = got \/ got' = Nothing
    BY <1>10 DEF Answered, GiveUp
  <2>2. pc' \in {"leave", "send", "muxback"} /\ pc \in {"wait", "muxwait"}
    BY <1>10, AnsweredSettles, GiveUpSettles, SettledLeads
  <2>3. Punctual' => /\ Punctual /\ UNCHANGED <<opNo, switches, inq, hung, out>>
                     /\ switches = 1 => (~fin => Silent) /\ Quiet
    BY <1>10, WaitEndsSilent
  <2>4. OneThrow => switches = 1
    BY <2>2 DEF TurnInv, PlaceInv
  <2>5. Punctual' => UNCHANGED <<Quiet, Silent, OwnCommands>>
    BY <2>3 DEF Quiet, Silent, OwnCommands
  <2>6. UNCHANGED fin
    BY <1>10, AnsweredSettles, GiveUpSettles, SettledLeads
  <2>7. fin => pc' \in {"leave", "muxback"} /\ pc = "wait" /\ cmd = "cont"
    BY <1>10, <2>2, AnsweredSettles, GiveUpSettles, SettledLeads DEF TurnInv, FinPcs, RunSettled, ContSettled
  <2>8. fin => pc' = "muxback"
    BY <1>10, <2>7, AnsweredSettles, GiveUpSettles DEF RunSettled, ContSettled
  <2> QED BY <2>1, <2>2, <2>3, <2>4, <2>5, <2>6, <2>8 DEF QueueInv, Nothing
<1>11. CASE TypeResync
  <2>1. UNCHANGED <<op, cmd, opNo, switches, got, monVars, machine>> /\ pc = "sync" /\ pc' = "syncwait"
    BY <1>11 DEF TypeResync, opVars, flags
  <2> QED BY <2>1, QueuesStay DEF QueueInv
<1>12. CASE Resynced
  <2>1. UNCHANGED <<op, cmd, opNo, switches, got, monVars, machine>> /\ pc = "syncwait" /\ pc' = "leave"
    BY <1>12 DEF Resynced, Conclude, flags
  <2> QED BY <2>1, QueuesStay DEF QueueInv, PlaceInv
<1>13. CASE PasteThrows
  <2>1. UNCHANGED <<op, cmd, opNo, switches, got, monVars, machine>> /\ pc' \in {"leave", "idle"}
    BY <1>13 DEF PasteThrows
  <2>2. pc \in PastePcs
    BY <1>13 DEF PasteThrows
  <2>3. pc # "wait" /\ (switches = 1 /\ ~fin => Between)
    BY <2>2 DEF PastePcs, PlaceInv
  <2>4. pc' = "leave" => (~fin /\ (switches = 1 => Between))
    BY <1>13, <2>3 DEF PasteThrows
  <2> QED BY <2>1, <2>3, <2>4, QueuesStay DEF QueueInv
<1>14. CASE MonitorRuns
  <2>1. UNCHANGED <<pc, op, cmd, opNo, fin, switches, got, hung>>
    BY <1>14 DEF MonitorRuns, opVars, flags
  <2>2. inq # <<>> /\ ~hung /\ inq' = Tail(inq) /\ ~Calm
    BY <1>14 DEF MonitorRuns, Calm
  <2>3. PICK err \in BOOLEAN :
           /\ Execute(Head(inq), err)
           /\ out' = Append(out, Reply(err, Head(inq).cmd = "info" /\ slot # 0))
    BY <1>14 DEF MonitorRuns
  <2>4. OwnCommands => OwnCommands'
    BY <2>1, <2>2, QueueTypes DEF OwnCommands
  <2>5. ASSUME OneAnswer PROVE OneAnswer' /\ Done'
    <3>1. inq = <<[cmd |-> cmd, op |-> opNo]>> /\ out = <<>> /\ ~got.seen
      BY <2>2, <2>5 DEF OneAnswer
    <3>2. Head(inq) = [cmd |-> cmd, op |-> opNo] /\ inq' = <<>>
      BY <2>2, <3>1
    <3> DEFINE r == Reply(err, cmd = "info" /\ slot # 0)
    <3>3. out' = <<r>> /\ Len(out') = 1 /\ out'[1] = r /\ out' # <<>>
      BY <2>3, <3>1, <3>2
    <3>4. r.err = err /\ r.row = (cmd = "info" /\ slot # 0)
      BY DEF Reply
    <3>5. OneAnswer'
      BY <2>1, <3>1, <3>2, <3>3 DEF OneAnswer, OneReply, Calm
    <3>6. ~got.seen /\ ~got.row
      BY <3>1 DEF QueueInv
    <3>7. (Clean' <=> ~err) /\ (Listed' <=> (cmd = "info" /\ slot # 0))
      BY <2>1, <3>3, <3>4, <3>6 DEF Clean, Listed
    <3>8. Execute([cmd |-> cmd, op |-> opNo], err)
      BY <2>3, <3>2
    <3>9. cmd = "layer" /\ ~err => layer'
      BY <3>8 DEF Execute, RunLayer
    <3>10. cmd = "savevm" /\ ~err => slot' = opNo
      BY <3>8 DEF Execute, RunSavevm
    <3>11. cmd = "info" => slot' = slot
      BY <3>8 DEF Execute, machine
    <3>12. cmd = "loadvm" /\ ~err => loadedBy' = opNo /\ damagedBy' = 0
      BY <3>8 DEF Execute, RunLoadvm
    <3> QED BY <2>1, <3>5, <3>7, <3>9, <3>10, <3>11, <3>12 DEF Done
  <2>6. ~Silent
    BY <2>2 DEF Silent
  <2>7. Quiet => Quiet'
    BY <2>1, <2>2, QueueTypes DEF Quiet
  <2>8. ASSUME fin, pc = "wait" PROVE Done'
    BY <2>1, <2>8 DEF TurnInv, Done
  <2>9. OneThrow' => OneThrow
    BY <1>14 DEF MonitorRuns, OneThrow
  <2> QED BY <2>1, <2>2, <2>4, <2>5, <2>6, <2>7, <2>8, <2>9 DEF QueueInv
<1>15. CASE Deliver
  <2>1. UNCHANGED <<pc, op, cmd, opNo, fin, switches, inq, hung, machine>>
    BY <1>15 DEF Deliver, opVars, flags
  <2>2. out # <<>> /\ out' = Tail(out) /\ ~Silent
    BY <1>15 DEF Deliver, Silent
  <2>3. pc \notin {"muxwait", "wait"} => got' = got
    BY <1>15 DEF Deliver
  <2>4. pc \in {"muxwait", "wait"} => got' = [seen |-> TRUE, err |-> got.err \/ out[1].err,
                                              row |-> got.row \/ out[1].row]
    BY <1>15, <2>2, QueueTypes DEF Deliver
  <2>5. UNCHANGED <<Calm, Quiet, OwnCommands>>
    BY <2>1 DEF Calm, Quiet, OwnCommands
  <2>9. fin /\ pc = "wait" => Done'
    BY <2>1 DEF TurnInv, Done
  <2>6. OneReply => OneReply' /\ out' = <<>>
    BY <2>2, QueueTypes, EmptySeq DEF OneReply
  <2>7. ASSUME pc = "wait", OneAnswer, Done PROVE OneAnswer' /\ Done'
    <3>1. ~got.seen /\ ~got.row /\ Calm
      BY <2>2, <2>7 DEF OneAnswer, OneReply, QueueInv
    <3>2. OneReply' /\ out' = <<>>
      BY <2>6, <2>7 DEF OneAnswer
    <3>3. (Clean' <=> Clean) /\ (Listed' <=> Listed)
      <4>1. got'.seen = TRUE /\ got'.err = (got.err \/ out[1].err)
                              /\ got'.row = (got.row \/ out[1].row)
        BY <2>4, <2>7
      <4>2. ~got.err
        BY <3>1 DEF QueueInv
      <4> QED BY <2>2, <3>1, <3>2, <4>1, <4>2, Zenon DEF Clean, Listed
    <3> QED BY <2>1, <2>5, <2>7, <3>1, <3>2, <3>3 DEF OneAnswer, Done, machine
  <2>8. got'.err \/ got'.row => got'.seen
    BY <2>3, <2>4 DEF QueueInv
  <2> QED BY <2>1, <2>2, <2>5, <2>6, <2>7, <2>8, <2>9 DEF QueueInv
<1>16. CASE MonitorHangs
  <2>1. UNCHANGED <<pc, op, cmd, opNo, fin, switches, got, inq, out, machine>> /\ hung'
    BY <1>16 DEF MonitorHangs, opVars, flags
  <2>2. Calm' /\ Quiet' /\ OwnCommands' /\ (Silent => Silent') /\ UNCHANGED OneReply
    BY <2>1 DEF Calm, Quiet, OwnCommands, Silent, OneReply
  <2>3. (OneAnswer => OneAnswer') /\ (Done => Done')
    BY <2>1, <2>2 DEF OneAnswer, Done, Clean, Listed, machine
  <2> QED BY <2>1, <2>2, <2>3 DEF QueueInv
<1>17. CASE LoseReply
  <2>1. UNCHANGED <<pc, op, cmd, opNo, fin, switches, got, inq, hung, machine>>
    BY <1>17 DEF LoseReply, opVars, flags
  <2>2. out # <<>> /\ out' = Tail(out) /\ ~Silent
    BY <1>17 DEF LoseReply, Silent
  <2>5. UNCHANGED <<Calm, Quiet, OwnCommands>>
    BY <2>1 DEF Calm, Quiet, OwnCommands
  <2>9. fin /\ pc = "wait" => Done'
    BY <2>1 DEF TurnInv, Done
  <2>6. OneReply => OneReply' /\ out' = <<>>
    BY <2>1, <2>2, QueueTypes, EmptySeq DEF OneReply
  <2>7. ASSUME OneAnswer, Done PROVE OneAnswer' /\ Done'
    <3>1. Calm /\ OneReply' /\ out' = <<>>
      BY <2>2, <2>6, <2>7 DEF OneAnswer
    <3>2. (Clean' => Clean) /\ (Listed' => Listed)
      BY <2>1, <3>1 DEF Clean, Listed
    <3> QED BY <2>1, <2>5, <2>7, <3>1, <3>2 DEF OneAnswer, Done, machine
  <2> QED BY <2>1, <2>2, <2>5, <2>6, <2>7, <2>9 DEF QueueInv
<1>18. CASE ProgramSetsPasteMode
  BY <1>0, <1>18 DEF ProgramSetsPasteMode, opVars, flags
<1>19. ASSUME NEW key \in {"ctrlA", "c", "other"}, UserPresses(key)
       PROVE  QueueInv'
  BY <1>0, <1>19 DEF UserPresses, opVars, flags
<1>20. CASE UNCHANGED vars
  BY <1>0, <1>20 DEF vars, opVars, flags
<1> QED
  BY <1>1, <1>2, <1>3, <1>4, <1>5, <1>6, <1>7, <1>8, <1>9, <1>10, <1>11, <1>12, <1>13,
     <1>14, <1>15, <1>16, <1>17, <1>18, <1>19, <1>20 DEF Next, PageStep

LEMMA QueueInvariant == Spec => []QueueInv
<1>1. Init => QueueInv
  <2> SUFFICES ASSUME Init PROVE QueueInv
    OBVIOUS
  <2>1. inq = <<>> /\ out = <<>> /\ pc = "idle" /\ got = Nothing
    BY DEF Init
  <2>2. OwnCommands
    BY <2>1 DEF OwnCommands
  <2>3. Quiet
    BY <2>1, CalmIsQuiet DEF Calm
  <2> QED BY <2>1, <2>2, <2>3 DEF QueueInv, Between, Nothing
<1>2. TypeOK /\ Latched /\ PlaceInv /\ TurnInv /\ HeldInv /\ QueueInv /\ [Next]_vars => QueueInv'
  BY QueueStep
<1> QED
  BY <1>1, <1>2, TypeCorrect, LatchInvariant, PlaceInvariant, TurnInvariant, HeldInvariant, PTL
     DEF Spec
-----------------------------------------------------------------------------
(***************************************************************************)
(* The machine a failed loadvm left behind.  loadvm only ever runs on a    *)
(* stopped machine, for the stop of its operation is ahead of it in the    *)
(* monitor's queue or has run; and cont is only sent where the page may    *)
(* still resume, which a loadvm takes away until its clean answer is read. *)
(***************************************************************************)
Damaged == damagedBy = opNo /\ opNo # 0

\* The monitor will yet run a command c.
Asked(c) == ~hung /\ \E i \in 1..Len(inq) : inq[i].cmd = c

\* On a running machine a stop is ahead of every loadvm.
StopFirst ==
    ~hung /\ running => \A i \in 1..Len(inq) : inq[i].cmd = "loadvm" =>
                           \E j \in 1..(i - 1) : inq[j].cmd = "stop"

\* From the stop of the operation until its loadvm has been sent.
Stopping == \/ pc = "wait" /\ cmd = "stop"
            \/ pc \in {"send", "wait"} /\ cmd = "loadvm"

DamageInv == Punctual =>
    /\ damagedBy <= opNo
    /\ running => ~Damaged
    /\ pc \in {"mux", "muxtype"} \/ (pc \in {"ask", "ensure"} /\ op = "ckpt") => ~Damaged
    /\ switches = 1 /\ resumable => ~Damaged /\ ~Asked("loadvm")
    /\ Asked("cont") => ~Damaged /\ ~Asked("loadvm")
    /\ pc \in {"send", "wait"} /\ cmd # "cont" => ~Asked("cont")
    /\ pc \in {"send", "wait"} /\ cmd = "cont" => resumable
    /\ pc \in {"send", "wait"} /\ cmd = "loadvm" => ~resumable
    /\ StopFirst
    /\ Stopping /\ side = "monitor" /\ ~hung /\ running => Asked("stop")

LEMMA QuietAsksNothing ==
    ASSUME Quiet, NEW c, c # "unknown" PROVE ~Asked(c)
  BY DEF Quiet, Asked

LEMMA NothingAsked ==
    ASSUME TypeOK, Quiet, ~Asked("unknown") PROVE Calm
<1>1. Len(inq) \in Nat /\ (inq # <<>> => 1 \in 1..Len(inq))
  BY QueueTypes
<1> QED BY <1>1 DEF Quiet, Asked, Calm

\* What sending a command adds to the queue: that command, or what a held Ctrl-A has
\* left of it.
LEMMA SentIsAsked ==
    ASSUME TypeOK, SendCommand
    PROVE  /\ \A c : Asked(c)' => Asked(c) \/ c = cmd \/ (c = "unknown" /\ held)
           /\ \A c : Asked(c) => Asked(c)'
           /\ \A c : c = cmd /\ side = "monitor" /\ ~hung /\ ~held => Asked(c)'
           /\ StopFirst /\ cmd # "loadvm" => StopFirst'
           /\ /\ StopFirst
              /\ held \/ (side = "monitor" /\ ~hung /\ running => Asked("stop"))
              => StopFirst'
<1> DEFINE K == [cmd : Commands \cup {"unknown"}, op : Nat]
           x == [cmd |-> IF held THEN "unknown" ELSE cmd, op |-> opNo]
<1>1. inq \in Seq(K) /\ x \in K /\ x.cmd = (IF held THEN "unknown" ELSE cmd)
  BY DEF TypeOK, QueuesTypeOK, ValuesTypeOK
<1>2. /\ UNCHANGED <<hung, running>>
      /\ inq' = inq \/ inq' = Append(inq, x)
      /\ ~held => inq' = (IF side = "monitor" THEN Append(inq, x) ELSE inq)
  BY CommandGoes DEF SendCommand, machine
<1> HIDE DEF K, x
<1>3. Len(inq) \in Nat /\ Len(Append(inq, x)) = Len(inq) + 1
  BY <1>1
<1>4. \A i \in 1..(Len(inq) + 1) : Append(inq, x)[i] = (IF i <= Len(inq) THEN inq[i] ELSE x)
  BY <1>1, <1>3
<1>a. inq' # Append(inq, x) => held \/ side # "monitor"
  BY <1>2
<1>b. inq' = Append(inq, x) => held \/ side = "monitor"
  <2>1. inq # Append(inq, x)
    BY <1>3
  <2> QED BY <1>2, <2>1
<1>5. CASE inq' # Append(inq, x)
  <2>1. inq' = inq
    BY <1>2, <1>5
  <2> QED BY <1>2, <1>5, <1>a, <2>1 DEF Asked, StopFirst
<1>6. CASE inq' = Append(inq, x)
  <2>1. /\ Len(inq') = Len(inq) + 1
        /\ \A i \in 1..Len(inq) : inq'[i] = inq[i]
        /\ inq'[Len(inq) + 1] = x
    BY <1>3, <1>4, <1>6
  <2>2. \A i \in 1..Len(inq') : i \in 1..Len(inq) \/ i = Len(inq) + 1
    BY <1>3, <2>1
  <2>3. \A i \in 1..Len(inq) : i \in 1..Len(inq')
    BY <1>3, <2>1
  <2>4. Len(inq) + 1 \in 1..Len(inq')
    BY <1>3, <2>1
  <2>5. ASSUME NEW c PROVE /\ Asked(c)' => Asked(c) \/ c = cmd \/ (c = "unknown" /\ held)
                           /\ Asked(c) => Asked(c)'
                           /\ c = cmd /\ ~hung /\ ~held => Asked(c)'
    BY <1>1, <1>2, <2>1, <2>2, <2>3, <2>4 DEF Asked
  <2>6. ASSUME StopFirst, cmd # "loadvm" \/ held \/ (~hung /\ running => Asked("stop"))
        PROVE  StopFirst'
    <3> SUFFICES ASSUME ~hung, running, NEW i \in 1..Len(inq'), inq'[i].cmd = "loadvm"
                 PROVE  \E j \in 1..(i - 1) : inq'[j].cmd = "stop"
      BY <1>2 DEF StopFirst
    <3>1. CASE i \in 1..Len(inq)
      <4>1. PICK j \in 1..(i - 1) : inq[j].cmd = "stop"
        BY <2>1, <2>6, <3>1 DEF StopFirst
      <4>2. j \in 1..Len(inq)
        BY <1>3, <3>1, <4>1
      <4> QED BY <2>1, <4>1, <4>2
    <3>2. CASE i = Len(inq) + 1
      <4>1. PICK j \in 1..Len(inq) : inq[j].cmd = "stop"
        BY <1>1, <2>1, <2>6, <3>2 DEF Asked
      <4>2. j \in 1..(i - 1)
        BY <1>3, <3>2
      <4> QED BY <2>1, <4>1, <4>2
    <3> QED BY <2>2, <3>1, <3>2
  <2> QED BY <1>6, <1>b, <2>5, <2>6
<1> QED BY <1>5, <1>6

\* What running a command takes from the queue.
LEMMA RunIsAsked ==
    ASSUME TypeOK, MonitorRuns
    PROVE  /\ Asked(Head(inq).cmd)
           /\ \A c : Asked(c)' => Asked(c)
           /\ \A c : Asked(c) /\ c # Head(inq).cmd => Asked(c)'
           /\ StopFirst /\ running => Head(inq).cmd # "loadvm"
           /\ StopFirst /\ running /\ Head(inq).cmd # "stop" => StopFirst'
<1>1. /\ inq # <<>> /\ ~hung /\ ~hung' /\ inq' = Tail(inq)
      /\ Head(inq) = inq[1] /\ Len(inq') = Len(inq) - 1 /\ Len(inq) \in Nat /\ Len(inq) # 0
      /\ \A i \in 1..(Len(inq) - 1) : inq'[i] = inq[i + 1]
  BY QueueTypes DEF MonitorRuns
<1>2. 1 \in 1..Len(inq) /\ \A i \in 1..(Len(inq) - 1) : i + 1 \in 1..Len(inq)
  BY <1>1
<1>3. \A i \in 1..Len(inq) : i = 1 \/ (i - 1 \in 1..(Len(inq) - 1) /\ inq'[i - 1] = inq[i])
  BY <1>1
<1>4. Asked(Head(inq).cmd)
  BY <1>1, <1>2 DEF Asked
<1>5. ASSUME NEW c PROVE /\ Asked(c)' => Asked(c)
                         /\ Asked(c) /\ c # Head(inq).cmd => Asked(c)'
  <2>1. ASSUME Asked(c)' PROVE Asked(c)
    <3>1. PICK i \in 1..(Len(inq) - 1) : inq'[i].cmd = c
      BY <1>1, <2>1 DEF Asked
    <3>2. inq[i + 1].cmd = c /\ i + 1 \in 1..Len(inq)
      BY <1>1, <1>2, <3>1
    <3> QED BY <1>1, <3>2 DEF Asked
  <2>2. ASSUME Asked(c), c # Head(inq).cmd PROVE Asked(c)'
    <3>1. PICK i \in 1..Len(inq) : inq[i].cmd = c
      BY <2>2 DEF Asked
    <3>2. i - 1 \in 1..(Len(inq) - 1) /\ inq'[i - 1].cmd = c
      BY <1>1, <1>3, <2>2, <3>1
    <3> QED BY <1>1, <3>2 DEF Asked
  <2> QED BY <2>1, <2>2
<1>6. StopFirst /\ running => Head(inq).cmd # "loadvm"
  BY <1>1, <1>2 DEF StopFirst
<1>7. ASSUME StopFirst, running, Head(inq).cmd # "stop" PROVE StopFirst'
  <2> SUFFICES ASSUME NEW i \in 1..Len(inq'), inq'[i].cmd = "loadvm"
               PROVE  \E j \in 1..(i - 1) : inq'[j].cmd = "stop"
    BY DEF StopFirst
  <2>1. i + 1 \in 1..Len(inq) /\ inq[i + 1].cmd = "loadvm"
    BY <1>1, <1>2
  <2>2. PICK j \in 1..i : inq[j].cmd = "stop"
    BY <1>1, <1>7, <2>1 DEF StopFirst
  <2>3. j # 1
    BY <1>1, <1>7, <2>2
  <2>4. j - 1 \in 1..(i - 1) /\ inq'[j - 1] = inq[j]
    BY <1>1, <1>3, <2>2, <2>3
  <2> QED BY <2>2, <2>4
<1> QED BY <1>4, <1>5, <1>6, <1>7

\* What the end of a wait does to the part of the page that DamageInv speaks of.
LEMMA SettledResumes ==
    ASSUME NEW ok \in BOOLEAN,
           (pc = "wait" /\ RunSettled(ok)) \/ (pc = "muxwait" /\ MuxSettled(ok))
    PROVE  /\ resumable' => resumable \/ (pc = "wait" /\ cmd = "loadvm" /\ ok)
           /\ pc' = "send" /\ cmd' = "loadvm" => ~resumable' /\ pc = "wait" /\ cmd = "stop"
           /\ pc' = "send" => cmd' # "cont" /\ (pc = "muxwait" \/ cmd # "cont")
<1>1. CASE pc = "muxwait" /\ MuxSettled(ok)
  BY <1>1 DEF MuxSettled
<1>2. CASE pc = "wait" /\ cmd = "stop" /\ StopSettled(ok)
  <2>1. resumable' => resumable
    BY <1>2, Zenon DEF StopSettled
  <2>2. CASE op = "roll" /\ ok
    <3>1. ~resumable'
      BY <1>2, <2>2, Zenon DEF StopSettled
    <3>2. pc' = "send" => cmd' # "cont"
      BY <1>2 DEF StopSettled
    <3> QED BY <1>2, <2>1, <3>1, <3>2
  <2>3. CASE ~(op = "roll" /\ ok)
    <3>1. pc' = "send" => cmd' \in {"savevm", "layer"}
      BY <1>2, <2>3 DEF StopSettled
    <3> QED BY <1>2, <2>1, <3>1
  <2> QED BY <2>2, <2>3
<1>3. CASE pc = "wait" /\ cmd = "layer" /\ LayerSettled(ok)
  BY <1>3 DEF LayerSettled
<1>4. CASE pc = "wait" /\ cmd = "savevm" /\ SavevmSettled(ok)
  BY <1>4 DEF SavevmSettled
<1>5. CASE pc = "wait" /\ cmd = "info" /\ InfoSettled(ok)
  BY <1>5 DEF InfoSettled
<1>6. CASE pc = "wait" /\ cmd = "loadvm" /\ LoadvmSettled(ok)
  BY <1>6 DEF LoadvmSettled
<1>7. CASE pc = "wait" /\ cmd = "cont" /\ ContSettled(ok)
  BY <1>7 DEF ContSettled
<1> QED BY <1>1, <1>2, <1>3, <1>4, <1>5, <1>6, <1>7 DEF RunSettled

\* A clean answer to loadvm, taken where the count is odd, is loadvm's own.
LEMMA CleanIsHeard ==
    ASSUME PlaceInv, QueueInv, Punctual, switches = 1, Answered, pc = "wait", cmd # "stop", ~got.err
    PROVE  Done /\ Clean
  BY DEF QueueInv, Answered, Clean

LEMMA DamageStep ==
    ASSUME TypeOK, Latched, PlaceInv, TurnInv, HeldInv, QueueInv, DamageInv, [Next]_vars
    PROVE  DamageInv'
<1>g. Punctual' => Punctual
  BY SpentGrows
<1>s. switches \in {0, 1} /\ opNo \in Nat /\ damagedBy \in Nat
  BY DEF TypeOK, ValuesTypeOK
<1>c. ASSUME Silent \/ Calm PROVE \A c : c # "unknown" => ~Asked(c)
  BY <1>c, CalmIsQuiet, QuietAsksNothing DEF Silent, Calm
<1> USE <1>g, <1>s DEF Stopping
<1>m. ASSUME UNCHANGED <<inq, hung, running, damagedBy, opNo>>
      PROVE  UNCHANGED <<Damaged, StopFirst, Asked("stop"), Asked("cont"), Asked("loadvm"), running, hung>>
  BY <1>m DEF Damaged, StopFirst, Asked
<1>0. ASSUME UNCHANGED <<pc, op, cmd, opNo, resumable, switches, inq, hung, running, damagedBy, side>>
      PROVE  DamageInv'
  BY <1>0, <1>m DEF DamageInv
<1>1. CASE CheckpointStart \/ RollbackStart
  <2>1. /\ UNCHANGED <<inq, hung, running, damagedBy>> /\ opNo' = opNo + 1
        /\ pc' \in {"ask", "mux"}
    BY <1>1 DEF CheckpointStart, RollbackStart, monVars, machine
  <2>2. Punctual' => Silent
    BY <1>1, UnheardSpends DEF CheckpointStart, RollbackStart
  <2>3. Punctual' => ~Asked("loadvm") /\ ~Asked("cont")
    BY <2>2, <1>c
  <2>4. UNCHANGED <<Asked("loadvm"), Asked("cont"), StopFirst>>
    BY <2>1 DEF Asked, StopFirst
  <2>5. damagedBy <= opNo => damagedBy' <= opNo' /\ ~Damaged'
    BY <2>1 DEF Damaged
  <2> QED BY <2>1, <2>3, <2>4, <2>5 DEF DamageInv
<1>2. CASE AskForPrompt
  <2>1. UNCHANGED <<op, cmd, opNo, resumable, switches, inq, hung, running, damagedBy, side>>
    BY <1>2 DEF AskForPrompt, opVars, flags, monVars, machine, muxVars
  <2>2. pc = "ask" /\ pc' = "ensure"
    BY <1>2 DEF AskForPrompt
  <2> QED BY <2>1, <2>2, <1>m DEF DamageInv
<1>3. CASE PromptCame
  <2>1. UNCHANGED <<op, cmd, opNo, resumable, switches, inq, hung, running, damagedBy, side>>
    BY <1>3 DEF PromptCame, opVars, flags, monVars, machine, muxVars
  <2>2. pc = "ensure" /\ pc' = (IF op = "ckpt" THEN "mux" ELSE "sync")
    BY <1>3 DEF PromptCame
  <2> QED BY <2>1, <2>2, <1>m DEF DamageInv
<1>4. CASE NoPrompt \/ TypeResync \/ Resynced
  <2>1. UNCHANGED <<op, cmd, opNo, resumable, switches, inq, hung, running, damagedBy, side>>
    BY <1>4 DEF NoPrompt, TypeResync, Resynced, opVars, flags, monVars, machine, muxVars
  <2>2. pc' \in {"leave", "syncwait"}
    BY <1>4 DEF NoPrompt, TypeResync, Resynced, Conclude
  <2> QED BY <2>1, <2>2, <1>m DEF DamageInv
<1>5. CASE ResetPaste
  <2>1. UNCHANGED <<op, cmd, opNo, resumable, switches, inq, hung, running, damagedBy, side>>
    BY <1>5 DEF ResetPaste, opVars, flags, monVars, machine, muxVars
  <2>2. (pc = "mux" /\ pc' = "muxtype") \/ (pc = "muxback" /\ pc' = "backtype")
    BY <1>5 DEF ResetPaste
  <2> QED BY <2>1, <2>2, <1>m DEF DamageInv
<1>6. CASE SwitchIn
  <2>1. UNCHANGED <<op, opNo, resumable, inq, hung, running, damagedBy>>
    BY <1>6 DEF SwitchIn, TypeSwitch, opVars, machine
  <2>2. pc' = "muxwait" \/ (pc' = "send" /\ cmd' = "stop")
    BY <1>6 DEF SwitchIn
  <2>3. pc \in {"mux", "muxtype"}
    BY <1>6 DEF SwitchIn
  <2>4. Punctual => \A c : c # "unknown" => ~Asked(c)
    BY <2>3, <1>c DEF QueueInv, Between
  <2> QED BY <2>1, <2>2, <2>3, <2>4, <1>m DEF DamageInv
<1>7. CASE SwitchOut
  <2>1. UNCHANGED <<op, opNo, resumable, inq, hung, running, damagedBy>> /\ switches' = 0
    BY <1>7 DEF SwitchOut, TypeSwitch, machine, PlaceInv
  <2>2. \/ pc' \in {"idle", "leave", "sync"}
        \/ pc' = "ask" /\ op = "roll"
    BY <1>7 DEF SwitchOut, AfterLeave, Conclude
  <2> QED BY <2>1, <2>2, <1>m DEF DamageInv
<1>8. CASE SendCommand
  <2>1. /\ UNCHANGED <<cmd, opNo, resumable, switches, hung, running, damagedBy, spent>>
        /\ cmd # "cont" => side' = side
    BY <1>8, CommandGoes DEF SendCommand, opVars, machine
  <2>2. pc = "send" /\ pc' = "wait" /\ UNCHANGED Damaged
    BY <1>8, <2>1 DEF SendCommand, Damaged
  <2>h. cmd # "cont" => ~held
    BY <2>2 DEF HeldInv, TurnInv
  <2>3. ASSUME Punctual PROVE StopFirst'
    BY <1>8, <2>2, <2>3, SentIsAsked DEF DamageInv
  <2>4. ASSUME Punctual, switches = 1, resumable PROVE ~Asked("loadvm")'
    BY <1>8, <2>2, <2>4, SentIsAsked DEF DamageInv
  <2>5. ASSUME Punctual, Asked("cont")' PROVE ~Damaged /\ ~Asked("loadvm")'
    <3>1. CASE cmd = "cont"
      BY <1>8, <2>2, <2>4, <2>5, <3>1, SentIsAsked DEF DamageInv, PlaceInv
    <3>2. CASE cmd # "cont"
      BY <1>8, <2>2, <2>5, <3>2, SentIsAsked DEF DamageInv
    <3> QED BY <3>1, <3>2
  <2>6. ASSUME Punctual, cmd # "cont" PROVE ~Asked("cont")'
    BY <1>8, <2>2, <2>6, SentIsAsked DEF DamageInv
  <2>7. ASSUME Punctual, Stopping', side = "monitor", ~hung, running PROVE Asked("stop")'
    <3>1. CASE cmd = "stop"
      BY <1>8, <2>7, <2>h, <3>1, SentIsAsked
    <3>2. CASE cmd = "loadvm"
      BY <1>8, <2>2, <2>7, <3>2, SentIsAsked DEF DamageInv
    <3> QED BY <2>1, <2>7, <3>1, <3>2
  <2> QED BY <2>1, <2>2, <2>3, <2>4, <2>5, <2>6, <2>7 DEF DamageInv, Punctual
<1>9. CASE Leave
  <2>1. UNCHANGED <<op, opNo, resumable, switches, inq, hung, running, damagedBy, side>> /\ pc = "leave"
    BY <1>9 DEF Leave, monVars, machine, muxVars
  <2>2. \/ pc' \in {"idle", "leave", "sync", "muxback"}
        \/ pc' = "ask" /\ op = "roll"
        \/ pc' = "send" /\ cmd' = "cont" /\ resumable
    <3>1. CASE switches = 0
      BY <1>9, <3>1 DEF Leave, AfterLeave, Conclude
    <3>2. CASE switches = 1
      BY <1>9, <3>2 DEF Leave
    <3> QED BY <3>1, <3>2
  <2> QED BY <2>1, <2>2, <1>m DEF DamageInv
<1>10. CASE Answered \/ GiveUp
  <2>1. UNCHANGED <<op, opNo, switches, inq, hung, running, damagedBy, side>>
    BY <1>10, AnsweredSettles, GiveUpSettles, SettledLeads DEF Answered, GiveUp, monVars, machine, muxVars
  <2>2. PICK ok \in BOOLEAN :
           /\ (pc = "wait" /\ RunSettled(ok)) \/ (pc = "muxwait" /\ MuxSettled(ok))
           /\ pc = "wait" /\ cmd = "loadvm" /\ ok => Answered /\ ~got.err
    BY <1>10, AnsweredSettles, GiveUpSettles, Zenon
  <2>3. pc' \in {"leave", "send", "muxback"}
    BY <2>2, SettledLeads
  <2>4. ASSUME Punctual', switches = 1, resumable', ~resumable PROVE ~Damaged /\ ~Asked("loadvm")
    <3>1. pc = "wait" /\ cmd = "loadvm" /\ Answered /\ ~got.err
      BY <2>2, <2>4, SettledResumes
    <3>2. damagedBy = 0
      BY <2>4, <3>1, CleanIsHeard DEF Done
    <3>3. ~Asked("loadvm")
      BY <1>10, <2>4, <3>1, WaitEndsSilent, <1>c DEF TurnInv
    <3> QED BY <3>2, <3>3 DEF Damaged
  <2>5. ASSUME Punctual', pc' = "send" PROVE ~Asked("cont")
    <3>1. CASE pc = "muxwait"
      BY <2>5, <3>1, <1>c DEF QueueInv
    <3>2. CASE pc = "wait" /\ cmd # "cont"
      BY <2>5, <3>2 DEF DamageInv
    <3> QED BY <2>2, <2>5, <3>1, <3>2, SettledResumes
  <2>6. /\ pc' = "send" /\ cmd' = "loadvm" => ~resumable' /\ pc = "wait" /\ cmd = "stop"
        /\ pc' = "send" => cmd' # "cont"
    BY <2>2, SettledResumes
  <2> QED BY <2>1, <2>3, <2>4, <2>5, <2>6, <1>m DEF DamageInv
<1>11. CASE PasteThrows
  <2>1. UNCHANGED <<op, opNo, resumable, switches, inq, hung, running, damagedBy>>
    BY <1>11 DEF PasteThrows, monVars, machine
  <2>2. pc' \in {"leave", "idle"}
    BY <1>11 DEF PasteThrows
  <2> QED BY <2>1, <2>2, <1>m DEF DamageInv
<1>12. CASE MonitorRuns
  <2>1. UNCHANGED <<pc, op, cmd, opNo, resumable, switches, side, hung, spent>>
    BY <1>12 DEF MonitorRuns, opVars, flags, muxVars
  <2>2. PICK err \in BOOLEAN : Execute(Head(inq), err)
    BY <1>12 DEF MonitorRuns
  <2>3. Asked(Head(inq).cmd) /\ Head(inq).op \in Nat /\ ~hung
    BY <1>12, RunIsAsked, QueueTypes DEF MonitorRuns
  <2>4. Punctual => Head(inq).op = opNo
    BY <1>12, QueueTypes DEF QueueInv, OwnCommands, MonitorRuns
  <2>5. running' => running \/ Head(inq).cmd = "cont"
    BY <2>2, Zenon DEF Execute, RunStop, RunCont, RunLayer, RunSavevm, RunLoadvm, machine
  <2>6. Head(inq).cmd = "stop" => ~running'
    BY <2>2 DEF Execute, RunStop
  <2>7. \/ damagedBy' = damagedBy
        \/ Head(inq).cmd = "loadvm" /\ damagedBy' \in {0, Head(inq).op} /\ running' = running
    BY <2>2 DEF Execute, RunStop, RunCont, RunLayer, RunSavevm, RunLoadvm, machine
  <2>8. ASSUME Punctual PROVE damagedBy' <= opNo
    BY <2>4, <2>7, <2>8 DEF DamageInv
  <2>9. Damaged' => Damaged \/ Head(inq).cmd = "loadvm"
    BY <2>1, <2>7 DEF Damaged
  <2>10. ASSUME Punctual, running' PROVE ~Damaged' /\ StopFirst'
    <3>1. CASE Head(inq).cmd = "cont"
      <4>1. ~Damaged /\ ~Asked("loadvm")
        BY <2>3, <2>10, <3>1 DEF DamageInv
      <4>2. ~Asked("loadvm")'
        BY <1>12, <4>1, RunIsAsked
      <4> QED BY <2>9, <3>1, <4>1, <4>2 DEF StopFirst, Asked
    <3>2. CASE running /\ Head(inq).cmd # "cont"
      <4>1. StopFirst /\ ~Damaged
        BY <2>10, <3>2 DEF DamageInv
      <4>2. Head(inq).cmd # "stop"
        BY <2>6, <2>10
      <4> QED BY <1>12, <2>9, <3>2, <4>1, <4>2, RunIsAsked
    <3> QED BY <2>5, <2>10, <3>1, <3>2
  <2>11. ASSUME ~running' PROVE StopFirst'
    BY <2>11 DEF StopFirst
  <2>12. ASSUME Punctual PROVE ~(pc \in {"mux", "muxtype"} \/ (pc \in {"ask", "ensure"} /\ op = "ckpt"))
    BY <1>12, <2>12 DEF QueueInv, Between, MonitorRuns, Silent
  <2>13. ASSUME Punctual, switches = 1, resumable PROVE ~Damaged' /\ ~Asked("loadvm")'
    BY <1>12, <2>3, <2>9, <2>13, RunIsAsked DEF DamageInv
  <2>14. ASSUME Punctual, Asked("cont")' PROVE ~Damaged' /\ ~Asked("loadvm")'
    BY <1>12, <2>3, <2>9, <2>14, RunIsAsked DEF DamageInv
  <2>15. ASSUME Punctual, pc \in {"send", "wait"} /\ cmd # "cont" PROVE ~Asked("cont")'
    BY <1>12, <2>15, RunIsAsked DEF DamageInv
  <2>16. ASSUME Punctual, Stopping, side = "monitor", running' PROVE Asked("stop")'
    <3>1. running /\ Head(inq).cmd # "stop"
      BY <2>3, <2>5, <2>6, <2>16 DEF DamageInv
    <3> QED BY <1>12, <2>3, <2>16, <3>1, RunIsAsked DEF DamageInv
  <2>17. Punctual' => Punctual
    BY <2>1 DEF Punctual
  <2>18. Stopping' = Stopping
    BY <2>1
  <2> HIDE DEF Stopping
  <2> QED
    BY <2>1, <2>8, <2>10, <2>11, <2>12, <2>13, <2>14, <2>15, <2>16, <2>17, <2>18 DEF DamageInv
<1>13. CASE Deliver
  BY <1>0, <1>13 DEF Deliver, opVars, flags, machine, muxVars
<1>14. CASE MonitorHangs
  <2>1. UNCHANGED <<pc, op, cmd, opNo, resumable, switches, inq, running, damagedBy, side>> /\ hung'
    BY <1>14 DEF MonitorHangs, opVars, flags, machine, muxVars
  <2>2. ~Asked("loadvm")' /\ ~Asked("cont")' /\ StopFirst' /\ UNCHANGED Damaged
    BY <2>1 DEF Asked, StopFirst, Damaged
  <2> QED BY <2>1, <2>2 DEF DamageInv
<1>15. CASE LoseReply
  BY <1>0, <1>15 DEF LoseReply, opVars, flags, machine, muxVars
<1>16. CASE ProgramSetsPasteMode
  BY <1>0, <1>16 DEF ProgramSetsPasteMode, opVars, flags, machine, muxVars, monVars
<1>17. ASSUME NEW key \in {"ctrlA", "c", "other"}, UserPresses(key)
       PROVE  DamageInv'
  <2>1. UNCHANGED <<pc, op, cmd, opNo, resumable, switches, inq, hung, running, damagedBy>> /\ kbd
    BY <1>17 DEF UserPresses, opVars, flags, machine, monVars
  <2>2. ~Stopping'
    BY <2>1 DEF PlaceInv, AwayPcs
  <2> QED BY <2>1, <2>2, <1>m DEF DamageInv
<1>18. CASE UNCHANGED vars
  BY <1>0, <1>18 DEF vars, opVars, flags, machine, muxVars, monVars
<1> QED
  BY <1>1, <1>2, <1>3, <1>4, <1>5, <1>6, <1>7, <1>8, <1>9, <1>10, <1>11, <1>12, <1>13,
     <1>14, <1>15, <1>16, <1>17, <1>18 DEF Next, PageStep

LEMMA DamageInvariant == Spec => []DamageInv
<1>1. Init => DamageInv
  <2> SUFFICES ASSUME Init PROVE DamageInv
    OBVIOUS
  <2>1. inq = <<>> /\ pc = "idle" /\ opNo = 0 /\ damagedBy = 0
    BY DEF Init
  <2>2. ~Damaged /\ \A c : c # "unknown" => ~Asked(c)
    BY <2>1, CalmIsQuiet, QuietAsksNothing DEF Damaged, Calm
  <2>3. StopFirst
    BY <2>1 DEF StopFirst
  <2> QED BY <2>1, <2>2, <2>3 DEF DamageInv, Stopping
<1>2. TypeOK /\ Latched /\ PlaceInv /\ TurnInv /\ HeldInv /\ QueueInv /\ DamageInv /\ [Next]_vars
        => DamageInv'
  BY DamageStep
<1> QED
  BY <1>1, <1>2, TypeCorrect, LatchInvariant, PlaceInvariant, TurnInvariant, HeldInvariant,
     QueueInvariant, PTL DEF Spec

\* For any number of operations and any faults but a late answer, bracketed paste on or
\* off: after a loadvm that failed part way, rollback() of serialfs.js does not let the
\* machine run.
THEOREM NeverResumesItsFailedLoad == Spec => []NoContAfterFailedLoad
<1>1. DamageInv => NoContAfterFailedLoad
  BY DEF DamageInv, Damaged, NoContAfterFailedLoad
<1> QED BY <1>1, DamageInvariant, PTL
-----------------------------------------------------------------------------
(***************************************************************************)
(* What the page believes, and what it reports.  With at most one paste    *)
(* that throws the count is odd wherever a command is sent, so every clean *)
(* answer is the answer to its own command; what follows is what each of   *)
(* them makes true, and that nothing undoes it before the operation is     *)
(* over.                                                                   *)
(***************************************************************************)
\* The part of an operation behind its last command but cont.
Finishing == \/ pc \in {"leave", "muxback", "backtype", "sync", "syncwait"}
             \/ pc \in {"send", "wait"} /\ cmd = "cont"
             \/ pc \in {"ask", "ensure"} /\ op = "roll"

\* A savevm may have failed, and the page has not heard what is in the slot.
InDoubt == \/ pc = "wait" /\ cmd = "savevm"
           \/ pc \in {"send", "wait"} /\ cmd = "info"

Saved == slot = opNo /\ savedAt = opNo
Back  == loadedBy = opNo /\ damagedBy = 0

\* Which operation sends which command, and what it knows by then.
CommandInv ==
    /\ pc # "idle" => op \in {"ckpt", "roll"}
    /\ pc \in {"ask", "ensure"} /\ op = "roll" => ~fin /\ ~why
    /\ pc \in {"send", "wait"} =>
         /\ cmd \in {"layer", "savevm", "info"} => op = "ckpt"
         /\ cmd = "loadvm" => op = "roll"
         /\ cmd = "info" => why
    /\ outcome \in {"saved", "back"} => fin

ReportInv == Punctual /\ OneThrow =>
    /\ layered => layer
    /\ Finishing /\ ~fin /\ ~why => (op = "ckpt" => Saved) /\ (op = "roll" => Back)
    /\ (outcome = "saved" => Saved) /\ (outcome = "back" => Back)
    /\ savedAt <= opNo
    /\ slot = 0 \/ slot >= savedAt
    /\ spent["throw"] = 0 /\ savedAt # 0 /\ ~InDoubt => slot # 0

\* What the end of a wait leads to, command by command.
LEMMA SettledReports ==
    ASSUME TypeOK, NEW ok \in BOOLEAN,
           (pc = "wait" /\ RunSettled(ok)) \/ (pc = "muxwait" /\ MuxSettled(ok))
    PROVE  \/ /\ pc = "muxwait" \/ cmd = "stop"
              /\ UNCHANGED <<layered, savedAt>>
              /\ \/ pc' = "leave" /\ why'
                 \/ pc' = "send" /\ cmd' = "stop"
                 \/ pc' = "send" /\ op = "ckpt" /\ cmd' \in {"savevm", "layer"}
                 \/ pc' = "send" /\ op = "roll" /\ cmd' = "loadvm"
           \/ /\ pc = "wait" /\ cmd = "layer"
              /\ UNCHANGED savedAt /\ (layered' => ok)
              /\ (pc' = "leave" /\ why') \/ (pc' = "send" /\ cmd' = "savevm")
           \/ /\ pc = "wait" /\ cmd = "savevm" /\ UNCHANGED layered
              /\ \/ ok /\ pc' = "leave" /\ savedAt' = opNo
                 \/ pc' = "send" /\ cmd' = "info" /\ why' /\ UNCHANGED savedAt
           \/ /\ pc = "wait" /\ cmd = "info" /\ UNCHANGED <<layered, why>> /\ pc' = "leave"
              /\ savedAt' = 0 \/ (ok /\ got.row /\ UNCHANGED savedAt)
           \/ /\ pc = "wait" /\ cmd = "loadvm" /\ UNCHANGED <<layered, savedAt>> /\ pc' = "leave"
              /\ why' \/ ok
           \/ /\ pc = "wait" /\ cmd = "cont" /\ UNCHANGED <<layered, savedAt>> /\ pc' = "muxback"
              /\ why => why'
<1>1. CASE pc = "muxwait" /\ MuxSettled(ok)
  BY <1>1 DEF MuxSettled, flags
<1>2. CASE pc = "wait" /\ cmd = "stop" /\ StopSettled(ok)
  <2>1. UNCHANGED <<layered, savedAt>> /\ why' = ~ok
    BY <1>2 DEF StopSettled
  <2>2. \/ ~ok /\ pc' = "leave"
        \/ op = "roll" /\ pc' = "send" /\ cmd' = "loadvm"
        \/ op = "ckpt" /\ pc' = "send" /\ cmd' \in {"savevm", "layer"}
    BY <1>2 DEF StopSettled
  <2> QED BY <1>2, <2>1, <2>2
<1>3. CASE pc = "wait" /\ cmd = "layer" /\ LayerSettled(ok)
  BY <1>3 DEF LayerSettled
<1>4. CASE pc = "wait" /\ cmd = "savevm" /\ SavevmSettled(ok)
  BY <1>4 DEF SavevmSettled
<1>5. CASE pc = "wait" /\ cmd = "info" /\ InfoSettled(ok)
  BY <1>5 DEF InfoSettled
<1>6. CASE pc = "wait" /\ cmd = "loadvm" /\ LoadvmSettled(ok)
  BY <1>6 DEF LoadvmSettled
<1>7. CASE pc = "wait" /\ cmd = "cont" /\ ContSettled(ok)
  <2>1. why => why'
    BY <1>7, Zenon DEF ContSettled
  <2> QED BY <1>7, <2>1 DEF ContSettled
<1> QED BY <1>1, <1>2, <1>3, <1>4, <1>5, <1>6, <1>7 DEF RunSettled

LEMMA CommandStep ==
    ASSUME TypeOK, Latched, TurnInv, CommandInv, [Next]_vars
    PROVE  CommandInv'
<1>s. switches \in {0, 1}
  BY DEF TypeOK, ValuesTypeOK
<1> USE <1>s DEF CommandInv, opVars
<1>0. ASSUME UNCHANGED <<pc, op, cmd, fin, why, outcome>> PROVE CommandInv'
  BY <1>0
<1>1. CASE CheckpointStart \/ RollbackStart
  BY <1>1 DEF CheckpointStart, RollbackStart
<1>2. CASE AskForPrompt
  BY <1>2 DEF AskForPrompt
<1>3. CASE PromptCame
  BY <1>3 DEF PromptCame
<1>4. CASE NoPrompt
  BY <1>4 DEF NoPrompt, Conclude
<1>5. CASE ResetPaste
  BY <1>5 DEF ResetPaste
<1>6. CASE SwitchIn
  BY <1>6 DEF SwitchIn
<1>7. CASE SwitchOut
  BY <1>7 DEF SwitchOut, AfterLeave, Conclude
<1>8. CASE SendCommand
  BY <1>8 DEF SendCommand
<1>9. CASE Leave
  <2>1. CASE switches = 0
    BY <1>9, <2>1 DEF Leave, AfterLeave, Conclude
  <2>2. CASE switches = 1
    BY <1>9, <2>2 DEF Leave
  <2> QED BY <2>1, <2>2
<1>10. CASE Answered \/ GiveUp
  <2>1. PICK ok \in BOOLEAN : (pc = "wait" /\ RunSettled(ok)) \/ (pc = "muxwait" /\ MuxSettled(ok))
    BY <1>10, AnsweredSettles, GiveUpSettles, Zenon
  <2>2. UNCHANGED <<op, fin, outcome>> /\ pc' \in {"leave", "send", "muxback"} /\ pc # "idle"
    BY <2>1, SettledLeads
  <2>3. pc' = "send" => /\ cmd' \in {"layer", "savevm", "info"} => op = "ckpt"
                        /\ cmd' = "loadvm" => op = "roll"
                        /\ cmd' = "info" => why'
    BY <2>1, SettledReports
  <2> QED BY <2>2, <2>3
<1>11. CASE TypeResync
  BY <1>11 DEF TypeResync
<1>12. CASE Resynced
  BY <1>12 DEF Resynced, Conclude
<1>13. CASE PasteThrows
  BY <1>13 DEF PasteThrows, PastePcs
<1>14. CASE MonitorRuns \/ Deliver \/ MonitorHangs \/ LoseReply \/ ProgramSetsPasteMode
  BY <1>0, <1>14 DEF MonitorRuns, Deliver, MonitorHangs, LoseReply, ProgramSetsPasteMode
<1>15. ASSUME NEW key \in {"ctrlA", "c", "other"}, UserPresses(key)
       PROVE  CommandInv'
  BY <1>0, <1>15 DEF UserPresses
<1>16. CASE UNCHANGED vars
  BY <1>0, <1>16 DEF vars
<1> QED
  BY <1>1, <1>2, <1>3, <1>4, <1>5, <1>6, <1>7, <1>8, <1>9, <1>10, <1>11, <1>12, <1>13,
     <1>14, <1>15, <1>16 DEF Next, PageStep

\* The command the monitor runs is the one the page waits for, or none at all.
LEMMA RunsTheCommand ==
    ASSUME TypeOK, TurnInv, QueueInv, Punctual, OneThrow, MonitorRuns
    PROVE  \/ Head(inq).cmd = "unknown"
           \/ pc = "wait" /\ Head(inq) = [cmd |-> cmd, op |-> opNo]
<1>1. ~Calm /\ ~hung
  BY DEF MonitorRuns, Calm
<1>2. Quiet \/ (pc = "wait" /\ OneAnswer)
  BY DEF QueueInv, TurnInv
<1>3. CASE Quiet
  <2>1. Head(inq) = inq[1] /\ 1 \in 1..Len(inq)
    BY <1>1, QueueTypes DEF Calm
  <2> QED BY <1>1, <1>3, <2>1 DEF Quiet
<1>4. CASE pc = "wait" /\ OneAnswer
  <2>1. inq = <<[cmd |-> cmd, op |-> opNo]>>
    BY <1>1, <1>4 DEF OneAnswer
  <2> QED BY <1>4, <2>1
<1> QED BY <1>2, <1>3, <1>4

LEMMA ReportStep ==
    ASSUME TypeOK, Latched, PlaceInv, TurnInv, QueueInv, CommandInv, ReportInv, [Next]_vars
    PROVE  ReportInv'
<1>g. /\ spent["throw"] \in Nat
      /\ Punctual' => Punctual
      /\ OneThrow' => OneThrow
      /\ spent'["throw"] = 0 => spent["throw"] = 0 /\ ~PasteThrows
  BY SpentGrows DEF OneThrow
<1>s. /\ switches \in {0, 1} /\ opNo \in Nat /\ savedAt \in Nat /\ slot \in Nat
      /\ loadedBy \in Nat /\ damagedBy \in Nat
  BY DEF TypeOK, ValuesTypeOK
<1> USE <1>g, <1>s DEF Finishing, InDoubt, Saved, Back
<1>0. ASSUME UNCHANGED <<op, opNo, layered, savedAt, machine>>,
             pc' # "idle" /\ (Finishing' /\ ~fin' /\ ~why' => Finishing /\ ~fin /\ ~why),
             ~InDoubt,
             UNCHANGED outcome
      PROVE  ReportInv'
  BY <1>0 DEF ReportInv, machine
<1>00. ASSUME UNCHANGED <<pc, cmd, op, opNo, fin, why, outcome, layered, savedAt, machine>>
       PROVE  ReportInv'
  BY <1>00 DEF ReportInv, machine
<1>1. CASE CheckpointStart \/ RollbackStart
  <2>1. UNCHANGED <<layered, savedAt, layer, slot>> /\ opNo' = opNo + 1 /\ outcome' = "none"
    BY <1>1 DEF CheckpointStart, RollbackStart, flags, machine
  <2>2. (pc' = "ask" /\ op' = "ckpt") \/ pc' = "mux"
    BY <1>1 DEF CheckpointStart, RollbackStart
  <2>3. pc = "idle"
    BY <1>1 DEF CheckpointStart, RollbackStart, Latched
  <2> QED BY <2>1, <2>2, <2>3 DEF ReportInv
<1>2. CASE AskForPrompt \/ ResetPaste \/ TypeResync
  <2>1. UNCHANGED <<op, opNo, layered, savedAt, machine, fin, why, outcome>>
    BY <1>2 DEF AskForPrompt, ResetPaste, TypeResync, opVars, flags
  <2>2. \/ pc = "ask" /\ pc' = "ensure"
        \/ pc = "mux" /\ pc' = "muxtype"
        \/ pc = "muxback" /\ pc' = "backtype"
        \/ pc = "sync" /\ pc' = "syncwait"
    BY <1>2 DEF AskForPrompt, ResetPaste, TypeResync
  <2> QED BY <1>0, <2>1, <2>2
<1>3. CASE PromptCame
  <2>1. UNCHANGED <<op, opNo, layered, savedAt, machine, fin, why, outcome>> /\ pc = "ensure"
    BY <1>3 DEF PromptCame, opVars, flags
  <2>2. pc' = (IF op = "ckpt" THEN "mux" ELSE "sync")
    BY <1>3 DEF PromptCame
  <2> QED BY <1>0, <2>1, <2>2 DEF CommandInv
<1>4. CASE NoPrompt
  <2>1. UNCHANGED <<op, opNo, layered, savedAt, machine, why>> /\ pc = "ensure" /\ pc' = "leave" /\ fin'
    BY <1>4 DEF NoPrompt, Conclude, flags
  <2>2. outcome' = (IF op = "ckpt" THEN "noprompt" ELSE "back")
    BY <1>4 DEF NoPrompt, Conclude
  <2> QED BY <2>1, <2>2 DEF ReportInv, CommandInv, machine
<1>5. CASE SwitchIn
  <2>1. UNCHANGED <<op, opNo, layered, savedAt, machine, fin, why, outcome>>
    BY <1>5 DEF SwitchIn, opVars
  <2>2. pc' = "muxwait" \/ (pc' = "send" /\ cmd' = "stop")
    BY <1>5 DEF SwitchIn
  <2>3. pc \in {"mux", "muxtype"}
    BY <1>5 DEF SwitchIn
  <2> QED BY <1>0, <2>1, <2>2, <2>3
<1>6. ASSUME AfterLeave, UNCHANGED <<op, opNo, why, layered, savedAt, machine>>,
             pc \in {"leave", "muxback", "backtype"}
      PROVE  ReportInv'
  <2>1. CASE fin
    <3>1. pc' = "idle" /\ UNCHANGED <<fin, outcome>>
      BY <1>6, <2>1 DEF AfterLeave
    <3> QED BY <1>6, <2>1, <3>1 DEF ReportInv, machine
  <2>2. CASE ~fin /\ op = "ckpt" /\ ~paused
    <3>1. pc' = "sync" /\ UNCHANGED <<fin, outcome>>
      BY <1>6, <2>2 DEF AfterLeave
    <3> QED BY <1>6, <2>2, <3>1 DEF ReportInv, machine
  <2>3. CASE ~fin /\ op = "ckpt" /\ paused
    <3>1. pc' = "leave" /\ fin' /\ outcome' = (IF why THEN "failed" ELSE "saved")
      BY <1>6, <2>3 DEF AfterLeave, Conclude
    <3> QED BY <1>6, <2>3, <3>1 DEF ReportInv, machine
  <2>4. CASE ~fin /\ op = "roll" /\ why
    <3>1. pc' = "leave" /\ fin' /\ outcome' = "failed"
      BY <1>6, <2>4 DEF AfterLeave, Conclude
    <3> QED BY <1>6, <2>4, <3>1 DEF ReportInv, machine
  <2>5. CASE ~fin /\ op = "roll" /\ ~why
    <3>1. pc' = "ask" /\ UNCHANGED <<fin, outcome>>
      BY <1>6, <2>5 DEF AfterLeave
    <3> QED BY <1>6, <2>5, <3>1 DEF ReportInv, machine
  <2> QED BY <1>6, <2>1, <2>2, <2>3, <2>4, <2>5 DEF CommandInv
<1>7. CASE SwitchOut
  <2>1. UNCHANGED <<op, opNo, why, layered, savedAt, machine>> /\ AfterLeave
        /\ pc \in {"muxback", "backtype"}
    BY <1>7 DEF SwitchOut
  <2> QED BY <1>6, <2>1
<1>8. CASE SendCommand
  <2>1. UNCHANGED <<op, opNo, cmd, layered, savedAt, machine, fin, why, outcome>>
        /\ pc = "send" /\ pc' = "wait"
    BY <1>8 DEF SendCommand, opVars
  <2> QED BY <2>1 DEF ReportInv, machine
<1>9. CASE Leave
  <2>1. UNCHANGED <<op, opNo, why, layered, savedAt, machine>> /\ pc = "leave"
    BY <1>9 DEF Leave
  <2>2. CASE switches = 0
    <3>1. AfterLeave
      BY <1>9, <2>2 DEF Leave
    <3> QED BY <1>6, <2>1, <3>1
  <2>3. CASE switches = 1
    <3>1. UNCHANGED <<fin, outcome>> /\ (pc' = "muxback" \/ (pc' = "send" /\ cmd' = "cont"))
      BY <1>9, <2>3 DEF Leave
    <3> QED BY <1>0, <2>1, <3>1
  <2> QED BY <2>2, <2>3
<1>10. CASE Answered \/ GiveUp
  <2>1. PICK ok \in BOOLEAN :
           /\ (pc = "wait" /\ RunSettled(ok)) \/ (pc = "muxwait" /\ MuxSettled(ok))
           /\ pc = "wait" /\ cmd # "stop" /\ ok => Answered /\ ~got.err
    BY <1>10, AnsweredSettles, GiveUpSettles, Zenon
  <2>2. UNCHANGED <<op, opNo, fin, outcome, machine>>
    BY <1>10, <2>1, SettledLeads DEF Answered, GiveUp
  <2>3. ASSUME Punctual', OneThrow', pc = "wait", cmd # "stop", ok
        PROVE  Done /\ Clean
    <3>1. switches = 1 /\ Answered /\ ~got.err
      BY <2>1, <2>3 DEF TurnInv
    <3> QED BY <2>3, <3>1, CleanIsHeard
  <2>4. fin /\ pc = "wait" => cmd = "cont"
    BY DEF TurnInv
  <2>5. CASE pc = "muxwait" \/ cmd = "stop"
    <3>1. UNCHANGED <<layered, savedAt>>
      BY <2>1, <2>5, SettledReports
    <3>2. \/ pc' = "leave" /\ why'
          \/ pc' = "send" /\ cmd' \in {"stop", "savevm", "layer", "loadvm"}
      BY <2>1, <2>5, SettledReports
    <3> QED BY <1>0, <2>1, <2>2, <2>5, <3>1, <3>2
  <2>6. CASE pc = "wait" /\ cmd = "layer"
    <3>1. UNCHANGED savedAt /\ (layered' => ok)
      BY <2>1, <2>6, SettledReports
    <3>2. (pc' = "leave" /\ why') \/ (pc' = "send" /\ cmd' = "savevm")
      BY <2>1, <2>6, SettledReports
    <3>3. Punctual' /\ OneThrow' /\ layered' => layer
      BY <2>3, <2>6, <3>1 DEF Done
    <3> QED BY <2>2, <2>6, <3>1, <3>2, <3>3 DEF ReportInv, machine
  <2>7. CASE pc = "wait" /\ cmd = "savevm"
    <3>1. UNCHANGED layered
      BY <2>1, <2>7, SettledReports
    <3>2. CASE ok /\ pc' = "leave" /\ savedAt' = opNo
      <4>1. Punctual' /\ OneThrow' => slot = opNo
        BY <2>3, <2>7, <3>2 DEF Done
      <4>2. ~fin /\ op = "ckpt" /\ outcome \notin {"saved", "back"}
        BY <2>4, <2>7 DEF CommandInv
      <4> QED BY <2>2, <2>7, <3>1, <3>2, <4>1, <4>2 DEF ReportInv, machine
    <3>3. CASE pc' = "send" /\ cmd' = "info" /\ why' /\ UNCHANGED savedAt
      BY <2>2, <2>7, <3>1, <3>3 DEF ReportInv, machine
    <3> QED BY <2>1, <2>7, <3>2, <3>3, SettledReports
  <2>8. CASE pc = "wait" /\ cmd = "info"
    <3>1. UNCHANGED <<layered, why>> /\ pc' = "leave"
      BY <2>1, <2>8, SettledReports
    <3>2. why /\ outcome \notin {"saved", "back"}
      BY <2>4, <2>8 DEF CommandInv
    <3>3. CASE savedAt' = 0
      BY <2>2, <2>8, <3>1, <3>2, <3>3 DEF ReportInv, machine
    <3>4. CASE ok /\ got.row /\ UNCHANGED savedAt
      <4>1. Punctual' /\ OneThrow' => slot # 0
        BY <2>3, <2>8, <3>4 DEF Done, Listed
      <4> QED BY <2>2, <2>8, <3>1, <3>2, <3>4, <4>1 DEF ReportInv, machine
    <3> QED BY <2>1, <2>8, <3>3, <3>4, SettledReports
  <2>9. CASE pc = "wait" /\ cmd = "loadvm"
    <3>1. UNCHANGED <<layered, savedAt>> /\ pc' = "leave" /\ (why' \/ ok)
      BY <2>1, <2>9, SettledReports
    <3>2. Punctual' /\ OneThrow' /\ ~why' => Back
      BY <2>3, <2>9, <3>1 DEF Done
    <3>3. op = "roll"
      BY <2>9 DEF CommandInv
    <3> QED BY <2>2, <2>9, <3>1, <3>2, <3>3 DEF ReportInv, machine
  <2>10. CASE pc = "wait" /\ cmd = "cont"
    <3>1. UNCHANGED <<layered, savedAt>> /\ pc' = "muxback" /\ (why => why')
      BY <2>1, <2>10, SettledReports
    <3> QED BY <1>0, <2>2, <2>10, <3>1
  <2> QED BY <2>1, <2>5, <2>6, <2>7, <2>8, <2>9, <2>10, SettledReports
<1>11. CASE Resynced
  <2>1. UNCHANGED <<op, opNo, why, layered, savedAt, machine>> /\ pc = "syncwait" /\ pc' = "leave" /\ fin'
    BY <1>11 DEF Resynced, Conclude, flags
  <2>2. outcome' = (IF why THEN "failed" ELSE IF op = "ckpt" THEN "saved" ELSE "back")
    BY <1>11 DEF Resynced, Conclude
  <2>3. ~fin /\ op \in {"ckpt", "roll"}
    BY <2>1 DEF TurnInv, FinPcs, CommandInv
  <2> QED BY <2>1, <2>2, <2>3 DEF ReportInv, machine
<1>12. CASE PasteThrows
  <2>1. UNCHANGED <<op, opNo, layered, savedAt, machine>> /\ fin' /\ outcome' = "thrown"
    BY <1>12 DEF PasteThrows
  <2> QED BY <1>12, <2>1 DEF ReportInv, machine
<1>13. CASE MonitorRuns
  <2>1. UNCHANGED <<pc, cmd, op, opNo, fin, why, outcome, layered, savedAt, spent>>
    BY <1>13 DEF MonitorRuns, opVars, flags
  <2>u. CASE Head(inq).cmd = "unknown"
    <3>1. UNCHANGED machine
      BY <1>13, <2>u DEF MonitorRuns, Execute
    <3> QED BY <1>00, <2>1, <3>1
  <2> SUFFICES ASSUME Punctual, OneThrow, pc = "wait", Head(inq) = [cmd |-> cmd, op |-> opNo]
               PROVE  ReportInv'
    BY <1>13, <2>u, RunsTheCommand DEF ReportInv
  <2>2. PICK err \in BOOLEAN : Execute([cmd |-> cmd, op |-> opNo], err)
    BY <1>13 DEF MonitorRuns
  <2>3. pc = "wait"
    OBVIOUS
  <2>4. layer => layer'
    BY <2>2, Zenon DEF Execute, RunStop, RunCont, RunLayer, RunSavevm, RunLoadvm, machine
  <2>5. \/ slot' = slot
        \/ cmd = "savevm" /\ slot' \in {opNo, 0}
    BY <2>2 DEF Execute, RunStop, RunCont, RunLayer, RunSavevm, RunLoadvm, machine
  <2>6. UNCHANGED <<loadedBy, damagedBy>> \/ cmd = "loadvm"
    BY <2>2 DEF Execute, RunStop, RunCont, RunLayer, RunSavevm, RunLoadvm, machine
  <2>7. cmd # "cont" => ~fin /\ outcome \notin {"saved", "back"}
    BY <2>3 DEF TurnInv, CommandInv
  <2>8. slot' = 0 \/ slot' >= savedAt
    BY <2>5 DEF ReportInv
  <2>9. spent["throw"] = 0 /\ savedAt # 0 /\ ~InDoubt => slot' # 0
    BY <2>3, <2>5 DEF ReportInv
  <2>10. Finishing => cmd = "cont"
    BY <2>3
  <2>11. cmd = "cont" => UNCHANGED <<slot, loadedBy, damagedBy>>
    BY <2>5, <2>6
  <2> QED BY <2>1, <2>3, <2>4, <2>7, <2>8, <2>9, <2>10, <2>11 DEF ReportInv
<1>14. CASE Deliver \/ MonitorHangs \/ LoseReply \/ ProgramSetsPasteMode
  BY <1>00, <1>14 DEF Deliver, MonitorHangs, LoseReply, ProgramSetsPasteMode, opVars, flags
<1>15. ASSUME NEW key \in {"ctrlA", "c", "other"}, UserPresses(key)
       PROVE  ReportInv'
  BY <1>00, <1>15 DEF UserPresses, opVars, flags
<1>16. CASE UNCHANGED vars
  BY <1>00, <1>16 DEF vars, opVars, flags
<1> QED
  BY <1>1, <1>2, <1>3, <1>4, <1>5, <1>7, <1>8, <1>9, <1>10, <1>11, <1>12, <1>13,
     <1>14, <1>15, <1>16 DEF Next, PageStep

LEMMA ReportInvariant == Spec => [](CommandInv /\ ReportInv)
<1>1. Init => CommandInv /\ ReportInv
  BY DEF Init, CommandInv, ReportInv, Finishing, InDoubt
<1>2. TypeOK /\ Latched /\ PlaceInv /\ TurnInv /\ QueueInv /\ CommandInv /\ ReportInv /\ [Next]_vars
        => CommandInv' /\ ReportInv'
  BY CommandStep, ReportStep
<1> QED
  BY <1>1, <1>2, TypeCorrect, LatchInvariant, PlaceInvariant, TurnInvariant, QueueInvariant, PTL
     DEF Spec

\* For any number of operations, while no answer comes late and no paste throws: between
\* operations savedAt and layered in serialfs.js are right about the slot and the layer,
\* whatever the monitor answers, loses or refuses.
THEOREM PageIsRight == Spec => []PageKnowsMachine
<1>1. Latched /\ ReportInv => PageKnowsMachine
  <2> SUFFICES ASSUME Latched, ReportInv, ~busy, Punctual, spent["throw"] = 0
               PROVE  (savedAt # 0 => slot >= savedAt) /\ (layered => layer)
    BY DEF PageKnowsMachine
  <2>1. ~InDoubt /\ OneThrow
    BY DEF Latched, InDoubt, OneThrow
  <2> QED BY <2>1 DEF ReportInv
<1> QED BY <1>1, LatchInvariant, ReportInvariant, PTL

\* For any number of operations, while no answer comes late and at most one paste throws:
\* what checkpoint() and rollback() tell the user has happened to the machine.
THEOREM ReportsAreTrue == Spec => []ReportsHold
<1>1. ReportInv => ReportsHold
  BY DEF ReportInv, ReportsHold, Saved, Back
<1> QED BY <1>1, ReportInvariant, PTL
-----------------------------------------------------------------------------
(***************************************************************************)
(* One lost reply, one late one or one paste that throws never leaves the  *)
(* machine stopped by accident.                                            *)
(*                                                                         *)
(* The argument does not follow which answer is taken for which.  Whether  *)
(* the machine will stand still once the monitor has run what it was sent  *)
(* (WillStop) changes only when a stop or a cont reaches the monitor; the  *)
(* page knows of every stop it sent, and sends cont on its way out unless  *)
(* a loadvm has taken the right to.  The one fault that is allowed is      *)
(* needed for a stop to be forgotten, and a second one to lose the cont.   *)
(***************************************************************************)
\* The faults that StoppedForCause counts.
Harms == spent["lost"] + spent["late"] + spent["throw"]

\* At most one fault, a monitor that still runs what it is sent, and no Ctrl-A that the
\* cont of the finally block could meet.
Mended == Harms <= 1 /\ ~hung /\ Resumed

\* Every command reaches the monitor whole.
Plain == OneThrow /\ Resumed

\* Harms only grow, and a step of each kind costs one.
LEMMA FaultsGrow ==
    ASSUME TypeOK, [Next]_vars
    PROVE  /\ Harms \in Nat /\ Harms' \in Nat /\ Harms' >= Harms
           /\ Mended' => Mended
           /\ Plain' => Plain
           /\ Harms' = 0 => Harms = 0
           /\ Harms <= 1 => OneThrow
           /\ Mended => Plain
           /\ Harms = 0 => Punctual /\ Plain
<1>t. \A k \in FaultKinds : spent[k] \in Nat
  BY DEF TypeOK, QueuesTypeOK
<1>k. /\ "lost" \in FaultKinds /\ "late" \in FaultKinds /\ "throw" \in FaultKinds
      /\ "hang" \in FaultKinds /\ "race" \in FaultKinds
  BY DEF FaultKinds
<1>1. \/ UNCHANGED spent
      \/ \E k \in FaultKinds : Fault(k)
  <2>1. UNCHANGED spent \/ Unheard \/ PasteThrows \/ MonitorHangs \/ LoseReply \/ Fault("race")
    BY DEF Next, PageStep, CheckpointStart, RollbackStart, AskForPrompt, PromptCame, NoPrompt,
           ResetPaste, SwitchIn, SwitchOut, SendCommand, Leave, Answered, TypeResync, Resynced,
           GiveUp, MonitorRuns, Deliver, ProgramSetsPasteMode, UserPresses, vars
  <2> QED BY <2>1, <1>k DEF Unheard, PasteThrows, MonitorHangs, LoseReply
<1>2. \A k \in FaultKinds : spent'[k] \in Nat /\ spent'[k] >= spent[k]
  BY <1>1, <1>t, FaultSpends
<1>3. hung' \/ ~hung
  BY DEF Next, PageStep, CheckpointStart, RollbackStart, AskForPrompt, PromptCame, NoPrompt,
         ResetPaste, SwitchIn, SwitchOut, SendCommand, Leave, Answered, TypeResync, Resynced,
         GiveUp, MonitorRuns, Deliver, ProgramSetsPasteMode, UserPresses, vars, monVars,
         PasteThrows, MonitorHangs, LoseReply, TypeSwitch, TypeCommand
<1>4. /\ Harms \in Nat /\ Harms' \in Nat /\ Harms' >= Harms
      /\ Harms' <= 1 => Harms <= 1
      /\ Harms' = 0 => Harms = 0
      /\ Harms <= 1 => spent["throw"] <= 1
      /\ Harms = 0 => spent["late"] = 0 /\ spent["throw"] = 0
      /\ spent'["throw"] <= 1 => spent["throw"] <= 1
  BY <1>t, <1>2, <1>k DEF Harms
<1>5. Resumed' => Resumed
  BY ResumedStays
<1>6. spent["throw"] = 0 => OneThrow /\ Resumed
  BY DEF OneThrow, Resumed
<1> QED BY <1>3, <1>4, <1>5, <1>6 DEF Mended, Plain, OneThrow, Punctual

LEMMA FaultCosts ==
    ASSUME TypeOK, Fault("lost") \/ Fault("late") \/ Fault("throw")
    PROVE  Harms' = Harms + 1 /\ Harms \in Nat
<1>k. "lost" \in FaultKinds /\ "late" \in FaultKinds /\ "throw" \in FaultKinds
  BY DEF FaultKinds
<1>t. \A k \in FaultKinds : spent[k] \in Nat
  BY DEF TypeOK, QueuesTypeOK
<1> QED BY <1>k, <1>t, FaultSpends DEF Harms

-----------------------------------------------------------------------------
(***************************************************************************)
(* The page's flags.                                                       *)
(***************************************************************************)
\* From the latch to the switch into the monitor.
Early == \/ pc \in {"mux", "muxtype"}
         \/ pc \in {"ask", "ensure"} /\ op = "ckpt"

\* With the mux moved, or about to be moved back.
Inside == \/ pc \in {"send", "wait", "muxback", "backtype"}
          \/ pc = "leave" /\ switches = 1

\* The machine stands still because a loadvm was sent, and the page knows.
Known == paused /\ loadOpen

FlagInv ==
    /\ got.seen => pc \in {"muxwait", "wait"}
    /\ ~resumable => Known
    /\ Early \/ pc = "muxwait" => resumable
    /\ pc \in {"send", "wait"} => (resumable <=> cmd # "loadvm")

LEMMA FlagStep ==
    ASSUME TypeOK, Latched, TurnInv, CommandInv, FlagInv, [Next]_vars
    PROVE  FlagInv'
<1>s. switches \in {0, 1} /\ resumable \in BOOLEAN
  BY DEF TypeOK, FlagsTypeOK, ValuesTypeOK
<1> USE <1>s DEF FlagInv, Early, Known
<1>0. ASSUME UNCHANGED <<got, pc, op, cmd, resumable, paused, loadOpen>> PROVE FlagInv'
  BY <1>0
<1>1. CASE CheckpointStart \/ RollbackStart
  <2>1. UNCHANGED got /\ resumable' = TRUE /\ pc' \in {"ask", "mux"} /\ pc = "idle"
    BY <1>1 DEF CheckpointStart, RollbackStart, Latched
  <2> QED BY <2>1
<1>2. CASE AskForPrompt \/ PromptCame \/ NoPrompt \/ TypeResync \/ Resynced
  <2>1. UNCHANGED <<got, op, resumable, paused, loadOpen>> /\ pc \notin {"muxwait", "wait"}
    BY <1>2 DEF AskForPrompt, PromptCame, NoPrompt, TypeResync, Resynced, opVars, flags
  <2>2. \/ pc = "ask" /\ pc' = "ensure"
        \/ pc = "ensure" /\ op = "ckpt" /\ pc' = "mux"
        \/ pc' \in {"sync", "syncwait", "leave"}
    BY <1>2 DEF AskForPrompt, PromptCame, NoPrompt, TypeResync, Resynced, Conclude
  <2> QED BY <2>1, <2>2
<1>3. CASE ResetPaste
  <2>1. UNCHANGED <<got, op, resumable, paused, loadOpen>>
    BY <1>3 DEF ResetPaste, opVars, flags
  <2>2. (pc = "mux" /\ pc' = "muxtype") \/ (pc = "muxback" /\ pc' = "backtype")
    BY <1>3 DEF ResetPaste
  <2> QED BY <2>1, <2>2
<1>4. CASE SwitchIn
  <2>1. got' = Nothing /\ UNCHANGED <<op, resumable, paused, loadOpen>> /\ pc \in {"mux", "muxtype"}
    BY <1>4 DEF SwitchIn, TypeSwitch, opVars
  <2>2. pc' = "muxwait" \/ (pc' = "send" /\ cmd' = "stop")
    BY <1>4 DEF SwitchIn
  <2> QED BY <2>1, <2>2 DEF Nothing
<1>5. CASE SwitchOut
  <2>1. got' = Nothing /\ UNCHANGED <<op, resumable, paused, loadOpen>>
    BY <1>5 DEF SwitchOut, TypeSwitch
  <2>2. \/ pc' \in {"idle", "sync", "leave"}
        \/ pc' = "ask" /\ op = "roll"
    BY <1>5 DEF SwitchOut, AfterLeave, Conclude
  <2> QED BY <2>1, <2>2 DEF Nothing
<1>6. CASE SendCommand
  <2>1. got' = Nothing /\ UNCHANGED <<cmd, op, resumable, paused, loadOpen>> /\ pc = "send" /\ pc' = "wait"
    BY <1>6 DEF SendCommand, TypeCommand, opVars
  <2> QED BY <2>1 DEF Nothing
<1>7. CASE Leave
  <2>1. UNCHANGED <<got, op, resumable, paused, loadOpen>> /\ pc = "leave"
    BY <1>7 DEF Leave
  <2>2. \/ pc' \in {"idle", "sync", "leave", "muxback"}
        \/ pc' = "ask" /\ op = "roll"
        \/ pc' = "send" /\ cmd' = "cont" /\ resumable
    <3>1. CASE switches = 0
      BY <1>7, <3>1 DEF Leave, AfterLeave, Conclude
    <3>2. CASE switches = 1
      BY <1>7, <3>2 DEF Leave
    <3> QED BY <3>1, <3>2
  <2> QED BY <2>1, <2>2
<1>8. CASE Answered \/ GiveUp
  <2>1. ~got'.seen
    <3>1. got' = Nothing \/ (got' = got /\ ~got.seen)
      BY <1>8 DEF Answered, GiveUp
    <3> QED BY <3>1 DEF Nothing
  <2>2. PICK ok \in BOOLEAN : (pc = "wait" /\ RunSettled(ok)) \/ (pc = "muxwait" /\ MuxSettled(ok))
    BY <1>8, AnsweredSettles, GiveUpSettles, Zenon
  <2>3. UNCHANGED op /\ pc' \in {"leave", "send", "muxback"}
    BY <2>2, SettledLeads
  <2>4. CASE pc = "muxwait" /\ MuxSettled(ok)
    <3>1. UNCHANGED <<resumable, paused, loadOpen>> /\ (pc' = "send" => cmd' = "stop")
      BY <2>4 DEF MuxSettled, flags
    <3> QED BY <2>1, <2>3, <2>4, <3>1
  <2>5. CASE pc = "wait" /\ cmd = "stop" /\ StopSettled(ok)
    <3>1. CASE ok /\ op = "roll"
      <4>1. resumable' = FALSE /\ paused' /\ loadOpen'
        BY <2>5, <3>1, Zenon DEF StopSettled
      <4>2. pc' = "send" => cmd' = "loadvm"
        BY <2>5, <3>1 DEF StopSettled
      <4> QED BY <2>1, <2>3, <4>1, <4>2
    <3>2. CASE ~(ok /\ op = "roll")
      <4>1. resumable' /\ resumable
        BY <2>5, <3>2, Zenon DEF StopSettled, FlagInv
      <4>2. pc' = "send" => cmd' # "loadvm"
        BY <2>5, <3>2 DEF StopSettled
      <4> QED BY <2>1, <2>3, <4>1, <4>2
    <3> QED BY <3>1, <3>2
  <2>6. CASE pc = "wait" /\ cmd \in {"layer", "savevm", "info"} /\ RunSettled(ok)
    <3>1. UNCHANGED <<resumable, paused, loadOpen>> /\ (pc' = "send" => cmd' \in {"savevm", "info"})
      BY <2>6 DEF RunSettled, LayerSettled, SavevmSettled, InfoSettled
    <3> QED BY <2>1, <2>3, <2>6, <3>1
  <2>7. CASE pc = "wait" /\ cmd = "loadvm" /\ LoadvmSettled(ok)
    <3>1. paused /\ UNCHANGED paused /\ resumable' = ok /\ loadOpen' = ~ok /\ pc' = "leave"
      BY <2>7 DEF LoadvmSettled
    <3> QED BY <2>1, <3>1
  <2>8. CASE pc = "wait" /\ cmd = "cont" /\ ContSettled(ok)
    <3>1. resumable /\ UNCHANGED resumable /\ pc' = "muxback"
      BY <2>8 DEF ContSettled
    <3> QED BY <2>1, <3>1
  <2> QED BY <2>2, <2>4, <2>5, <2>6, <2>7, <2>8 DEF RunSettled
<1>9. CASE PasteThrows
  <2>1. UNCHANGED <<got, op, resumable, paused, loadOpen>> /\ pc \in PastePcs /\ pc' \in {"idle", "leave"}
    BY <1>9 DEF PasteThrows
  <2>2. ~got.seen
    BY <2>1 DEF PastePcs
  <2> QED BY <2>1, <2>2
<1>10. CASE Deliver
  <2>1. UNCHANGED <<pc, op, cmd, resumable, paused, loadOpen>>
    BY <1>10 DEF Deliver, opVars, flags
  <2>2. got' = got \/ pc \in {"muxwait", "wait"}
    BY <1>10 DEF Deliver
  <2> QED BY <2>1, <2>2
<1>11. CASE MonitorRuns \/ MonitorHangs \/ LoseReply \/ ProgramSetsPasteMode
  BY <1>0, <1>11 DEF MonitorRuns, MonitorHangs, LoseReply, ProgramSetsPasteMode, opVars, flags
<1>12. ASSUME NEW key \in {"ctrlA", "c", "other"}, UserPresses(key)
       PROVE  FlagInv'
  BY <1>0, <1>12 DEF UserPresses, opVars, flags
<1>13. CASE UNCHANGED vars
  BY <1>0, <1>13 DEF vars, opVars, flags
<1> QED
  BY <1>1, <1>2, <1>3, <1>4, <1>5, <1>6, <1>7, <1>8, <1>9, <1>10, <1>11, <1>12, <1>13
     DEF Next, PageStep

LEMMA FlagInvariant == Spec => []FlagInv
<1>1. Init => FlagInv
  BY DEF Init, FlagInv, Early, Nothing
<1>2. TypeOK /\ Latched /\ TurnInv /\ CommandInv /\ FlagInv /\ [Next]_vars => FlagInv'
  BY FlagStep
<1> QED
  BY <1>1, <1>2, TypeCorrect, LatchInvariant, TurnInvariant, ReportInvariant, PTL DEF Spec

-----------------------------------------------------------------------------
(***************************************************************************)
(* What may be under way when one fault has been had.  At most a prompt    *)
(* that a switch left behind: so a command typed at the shell is never     *)
(* answered, and one typed at the monitor is, unless a fault takes it.     *)
(***************************************************************************)
Empty == inq = <<>> /\ out = <<>> /\ ~got.seen

PromptInv ==
    /\ Plain => ~Asked("unknown")
    /\ Punctual /\ Plain =>
         /\ Len(out) <= 1
         /\ pc = "wait" => OneReply
         /\ pc \in {"muxback", "backtype"} => out = <<>>
    /\ Punctual /\ pc = "muxwait" /\ side # "monitor" => out = <<>> /\ ~got.seen
    /\ Mended =>
         /\ Inside /\ side # "monitor" => Empty
         /\ Early \/ (pc = "muxwait" /\ side # "monitor") => inq = <<>> /\ OneReply
    /\ Harms = 0 /\ ~hung /\ pc = "wait" /\ side = "monitor" =>
         inq # <<>> \/ out # <<>> \/ got.seen

\* A switch adds a prompt to what is under way, and only into the monitor.
LEMMA SwitchPrompts ==
    ASSUME TypeOK, TypeSwitch
    PROVE  /\ UNCHANGED <<inq, hung>> /\ ~got'.seen
           /\ side' # "monitor" => out' = out
           /\ out = <<>> => Len(out') <= 1
<1>1. UNCHANGED <<inq, hung>> /\ ~got'.seen
  BY DEF TypeSwitch, Nothing
<1>2. side' # "monitor" => out' = out
  BY DEF TypeSwitch, PromptOnSwitch
<1>3. ASSUME out = <<>> PROVE Len(out') <= 1
  <2>1. out' = <<>> \/ out' = Append(<<>>, Prompt)
    BY <1>3 DEF TypeSwitch, PromptOnSwitch
  <2>2. Len(<<>>) = 0 /\ Len(Append(<<>>, Prompt)) = 1 /\ 0 <= 1 /\ 1 <= 1
    OBVIOUS
  <2> QED BY <2>1, <2>2, Zenon
<1> QED BY <1>1, <1>2, <1>3

\* Where every command reaches the monitor whole, none is sent with a Ctrl-A held.
LEMMA SentWhole ==
    ASSUME TypeOK, PlaceInv, TurnInv, HeldInv, Plain, pc = "send"
    PROVE  ~held
  BY DEF TurnInv, HeldInv, Plain

LEMMA PromptStep ==
    ASSUME TypeOK, Latched, PlaceInv, TurnInv, HeldInv, QueueInv, FlagInv, PromptInv, [Next]_vars
    PROVE  PromptInv'
<1>g. /\ Punctual' => Punctual
      /\ Plain' => Plain
      /\ Mended' => Mended
      /\ Harms' = 0 => Harms = 0
      /\ Harms <= 1 => OneThrow
      /\ Mended => Plain
      /\ Plain => OneThrow
      /\ Harms = 0 => Punctual /\ Plain
      /\ Harms \in Nat /\ Harms' \in Nat
  BY FaultsGrow, SpentGrows DEF Plain
<1>s. switches \in {0, 1} /\ Len(out) \in Nat
  BY QueueTypes DEF TypeOK, ValuesTypeOK
<1>e. Len(<<>>) = 0
  OBVIOUS
<1>t. Mended => switches = 0 \/ ~Early
  BY <1>g DEF TurnInv, Early
<1> USE <1>g, <1>s DEF Early, Inside
<1>q. ASSUME UNCHANGED <<inq, out, hung, got>> PROVE UNCHANGED <<Empty, OneReply, Asked("unknown")>>
  BY <1>q DEF Empty, OneReply, Asked
<1>0. ASSUME UNCHANGED <<pc, op, switches, side, inq, out, hung, got>>
      PROVE  PromptInv'
  BY <1>0, <1>q DEF PromptInv
<1>1. CASE CheckpointStart \/ RollbackStart
  <2>1. UNCHANGED <<inq, out, hung, got>> /\ pc' \in {"ask", "mux"} /\ pc = "idle"
    BY <1>1 DEF CheckpointStart, RollbackStart, Latched, monVars
  <2>2. ~got.seen
    BY <2>1 DEF FlagInv
  <2>3. ASSUME Mended' PROVE inq = <<>> /\ Len(out) <= 1
    <3>1. ~hung
      BY <2>1, <2>3 DEF Mended
    <3>2. CASE Silent
      BY <3>1, <3>2, <1>e DEF Silent
    <3>3. CASE Fault("late")
      <4>1. Harms = 0
        BY <2>3, <3>3, FaultCosts DEF Mended
      <4>2. Quiet /\ ~Asked("unknown")
        BY <2>1, <4>1 DEF PromptInv, QueueInv
      <4> QED BY <3>1, <4>1, <4>2, NothingAsked DEF PromptInv, Calm
    <3> QED BY <1>1, <3>2, <3>3 DEF CheckpointStart, RollbackStart, Unheard
  <2> QED BY <2>1, <2>2, <2>3, <1>q DEF PromptInv, OneReply
<1>2. CASE AskForPrompt \/ PromptCame \/ NoPrompt \/ TypeResync \/ Resynced
  <2>1. UNCHANGED <<op, switches, side, inq, out, hung, got>>
    BY <1>2 DEF AskForPrompt, PromptCame, NoPrompt, TypeResync, Resynced, opVars, flags, monVars, muxVars
  <2>2. \/ pc = "ask" /\ pc' = "ensure"
        \/ pc = "ensure" /\ op = "ckpt" /\ pc' = "mux"
        \/ pc' \in {"sync", "syncwait"}
        \/ pc \in {"ensure", "syncwait"} /\ pc' = "leave"
    BY <1>2 DEF AskForPrompt, PromptCame, NoPrompt, TypeResync, Resynced, Conclude
  <2>3. Mended /\ pc \in {"ensure", "syncwait"} => switches = 0
    BY <1>t DEF PlaceInv
  <2> QED BY <2>1, <2>2, <2>3, <1>q DEF PromptInv
<1>3. CASE ResetPaste
  <2>1. UNCHANGED <<op, switches, side, inq, out, hung, got>>
    BY <1>3 DEF ResetPaste, opVars, flags, monVars, muxVars
  <2>2. (pc = "mux" /\ pc' = "muxtype") \/ (pc = "muxback" /\ pc' = "backtype")
    BY <1>3 DEF ResetPaste
  <2> QED BY <2>1, <2>2, <1>q DEF PromptInv
<1>4. CASE SwitchIn
  <2>1. TypeSwitch /\ UNCHANGED <<op, spent>> /\ pc \in {"mux", "muxtype"}
    BY <1>4 DEF SwitchIn, opVars
  <2>2. pc' = "muxwait" \/ (pc' = "send" /\ switches = 1)
    BY <1>4 DEF SwitchIn
  <2>3. Mended => pc' = "muxwait"
    BY <2>1, <2>2, <1>t
  <2>4. Punctual => out = <<>>
    BY <2>1 DEF QueueInv, Between, Silent
  <2>5. UNCHANGED <<inq, hung>> /\ ~got'.seen /\ (side' # "monitor" => out' = out)
        /\ (out = <<>> => Len(out') <= 1)
    BY <2>1, SwitchPrompts
  <2>6. Mended /\ side' # "monitor" => inq' = <<>> /\ OneReply'
    BY <2>1, <2>5 DEF PromptInv, OneReply
  <2>7. pc' \notin {"wait", "mux", "muxtype", "ask", "ensure", "muxback", "backtype"}
    BY <2>2
  <2>8. Mended' => ~Inside'
    BY <2>3
  <2>9. Asked("unknown")' => Asked("unknown")
    BY <2>5 DEF Asked
  <2> QED BY <2>1, <2>4, <2>5, <2>6, <2>7, <2>8, <2>9 DEF PromptInv
<1>5. CASE SwitchOut
  <2>1. TypeSwitch /\ UNCHANGED op /\ pc \in {"muxback", "backtype"} /\ switches = 1 /\ switches' = 0
    BY <1>5 DEF SwitchOut, TypeSwitch, PlaceInv
  <2>2. \/ pc' \in {"idle", "sync", "leave"}
        \/ pc' = "ask" /\ op = "roll"
    BY <1>5 DEF SwitchOut, AfterLeave, Conclude
  <2>3. Punctual /\ Plain => out = <<>>
    BY <2>1 DEF PromptInv
  <2>4. Punctual /\ Plain => Len(out') <= 1
    BY <2>1, <2>3, SwitchPrompts
  <2>5. ~Inside' /\ ~Early' /\ pc' # "muxwait" /\ pc' # "wait"
    BY <2>1, <2>2
  <2>6. Asked("unknown")' => Asked("unknown")
    BY <2>1, SwitchPrompts DEF Asked
  <2> QED BY <2>4, <2>5, <2>6 DEF PromptInv
<1>6. CASE SendCommand
  <2>0. pc = "send" /\ pc' = "wait"
    BY <1>6 DEF SendCommand
  <2>h. CASE ~Plain
    BY <2>0, <2>h DEF PromptInv
  <2> SUFFICES ASSUME Plain PROVE PromptInv'
    BY <2>h
  <2>n. ~held
    BY <2>0, SentWhole
  <2>1. UNCHANGED <<op, switches, side, out, hung, spent>> /\ ~got'.seen
    BY <1>6, <2>n, CommandGoes DEF SendCommand, opVars, Nothing
  <2>2. side # "monitor" => inq' = inq
    BY <1>6, <2>n, CommandGoes DEF SendCommand
  <2>3. side = "monitor" => inq' # <<>>
    <3> DEFINE K == [cmd : Commands \cup {"unknown"}, op : Nat]
               x == [cmd |-> cmd, op |-> opNo]
    <3>1. inq \in Seq(K) /\ x \in K
      BY DEF TypeOK, QueuesTypeOK, ValuesTypeOK
    <3>2. side = "monitor" => inq' = Append(inq, x)
      BY <1>6, <2>n, CommandGoes DEF SendCommand
    <3> HIDE DEF K, x
    <3>3. Append(inq, x) # <<>>
      BY <3>1
    <3> QED BY <3>2, <3>3
  <2>4. Mended /\ side # "monitor" => Empty'
    BY <2>0, <2>1, <2>2 DEF PromptInv, Empty
  <2>5. Len(out') = Len(out)
    BY <2>1
  <2>6. Asked("unknown")' => Asked("unknown")
    <3>1. cmd # "unknown"
      BY DEF TypeOK, ValuesTypeOK, Commands
    <3> QED BY <1>6, <2>n, <3>1, SentIsAsked
  <2> QED BY <2>0, <2>1, <2>3, <2>4, <2>5, <2>6 DEF PromptInv, OneReply
<1>7. CASE Leave
  <2>1. UNCHANGED <<op, switches, side, inq, out, hung, got>> /\ pc = "leave"
    BY <1>7 DEF Leave, monVars, muxVars
  <2>2. CASE switches = 0
    <3>1. \/ pc' \in {"idle", "sync", "leave"}
          \/ pc' = "ask" /\ op = "roll"
      BY <1>7, <2>2 DEF Leave, AfterLeave, Conclude
    <3> QED BY <2>1, <2>2, <3>1, <1>q DEF PromptInv
  <2>3. CASE switches = 1
    <3>1. pc' \in {"send", "muxback"}
      BY <1>7, <2>3 DEF Leave
    <3>2. Punctual => out = <<>>
      BY <2>1, <2>3 DEF QueueInv, Between, Silent
    <3> QED BY <2>1, <2>3, <3>1, <3>2, <1>q DEF PromptInv
  <2> QED BY <2>2, <2>3
<1>8. CASE Answered
  <2>1. UNCHANGED <<side, inq, out, hung, spent>> /\ got' = Nothing /\ got.seen
    BY <1>8 DEF Answered, monVars, muxVars
  <2>2. pc \in {"wait", "muxwait"} /\ pc' \in {"leave", "send", "muxback"}
    BY <1>8, AnsweredSettles, SettledLeads
  <2>3. Mended /\ side # "monitor" => Empty'
    <3>1. CASE pc = "wait"
      BY <2>1, <3>1 DEF PromptInv, Empty
    <3>2. CASE pc = "muxwait"
      BY <2>1, <3>2 DEF PromptInv, OneReply, Empty, Nothing
    <3> QED BY <2>2, <3>1, <3>2
  <2>4. Asked("unknown")' => Asked("unknown")
    BY <2>1 DEF Asked
  <2>5. Len(out') = Len(out)
    BY <2>1
  <2>6. Punctual /\ Plain => out = <<>>
    BY <2>1, <2>2 DEF PromptInv, QueueInv, OneReply
  <2> QED BY <2>1, <2>2, <2>3, <2>4, <2>5, <2>6 DEF PromptInv
<1>9. CASE GiveUp
  <2>1. UNCHANGED <<side, inq, out, hung, got>> /\ ~got.seen
    BY <1>9 DEF GiveUp, monVars, muxVars
  <2>2. pc \in {"wait", "muxwait"} /\ pc' \in {"leave", "send", "muxback"}
    BY <1>9, GiveUpSettles, SettledLeads
  <2>3. ASSUME Mended', side # "monitor" PROVE Empty
    <3>1. CASE Silent
      BY <2>1, <2>3, <3>1 DEF Silent, Empty, Mended
    <3>2. CASE ~Silent /\ Fault("late")
      <4>1. Harms = 0
        BY <2>3, <3>2, FaultCosts DEF Mended
      <4>2. CASE pc = "wait"
        BY <2>3, <4>2 DEF PromptInv
      <4>3. CASE pc = "muxwait"
        BY <2>1, <2>3, <3>2, <4>1, <4>3 DEF PromptInv, QueueInv, Calm, Silent
      <4> QED BY <2>2, <4>2, <4>3
    <3> QED BY <1>9, <3>1, <3>2 DEF GiveUp, Unheard
  <2>4. Punctual' => out = <<>>
    BY <1>9, UnheardSpends DEF GiveUp, Silent
  <2> QED BY <2>1, <2>2, <2>3, <2>4, <1>q DEF PromptInv
<1>10. CASE PasteThrows
  <2>1. UNCHANGED <<op, switches, inq, out, hung, got>> /\ pc \in PastePcs /\ pc' \in {"idle", "leave"}
    BY <1>10 DEF PasteThrows, monVars
  <2>2. side' = side
    BY <1>10, HalfTypedStays DEF PasteThrows
  <2>3. Mended /\ switches = 1 => Inside
    BY <2>1, <1>t DEF PastePcs, PlaceInv
  <2> QED BY <2>1, <2>2, <2>3, <1>q DEF PromptInv
<1>11. CASE MonitorRuns
  <2>1. UNCHANGED <<pc, op, switches, side, hung, got, spent>>
    BY <1>11 DEF MonitorRuns, opVars, flags, muxVars
  <2>2. inq # <<>> /\ ~hung
    BY <1>11 DEF MonitorRuns
  <2> DEFINE R == [err : BOOLEAN, row : BOOLEAN]
  <2>3. PICK r \in R : out' = Append(out, r)
    BY <1>11 DEF MonitorRuns, Reply
  <2>4. out \in Seq(R)
    BY DEF TypeOK, QueuesTypeOK
  <2> HIDE DEF R
  <2>5. Len(out') = Len(out) + 1 /\ out' # <<>>
    BY <2>3, <2>4
  <2>6. ASSUME Punctual, Plain PROVE pc = "wait" /\ OneReply'
    <3>1. ~Calm /\ ~Quiet
      BY <2>2, <2>6, NothingAsked DEF Calm, PromptInv
    <3>2. pc = "wait" /\ switches = 1
      BY <2>6, <3>1 DEF QueueInv, TurnInv
    <3>3. out = <<>> /\ ~got.seen
      BY <2>6, <3>1, <3>2 DEF QueueInv, OneAnswer
    <3> QED BY <2>1, <2>5, <3>2, <3>3, <1>e DEF OneReply
  <2>7. Punctual /\ pc = "muxwait" => FALSE
    BY <2>2 DEF QueueInv, Calm
  <2>8. Mended => ~(Inside /\ side # "monitor") /\ ~(Early \/ (pc = "muxwait" /\ side # "monitor"))
    BY <2>2 DEF PromptInv, Empty
  <2>9. Asked("unknown")' => Asked("unknown")
    BY <1>11, RunIsAsked
  <2> QED BY <2>1, <2>5, <2>6, <2>7, <2>8, <2>9 DEF PromptInv, OneReply
<1>12. CASE Deliver
  <2>1. UNCHANGED <<pc, op, switches, side, inq, hung, spent>>
    BY <1>12 DEF Deliver, opVars, flags, muxVars
  <2>2. out # <<>> /\ out' = Tail(out) /\ Len(out') = Len(out) - 1
    BY <1>12, QueueTypes DEF Deliver
  <2>3. Len(out) <= 1 => out' = <<>>
    BY <2>2, QueueTypes, EmptySeq
  <2>4. pc = "wait" => got'.seen
    BY <1>12 DEF Deliver
  <2>5. Mended => ~(Inside /\ side # "monitor")
    BY <2>2 DEF PromptInv, Empty
  <2>7. OneReply => OneReply'
    BY <2>2, <2>3, <1>e DEF OneReply
  <2>8. Asked("unknown")' => Asked("unknown")
    BY <2>1 DEF Asked
  <2> QED BY <2>1, <2>2, <2>4, <2>5, <2>7, <2>8 DEF PromptInv
<1>13. CASE LoseReply
  <2>1. UNCHANGED <<pc, op, switches, side, inq, hung, got>>
    BY <1>13 DEF LoseReply, opVars, flags, muxVars
  <2>2. out # <<>> /\ out' = Tail(out) /\ Len(out') = Len(out) - 1
    BY <1>13, QueueTypes DEF LoseReply
  <2>3. Len(out) <= 1 => out' = <<>>
    BY <2>2, QueueTypes, EmptySeq
  <2>4. Harms' # 0
    BY <1>13, FaultCosts DEF LoseReply
  <2>5. Mended => ~(Inside /\ side # "monitor")
    BY <2>2 DEF PromptInv, Empty
  <2>7. OneReply => OneReply'
    BY <2>1, <2>2, <2>3, <1>e DEF OneReply
  <2>8. Asked("unknown")' => Asked("unknown")
    BY <2>1 DEF Asked
  <2> QED BY <2>1, <2>2, <2>4, <2>5, <2>7, <2>8 DEF PromptInv
<1>14. CASE MonitorHangs
  <2>1. UNCHANGED <<pc, side, out, got>> /\ hung'
    BY <1>14 DEF MonitorHangs, muxVars
  <2> QED BY <2>1 DEF PromptInv, Mended, Asked, OneReply
<1>15. CASE ProgramSetsPasteMode
  BY <1>0, <1>15 DEF ProgramSetsPasteMode, opVars, flags, muxVars, monVars
<1>16. ASSUME NEW key \in {"ctrlA", "c", "other"}, UserPresses(key)
       PROVE  PromptInv'
  <2>1. UNCHANGED <<pc, op, switches, inq, out, hung, got>> /\ kbd
    BY <1>16 DEF UserPresses, opVars, flags, monVars
  <2>2. ~Inside /\ pc # "muxwait" /\ pc # "wait"
    BY <2>1 DEF PlaceInv, AwayPcs
  <2> QED BY <2>1, <2>2, <1>q DEF PromptInv
<1>17. CASE UNCHANGED vars
  BY <1>0, <1>17 DEF vars, opVars, flags, muxVars, monVars
<1> QED
  BY <1>1, <1>2, <1>3, <1>4, <1>5, <1>6, <1>7, <1>8, <1>9, <1>10, <1>11, <1>12, <1>13,
     <1>14, <1>15, <1>16, <1>17 DEF Next, PageStep

LEMMA PromptInvariant == Spec => []PromptInv
<1>1. Init => PromptInv
  <2> SUFFICES ASSUME Init PROVE PromptInv
    OBVIOUS
  <2>1. inq = <<>> /\ out = <<>> /\ pc = "idle" /\ Len(<<>>) = 0
    BY DEF Init
  <2>2. ~Asked("unknown")
    BY <2>1 DEF Asked
  <2> QED BY <2>1, <2>2 DEF PromptInv, Early, Inside
<1>2. TypeOK /\ Latched /\ PlaceInv /\ TurnInv /\ HeldInv /\ QueueInv /\ FlagInv /\ PromptInv
        /\ [Next]_vars => PromptInv'
  BY PromptStep
<1> QED
  BY <1>1, <1>2, TypeCorrect, LatchInvariant, PlaceInvariant, TurnInvariant, HeldInvariant,
     QueueInvariant, FlagInvariant, PTL DEF Spec

-----------------------------------------------------------------------------
(***************************************************************************)
(* Whether the machine will stand still.                                   *)
(***************************************************************************)
\* The last stop or cont that the monitor has yet to run is a stop; or there is none, and
\* the machine is stopped.
WillStop ==
    \/ \E i \in 1..Len(inq) : /\ inq[i].cmd = "stop"
                              /\ \A j \in (i + 1)..Len(inq) : inq[j].cmd # "cont"
    \/ ~running /\ \A j \in 1..Len(inq) : inq[j].cmd # "cont"

\* Running what was asked for makes nothing of it more or less than it was.
LEMMA RunFulfils ==
    ASSUME TypeOK, MonitorRuns, WillStop'
    PROVE  WillStop
<1>1. /\ inq # <<>> /\ inq' = Tail(inq) /\ Head(inq) = inq[1]
      /\ Len(inq') = Len(inq) - 1 /\ Len(inq) \in Nat /\ Len(inq) # 0
      /\ \A i \in 1..(Len(inq) - 1) : inq'[i] = inq[i + 1]
  BY QueueTypes DEF MonitorRuns
<1>2. PICK err \in BOOLEAN : Execute(Head(inq), err)
  BY DEF MonitorRuns
<1>3. inq[1].cmd = "cont" => running'
  BY <1>1, <1>2 DEF Execute, RunCont
<1>4. inq[1].cmd \notin {"stop", "cont"} => running' = running
  BY <1>1, <1>2 DEF Execute, RunLayer, RunSavevm, RunLoadvm, machine
<1>5. ASSUME NEW i \in 1..Len(inq'), inq'[i].cmd = "stop",
             \A j \in (i + 1)..Len(inq') : inq'[j].cmd # "cont"
      PROVE  WillStop
  <2>1. i + 1 \in 1..Len(inq) /\ inq[i + 1].cmd = "stop"
    BY <1>1, <1>5
  <2>2. ASSUME NEW j \in (i + 2)..Len(inq) PROVE inq[j].cmd # "cont"
    <3>1. j - 1 \in (i + 1)..Len(inq') /\ j - 1 \in 1..(Len(inq) - 1) /\ (j - 1) + 1 = j
      BY <1>1, <2>2
    <3>2. inq'[j - 1] = inq[j]
      BY <1>1, <3>1
    <3> QED BY <1>5, <3>1, <3>2
  <2>3. (i + 1) + 1 = i + 2
    BY <1>1
  <2> QED BY <2>1, <2>2, <2>3 DEF WillStop
<1>6. ASSUME ~running', \A j \in 1..Len(inq') : inq'[j].cmd # "cont"
      PROVE  WillStop
  <2>1. ASSUME NEW j \in 2..Len(inq) PROVE inq[j].cmd # "cont"
    <3>1. j - 1 \in 1..Len(inq') /\ j - 1 \in 1..(Len(inq) - 1) /\ (j - 1) + 1 = j
      BY <1>1, <2>1
    <3>2. inq'[j - 1] = inq[j]
      BY <1>1, <3>1
    <3> QED BY <1>6, <3>1, <3>2
  <2>2. inq[1].cmd # "cont" /\ 1 \in 1..Len(inq) /\ 1 + 1 = 2
    BY <1>1, <1>3, <1>6
  <2>3. CASE inq[1].cmd = "stop"
    BY <2>1, <2>2, <2>3 DEF WillStop
  <2>4. CASE inq[1].cmd # "stop"
    <3>1. ~running
      BY <1>4, <1>6, <2>2, <2>4
    <3>2. \A j \in 1..Len(inq) : j = 1 \/ j \in 2..Len(inq)
      BY <1>1
    <3> QED BY <2>1, <2>2, <3>1, <3>2 DEF WillStop
  <2> QED BY <2>3, <2>4
<1> QED BY <1>5, <1>6 DEF WillStop

\* Only a stop makes the machine stand still that would not have, and a cont that reaches
\* the monitor undoes it.
LEMMA SendDecides ==
    ASSUME TypeOK, SendCommand, ~held, WillStop'
    PROVE  /\ WillStop \/ (cmd = "stop" /\ side = "monitor")
           /\ ~(cmd = "cont" /\ side = "monitor")
<1> DEFINE K == [cmd : Commands \cup {"unknown"}, op : Nat]
           x == [cmd |-> cmd, op |-> opNo]
<1>1. inq \in Seq(K) /\ x \in K /\ x.cmd = cmd
  BY DEF TypeOK, QueuesTypeOK, ValuesTypeOK
<1>2. UNCHANGED running /\ inq' = (IF side = "monitor" THEN Append(inq, x) ELSE inq)
  BY CommandGoes DEF SendCommand, machine
<1> HIDE DEF K, x
<1>3. CASE side # "monitor"
  BY <1>2, <1>3 DEF WillStop
<1>4. CASE side = "monitor"
  <2>1. /\ Len(inq) \in Nat /\ Len(inq') = Len(inq) + 1
        /\ \A i \in 1..Len(inq) : inq'[i] = inq[i]
        /\ inq'[Len(inq) + 1] = x
    BY <1>1, <1>2, <1>4
  <2>2. cmd # "cont"
    <3>1. ASSUME NEW i \in 1..Len(inq'), inq'[i].cmd = "stop",
                 \A j \in (i + 1)..Len(inq') : inq'[j].cmd # "cont"
          PROVE  cmd # "cont"
      <4>1. CASE i = Len(inq) + 1
        BY <1>1, <2>1, <3>1, <4>1
      <4>2. CASE i # Len(inq) + 1
        <5>1. Len(inq) + 1 \in (i + 1)..Len(inq')
          BY <2>1, <4>2
        <5> QED BY <1>1, <2>1, <3>1, <5>1
      <4> QED BY <4>1, <4>2
    <3>2. ASSUME \A j \in 1..Len(inq') : inq'[j].cmd # "cont" PROVE cmd # "cont"
      <4>1. Len(inq) + 1 \in 1..Len(inq')
        BY <2>1
      <4> QED BY <1>1, <2>1, <3>2, <4>1
    <3> QED BY <3>1, <3>2 DEF WillStop
  <2>3. ASSUME cmd # "stop" PROVE WillStop
    <3>1. ASSUME NEW i \in 1..Len(inq'), inq'[i].cmd = "stop",
                 \A j \in (i + 1)..Len(inq') : inq'[j].cmd # "cont"
          PROVE  WillStop
      <4>1. i \in 1..Len(inq)
        BY <1>1, <2>1, <2>3, <3>1
      <4>2. inq[i].cmd = "stop"
        BY <2>1, <3>1, <4>1
      <4>3. ASSUME NEW j \in (i + 1)..Len(inq) PROVE inq[j].cmd # "cont"
        <5>1. j \in (i + 1)..Len(inq') /\ j \in 1..Len(inq)
          BY <2>1, <4>3
        <5> QED BY <2>1, <3>1, <5>1
      <4> QED BY <4>1, <4>2, <4>3 DEF WillStop
    <3>2. ASSUME ~running', \A j \in 1..Len(inq') : inq'[j].cmd # "cont" PROVE WillStop
      <4>1. \A j \in 1..Len(inq) : j \in 1..Len(inq')
        BY <2>1
      <4> QED BY <1>2, <2>1, <3>2, <4>1 DEF WillStop
    <3> QED BY <3>1, <3>2 DEF WillStop
  <2> QED BY <1>4, <2>2, <2>3
<1> QED BY <1>3, <1>4

\* The page is going to send cont on its way out.
Resumes ==
    /\ switches = 1 /\ side = "monitor" /\ resumable
    /\ pc \in {"send", "wait", "leave"}
    /\ paused \/ unanswered \/ (pc = "send" /\ cmd = "cont")
    /\ pc = "wait" => cmd # "cont"

StopInv ==
    /\ Mended /\ WillStop =>
         /\ Known \/ Resumes
         /\ ~(pc = "wait" /\ cmd = "cont" /\ side = "monitor")
    /\ Harms = 0 /\ ~hung /\ WillStop => paused \/ (pc = "wait" /\ cmd = "stop")

\* The two ways a wait ends, with what they cost.
LEMMA SettledHeard ==
    ASSUME TypeOK, Answered \/ GiveUp
    PROVE  \E ok \in BOOLEAN :
             /\ (pc = "wait" /\ RunSettled(ok)) \/ (pc = "muxwait" /\ MuxSettled(ok))
             /\ ok => Answered /\ got.seen
             /\ ~ok /\ cmd = "stop" /\ pc = "wait" => GiveUp /\ ~got.seen /\ (Harms' = 0 => Silent)
<1>1. CASE Answered
  <2>1. CASE pc = "muxwait"
    BY <1>1, <2>1 DEF Answered
  <2>2. CASE pc = "wait"
    <3> DEFINE ok == cmd = "stop" \/ ~got.err
    <3>1. ok \in BOOLEAN /\ RunSettled(ok) /\ (cmd = "stop" => ok) /\ got.seen
      BY <1>1, <2>2 DEF Answered
    <3> HIDE DEF ok
    <3> QED BY <1>1, <2>2, <3>1
  <2> QED BY <1>1, <2>1, <2>2 DEF Answered
<1>2. CASE GiveUp
  <2>1. Harms' = 0 => Silent
    <3>1. Fault("late") => Harms' # 0
      BY FaultCosts
    <3> QED BY <1>2, <3>1 DEF GiveUp, Unheard
  <2>2. ~got.seen /\ ((pc = "wait" /\ RunSettled(FALSE)) \/ (pc = "muxwait" /\ MuxSettled(FALSE)))
    BY <1>2 DEF GiveUp
  <2> QED BY <1>2, <2>1, <2>2
<1> QED BY <1>1, <1>2

LEMMA StopStep ==
    ASSUME TypeOK, Latched, PlaceInv, TurnInv, HeldInv, CommandInv, FlagInv, PromptInv, StopInv,
           [Next]_vars
    PROVE  StopInv'
<1>g. /\ Mended' => Mended
      /\ Harms' = 0 => Harms = 0
      /\ Mended => OneThrow /\ Plain /\ ~hung
      /\ Harms = 0 => Plain /\ Resumed
      /\ Harms \in Nat /\ Harms' \in Nat
  BY FaultsGrow DEF Mended, Plain
<1>i. ~hung' => ~hung
  BY DEF Next, PageStep, CheckpointStart, RollbackStart, AskForPrompt, PromptCame, NoPrompt,
         ResetPaste, SwitchIn, SwitchOut, SendCommand, Leave, Answered, TypeResync, Resynced,
         GiveUp, MonitorRuns, Deliver, ProgramSetsPasteMode, UserPresses, vars, monVars,
         PasteThrows, LoseReply, TypeSwitch, TypeCommand, MonitorHangs
<1>s. /\ switches \in {0, 1} /\ resumable \in BOOLEAN
      /\ paused \in BOOLEAN /\ unanswered \in BOOLEAN /\ loadOpen \in BOOLEAN
  BY DEF TypeOK, FlagsTypeOK, ValuesTypeOK
<1>w. ASSUME UNCHANGED <<inq, running>> PROVE WillStop' = WillStop
  BY <1>w DEF WillStop
<1> USE <1>g, <1>i, <1>s
<1>0. ASSUME WillStop' => WillStop,
             UNCHANGED <<pc, cmd, switches, side, resumable, paused, unanswered, loadOpen>>
      PROVE  StopInv'
  BY <1>0 DEF StopInv, Known, Resumes
\* Outside the monitor's part only Known accounts for a machine that will stand still.
<1>k. ASSUME WillStop' => WillStop, ~Resumes, pc # "wait", pc' # "wait", UNCHANGED <<paused, loadOpen>>
      PROVE  StopInv'
  BY <1>k DEF StopInv, Known
<1>1. CASE CheckpointStart \/ RollbackStart
  <2>1. UNCHANGED <<paused, loadOpen, inq, running>> /\ pc = "idle" /\ pc' # "wait"
    BY <1>1 DEF CheckpointStart, RollbackStart, Latched, flags, monVars, machine
  <2> QED BY <2>1, <1>k, <1>w DEF Resumes
<1>2. CASE AskForPrompt \/ PromptCame \/ NoPrompt \/ TypeResync \/ Resynced \/ ResetPaste
  <2>1. UNCHANGED <<paused, loadOpen, inq, running>>
    BY <1>2 DEF AskForPrompt, PromptCame, NoPrompt, TypeResync, Resynced, ResetPaste, opVars,
                flags, monVars, machine
  <2>2. pc \notin {"send", "wait", "leave"} /\ pc' # "wait"
    BY <1>2 DEF AskForPrompt, PromptCame, NoPrompt, TypeResync, Resynced, ResetPaste, Conclude
  <2> QED BY <2>1, <2>2, <1>k, <1>w DEF Resumes
<1>3. CASE SwitchIn \/ SwitchOut
  <2>1. UNCHANGED <<paused, loadOpen, inq, running>>
    BY <1>3 DEF SwitchIn, SwitchOut, TypeSwitch, opVars, machine
  <2>2. pc \notin {"send", "wait", "leave"} /\ pc' # "wait"
    BY <1>3 DEF SwitchIn, SwitchOut, AfterLeave, Conclude
  <2> QED BY <2>1, <2>2, <1>k, <1>w DEF Resumes
<1>4. CASE SendCommand
  <2>0. pc = "send" /\ pc' = "wait"
    BY <1>4 DEF SendCommand
  <2>h. CASE ~Plain
    BY <2>h DEF StopInv
  <2> SUFFICES ASSUME Plain PROVE StopInv'
    BY <2>h
  <2>n. ~held
    BY <2>0, SentWhole
  <2>1. UNCHANGED <<cmd, switches, side, resumable, paused, loadOpen, spent, hung>>
        /\ pc = "send" /\ pc' = "wait"
    BY <1>4, <2>0, <2>n, CommandGoes DEF SendCommand, opVars
  <2>2. (unanswered \/ cmd = "stop") => unanswered'
    BY <1>4 DEF SendCommand
  <2>3. ASSUME WillStop' PROVE /\ WillStop \/ (cmd = "stop" /\ side = "monitor")
                               /\ ~(cmd = "cont" /\ side = "monitor")
    BY <1>4, <2>n, <2>3, SendDecides
  <2>4. ASSUME Mended, WillStop' PROVE Known' \/ Resumes'
    <3>1. CASE Known
      BY <2>1, <3>1 DEF Known
    <3>2. CASE Resumes
      <4>1. cmd # "cont"
        BY <2>3, <2>4, <3>2 DEF Resumes
      <4> QED BY <2>1, <2>2, <3>2, <4>1 DEF Resumes
    <3>3. CASE cmd = "stop" /\ side = "monitor"
      <4>1. switches = 1 /\ resumable
        BY <2>1, <2>4, <3>3 DEF TurnInv, FlagInv
      <4> QED BY <2>1, <2>2, <3>3, <4>1 DEF Resumes
    <3> QED BY <2>3, <2>4, <3>1, <3>2, <3>3 DEF StopInv
  <2>5. ASSUME Harms = 0, ~hung, WillStop' PROVE paused' \/ cmd' = "stop"
    BY <2>1, <2>3, <2>5 DEF StopInv
  <2> QED BY <2>1, <2>3, <2>4, <2>5 DEF StopInv
<1>5. CASE Leave
  <2>1. UNCHANGED <<switches, side, resumable, paused, loadOpen, inq, running>> /\ pc = "leave"
    BY <1>5 DEF Leave, muxVars, monVars, machine
  <2>2. pc' # "wait" /\ (WillStop' => WillStop)
    BY <1>5, <2>1, <1>w DEF Leave, AfterLeave, Conclude
  <2>3. CASE ~Resumes
    BY <2>1, <2>2, <2>3, <1>k
  <2>4. CASE Resumes
    <3>1. switches = 1 /\ resumable /\ (paused \/ unanswered)
      BY <2>1, <2>4 DEF Resumes
    <3>2. pc' = "send" /\ cmd' = "cont"
      BY <1>5, <3>1 DEF Leave
    <3>3. Resumes'
      BY <2>1, <2>4, <3>2 DEF Resumes
    <3> QED BY <2>1, <2>2, <3>2, <3>3 DEF StopInv
  <2> QED BY <2>3, <2>4
<1>6. CASE Answered \/ GiveUp
  <2>1. PICK ok \in BOOLEAN :
             /\ (pc = "wait" /\ RunSettled(ok)) \/ (pc = "muxwait" /\ MuxSettled(ok))
             /\ ok => Answered /\ got.seen
             /\ ~ok /\ cmd = "stop" /\ pc = "wait" => GiveUp /\ ~got.seen /\ (Harms' = 0 => Silent)
    BY <1>6, SettledHeard
  <2>2. UNCHANGED <<side, hung, inq, running>>
    BY <1>6 DEF Answered, GiveUp, muxVars, monVars, machine
  <2>3. pc' \in {"leave", "send", "muxback"} /\ UNCHANGED switches
    BY <2>1, SettledLeads
  <2>4. WillStop' <=> WillStop
    BY <2>2, <1>w
  <2>5. pc = "wait" /\ Mended /\ ok => side = "monitor" /\ switches = 1
    BY <2>1 DEF PromptInv, Inside, Empty, TurnInv
  <2>6. CASE pc = "muxwait" /\ MuxSettled(ok)
    <3>1. UNCHANGED <<paused, loadOpen>>
      BY <2>6 DEF MuxSettled, flags
    <3> QED BY <2>3, <2>4, <2>6, <3>1, <1>k DEF Resumes
  <2>7. CASE pc = "wait" /\ cmd = "stop" /\ StopSettled(ok)
    <3>a. /\ paused' = (paused \/ ok)
          /\ unanswered' = (unanswered /\ ~ok)
          /\ resumable' = (resumable /\ ~(ok /\ op = "roll"))
          /\ loadOpen' = (loadOpen \/ (ok /\ op = "roll"))
      BY <2>7, Zenon DEF StopSettled
    <3>b. (paused => paused') /\ (loadOpen => loadOpen') /\ (ok => paused')
      BY <3>a, Zenon
    <3>c. ASSUME ~ok PROVE UNCHANGED <<paused, unanswered, resumable>> /\ pc' = "leave"
      <4>1. pc' = "leave"
        BY <2>7, <3>c, Zenon DEF StopSettled
      <4>2. (~ok) = TRUE /\ ok = FALSE
        BY <3>c
      <4>3. UNCHANGED <<paused, unanswered, resumable>>
        BY <3>a, <3>c, <4>2
      <4> QED BY <4>1, <4>3
    <3>1. /\ Known => Known'
          /\ ok => paused'
          /\ ~ok => UNCHANGED <<paused, unanswered, resumable>> /\ pc' = "leave"
      BY <3>b, <3>c, Zenon DEF Known
    <3>2. ok /\ op = "roll" => Known'
      BY <2>7, Zenon DEF StopSettled, Known
    <3>3. ok /\ op # "roll" => UNCHANGED resumable
      <4>1. op # "roll" => resumable' = (resumable /\ TRUE)
        BY <2>7, Zenon DEF StopSettled
      <4> QED BY <4>1
    <3>4. Resumes => Resumes' \/ Known'
      <4>1. CASE ok /\ op = "roll"
        BY <3>2, <4>1
      <4>2. CASE ok /\ op # "roll"
        <5>1. pc' = "send" /\ paused' /\ UNCHANGED <<resumable, switches, side>>
          BY <2>2, <2>3, <2>7, <3>1, <3>3, <4>2 DEF StopSettled
        <5> QED BY <5>1 DEF Resumes
      <4>3. CASE ~ok
        BY <2>2, <2>3, <2>7, <3>1, <4>3 DEF Resumes
      <4> QED BY <4>1, <4>2, <4>3
    <3>5. ASSUME Harms' = 0, ~hung', WillStop PROVE paused'
      <4>1. CASE ok
        BY <3>1, <4>1
      <4>2. CASE ~ok /\ ~paused
        <5>1. Mended
          BY <3>5 DEF Mended
        <5>2. side = "monitor"
          BY <3>5, <4>2, <5>1 DEF StopInv, Known, Resumes
        <5>3. Silent /\ ~got.seen
          BY <2>1, <2>7, <3>5, <4>2
        <5> QED BY <2>7, <3>5, <5>2, <5>3 DEF PromptInv, Silent
      <4>3. CASE ~ok /\ paused
        BY <3>1, <4>3
      <4> QED BY <4>1, <4>2, <4>3
    <3> QED BY <2>3, <2>4, <3>1, <3>4, <3>5 DEF StopInv
  <2>8. CASE pc = "wait" /\ cmd \in {"layer", "savevm", "info"} /\ RunSettled(ok)
    <3>1. UNCHANGED <<resumable, paused, unanswered, loadOpen>> /\ pc' \in {"leave", "send"}
      BY <2>8 DEF RunSettled, LayerSettled, SavevmSettled, InfoSettled
    <3>2. Resumes => Resumes'
      BY <2>2, <2>3, <2>8, <3>1 DEF Resumes
    <3>3. Known => Known'
      BY <3>1 DEF Known
    <3> QED BY <2>3, <2>4, <2>8, <3>1, <3>2, <3>3 DEF StopInv
  <2>9. CASE pc = "wait" /\ cmd = "loadvm" /\ LoadvmSettled(ok)
    <3>1. paused /\ UNCHANGED paused /\ resumable' = ok /\ loadOpen' = ~ok /\ pc' = "leave"
      BY <2>9 DEF LoadvmSettled, FlagInv, Known
    <3>2. Mended => Known' \/ Resumes'
      <4>1. CASE ok
        <5>1. resumable' /\ paused'
          BY <3>1, <4>1, Zenon
        <5> QED BY <2>2, <2>3, <2>5, <2>9, <3>1, <4>1, <5>1 DEF Resumes
      <4>2. CASE ~ok
        <5>1. loadOpen' /\ paused'
          BY <3>1, <4>2, Zenon
        <5> QED BY <5>1 DEF Known
      <4> QED BY <4>1, <4>2
    <3> QED BY <2>3, <2>4, <3>1, <3>2 DEF StopInv
  <2>10. CASE pc = "wait" /\ cmd = "cont" /\ ContSettled(ok)
    <3>1. ASSUME Mended, WillStop PROVE Known /\ ~ok
      BY <2>5, <2>10, <3>1 DEF StopInv, Resumes
    <3>a. paused' = (paused /\ ~ok)
      BY <2>10, Zenon DEF ContSettled
    <3>2. ~ok => paused' = paused
      BY <3>a
    <3>3. UNCHANGED loadOpen /\ pc' = "muxback"
      BY <2>10 DEF ContSettled
    <3>4. ASSUME Harms = 0, ~hung PROVE Mended
      BY <3>4 DEF Mended
    <3> QED BY <2>4, <3>1, <3>2, <3>3, <3>4 DEF StopInv, Known
  <2> QED BY <2>1, <2>6, <2>7, <2>8, <2>9, <2>10 DEF RunSettled
<1>7. CASE PasteThrows
  <2>1. /\ UNCHANGED <<cmd, switches, resumable, paused, loadOpen, inq, hung, running>>
        /\ pc \in PastePcs /\ pc' \in {"leave", "idle"} /\ (~fin => pc' = "leave")
    BY <1>7 DEF PasteThrows, monVars, machine
  <2>2. (unanswered \/ (pc = "send" /\ cmd = "stop")) => unanswered'
    BY <1>7 DEF PasteThrows
  <2>3. side' = side
    BY <1>7, HalfTypedStays DEF PasteThrows
  <2>4. Harms' = Harms + 1
    BY <1>7, FaultCosts DEF PasteThrows
  <2>5. WillStop' <=> WillStop
    BY <2>1, <1>w
  <2>6. ASSUME Mended', WillStop PROVE Known' \/ Resumes'
    <3>1. Harms = 0 /\ ~hung
      BY <2>1, <2>4, <2>6 DEF Mended
    <3>2. CASE Known
      BY <2>1, <3>2 DEF Known
    <3>3. CASE Resumes
      <4>1. pc = "send" /\ switches = 1
        BY <2>1, <3>3 DEF PastePcs, Resumes
      <4>2. spent["throw"] # 1
        <5>1. \A k \in FaultKinds : spent[k] \in Nat
          BY DEF TypeOK, QueuesTypeOK
        <5> QED BY <3>1, <5>1 DEF Harms, FaultKinds
      <4>3. ~fin
        BY <2>6, <4>1, <4>2 DEF TurnInv
      <4>4. paused \/ unanswered
        BY <2>6, <3>1, <4>1 DEF StopInv
      <4> QED BY <2>1, <2>2, <2>3, <3>3, <4>3, <4>4 DEF Resumes
    <3> QED BY <2>6, <3>2, <3>3 DEF StopInv
  <2> QED BY <2>1, <2>4, <2>5, <2>6 DEF StopInv
<1>8. CASE MonitorRuns
  <2>1. UNCHANGED <<pc, cmd, switches, side, resumable, paused, unanswered, loadOpen>>
    BY <1>8 DEF MonitorRuns, opVars, flags, muxVars
  <2> QED BY <1>0, <1>8, <2>1, RunFulfils
<1>9. CASE Deliver \/ LoseReply \/ ProgramSetsPasteMode \/ MonitorHangs
  <2>1. UNCHANGED <<pc, cmd, switches, side, resumable, paused, unanswered, loadOpen, inq, running>>
    BY <1>9 DEF Deliver, LoseReply, ProgramSetsPasteMode, MonitorHangs, opVars, flags, muxVars, monVars,
                machine
  <2> QED BY <1>0, <1>w, <2>1
<1>10. ASSUME NEW key \in {"ctrlA", "c", "other"}, UserPresses(key)
       PROVE  StopInv'
  <2>1. UNCHANGED <<pc, paused, loadOpen, inq, running>> /\ kbd
    BY <1>10 DEF UserPresses, opVars, flags, monVars, machine
  <2>2. ~Resumes /\ pc # "wait"
    BY <2>1 DEF PlaceInv, AwayPcs, Resumes
  <2> QED BY <2>1, <2>2, <1>k, <1>w
<1>11. CASE UNCHANGED vars
  BY <1>0, <1>w, <1>11 DEF vars, opVars, flags, muxVars, monVars, machine
<1> QED
  BY <1>1, <1>2, <1>3, <1>4, <1>5, <1>6, <1>7, <1>8, <1>9, <1>10, <1>11 DEF Next, PageStep

LEMMA StopInvariant == Spec => []StopInv
<1>1. Init => StopInv
  <2> SUFFICES ASSUME Init PROVE StopInv
    OBVIOUS
  <2>1. inq = <<>> /\ running /\ Len(<<>>) = 0
    BY DEF Init
  <2>2. ~WillStop
    BY <2>1 DEF WillStop
  <2> QED BY <2>2 DEF StopInv
<1>2. TypeOK /\ Latched /\ PlaceInv /\ TurnInv /\ HeldInv /\ CommandInv /\ FlagInv /\ PromptInv
        /\ StopInv /\ [Next]_vars => StopInv'
  BY StopStep
<1> QED
  BY <1>1, <1>2, TypeCorrect, LatchInvariant, PlaceInvariant, TurnInvariant, HeldInvariant,
     ReportInvariant, FlagInvariant, PromptInvariant, PTL DEF Spec

\* For any number of operations, with one lost reply, one late one or one paste that throws
\* (a paste that throws and a cont that goes unanswered count as two), and bracketed paste
\* on or off: a machine that stands still after an operation of serialfs.js, its commands
\* run, is one the page knows of and a loadvm accounts for.
THEOREM StopsForCause == Spec => []StoppedForCause
<1>1. TypeOK /\ Latched /\ StopInv => StoppedForCause
  <2> SUFFICES ASSUME TypeOK, Latched, StopInv, ~busy, ~hung, inq = <<>>, OneFault
               PROVE  running \/ Known
    BY DEF StoppedForCause, Known
  <2>0. Harms <= 1 /\ Resumed
    <3>1. \A k \in FaultKinds : spent[k] \in Nat
      BY DEF TypeOK, QueuesTypeOK
    <3> QED BY <3>1 DEF OneFault, Harms, Resumed, FaultKinds
  <2>1. pc = "idle"
    BY DEF Latched
  <2>2. ~running => WillStop
    BY DEF WillStop
  <2> QED BY <2>0, <2>1, <2>2 DEF StopInv, Mended, Resumes
<1> QED BY <1>1, TypeCorrect, LatchInvariant, StopInvariant, PTL
=============================================================================
