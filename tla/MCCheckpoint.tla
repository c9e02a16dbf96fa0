---------------------------- MODULE MCCheckpoint ----------------------------
(***************************************************************************)
(* Instances of Checkpoint for TLC: the fault budgets of its runs.         *)
(***************************************************************************)
EXTENDS Checkpoint

BudgetOf(lost, late, throws, hangs, races) ==
    [k \in FaultKinds |-> CASE k = "lost"  -> lost
                            [] k = "late"  -> late
                            [] k = "throw" -> throws
                            [] k = "hang"  -> hangs
                            [] k = "race"  -> races]

AnyFault == BudgetOf(1, 1, 2, 1, 1)
OneLoss  == BudgetOf(1, 0, 0, 0, 0)
=============================================================================
