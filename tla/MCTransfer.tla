----------------------------- MODULE MCTransfer -----------------------------
(***************************************************************************)
(* Instances of Transfer for TLC: the fault budgets of its runs.           *)
(***************************************************************************)
EXTENDS Transfer

BudgetOf(noise, lost, late, throws, hangs) ==
    [k \in FaultKinds |-> CASE k = "noise" -> noise
                            [] k = "lost"  -> lost
                            [] k = "late"  -> late
                            [] k = "throw" -> throws
                            [] k = "hang"  -> hangs]

Mixed == BudgetOf(1, 1, 1, 1, 1)
=============================================================================
