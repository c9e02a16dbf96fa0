SPECIFICATION Spec
CONSTANTS
    MaxOps = 3
    MaxFaults = 3
    Budget <- OneLoss
INVARIANTS
    NeverRunsDamaged
