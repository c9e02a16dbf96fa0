------------------------------ MODULE MCAssets ------------------------------
(* An instance of Assets for TLC: the second release keeps the disk, under a new tag
   (the saved state changed), the third the engine. *)
EXTENDS Assets
CONSTANT v1
One == {v1}
EngineAndDisk == {"engine", "rootfs"}
Tags == <<1, 2, 3>>
Contents == [engine |-> <<1, 2, 2>>, rootfs |-> <<1, 1, 2>>]
Ends == {Blank, 0, 1, 2, 3}
AllRanges == Ends \X Ends
=============================================================================
