----------------------------- MODULE MCOverlay -----------------------------
(* Instances of Overlay for TLC: three overlapping clicks. *)
EXTENDS Overlay

CONSTANTS c1, c2, c3

Clicks == {c1, c2, c3}
One    == {c1}

Download == {"download"}
=============================================================================
