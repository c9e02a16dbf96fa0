----------------------------- MODULE MCGeometry -----------------------------
(* Instances of Geometry for TLC: two shapes of the window. *)
EXTENDS Geometry

CONSTANTS small, large, noSize

TwoSizes == {small, large}
=============================================================================
