----------------------------- MODULE MCWidgets -----------------------------
(* Model values and symmetry for checking Widgets with TLC. *)
EXTENDS Widgets, TLC

CONSTANTS r1, r2, r3, r4

RequestSymmetry == Permutations({r1, r2, r3, r4})
=============================================================================
