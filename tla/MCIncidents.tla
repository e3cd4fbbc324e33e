---------------------------- MODULE MCIncidents ----------------------------
(* Model values, bounds and symmetry for checking Incidents with TLC.         *)
EXTENDS Incidents, TLC

CONSTANTS p, d1, o1, o2

OperatorSymmetry == Permutations({o1, o2})
=============================================================================
