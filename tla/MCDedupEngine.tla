---------------------------- MODULE MCDedupEngine ----------------------------
(* Threads and fingerprints for checking DedupEngine with TLC.                *)
EXTENDS DedupEngine, TLC

CONSTANTS t1, t2, f1, f2

\* Neither threads nor fingerprints are told apart.
Symmetric == Permutations({t1, t2}) \cup Permutations({f1, f2})
=============================================================================
