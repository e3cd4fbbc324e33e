------------------------------ MODULE MCOutbox ------------------------------
(* Model values, bounds and symmetry for checking Outbox with TLC.            *)
EXTENDS Outbox, TLC

CONSTANTS k1, k2, w1, w2

\* No key is special: for runs where payloads parse and channels exist.
NoKeys == {}

WorkerSymmetry == Permutations({w1, w2})
=============================================================================
