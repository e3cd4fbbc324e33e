----------------------------- MODULE MCReadCache -----------------------------
(* Model values for checking ReadCache with TLC: two threads of one instance. *)
EXTENDS ReadCache, TLC

CONSTANTS a, a1, a2

OneInstance == (a1 :> a) @@ (a2 :> a)
=============================================================================
