--------------------------- MODULE DedupTransition ---------------------------
(***************************************************************************)
(* The window / refire rules of dedup/transition.py as operators: what one *)
(* log event does to the incident state of its fingerprint.  The keyed     *)
(* state of the stream and the in-process engine both apply them.  Times   *)
(* are event time in seconds, levels are ranks.                            *)
(***************************************************************************)
EXTENDS Integers

CONSTANTS
    Window,   \* dedup_window_seconds of the events' configuration
    Refire,   \* refire_interval_seconds
    Skew      \* MAX_FUTURE_SKEW_SECONDS

ASSUME DedupAssumption == Window \in Nat \ {0} /\ Refire \in Nat /\ Skew \in Nat

NoId    == 0
NoState == [id |-> NoId, first |-> 0, last |-> 0, count |-> 0, emitted |-> 0, level |-> 0]
State   == [id : Nat, first : Int, last : Int, count : Nat, emitted : Int, level : Nat]
Action  == {"new", "update", "suppress"}

\* Mutant: events are judged by the wall clock.
ProcessingTime(ts, wall) == wall

\* The clock an event is judged by: its timestamp, or the wall clock if the
\* timestamp is too far ahead of it.
EventClock(ts, wall) == IF ts > wall + Skew THEN wall ELSE ts

\* Mutant: the window closes one second early.
ClosesEarly(st, clock) == st # NoState /\ clock - st.last >= Window
WindowExpired(st, clock) == st # NoState /\ clock - st.last > Window

\* first_seen and last_seen are the event's own timestamp, not the clock.
Opened(e, clock, id) ==
    [id |-> id, first |-> e.ts, last |-> e.ts, count |-> 1, emitted |-> clock, level |-> e.level]

WorseLevel(old, new) == IF new > old THEN new ELSE old

Merged(st, e) ==
    [st EXCEPT !.count = @ + 1, !.last = e.ts, !.level = WorseLevel(@, e.level)]

\* Mutants: the refire interval is measured from the event's own timestamp; an
\* event at its very end is suppressed.
AtMostRefire(st, clock) == clock - st.emitted <= Refire
SinceLast(st, clock) == clock - st.last < Refire
TooSoon(st, clock)  == clock - st.emitted < Refire

\* apply_dedup_transition.
Transition(st, e, clock, id) ==
    IF st = NoState \/ WindowExpired(st, clock)
    THEN [action |-> "new", state |-> Opened(e, clock, id)]
    ELSE IF TooSoon(st, clock)
    THEN [action |-> "suppress", state |-> Merged(st, e)]
    ELSE [action |-> "update", state |-> [Merged(st, e) EXCEPT !.emitted = clock]]
=============================================================================
