----------------------------- MODULE DedupEngine -----------------------------
(***************************************************************************)
(* The in-process path of dedup/engine.py: threads that call process() on  *)
(* one DedupEngine over one MemoryDedupStore.  A step is one locked call of *)
(* the store; the decision between two of them is DedupTransition's.       *)
(* Events are numbered as their calls begin, and an incident is named for  *)
(* the event that opens it: an id of a try_create that failed is never     *)
(* seen, so the second decision may use it again.                          *)
(***************************************************************************)
EXTENDS DedupTransition, FiniteSets

CONSTANTS
    Thread,
    Fingerprint,
    Levels,       \* ranks of the levels that pass min_level
    MaxTime,      \* bound: timestamps
    MaxEvents     \* bound: calls of process

ASSUME EngineAssumption ==
    /\ IsFiniteSet(Fingerprint) /\ Levels \subseteq Nat \ {0}
    /\ MaxTime \in Nat /\ MaxEvents \in Nat

VARIABLES
    store, held,       \* MemoryDedupStore; the events an entry has counted
    pc, ev,            \* what a thread is about to do, for which event
    got, gotHeld,      \* what it has read
    events,            \* the events so far, a function on 1..Len
    \* history: what process returned; the calls that ran at the same time;
    \* events of closed incidents; the stream's keyed state after the same
    \* events, and the events it decided otherwise
    out, meets, closed, keyed, differs

storeVars  == <<store, held>>
threadVars == <<pc, ev, got, gotHeld>>
histVars   == <<out, meets, closed, keyed, differs>>
vars == <<storeVars, threadVars, events, histVars>>

-----------------------------------------------------------------------------
Number == 1..MaxEvents
Event  == [fp : Fingerprint, ts : 0..MaxTime, level : Levels]
Begun  == DOMAIN events
Busy   == {t \in Thread : pc[t] # "idle"}
Kind   == {"pending", "new", "update", "suppressed", "dropped"}

Init ==
    /\ store = [f \in Fingerprint |-> NoState] /\ held = [f \in Fingerprint |-> {}]
    /\ pc = [t \in Thread |-> "idle"] /\ ev = [t \in Thread |-> 0]
    /\ got = [t \in Thread |-> NoState] /\ gotHeld = [t \in Thread |-> {}]
    /\ events = [n \in {} |-> 0]
    /\ out = [n \in Number |-> [kind |-> "pending", id |-> NoId]]
    /\ meets = [n \in Number |-> {}] /\ closed = {}
    /\ keyed = [f \in Fingerprint |-> NoState] /\ differs = {}

-----------------------------------------------------------------------------
\* process is called; events below min_level return at once.
Begin(t) ==
    LET n == Cardinality(Begun) + 1
        others == {ev[u] : u \in Busy}
    IN
    /\ pc[t] = "idle" /\ n \in Number
    /\ \E e \in Event : events' = [i \in Begun \cup {n} |-> IF i = n THEN e ELSE events[i]]
    /\ pc' = [pc EXCEPT ![t] = "expire"] /\ ev' = [ev EXCEPT ![t] = n]
    /\ meets' = [i \in Number |-> IF i = n THEN others
                                  ELSE IF i \in others THEN meets[i] \cup {n} ELSE meets[i]]
    /\ UNCHANGED <<storeVars, got, gotHeld, out, closed, keyed, differs>>

\* expire_stale: the entries of every fingerprint, by the clock of this event.
\* Mutant: an entry goes when its window ends, not after.
StaleAtOnce(st, clock) == st # NoState /\ clock - st.last >= Window
Stale(st, clock) == st # NoState /\ clock - st.last > Window

Expire(t) ==
    LET gone == {f \in Fingerprint : Stale(store[f], events[ev[t]].ts)} IN
    /\ pc[t] = "expire" /\ pc' = [pc EXCEPT ![t] = "get"]
    /\ store' = [f \in Fingerprint |-> IF f \in gone THEN NoState ELSE store[f]]
    /\ held' = [f \in Fingerprint |-> IF f \in gone THEN {} ELSE held[f]]
    /\ closed' = closed \cup UNION {held[f] : f \in gone}
    /\ UNCHANGED <<ev, got, gotHeld, events, out, meets, keyed, differs>>

Fp(t) == events[ev[t]].fp
Decided(t, st) == Transition(st, events[ev[t]], events[ev[t]].ts, ev[t])
Decision(t)    == Decided(t, got[t])

Read(t) ==
    /\ got' = [got EXCEPT ![t] = store[Fp(t)]]
    /\ gotHeld' = [gotHeld EXCEPT ![t] = held[Fp(t)]]

Get(t) ==
    /\ pc[t] = "get" /\ Read(t)
    /\ pc' = [pc EXCEPT ![t] = IF Decided(t, store[Fp(t)]).action = "new" THEN "create" ELSE "put"]
    /\ UNCHANGED <<storeVars, ev, events, histVars>>

\* process returns; the stream decides the same event on its keyed state.
Return(t, kind, id) ==
    LET n == ev[t]
        r == Transition(keyed[Fp(t)], events[n], events[n].ts, n)
        same == \/ r.action = kind
                \/ r.action = "suppress" /\ kind = "suppressed"
    IN
    /\ out' = [out EXCEPT ![n] = [kind |-> kind, id |-> id]]
    /\ keyed' = [keyed EXCEPT ![Fp(t)] = r.state]
    /\ differs' = IF same THEN differs ELSE differs \cup {n}
    /\ pc' = [pc EXCEPT ![t] = "idle"] /\ ev' = [ev EXCEPT ![t] = 0]
    /\ got' = [got EXCEPT ![t] = NoState] /\ gotHeld' = [gotHeld EXCEPT ![t] = {}]
    /\ UNCHANGED <<events, meets>>

\* Mutant: a suppressed event is not stored.
WrittenIfEmitted(r, old) == IF r.action = "suppress" THEN old ELSE r.state
Written(r, old) == r.state

\* The entry of t's fingerprint is overwritten by t's decision; what t did not
\* read is forgotten.
Write(t) ==
    LET f == Fp(t)
        r == Decision(t)
        new == Written(r, got[t])
    IN
    /\ store' = [store EXCEPT ![f] = new]
    /\ held' = [held EXCEPT ![f] = IF new = got[t] THEN gotHeld[t]
                                   ELSE IF r.action = "new" THEN {ev[t]}
                                   ELSE gotHeld[t] \cup {ev[t]}]
    /\ closed' = IF r.action = "new" THEN closed \cup gotHeld[t] ELSE closed

\* try_create ...
Create(t) ==
    /\ pc[t] = "create" /\ store[Fp(t)] = NoState
    /\ Write(t) /\ Return(t, "new", ev[t])

\* ... or another thread was first.
CreateFails(t) ==
    /\ pc[t] = "create" /\ store[Fp(t)] # NoState
    /\ pc' = [pc EXCEPT ![t] = "winner"]
    /\ UNCHANGED <<storeVars, ev, got, gotHeld, events, histVars>>

\* The event is applied to the winner's entry; it is given up if that is gone.
Winner(t) ==
    /\ pc[t] = "winner"
    /\ \/ /\ store[Fp(t)] # NoState /\ Read(t)
          /\ pc' = [pc EXCEPT ![t] = "put"]
          /\ UNCHANGED <<storeVars, ev, events, histVars>>
       \/ /\ store[Fp(t)] = NoState /\ Return(t, "dropped", NoId)
          /\ UNCHANGED <<storeVars, closed>>

\* The alert after a put is never a new one.  Mutant: what is suppressed is
\* returned as well.
Raw(r) == r.action
Outcome(r) == IF r.action = "suppress" THEN "suppressed" ELSE "update"

Put(t) ==
    /\ pc[t] = "put"
    /\ Write(t) /\ Return(t, Outcome(Decision(t)), Decision(t).state.id)

Step(t) == Begin(t) \/ Expire(t) \/ Get(t) \/ Create(t) \/ CreateFails(t) \/ Winner(t) \/ Put(t)

Next == \E t \in Thread : Step(t)
Spec == Init /\ [][Next]_vars
-----------------------------------------------------------------------------
(* Properties *)

TypeOK ==
    /\ store \in [Fingerprint -> State] /\ held \in [Fingerprint -> SUBSET Number]
    /\ pc \in [Thread -> {"idle", "expire", "get", "create", "winner", "put"}]
    /\ ev \in [Thread -> 0..MaxEvents]
    /\ got \in [Thread -> State] /\ gotHeld \in [Thread -> SUBSET Number]
    /\ Begun \subseteq Number /\ events \in [Begun -> Event]
    /\ out \in [Number -> [kind : Kind, id : Nat]]
    /\ meets \in [Number -> SUBSET Number] /\ closed \subseteq Number
    /\ keyed \in [Fingerprint -> State] /\ differs \subseteq Number

Counted == {n \in Begun : out[n].kind \in {"new", "update", "suppressed"}}
Alerted == {n \in Begun : out[n].kind \in {"new", "update"}}
SameFp(n, m) == events[n].fp = events[m].fp
Rivals(n) == {m \in meets[n] : SameFp(n, m)}

\* get and put are two calls of the store: an event is counted in the entry of
\* its fingerprint, or in a closed incident, unless a call for the same
\* fingerprint ran at the same time.
CountedUnlessRaced ==
    \A n \in Counted : n \in held[events[n].fp] \cup closed \/ Rivals(n) # {}

\* An alert is of an incident that was announced as new, unless the event that
\* opened it lost try_create to one that is a window older.
Announced(o) ==
    out[o].kind = "new" \/ \E m \in Rivals(o) : events[o].ts - events[m].ts > Window
AnnouncedUnlessRaced == \A n \in Alerted : Announced(out[n].id)

\* An event vanishes without alert or count only if the entry that beat it was
\* expired at once by a third one.
BeatenAndExpired(n) ==
    \E b \in Rivals(n), c \in meets[n] : events[c].ts - events[b].ts > Window
DroppedExplained == \A n \in Begun : out[n].kind = "dropped" => BeatenAndExpired(n)

\* Two alerts of an incident are a refire interval apart, unless calls raced.
AlertsSpaced ==
    \A n, m \in Alerted :
        n < m /\ out[n].id = out[m].id /\ Rivals(n) = {} => events[m].ts - events[n].ts >= Refire

\* "Memory DedupEngine and Quix-state adapter must agree on emit decisions":
\* they do if calls do not overlap and events are in order of time.  An event
\* of another fingerprint that is ahead closes windows the stream keeps open.
Sequential == \A n \in Begun : meets[n] = {}
InOrder    == \A n, m \in Begun : n < m => events[n].ts <= events[m].ts
ParityInOrder == Sequential /\ InOrder => differs = {}
-----------------------------------------------------------------------------
(* The strengthening that makes the properties inductive. *)

\* Calls are numbered as they begin, and a number has no result while its call
\* runs; calls that run together have met.
Numbered ==
    /\ \E k \in 0..MaxEvents : Begun = 1..k
    /\ \A t \in Busy : ev[t] \in Begun
    /\ \A n \in Number : out[n].kind = "pending" <=> n \notin Begun \/ \E t \in Busy : ev[t] = n
    /\ \A n \in Number : meets[n] \subseteq Begun
    /\ \A t, u \in Busy : t # u => ev[t] # ev[u] /\ ev[u] \in meets[ev[t]]
    /\ \A t \in Busy, n \in Begun : n > ev[t] => n \in meets[ev[t]]

\* An id in the store, in a thread's hands or in an alert is that of a call for
\* the same fingerprint that has returned, and is announced or excused.
Known(o, f) ==
    o \in Begun /\ events[o].fp = f /\ out[o].kind # "pending" /\ Announced(o)
IdsKnown ==
    /\ \A f \in Fingerprint : store[f] # NoState => Known(store[f].id, f)
    /\ \A t \in Thread : got[t] # NoState => t \in Busy /\ Known(got[t].id, Fp(t))
    /\ \A n \in Alerted : Known(out[n].id, events[n].fp)

\* The threads whose read will decide what they write.
Deciding == {t \in Thread : pc[t] \in {"create", "put"}}

\* What a call that met no rival has counted, every later reader has read.
ReadersCount ==
    \A n \in Counted : Rivals(n) = {} =>
        \A t \in Deciding : Fp(t) = events[n].fp => n \in gotHeld[t] \cup closed

\* Likewise its alert: an entry of its incident was last announced no earlier.
ReadersSpace ==
    \A n \in Alerted : Rivals(n) = {} =>
        /\ \A f \in Fingerprint : store[f].id = out[n].id => store[f].emitted >= events[n].ts
        /\ \A t \in Deciding : got[t].id = out[n].id => got[t].emitted >= events[n].ts

\* A thread's own expire_stale leaves nothing its event could close, so an
\* entry that does, or that beats its try_create, is a rival's.
ByRival(t, st) == \E m \in Rivals(ev[t]) : st.last = events[m].ts
Clock(t)       == events[ev[t]].ts
Beaten ==
    \A t \in Busy : LET st == store[Fp(t)] IN
        /\ pc[t] = "get" /\ Stale(st, Clock(t)) => ByRival(t, st)
        /\ pc[t] = "create" => got[t] = NoState \/ Stale(got[t], Clock(t))
        /\ pc[t] \in {"create", "winner"} /\ st # NoState => ByRival(t, st)
        /\ pc[t] = "winner" /\ st = NoState => BeatenAndExpired(ev[t])
        /\ pc[t] = "put" => /\ got[t] # NoState
                            /\ Stale(got[t], Clock(t)) => ByRival(t, got[t])

\* One call at a time and in order of time, the store is the stream's keyed
\* state, but for the entries that a later event has expired.
InStep ==
    Sequential /\ InOrder =>
        /\ differs = {}
        /\ \A t \in Busy, n \in Begun : n <= ev[t]
        /\ \A f \in Fingerprint :
              \/ store[f] = keyed[f]
              \/ store[f] = NoState /\ \E n \in Begun : Stale(keyed[f], events[n].ts)
        /\ \A t \in Busy : LET st == store[Fp(t)] IN
              /\ pc[t] # "winner"
              /\ pc[t] # "expire" => ~Stale(st, Clock(t))
              /\ pc[t] = "create" => st = NoState /\ got[t] = NoState
              /\ pc[t] = "put" => got[t] = st /\ st # NoState

IInv ==
    /\ TypeOK /\ Numbered /\ IdsKnown
    /\ CountedUnlessRaced /\ ReadersCount /\ ReadersSpace /\ AlertsSpaced
    /\ Beaten /\ DroppedExplained /\ InStep
=============================================================================
