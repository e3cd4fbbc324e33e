-------------------------- MODULE DedupEngineProofs --------------------------
(* Theorems about DedupEngine, for any threads, fingerprints, levels, clocks, *)
(* window and refire interval.                                                *)
EXTENDS DedupEngine, FiniteSetTheorems, TLAPS

-----------------------------------------------------------------------------
(* The transition, of an event at its own time *)

StateFields == [id : Nat, first : Int, last : Int, count : Nat, emitted : Int, level : Nat]

LEMMA StateFacts ==
  /\ NoState \in State /\ NoState.id = 0 /\ NoState.count = 0
  /\ \A s \in State : /\ s.id \in Nat /\ s.last \in Int /\ s.count \in Nat
                      /\ s.emitted \in Int /\ s.level \in Nat
BY DEF State, NoState, NoId

\* What apply_dedup_transition decides and what it stores.
LEMMA Verdicts ==
  ASSUME NEW st \in State, NEW e, e.ts \in Nat, e.level \in Nat, NEW n \in Nat \ {0},
         NEW r, r = Transition(st, e, e.ts, n)
  PROVE  /\ r.action \in {"new", "update", "suppress"} /\ r.state \in State /\ r.state # NoState
         /\ r.action = "new" <=> st = NoState \/ Stale(st, e.ts)
         /\ r.state.last = e.ts
         /\ r.action = "new" => r.state.id = n /\ r.state.emitted = e.ts /\ r.state = Opened(e, e.ts, n)
         /\ r.action # "new" => r.state.id = st.id /\ r.state.count = st.count + 1
         /\ r.action = "update" => r.state.emitted = e.ts /\ e.ts - st.emitted >= Refire
         /\ r.action = "suppress" => r.state.emitted = st.emitted
<1> DEFINE opened == Opened(e, e.ts, n)
           merged == Merged(st, e)
           spoken == [merged EXCEPT !.emitted = e.ts]
           old == st = NoState \/ WindowExpired(st, e.ts)
           soon == TooSoon(st, e.ts)
<1>1. /\ opened \in State /\ opened.id = n /\ opened.last = e.ts /\ opened.emitted = e.ts
      /\ opened.count = 1
  BY DEF Opened, State
<1>2. /\ merged \in StateFields /\ merged.id = st.id /\ merged.last = e.ts
      /\ merged.emitted = st.emitted /\ merged.count = st.count + 1
  <2> DEFINE lv == WorseLevel(st.level, e.level)
  <2>1. st \in StateFields
    BY DEF State, StateFields
  <2>2. lv \in Nat
    BY StateFacts DEF WorseLevel
  <2>3. merged = [st EXCEPT !.count = st.count + 1, !.last = e.ts, !.level = lv]
    BY DEF Merged
  <2> HIDE DEF merged, lv
  <2>4. e.ts \in Int /\ st.count + 1 \in Nat
    BY StateFacts
  <2> QED BY <2>1, <2>2, <2>3, <2>4 DEF StateFields
<1>3. /\ spoken \in StateFields /\ spoken.id = st.id /\ spoken.last = e.ts
      /\ spoken.emitted = e.ts /\ spoken.count = st.count + 1
  <2> HIDE DEF merged
  <2> QED BY <1>2 DEF StateFields
<1>4. r = IF old THEN [action |-> "new", state |-> opened]
          ELSE IF soon THEN [action |-> "suppress", state |-> merged]
          ELSE [action |-> "update", state |-> spoken]
  BY Zenon DEF Transition
<1>5. old <=> st = NoState \/ Stale(st, e.ts)
  BY DEF WindowExpired, Stale
<1>6. ~soon => e.ts - st.emitted >= Refire
  BY StateFacts, DedupAssumption DEF TooSoon
<1>7. merged \in State /\ spoken \in State
  BY <1>2, <1>3 DEF State, StateFields
<1>9. r.action = "new" => r.state = Opened(e, e.ts, n)
  BY <1>4
<1> HIDE DEF opened, merged, spoken, old, soon
<1>8. opened # NoState /\ merged # NoState /\ spoken # NoState
  BY <1>1, <1>2, <1>3, StateFacts
<1>10. CASE old
  BY <1>1, <1>4, <1>5, <1>8, <1>9, <1>10
<1>11. CASE ~old /\ soon
  BY <1>2, <1>4, <1>5, <1>7, <1>8, <1>9, <1>11
<1>12. CASE ~old /\ ~soon
  BY <1>3, <1>4, <1>5, <1>6, <1>7, <1>8, <1>9, <1>12
<1> QED BY <1>10, <1>11, <1>12

-----------------------------------------------------------------------------
(* Types and numbers *)

Basic == TypeOK /\ Numbered

LEMMA EventFacts ==
  ASSUME NEW e \in Event
  PROVE  e.fp \in Fingerprint /\ e.ts \in Nat /\ e.level \in Nat
<1>1. e.fp \in Fingerprint /\ e.ts \in 0..MaxTime /\ e.level \in Levels
  BY DEF Event
<1>2. e.ts \in Nat
  BY <1>1, EngineAssumption
<1>3. e.level \in Nat
  BY <1>1, EngineAssumption
<1> QED BY <1>1, <1>2, <1>3

\* The event of a running call, and what may be decided about it.
LEMMA Running ==
  ASSUME Basic, NEW t \in Busy
  PROVE  /\ ev[t] \in Begun /\ ev[t] \in Number /\ ev[t] \in Nat \ {0}
         /\ events[ev[t]] \in Event /\ Fp(t) \in Fingerprint /\ Clock(t) \in Nat
         /\ events[ev[t]].level \in Nat /\ out[ev[t]].kind = "pending"
<1>1. ev[t] \in Begun /\ ev[t] \in Number
  BY DEF Basic, TypeOK, Numbered
<1>2. ev[t] \in Nat \ {0}
  BY <1>1, EngineAssumption DEF Number
<1>3. events[ev[t]] \in Event
  BY <1>1 DEF Basic, TypeOK
<1>4. out[ev[t]].kind = "pending"
  BY <1>1 DEF Basic, Numbered
<1>5. /\ events[ev[t]].fp \in Fingerprint /\ events[ev[t]].ts \in Nat
      /\ events[ev[t]].level \in Nat
  BY <1>3, EventFacts
<1> QED BY <1>1, <1>2, <1>3, <1>4, <1>5 DEF Fp, Clock

\* A decision about a running call's event.
LEMMA RunningVerdict ==
  ASSUME Basic, NEW t \in Busy, NEW st \in State, NEW r, r = Decided(t, st)
  PROVE  /\ r.action \in {"new", "update", "suppress"} /\ r.state \in State /\ r.state # NoState
         /\ r.action = "new" <=> st = NoState \/ Stale(st, Clock(t))
         /\ r.state.last = Clock(t)
         /\ r.action = "new" => r.state.id = ev[t] /\ r.state.emitted = Clock(t)
         /\ r.action # "new" => r.state.id = st.id /\ r.state.count = st.count + 1
         /\ r.action = "update" => r.state.emitted = Clock(t) /\ Clock(t) - st.emitted >= Refire
         /\ r.action = "suppress" => r.state.emitted = st.emitted
<1> DEFINE e == events[ev[t]]
<1>1. e.ts \in Nat /\ e.level \in Nat /\ ev[t] \in Nat \ {0} /\ Clock(t) = e.ts
  BY Running DEF Clock
<1>2. r = Transition(st, e, e.ts, ev[t])
  BY DEF Decided
<1> HIDE DEF e
<1> QED BY <1>1, <1>2, Verdicts

LEMMA TypeStep == Basic /\ [Next]_vars => TypeOK'
<1> SUFFICES ASSUME Basic, [Next]_vars PROVE TypeOK'
  OBVIOUS
<1> USE DEF Basic, TypeOK
<1>1. ASSUME NEW t \in Thread, NEW kind \in Kind, NEW id \in Nat, Return(t, kind, id), t \in Busy
      PROVE  /\ out' \in [Number -> [kind : Kind, id : Nat]] /\ keyed' \in [Fingerprint -> State]
             /\ differs' \subseteq Number /\ events' = events /\ meets' = meets
             /\ pc' \in [Thread -> {"idle", "expire", "get", "create", "winner", "put"}]
             /\ ev' \in [Thread -> 0..MaxEvents] /\ got' \in [Thread -> State]
             /\ gotHeld' \in [Thread -> SUBSET Number]
  <2>1. keyed[Fp(t)] \in State /\ ev[t] \in Number
    BY <1>1, Running
  <2>2. Transition(keyed[Fp(t)], events[ev[t]], events[ev[t]].ts, ev[t]).state \in State
    BY <1>1, <2>1, RunningVerdict DEF Decided
  <2>3. 0 \in 0..MaxEvents
    BY EngineAssumption
  <2>4. out' \in [Number -> [kind : Kind, id : Nat]]
    BY <1>1, <2>1 DEF Return
  <2>5. keyed' \in [Fingerprint -> State]
    BY <1>1, <2>2 DEF Return
  <2>6. differs' \subseteq Number
    BY <1>1, <2>1 DEF Return
  <2> QED BY <1>1, <2>3, <2>4, <2>5, <2>6, StateFacts DEF Return
<1>2. ASSUME NEW t \in Thread, Write(t), t \in Busy
      PROVE  /\ store' \in [Fingerprint -> State] /\ held' \in [Fingerprint -> SUBSET Number]
             /\ closed' \subseteq Number
  <2>1. Decision(t).state \in State /\ ev[t] \in Number
    BY <1>2, Running, RunningVerdict DEF Decision
  <2> QED BY <1>2, <2>1 DEF Write, Written
<1>3. ASSUME NEW t \in Thread, Begin(t) PROVE TypeOK'
  <2> DEFINE n == Cardinality(Begun) + 1
  <2>1. PICK e \in Event : events' = [i \in Begun \cup {n} |-> IF i = n THEN e ELSE events[i]]
    BY <1>3 DEF Begin
  <2>2. n \in Number /\ n \in 0..MaxEvents
    BY <1>3, EngineAssumption DEF Begin, Number
  <2>3. Begun' = Begun \cup {n}
    BY <2>1 DEF Begun
  <2>4. \A i \in Begun' : events'[i] \in Event
    BY <2>1, <2>3
  <2>5. events' \in [Begun' -> Event] /\ Begun' \subseteq Number
    BY <2>1, <2>2, <2>3, <2>4
  <2>6. {ev[u] : u \in Busy} \subseteq Number
    BY Running
  <2>7. meets' \in [Number -> SUBSET Number]
    BY <1>3, <2>2, <2>6 DEF Begin
  <2>8. /\ pc' = [pc EXCEPT ![t] = "expire"] /\ ev' = [ev EXCEPT ![t] = n]
        /\ UNCHANGED <<store, held, got, gotHeld, out, closed, keyed, differs>>
    BY <1>3 DEF Begin, storeVars
  <2> HIDE DEF n
  <2> QED BY <2>2, <2>5, <2>7, <2>8 DEF Begun
<1>4. ASSUME NEW t \in Thread, Expire(t) PROVE TypeOK'
  BY <1>4, StateFacts DEF Expire, Begun
<1>5. ASSUME NEW t \in Thread, Get(t) PROVE TypeOK'
  <2>1. Fp(t) \in Fingerprint
    BY <1>5, Running DEF Get, Busy
  <2> QED BY <1>5, <2>1 DEF Get, Read, storeVars, histVars, Begun
<1>6. ASSUME NEW t \in Thread, Create(t) PROVE TypeOK'
  <2>1. t \in Busy /\ "new" \in Kind /\ ev[t] \in Nat
    BY <1>6, Running DEF Create, Busy, Kind
  <2> QED BY <1>1, <1>2, <1>6, <2>1 DEF Create, Begun
<1>7. ASSUME NEW t \in Thread, CreateFails(t) PROVE TypeOK'
  BY <1>7 DEF CreateFails, storeVars, histVars, Begun
<1>8. ASSUME NEW t \in Thread, Winner(t) PROVE TypeOK'
  <2>1. t \in Busy /\ "dropped" \in Kind /\ NoId \in Nat /\ Fp(t) \in Fingerprint
    BY <1>8, Running DEF Winner, Busy, Kind, NoId
  <2>2. CASE Return(t, "dropped", NoId) /\ UNCHANGED <<storeVars, closed>>
    BY <1>1, <2>1, <2>2 DEF storeVars, Begun
  <2>3. CASE Read(t) /\ pc' = [pc EXCEPT ![t] = "put"] /\ UNCHANGED <<storeVars, ev, events, histVars>>
    BY <2>1, <2>3 DEF Read, storeVars, histVars, Begun
  <2> QED BY <1>8, <2>2, <2>3 DEF Winner
<1>9. ASSUME NEW t \in Thread, Put(t) PROVE TypeOK'
  <2>1. t \in Busy /\ Outcome(Decision(t)) \in Kind
    BY <1>9 DEF Put, Busy, Kind, Outcome
  <2>2. Decision(t).state.id \in Nat
    BY <2>1, RunningVerdict, StateFacts DEF Decision
  <2> QED BY <1>1, <1>2, <1>9, <2>1, <2>2 DEF Put, Begun
<1>10. CASE UNCHANGED vars
  BY <1>10 DEF vars, storeVars, threadVars, histVars, Begun
<1> QED
  BY <1>3, <1>4, <1>5, <1>6, <1>7, <1>8, <1>9, <1>10 DEF Next, Step
-----------------------------------------------------------------------------
(* The kinds of step *)

\* A call that ends returns something, and has written the store or given up.
Ends(t, kind, id) ==
    /\ t \in Busy /\ kind \in Kind \ {"pending"} /\ Return(t, kind, id)
    /\ Write(t) \/ UNCHANGED <<store, held, closed>>

\* A call that goes on tells nobody yet.
GoesOn(t) ==
    /\ t \in Busy /\ pc'[t] # "idle" /\ \A u \in Thread \ {t} : pc'[u] = pc[u]
    /\ UNCHANGED <<ev, events, out, meets, keyed, differs>>

LEMMA StepKinds ==
  ASSUME Basic, [Next]_vars
  PROVE  \/ UNCHANGED vars
         \/ \E t \in Thread : Begin(t)
         \/ \E t \in Thread : GoesOn(t)
         \/ \E t \in Thread, kind \in Kind, id \in Nat : Ends(t, kind, id)
<1> USE DEF Basic, TypeOK
<1>1. ASSUME NEW t \in Thread, Expire(t) \/ Get(t) \/ CreateFails(t) PROVE GoesOn(t)
  BY <1>1 DEF Expire, Get, CreateFails, GoesOn, Busy, histVars, threadVars
<1>2. ASSUME NEW t \in Thread, Create(t) PROVE Ends(t, "new", ev[t]) /\ ev[t] \in Nat
  <2>1. t \in Busy
    BY <1>2 DEF Create, Busy
  <2> QED BY <1>2, <2>1, Running DEF Create, Ends, Kind
<1>3. ASSUME NEW t \in Thread, Winner(t) PROVE GoesOn(t) \/ (Ends(t, "dropped", NoId) /\ NoId \in Nat)
  <2>1. t \in Busy
    BY <1>3 DEF Winner, Busy
  <2>2. CASE Return(t, "dropped", NoId) /\ UNCHANGED <<storeVars, closed>>
    BY <2>1, <2>2 DEF Ends, Kind, storeVars, NoId
  <2>3. CASE pc' = [pc EXCEPT ![t] = "put"] /\ UNCHANGED <<storeVars, ev, events, histVars>>
    BY <2>1, <2>3 DEF GoesOn, histVars
  <2> QED BY <1>3, <2>2, <2>3 DEF Winner
<1>4. ASSUME NEW t \in Thread, Put(t)
      PROVE  /\ Ends(t, Outcome(Decision(t)), Decision(t).state.id)
             /\ Outcome(Decision(t)) \in Kind /\ Decision(t).state.id \in Nat
  <2>1. t \in Busy
    BY <1>4 DEF Put, Busy
  <2>2. Decision(t).state.id \in Nat
    BY <2>1, RunningVerdict, StateFacts DEF Decision
  <2>3. Outcome(Decision(t)) \in Kind \ {"pending"}
    BY DEF Outcome, Kind
  <2> QED BY <1>4, <2>1, <2>2, <2>3 DEF Put, Ends
<1>5. "new" \in Kind /\ "dropped" \in Kind
  BY DEF Kind
<1> QED
  BY <1>1, <1>2, <1>3, <1>4, <1>5 DEF Next, Step

\* A call that begins takes the next number and meets every call that runs.
LEMMA Beginning ==
  ASSUME Basic, NEW t \in Thread, Begin(t)
  PROVE  \E n \in Number, k \in 0..MaxEvents :
           /\ n = k + 1 /\ Begun = 1..k /\ Begun' = 1..n /\ n \notin Begun /\ n \in 1..MaxEvents
           /\ \A i \in Begun : events'[i] = events[i]
           /\ Busy' = Busy \cup {t} /\ t \notin Busy /\ ev'[t] = n
           /\ \A u \in Busy : ev'[u] = ev[u]
           /\ meets'[n] = {ev[u] : u \in Busy}
           /\ \A i \in Number : i # n => meets'[i] = IF \E u \in Busy : ev[u] = i
                                                    THEN meets[i] \cup {n} ELSE meets[i]
<1> USE DEF Basic, TypeOK
<1>1. PICK k \in 0..MaxEvents : Begun = 1..k
  BY DEF Numbered
<1>2. Cardinality(Begun) = k
  BY <1>1, FS_Interval, EngineAssumption
<1> DEFINE n == Cardinality(Begun) + 1
<1>3. n = k + 1 /\ n \in Number /\ n \notin Begun /\ n \in 1..MaxEvents
  BY <1>1, <1>2 DEF Begin, Number
<1>4. PICK e \in Event : events' = [i \in Begun \cup {n} |-> IF i = n THEN e ELSE events[i]]
  BY DEF Begin
<1>5. /\ pc[t] = "idle" /\ pc' = [pc EXCEPT ![t] = "expire"] /\ ev' = [ev EXCEPT ![t] = n]
      /\ meets' = [i \in Number |-> IF i = n THEN {ev[u] : u \in Busy}
                                    ELSE IF i \in {ev[u] : u \in Busy} THEN meets[i] \cup {n}
                                    ELSE meets[i]]
  BY DEF Begin
<1> HIDE DEF n
<1>6. Begun' = Begun \cup {n} /\ \A i \in Begun : events'[i] = events[i]
  BY <1>3, <1>4 DEF Begun
<1>7. Begun' = 1..n
  BY <1>1, <1>3, <1>6
<1>8. Busy' = Busy \cup {t} /\ t \notin Busy /\ ev'[t] = n /\ \A u \in Busy : ev'[u] = ev[u]
  BY <1>5 DEF Busy
<1>9. /\ meets'[n] = {ev[u] : u \in Busy}
      /\ \A i \in Number : i # n => meets'[i] = IF \E u \in Busy : ev[u] = i
                                               THEN meets[i] \cup {n} ELSE meets[i]
  BY <1>3, <1>5
<1> QED BY <1>1, <1>3, <1>6, <1>7, <1>8, <1>9

\* A call that ends leaves the others running.
LEMMA Ending ==
  ASSUME Basic, NEW t \in Thread, NEW kind \in Kind, NEW id \in Nat, Ends(t, kind, id)
  PROVE  /\ Busy' = Busy \ {t} /\ \A u \in Thread \ {t} : UNCHANGED <<pc[u], ev[u], got[u], gotHeld[u]>>
         /\ UNCHANGED <<events, meets>>
         /\ out'[ev[t]].kind = kind /\ out'[ev[t]].id = id /\ kind # "pending"
         /\ \A n \in Number : n # ev[t] => out'[n] = out[n]
<1>1. ev[t] \in Number
  BY Running DEF Ends
<1> QED BY <1>1 DEF Ends, Return, Busy, Basic, TypeOK

LEMMA NumberedStep == Basic /\ [Next]_vars => Numbered'
<1> SUFFICES ASSUME Basic, [Next]_vars PROVE Numbered'
  OBVIOUS
<1>1. ASSUME NEW t \in Thread, Begin(t) PROVE Numbered'
  <2>1. PICK n \in Number, k \in 0..MaxEvents :
           /\ n = k + 1 /\ Begun = 1..k /\ Begun' = 1..n /\ n \notin Begun /\ n \in 1..MaxEvents
           /\ \A i \in Begun : events'[i] = events[i]
           /\ Busy' = Busy \cup {t} /\ t \notin Busy /\ ev'[t] = n
           /\ \A u \in Busy : ev'[u] = ev[u]
           /\ meets'[n] = {ev[u] : u \in Busy}
           /\ \A i \in Number : i # n => meets'[i] = IF \E u \in Busy : ev[u] = i
                                                    THEN meets[i] \cup {n} ELSE meets[i]
    BY <1>1, Beginning
  <2>2. out' = out
    BY <1>1 DEF Begin
  <2>3. Begun' = Begun \cup {n}
    BY <2>1
  <2>4. \A u \in Busy : ev[u] \in Begun /\ ev[u] \in Number /\ ev[u] # n
    BY <2>1, Running
  <2>5. \E m \in 0..MaxEvents : Begun' = 1..m
    BY <2>1, EngineAssumption
  <2>6. \A u \in Busy' : ev'[u] \in Begun'
    BY <2>1, <2>3, <2>4
  <2>7. ASSUME NEW i \in Number
        PROVE  out'[i].kind = "pending" <=> i \notin Begun' \/ \E u \in Busy' : ev'[u] = i
    <3>1. out[i].kind = "pending" <=> i \notin Begun \/ \E u \in Busy : ev[u] = i
      BY DEF Basic, Numbered
    <3>2. CASE i = n
      BY <2>1, <2>2, <3>1, <3>2
    <3>3. CASE i # n
      BY <2>1, <2>2, <2>3, <3>1, <3>3
    <3> QED BY <3>2, <3>3
  <2>8. ASSUME NEW i \in Number PROVE meets'[i] \subseteq Begun'
    <3>1. meets[i] \subseteq Begun
      BY DEF Basic, Numbered
    <3>2. CASE i = n
      <4>1. {ev[u] : u \in Busy} \subseteq Begun
        BY <2>4
      <4> QED BY <2>1, <2>3, <3>2, <4>1
    <3>3. CASE i # n
      <4>1. meets'[i] \subseteq meets[i] \cup {n}
        BY <2>1, <3>3
      <4> QED BY <2>3, <3>1, <4>1
    <3> QED BY <3>2, <3>3
  <2>10. \A u \in Busy : ev[u] \in meets'[n] /\ meets'[ev[u]] = meets[ev[u]] \cup {n}
    <3> TAKE u \in Busy
    <3>1. ev[u] \in {ev[v] : v \in Busy}
      OBVIOUS
    <3>2. meets'[ev[u]] = meets[ev[u]] \cup {n}
      BY <2>1, <2>4
    <3> QED BY <2>1, <3>1, <3>2
  <2>11. /\ Busy' = Busy \cup {t} /\ ev'[t] = n /\ \A u \in Busy : ev'[u] = ev[u]
    BY <2>1
  <2>9. ASSUME NEW u \in Busy', NEW v \in Busy', u # v
        PROVE  ev'[u] # ev'[v] /\ ev'[v] \in meets'[ev'[u]]
    <3>1. CASE u \in Busy /\ v \in Busy
      <4>1. ev[u] # ev[v] /\ ev[v] \in meets[ev[u]]
        BY <2>9, <3>1 DEF Basic, Numbered
      <4> QED BY <2>10, <2>11, <3>1, <4>1
    <3>2. CASE u = t /\ v \in Busy
      BY <2>4, <2>10, <2>11, <3>2
    <3>3. CASE v = t /\ u \in Busy
      BY <2>4, <2>10, <2>11, <3>3
    <3> QED BY <2>9, <2>11, <3>1, <3>2, <3>3
  <2>12. ASSUME NEW u \in Busy', NEW m \in Begun', m > ev'[u] PROVE m \in meets'[ev'[u]]
    <3>1. CASE u = t
      <4>1. m \in 1..n /\ m > n /\ n \in Nat
        BY <2>1, <2>12, <3>1
      <4> QED BY <4>1
    <3>2. CASE u \in Busy /\ m = n
      BY <2>10, <2>11, <3>2
    <3>3. CASE u \in Busy /\ m \in Begun
      <4>1. m \in meets[ev[u]]
        BY <2>11, <2>12, <3>3 DEF Basic, Numbered
      <4> QED BY <2>10, <2>11, <3>3, <4>1
    <3> QED BY <2>3, <2>11, <3>1, <3>2, <3>3
  <2> QED BY <2>5, <2>6, <2>7, <2>8, <2>9, <2>12 DEF Numbered
<1>2. ASSUME NEW t \in Thread, GoesOn(t) PROVE Numbered'
  <2>1. Busy' = Busy /\ Begun' = Begun /\ UNCHANGED <<ev, out, meets>>
    BY <1>2 DEF GoesOn, Busy, Begun
  <2> QED BY <2>1 DEF Basic, Numbered
<1>3. ASSUME NEW t \in Thread, NEW kind \in Kind, NEW id \in Nat, Ends(t, kind, id) PROVE Numbered'
  <2>1. /\ Busy' = Busy \ {t} /\ \A u \in Thread \ {t} : ev'[u] = ev[u]
        /\ UNCHANGED <<events, meets>> /\ out'[ev[t]].kind # "pending"
        /\ \A n \in Number : n # ev[t] => out'[n] = out[n]
    BY <1>3, Ending
  <2>2. Begun' = Begun /\ t \in Busy /\ ev[t] \in Begun
    BY <1>3, <2>1, Running DEF Begun, Ends
  <2>3. \A u \in Busy' : u \in Busy /\ u # t /\ ev'[u] = ev[u] /\ ev[u] # ev[t]
    BY <2>1, <2>2 DEF Basic, Numbered, Busy
  <2>4. \A n \in Number : out'[n].kind = "pending" <=> n \notin Begun' \/ \E u \in Busy' : ev'[u] = n
    <3> TAKE n \in Number
    <3>1. out[n].kind = "pending" <=> n \notin Begun \/ \E u \in Busy : ev[u] = n
      BY DEF Basic, Numbered
    <3>2. CASE n = ev[t]
      BY <2>1, <2>2, <2>3, <3>2
    <3>3. CASE n # ev[t]
      <4>1. (\E u \in Busy : ev[u] = n) <=> (\E u \in Busy' : ev'[u] = n)
        BY <2>1, <2>3, <3>3
      <4> QED BY <2>1, <2>2, <3>1, <3>3, <4>1
    <3> QED BY <3>2, <3>3
  <2> QED BY <2>1, <2>2, <2>3, <2>4 DEF Basic, Numbered
<1>4. CASE UNCHANGED vars
  BY <1>4 DEF vars, threadVars, histVars, Basic, Numbered, Busy, Begun
<1> QED BY <1>1, <1>2, <1>3, <1>4, StepKinds

LEMMA BasicStep == Basic /\ [Next]_vars => Basic'
BY TypeStep, NumberedStep DEF Basic
\* What has happened stays: calls, their events, who met whom, what was returned.
LEMMA Growth ==
  ASSUME Basic, [Next]_vars
  PROVE  /\ \A n \in Begun : /\ n \in Begun' /\ events'[n] = events[n] /\ meets[n] \subseteq meets'[n]
                             /\ Rivals(n) \subseteq Rivals(n)'
                             /\ out[n].kind # "pending" => out'[n] = out[n]
         /\ \A n \in Begun' : n \notin Begun => out'[n].kind = "pending"
         /\ \A t \in Busy : t \in Busy' => ev'[t] = ev[t] /\ Fp(t)' = Fp(t) /\ Clock(t)' = Clock(t)
<1> DEFINE Grows ==
      /\ Begun \subseteq Begun' /\ \A n \in Begun : events'[n] = events[n] /\ meets[n] \subseteq meets'[n]
      /\ \A n \in Begun : out[n].kind # "pending" => out'[n] = out[n]
      /\ \A n \in Begun' : n \notin Begun => out'[n].kind = "pending"
      /\ \A t \in Busy : t \in Busy' => ev'[t] = ev[t]
<1>1. Begun \subseteq Number /\ \A n \in Number : meets[n] \subseteq Begun
  BY DEF Basic, TypeOK, Numbered
<1>2. Grows
  <2>1. ASSUME NEW t \in Thread, Begin(t) PROVE Grows
    <3>1. PICK n \in Number, k \in 0..MaxEvents :
           /\ n = k + 1 /\ Begun = 1..k /\ Begun' = 1..n /\ n \notin Begun /\ n \in 1..MaxEvents
           /\ \A i \in Begun : events'[i] = events[i]
           /\ Busy' = Busy \cup {t} /\ t \notin Busy /\ ev'[t] = n
           /\ \A u \in Busy : ev'[u] = ev[u]
           /\ meets'[n] = {ev[u] : u \in Busy}
           /\ \A i \in Number : i # n => meets'[i] = IF \E u \in Busy : ev[u] = i
                                                    THEN meets[i] \cup {n} ELSE meets[i]
      BY <2>1, Beginning
    <3>2. out' = out
      BY <2>1 DEF Begin
    <3>3. \A i \in Begun : meets[i] \subseteq meets'[i]
      BY <1>1, <3>1
    <3>4. Begun \subseteq Begun'
      BY <3>1
    <3>5. \A i \in Begun' : i \notin Begun => out'[i].kind = "pending"
      BY <3>1, <3>2 DEF Basic, Numbered, Number
    <3> QED BY <3>1, <3>2, <3>3, <3>4, <3>5
  <2>2. ASSUME NEW t \in Thread, GoesOn(t) PROVE Grows
    BY <2>2 DEF GoesOn, Begun
  <2>3. ASSUME NEW t \in Thread, NEW kind \in Kind, NEW id \in Nat, Ends(t, kind, id) PROVE Grows
    <3>1. out[ev[t]].kind = "pending" /\ ev[t] \in Begun
      BY <2>3, Running DEF Ends
    <3>2. /\ Busy' = Busy \ {t} /\ \A u \in Thread \ {t} : ev'[u] = ev[u]
          /\ UNCHANGED <<events, meets>>
          /\ \A n \in Number : n # ev[t] => out'[n] = out[n]
      BY <2>3, Ending
    <3>3. Begun' = Begun
      BY <3>2 DEF Begun
    <3> QED BY <1>1, <3>1, <3>2, <3>3 DEF Busy
  <2>4. CASE UNCHANGED vars
    BY <2>4 DEF vars, threadVars, histVars, Begun
  <2> QED BY <2>1, <2>2, <2>3, <2>4, StepKinds
<1>3. \A n \in Begun : Rivals(n) \subseteq Rivals(n)'
  <2> SUFFICES ASSUME NEW n \in Begun, NEW m \in meets[n], SameFp(n, m)
               PROVE  m \in meets'[n] /\ SameFp(n, m)'
    BY DEF Rivals
  <2>1. m \in Begun /\ events'[n] = events[n] /\ events'[m] = events[m]
    BY <1>1, <1>2
  <2> QED BY <1>2, <2>1 DEF SameFp
<1>4. \A t \in Busy : t \in Busy' => Fp(t)' = Fp(t) /\ Clock(t)' = Clock(t)
  BY <1>2, Running DEF Fp, Clock
<1> QED BY <1>2, <1>3, <1>4

LEMMA Stays ==
  ASSUME Basic, [Next]_vars
  PROVE  /\ \A o, f : Known(o, f) => Known(o, f)'
         /\ \A n \in Begun : BeatenAndExpired(n) => BeatenAndExpired(n)'
<1> USE Growth
<1>0. \A n \in Begun : meets[n] \subseteq Begun /\ Rivals(n) \subseteq meets[n]
  BY DEF Basic, TypeOK, Numbered, Rivals
<1>1. ASSUME NEW o, NEW f, Known(o, f) PROVE Known(o, f)'
  <2>1. o \in Begun /\ out'[o] = out[o] /\ events'[o] = events[o]
    BY <1>1 DEF Known
  <2>2. CASE out[o].kind = "new"
    BY <1>1, <2>1, <2>2 DEF Known, Announced
  <2>3. ASSUME NEW m \in Rivals(o), events[o].ts - events[m].ts > Window
        PROVE  Known(o, f)'
    <3>1. m \in Rivals(o)' /\ events'[m] = events[m]
      BY <1>0, <2>1
    <3> QED BY <1>1, <2>1, <2>3, <3>1 DEF Known, Announced
  <2> QED BY <1>1, <2>2, <2>3 DEF Known, Announced
<1>2. ASSUME NEW n \in Begun, BeatenAndExpired(n) PROVE BeatenAndExpired(n)'
  <2>1. PICK b \in Rivals(n), c \in meets[n] : events[c].ts - events[b].ts > Window
    BY <1>2 DEF BeatenAndExpired
  <2>2. b \in Rivals(n)' /\ c \in meets'[n] /\ events'[b] = events[b] /\ events'[c] = events[c]
    BY <1>0
  <2> QED BY <2>1, <2>2 DEF BeatenAndExpired
<1> QED BY <1>1, <1>2
-----------------------------------------------------------------------------
(* Steps, as the properties see them *)

\* t writes s over the entry of its fingerprint and returns kind: it opens an
\* incident of its own, or goes on with the one it read.
Opens(t, kind, s) ==
    /\ s.id = ev[t] /\ s.emitted = Clock(t)
    /\ \/ kind = "new"
       \/ kind = "update" /\ pc[t] = "put" /\ Stale(got[t], Clock(t))
    /\ held' = [held EXCEPT ![Fp(t)] = {ev[t]}] /\ closed' = closed \cup gotHeld[t]
Continues(t, kind, s) ==
    /\ got[t] # NoState /\ s.id = got[t].id
    /\ \/ kind = "update" /\ s.emitted = Clock(t) /\ Clock(t) - got[t].emitted >= Refire
       \/ kind = "suppressed" /\ s.emitted = got[t].emitted
    /\ held' = [held EXCEPT ![Fp(t)] = gotHeld[t] \cup {ev[t]}] /\ closed' = closed
Wrote(t, kind, s) ==
    /\ t \in Deciding /\ t \in Busy /\ Ends(t, kind, s.id)
    /\ kind \in {"new", "update", "suppressed"} /\ s \in State /\ s # NoState
    /\ s = Decision(t).state /\ kind = IF pc[t] = "create" THEN "new" ELSE Outcome(Decision(t))
    /\ s.last = Clock(t) /\ store' = [store EXCEPT ![Fp(t)] = s]
    /\ Opens(t, kind, s) \/ Continues(t, kind, s)

\* t reads the entry of its fingerprint, to decide on it.
Reads(t) ==
    /\ t \in Busy /\ GoesOn(t) /\ Read(t) /\ UNCHANGED storeVars /\ closed' = closed
    /\ \/ /\ pc[t] = "get"
          /\ pc' = [pc EXCEPT ![t] = IF store[Fp(t)] = NoState \/ Stale(store[Fp(t)], Clock(t))
                                     THEN "create" ELSE "put"]
       \/ pc[t] = "winner" /\ store[Fp(t)] # NoState /\ pc' = [pc EXCEPT ![t] = "put"]

\* The winner's entry is gone.
GivesUp(t) ==
    /\ t \in Busy /\ Ends(t, "dropped", NoId) /\ UNCHANGED <<storeVars, closed>>
    /\ pc[t] = "winner" /\ store[Fp(t)] = NoState

LEMMA WritingStep ==
  ASSUME Basic, IdsKnown, Beaten, NEW t \in Thread, Create(t) \/ Put(t)
  PROVE  \E kind \in Kind, s \in State : Wrote(t, kind, s)
<1> DEFINE r == Decision(t)
           kind == IF pc[t] = "create" THEN "new" ELSE Outcome(r)
<1>1. t \in Busy /\ pc[t] \in {"create", "put"} /\ Write(t) /\ got[t] \in State
  BY DEF Create, Put, Busy, Basic, TypeOK
<1>2. /\ r.action \in {"new", "update", "suppress"} /\ r.state \in State /\ r.state # NoState
      /\ r.action = "new" <=> got[t] = NoState \/ Stale(got[t], Clock(t))
      /\ r.state.last = Clock(t)
      /\ r.action = "new" => r.state.id = ev[t] /\ r.state.emitted = Clock(t)
      /\ r.action # "new" => r.state.id = got[t].id /\ r.state.count = got[t].count + 1
      /\ r.action = "update" => r.state.emitted = Clock(t) /\ Clock(t) - got[t].emitted >= Refire
      /\ r.action = "suppress" => r.state.emitted = got[t].emitted
  BY <1>1, RunningVerdict DEF Decision
<1> HIDE DEF r
<1>3. r.state # got[t]
  <2>1. CASE r.action = "new"
    <3>1. out[ev[t]].kind = "pending"
      BY <1>1, Running
    <3> QED BY <1>2, <2>1, <3>1 DEF IdsKnown, Known
  <2>2. CASE r.action # "new"
    BY <1>1, <1>2, <2>2, StateFacts
  <2> QED BY <2>1, <2>2
<1>4. /\ store' = [store EXCEPT ![Fp(t)] = r.state]
      /\ held' = [held EXCEPT ![Fp(t)] = IF r.action = "new" THEN {ev[t]} ELSE gotHeld[t] \cup {ev[t]}]
      /\ closed' = IF r.action = "new" THEN closed \cup gotHeld[t] ELSE closed
  <2>1. /\ store' = [store EXCEPT ![Fp(t)] = Written(r, got[t])]
        /\ held' = [held EXCEPT ![Fp(t)] = IF Written(r, got[t]) = got[t] THEN gotHeld[t]
                                           ELSE IF r.action = "new" THEN {ev[t]}
                                           ELSE gotHeld[t] \cup {ev[t]}]
        /\ closed' = IF r.action = "new" THEN closed \cup gotHeld[t] ELSE closed
    BY <1>1 DEF Write, r
  <2> QED BY <1>3, <2>1 DEF Written
<1>5. pc[t] = "create" => r.action = "new"
  BY <1>1, <1>2 DEF Beaten
<1>6. pc[t] = "put" => got[t] # NoState
  BY <1>1 DEF Beaten
<1>7. Return(t, kind, r.state.id)
  <2>1. CASE Create(t)
    BY <1>2, <1>5, <2>1 DEF Create
  <2>2. CASE Put(t)
    BY <2>2 DEF Put, r
  <2> QED BY <2>1, <2>2
<1>12. kind = IF pc[t] = "create" THEN "new" ELSE Outcome(Decision(t))
  BY DEF kind, r
<1>8. kind \in {"new", "update", "suppressed"} /\ (kind = "new" <=> pc[t] = "create")
      /\ (pc[t] = "put" => kind = IF r.action = "suppress" THEN "suppressed" ELSE "update")
  BY <1>1 DEF Outcome
<1> HIDE DEF kind
<1>9. Ends(t, kind, r.state.id)
  BY <1>1, <1>7, <1>8 DEF Ends, Kind
<1>10. Opens(t, kind, r.state) \/ Continues(t, kind, r.state)
  <2>1. CASE r.action = "new"
    BY <1>1, <1>2, <1>4, <1>6, <1>8, <2>1 DEF Opens
  <2>2. CASE r.action # "new"
    BY <1>1, <1>2, <1>4, <1>5, <1>8, <2>2 DEF Continues
  <2> QED BY <2>1, <2>2
<1>13. r.state = Decision(t).state
  BY DEF r
<1>11. Wrote(t, kind, r.state) /\ kind \in Kind
  BY <1>1, <1>2, <1>4, <1>8, <1>9, <1>10, <1>12, <1>13 DEF Wrote, Deciding, Kind
<1> QED BY <1>2, <1>11

LEMMA Moves ==
  ASSUME Basic, IdsKnown, Beaten, [Next]_vars
  PROVE  \/ UNCHANGED vars
         \/ \E t \in Thread : Begin(t) \/ Expire(t) \/ Reads(t) \/ CreateFails(t) \/ GivesUp(t)
         \/ \E t \in Thread, kind \in Kind, s \in State : Wrote(t, kind, s)
<1>1. ASSUME NEW t \in Thread, Get(t) PROVE Reads(t)
  <2>1. t \in Busy /\ pc[t] = "get" /\ Fp(t) \in Fingerprint
    BY <1>1, Running DEF Get, Busy
  <2>2. store[Fp(t)] \in State
    BY <2>1 DEF Basic, TypeOK
  <2>3. Decided(t, store[Fp(t)]).action = "new"
        <=> store[Fp(t)] = NoState \/ Stale(store[Fp(t)], Clock(t))
    BY <2>1, <2>2, RunningVerdict
  <2>4. pc' = [pc EXCEPT ![t] = IF store[Fp(t)] = NoState \/ Stale(store[Fp(t)], Clock(t))
                                THEN "create" ELSE "put"]
    BY <1>1, <2>3 DEF Get
  <2>5. GoesOn(t)
    BY <1>1, <2>1, <2>4 DEF Get, GoesOn, histVars, Basic, TypeOK
  <2> QED BY <1>1, <2>1, <2>4, <2>5 DEF Get, Reads, histVars
<1>2. ASSUME NEW t \in Thread, Winner(t) PROVE Reads(t) \/ GivesUp(t)
  <2>1. t \in Busy /\ pc[t] = "winner"
    BY <1>2 DEF Winner, Busy
  <2>2. CASE store[Fp(t)] = NoState /\ Return(t, "dropped", NoId) /\ UNCHANGED <<storeVars, closed>>
    BY <2>1, <2>2 DEF Ends, GivesUp, Kind, storeVars
  <2>3. CASE /\ store[Fp(t)] # NoState /\ Read(t) /\ pc' = [pc EXCEPT ![t] = "put"]
             /\ UNCHANGED <<storeVars, ev, events, histVars>>
    <3>1. GoesOn(t)
      BY <2>1, <2>3 DEF GoesOn, histVars, Basic, TypeOK
    <3> QED BY <2>1, <2>3, <3>1 DEF Reads, histVars
  <2> QED BY <1>2, <2>2, <2>3 DEF Winner
<1> QED BY <1>1, <1>2, WritingStep DEF Next, Step

-----------------------------------------------------------------------------
(* Ids *)

\* Known in the next state, of an id that is itself of the next state.
KnownNext(o, f) ==
    /\ o \in Begun' /\ events'[o].fp = f /\ out'[o].kind # "pending"
    /\ \/ out'[o].kind = "new"
       \/ \E m \in meets'[o] : /\ events'[o].fp = events'[m].fp
                               /\ events'[o].ts - events'[m].ts > Window

LEMMA StaysKnown ==
  ASSUME Basic, [Next]_vars, NEW o, NEW f, Known(o, f)
  PROVE  KnownNext(o, f)
<1>1. Known(o, f)'
  BY Stays
<1> QED BY <1>1 DEF Known, Announced, Rivals, SameFp, KnownNext

\* A call that returns "new" has announced its number.
LEMMA NewKnown ==
  ASSUME Basic, NEW t \in Thread, NEW id \in Nat, Ends(t, "new", id)
  PROVE  KnownNext(ev[t], Fp(t))
<1>1. ev[t] \in Begun /\ ev[t] \in Number /\ "new" \in Kind
  BY Running DEF Ends
<1>2. out'[ev[t]].kind = "new" /\ events' = events
  BY <1>1, Ending
<1>3. Begun' = Begun /\ events'[ev[t]].fp = Fp(t)
  BY <1>2 DEF Begun, Fp
<1> QED BY <1>1, <1>2, <1>3 DEF KnownNext

LEMMA IdsFromNext ==
  ASSUME \A f \in Fingerprint : store'[f] # NoState => KnownNext(store'[f].id, f),
         \A t \in Thread : got'[t] # NoState => t \in Busy' /\ KnownNext(got'[t].id, events'[ev'[t]].fp),
         \A n \in Alerted' : KnownNext(out'[n].id, events'[n].fp)
  PROVE  IdsKnown'
<1>1. \A f \in Fingerprint : store'[f] # NoState => Known(store[f].id, f)'
  BY DEF Known, Announced, Rivals, SameFp, KnownNext
<1>2. \A t \in Thread : got'[t] # NoState => t \in Busy' /\ Known(got[t].id, Fp(t))'
  BY DEF Known, Announced, Rivals, SameFp, KnownNext, Fp
<1>3. \A n \in Alerted' : Known(out[n].id, events[n].fp)'
  BY DEF Known, Announced, Rivals, SameFp, KnownNext
<1> QED BY <1>1, <1>2, <1>3 DEF IdsKnown

LEMMA IdsStep ==
  ASSUME Basic, IdsKnown, Beaten, [Next]_vars
  PROVE  IdsKnown'
<1>1. ASSUME \A f \in Fingerprint : store'[f] # NoState =>
                store'[f] = store[f] \/ KnownNext(store'[f].id, f),
             \A t \in Thread : got'[t] # NoState =>
                /\ t \in Busy /\ t \in Busy'
                /\ got'[t] = got[t] \/ got'[t] = store[Fp(t)],
             \A n \in Alerted' : n \in Alerted \/ KnownNext(out'[n].id, events'[n].fp)
      PROVE  IdsKnown'
  <2>1. ASSUME NEW f \in Fingerprint, store'[f] # NoState PROVE KnownNext(store'[f].id, f)
    BY <1>1, <2>1, StaysKnown DEF IdsKnown
  <2>2. ASSUME NEW t \in Thread, got'[t] # NoState
        PROVE  t \in Busy' /\ KnownNext(got'[t].id, events'[ev'[t]].fp)
    <3>1. t \in Busy /\ t \in Busy' /\ Known(got'[t].id, Fp(t))
      BY <1>1, <2>2, Running DEF IdsKnown
    <3>2. KnownNext(got'[t].id, Fp(t))
      BY <3>1, StaysKnown
    <3>3. events'[ev'[t]].fp = Fp(t)
      BY <3>1, Growth DEF Fp
    <3> QED BY <3>1, <3>2, <3>3
  <2>3. ASSUME NEW n \in Alerted' PROVE KnownNext(out'[n].id, events'[n].fp)
    <3>1. CASE n \in Alerted
      <4>1. n \in Begun /\ out[n].kind # "pending" /\ Known(out[n].id, events[n].fp)
        BY <3>1 DEF Alerted, IdsKnown
      <4>2. out'[n] = out[n] /\ events'[n] = events[n]
        BY <4>1, Growth
      <4> QED BY <4>1, <4>2, StaysKnown
    <3> QED BY <1>1, <2>3, <3>1
  <2> QED BY <2>1, <2>2, <2>3, IdsFromNext
<1> USE DEF Basic, TypeOK
<1>2. ASSUME UNCHANGED <<store, got, out, events, pc>> PROVE IdsKnown'
  <2>1. Alerted' = Alerted /\ Busy' = Busy /\ store' = store /\ got' = got
    BY <1>2 DEF Alerted, Begun, Busy
  <2>2. \A u \in Thread : got'[u] # NoState => u \in Busy
    BY <1>2 DEF IdsKnown
  <2> QED BY <1>1, <2>1, <2>2
<1>3. ASSUME NEW t \in Thread, Begin(t) PROVE IdsKnown'
  <2>1. store' = store /\ got' = got /\ out' = out /\ Busy \subseteq Busy'
    <3>1. Busy \subseteq Busy'
      BY <1>3, Beginning
    <3> QED BY <1>3, <3>1 DEF Begin, storeVars
  <2>2. \A n \in Alerted' : n \in Alerted
    BY <2>1, Growth DEF Alerted
  <2> QED BY <1>1, <2>1, <2>2 DEF IdsKnown
<1>4. ASSUME NEW t \in Thread, Expire(t) PROVE IdsKnown'
  <2>1. /\ \A f \in Fingerprint : store'[f] = store[f] \/ store'[f] = NoState
        /\ UNCHANGED <<got, out, events>> /\ Busy' = Busy
    BY <1>4 DEF Expire, Busy
  <2>2. Alerted' = Alerted
    BY <2>1 DEF Alerted, Begun
  <2> QED BY <1>1, <2>1, <2>2 DEF IdsKnown
<1>5. ASSUME NEW t \in Thread, Reads(t) PROVE IdsKnown'
  <2>1. UNCHANGED <<store, out, events>> /\ Busy' = Busy /\ t \in Busy
    BY <1>5 DEF Reads, GoesOn, storeVars, Busy
  <2>2. \A u \in Thread : got'[u] = IF u = t THEN store[Fp(t)] ELSE got[u]
    BY <1>5 DEF Reads, Read
  <2>3. Alerted' = Alerted
    BY <2>1 DEF Alerted, Begun
  <2> QED BY <1>1, <2>1, <2>2, <2>3 DEF IdsKnown
<1>6. ASSUME NEW t \in Thread, CreateFails(t) PROVE IdsKnown'
  <2>1. UNCHANGED <<store, got, out, events>> /\ Busy' = Busy
    BY <1>6 DEF CreateFails, storeVars, histVars, Busy
  <2>2. Alerted' = Alerted
    BY <2>1 DEF Alerted, Begun
  <2> QED BY <1>1, <2>1, <2>2 DEF IdsKnown
<1>7. ASSUME NEW t \in Thread, NEW kind \in Kind, NEW id \in Nat, Ends(t, kind, id),
             \A f \in Fingerprint : store'[f] # NoState =>
                store'[f] = store[f] \/ KnownNext(store'[f].id, f),
             kind \in {"new", "update"} => KnownNext(id, Fp(t))
      PROVE  IdsKnown'
  <2>1. /\ Busy' = Busy \ {t} /\ \A u \in Thread \ {t} : got'[u] = got[u]
        /\ events' = events /\ out'[ev[t]].kind = kind /\ out'[ev[t]].id = id
        /\ \A n \in Number : n # ev[t] => out'[n] = out[n]
    BY <1>7, Ending
  <2>2. got'[t] = NoState
    BY <1>7 DEF Ends, Return
  <2>3. \A n \in Alerted' : n \in Alerted \/ KnownNext(out'[n].id, events'[n].fp)
    BY <1>7, <2>1 DEF Alerted, Begun, Fp
  <2> QED BY <1>1, <1>7, <2>1, <2>2, <2>3 DEF IdsKnown
<1>8. ASSUME NEW t \in Thread, GivesUp(t) PROVE IdsKnown'
  <2>1. "dropped" \in Kind /\ NoId \in Nat
    BY DEF Kind, NoId
  <2> QED BY <1>7, <1>8, <2>1 DEF GivesUp, storeVars
<1>9. ASSUME NEW t \in Thread, NEW kind \in Kind, NEW s \in State, Wrote(t, kind, s) PROVE IdsKnown'
  <2>1. /\ Ends(t, kind, s.id) /\ s.id \in Nat /\ t \in Busy
        /\ store' = [store EXCEPT ![Fp(t)] = s] /\ Fp(t) \in Fingerprint
    BY <1>9, StateFacts, Running DEF Wrote
  <2>2. KnownNext(s.id, Fp(t))
    <3>1. CASE Continues(t, kind, s)
      <4>1. Known(s.id, Fp(t))
        BY <3>1 DEF Continues, IdsKnown
      <4> QED BY <4>1, StaysKnown
    <3>2. CASE s.id = ev[t] /\ kind = "new"
      BY <2>1, <3>2, NewKnown
    <3>3. CASE s.id = ev[t] /\ kind = "update" /\ pc[t] = "put" /\ Stale(got[t], Clock(t))
      <4>1. PICK m \in Rivals(ev[t]) : got[t].last = events[m].ts
        BY <2>1, <3>3 DEF Beaten, ByRival
      <4>2. Clock(t) - events[m].ts > Window
        BY <3>3, <4>1 DEF Stale
      <4>3. /\ UNCHANGED <<events, meets>> /\ out'[ev[t]].kind = "update"
        BY <2>1, <3>3, Ending
      <4>4. ev[t] \in Begun' /\ events'[ev[t]].fp = Fp(t) /\ events'[ev[t]].ts = Clock(t)
        BY <2>1, <4>3, Running DEF Begun, Fp, Clock
      <4> QED BY <3>3, <4>1, <4>2, <4>3, <4>4 DEF KnownNext, Rivals, SameFp
    <3> QED BY <1>9, <3>1, <3>2, <3>3 DEF Wrote, Opens
  <2> QED BY <1>7, <2>1, <2>2
<1> QED
  BY <1>2, <1>3, <1>4, <1>5, <1>6, <1>8, <1>9, Moves DEF vars, storeVars, threadVars, histVars

-----------------------------------------------------------------------------
(* Beaten calls *)

\* What Beaten says of one running call, of any entry, place and read entry.
Fine(u, st, p, g) ==
    /\ p = "get" /\ Stale(st, Clock(u)) => ByRival(u, st)
    /\ p = "create" => g = NoState \/ Stale(g, Clock(u))
    /\ p \in {"create", "winner"} /\ st # NoState => ByRival(u, st)
    /\ p = "winner" /\ st = NoState => BeatenAndExpired(ev[u])
    /\ p = "put" => g # NoState /\ (Stale(g, Clock(u)) => ByRival(u, g))

\* The same in the next state, of values of the next state.
ByRivalNext(u, st) ==
    \E m \in meets'[ev'[u]] : events'[ev'[u]].fp = events'[m].fp /\ st.last = events'[m].ts
FineNext(u, st, p, g) ==
    /\ p = "get" /\ Stale(st, Clock(u)') => ByRivalNext(u, st)
    /\ p = "create" => g = NoState \/ Stale(g, Clock(u)')
    /\ p \in {"create", "winner"} /\ st # NoState => ByRivalNext(u, st)
    /\ p = "winner" /\ st = NoState => BeatenAndExpired(ev[u])'
    /\ p = "put" => g # NoState /\ (Stale(g, Clock(u)') => ByRivalNext(u, g))

LEMMA FineStays ==
  ASSUME Basic, [Next]_vars, NEW u \in Busy, u \in Busy',
         NEW st, NEW p, NEW g, Fine(u, st, p, g)
  PROVE  FineNext(u, st, p, g)
<1>1. ev[u] \in Begun /\ ev'[u] = ev[u] /\ Clock(u)' = Clock(u)
  BY Running, Growth
<1>2. \A x : ByRival(u, x) => ByRivalNext(u, x)
  <2> SUFFICES ASSUME NEW x, NEW m \in meets[ev[u]], SameFp(ev[u], m), x.last = events[m].ts
               PROVE  ByRivalNext(u, x)
    BY DEF ByRival, Rivals
  <2>1. m \in Begun
    BY <1>1 DEF Basic, TypeOK, Numbered
  <2>2. m \in meets'[ev[u]] /\ events'[m] = events[m] /\ events'[ev[u]] = events[ev[u]]
    BY <1>1, <2>1, Growth
  <2> QED BY <1>1, <2>2 DEF ByRivalNext, SameFp
<1>3. BeatenAndExpired(ev[u]) => BeatenAndExpired(ev[u])'
  <2> SUFFICES ASSUME NEW n, n = ev[u], BeatenAndExpired(n) PROVE BeatenAndExpired(n)'
    BY <1>1 DEF BeatenAndExpired
  <2> QED BY <1>1, Stays
<1> QED BY <1>1, <1>2, <1>3 DEF Fine, FineNext

LEMMA BeatenFromNext ==
  ASSUME \A u \in Busy' : FineNext(u, store'[events'[ev'[u]].fp], pc'[u], got'[u])
  PROVE  Beaten'
<1>1. ASSUME NEW u \in Busy'
      PROVE  LET st == store[Fp(u)] IN
             ( /\ pc[u] = "get" /\ Stale(st, Clock(u)) => ByRival(u, st)
               /\ pc[u] = "create" => got[u] = NoState \/ Stale(got[u], Clock(u))
               /\ pc[u] \in {"create", "winner"} /\ st # NoState => ByRival(u, st)
               /\ pc[u] = "winner" /\ st = NoState => BeatenAndExpired(ev[u])
               /\ pc[u] = "put" => /\ got[u] # NoState
                                   /\ Stale(got[u], Clock(u)) => ByRival(u, got[u]) )'
  BY DEF FineNext, ByRivalNext, ByRival, Rivals, SameFp, Fp
<1> QED BY <1>1 DEF Beaten

LEMMA BeatenStep ==
  ASSUME Basic, IdsKnown, Beaten, [Next]_vars
  PROVE  Beaten'
<1>1. ASSUME NEW t \in Thread, NEW kind \in Kind, NEW id \in Nat, Ends(t, kind, id),
             NEW u \in Busy'
      PROVE  u \in Busy /\ u # t /\ pc'[u] = pc[u] /\ got'[u] = got[u]
  BY <1>1, Ending DEF Busy
<1>2. ASSUME NEW u \in Busy PROVE Fine(u, store[Fp(u)], pc[u], got[u])
  BY DEF Beaten, Fine
<1>3. ASSUME \A u \in Busy' : \/ u \in Busy /\ Fine(u, store'[Fp(u)], pc'[u], got'[u])
                              \/ pc'[u] = "expire"
      PROVE  Beaten'
  <2> SUFFICES ASSUME NEW u \in Busy'
               PROVE  FineNext(u, store'[events'[ev'[u]].fp], pc'[u], got'[u])
    BY BeatenFromNext
  <2>1. CASE pc'[u] = "expire"
    BY <2>1 DEF FineNext
  <2>2. CASE u \in Busy /\ Fine(u, store'[Fp(u)], pc'[u], got'[u])
    <3>1. events'[ev'[u]].fp = Fp(u)
      BY <2>2, Growth DEF Fp
    <3> QED BY <2>2, <3>1, FineStays
  <2> QED BY <1>3, <2>1, <2>2
<1> USE DEF Basic, TypeOK
<1>4. CASE UNCHANGED vars
  <2>1. Busy' = Busy /\ UNCHANGED <<store, pc, got>>
    BY <1>4 DEF vars, storeVars, threadVars, Busy
  <2> QED BY <1>2, <1>3, <2>1
<1>5. ASSUME NEW t \in Thread, Begin(t) PROVE Beaten'
  <2>1. store' = store /\ got' = got /\ pc' = [pc EXCEPT ![t] = "expire"]
    BY <1>5 DEF Begin, storeVars
  <2>2. ASSUME NEW u \in Busy' PROVE u = t \/ (u \in Busy /\ pc'[u] = pc[u])
    BY <2>1, <2>2 DEF Busy
  <2>3. \A u \in Busy' : \/ u \in Busy /\ Fine(u, store'[Fp(u)], pc'[u], got'[u])
                         \/ pc'[u] = "expire"
    BY <1>2, <2>1, <2>2
  <2> QED BY <1>3, <2>3
<1>6. ASSUME NEW t \in Thread, Expire(t) PROVE Beaten'
  <2>1. /\ \A f \in Fingerprint : store'[f] = IF Stale(store[f], Clock(t)) THEN NoState ELSE store[f]
        /\ got' = got /\ pc[t] = "expire" /\ pc' = [pc EXCEPT ![t] = "get"]
    BY <1>6 DEF Expire, Clock
  <2>2. Busy' = Busy /\ t \in Busy
    BY <2>1 DEF Busy
  <2>3. ASSUME NEW u \in Busy PROVE Fine(u, store'[Fp(u)], pc'[u], got'[u])
    <3>1. Fp(u) \in Fingerprint
      BY Running
    <3>2. CASE u = t
      <4>1. ~Stale(store'[Fp(t)], Clock(t))
        BY <2>1, <3>1, <3>2 DEF Stale
      <4>2. pc'[t] = "get"
        BY <2>1
      <4> QED BY <3>2, <4>1, <4>2 DEF Fine
    <3>3. CASE u # t /\ ~Stale(store[Fp(u)], Clock(t))
      BY <1>2, <2>1, <3>1, <3>3
    <3>4. CASE u # t /\ Stale(store[Fp(u)], Clock(t))
      <4>1. store'[Fp(u)] = NoState /\ pc'[u] = pc[u] /\ got'[u] = got[u] /\ store[Fp(u)] # NoState
        BY <2>1, <3>1, <3>4 DEF Stale
      <4>2. ASSUME pc[u] = "winner" PROVE BeatenAndExpired(ev[u])
        <5>1. PICK b \in Rivals(ev[u]) : store[Fp(u)].last = events[b].ts
          BY <1>2, <4>1, <4>2 DEF Fine, ByRival
        <5>2. ev[t] \in meets[ev[u]]
          BY <2>2, <3>4 DEF Numbered
        <5>3. events[ev[t]].ts - events[b].ts > Window
          BY <3>4, <5>1 DEF Stale, Clock
        <5> QED BY <5>1, <5>2, <5>3 DEF BeatenAndExpired
      <4>3. Fine(u, store[Fp(u)], pc[u], got[u])
        BY <1>2
      <4> QED BY <4>1, <4>2, <4>3 DEF Fine, Stale
    <3> QED BY <3>2, <3>3, <3>4
  <2> QED BY <1>3, <2>2, <2>3
<1>7. ASSUME NEW t \in Thread, Reads(t) PROVE Beaten'
  <2>1. /\ Busy' = Busy /\ store' = store /\ t \in Busy
        /\ \A u \in Thread \ {t} : got'[u] = got[u] /\ pc'[u] = pc[u]
        /\ got'[t] = store[Fp(t)]
    BY <1>7 DEF Reads, GoesOn, Read, storeVars, Busy
  <2>2. Fine(t, store[Fp(t)], pc'[t], got'[t])
    <3>1. Fine(t, store[Fp(t)], pc[t], got[t])
      BY <1>2, <2>1
    <3>2. CASE /\ pc[t] = "get"
               /\ pc' = [pc EXCEPT ![t] = IF store[Fp(t)] = NoState \/ Stale(store[Fp(t)], Clock(t))
                                          THEN "create" ELSE "put"]
      <4>1. pc'[t] = IF store[Fp(t)] = NoState \/ Stale(store[Fp(t)], Clock(t))
                     THEN "create" ELSE "put"
        BY <3>2
      <4> QED BY <2>1, <3>1, <3>2, <4>1 DEF Fine
    <3>3. CASE pc[t] = "winner" /\ store[Fp(t)] # NoState /\ pc' = [pc EXCEPT ![t] = "put"]
      BY <2>1, <3>1, <3>3 DEF Fine
    <3> QED BY <1>7, <3>2, <3>3 DEF Reads
  <2>3. \A u \in Busy : Fine(u, store'[Fp(u)], pc'[u], got'[u])
    BY <1>2, <2>1, <2>2 DEF Busy
  <2> QED BY <1>3, <2>1, <2>3
<1>8. ASSUME NEW t \in Thread, CreateFails(t) PROVE Beaten'
  <2>1. /\ store' = store /\ got' = got /\ pc[t] = "create" /\ pc' = [pc EXCEPT ![t] = "winner"]
        /\ store[Fp(t)] # NoState
    BY <1>8 DEF CreateFails, storeVars
  <2>2. Busy' = Busy /\ t \in Busy
    BY <2>1 DEF Busy
  <2>3. ASSUME NEW u \in Busy PROVE Fine(u, store'[Fp(u)], pc'[u], got'[u])
    BY <1>2, <2>1 DEF Fine
  <2> QED BY <1>3, <2>2, <2>3
<1>9. ASSUME NEW t \in Thread, GivesUp(t) PROVE Beaten'
  <2>1. "dropped" \in Kind /\ NoId \in Nat /\ store' = store
    BY <1>9 DEF Kind, NoId, GivesUp, storeVars
  <2>2. \A u \in Busy' : u \in Busy /\ pc'[u] = pc[u] /\ got'[u] = got[u]
    BY <1>1, <1>9, <2>1 DEF GivesUp
  <2> QED BY <1>2, <1>3, <2>1, <2>2
<1>10. ASSUME NEW t \in Thread, NEW kind \in Kind, NEW s \in State, Wrote(t, kind, s) PROVE Beaten'
  <2>1. /\ t \in Busy /\ Ends(t, kind, s.id) /\ s.id \in Nat /\ s # NoState /\ s.last = Clock(t)
        /\ store' = [store EXCEPT ![Fp(t)] = s]
    BY <1>10, StateFacts DEF Wrote
  <2>2. ASSUME NEW u \in Busy' PROVE u \in Busy /\ Fine(u, store'[Fp(u)], pc'[u], got'[u])
    <3>1. u \in Busy /\ u # t /\ pc'[u] = pc[u] /\ got'[u] = got[u]
      BY <1>1, <2>1
    <3>2. Fp(u) \in Fingerprint /\ Fine(u, store[Fp(u)], pc[u], got[u])
      BY <1>2, <3>1, Running
    <3>3. CASE Fp(u) # Fp(t)
      BY <2>1, <3>1, <3>2, <3>3
    <3>4. CASE Fp(u) = Fp(t)
      <4>1. store'[Fp(u)] = s
        BY <2>1, <3>2, <3>4
      <4>2. ev[t] \in meets[ev[u]]
        BY <2>1, <3>1 DEF Numbered
      <4>3. ByRival(u, s)
        BY <2>1, <3>4, <4>2 DEF ByRival, Rivals, SameFp, Fp, Clock
      <4> QED BY <2>1, <3>1, <3>2, <4>1, <4>3 DEF Fine
    <3> QED BY <3>1, <3>3, <3>4
  <2> QED BY <1>3, <2>2
<1> QED BY <1>4, <1>5, <1>6, <1>7, <1>8, <1>9, <1>10, Moves

LEMMA DroppedStep ==
  ASSUME Basic, IdsKnown, Beaten, DroppedExplained, [Next]_vars
  PROVE  DroppedExplained'
<1> SUFFICES ASSUME NEW n \in Begun', out'[n].kind = "dropped" PROVE BeatenAndExpired(n)'
  BY DEF DroppedExplained
<1>1. n \in Begun
  BY Growth
<1>2. CASE out[n].kind # "pending"
  BY <1>1, <1>2, Growth, Stays DEF DroppedExplained
<1>3. CASE out[n].kind = "pending"
  <2>1. ASSUME out' = out PROVE FALSE
    BY <1>3, <2>1
  <2>2. n \in Number
    BY <1>1 DEF Basic, TypeOK
  <2>3. ASSUME NEW t \in Thread, GivesUp(t) PROVE BeatenAndExpired(n)'
    <3>1. "dropped" \in Kind /\ NoId \in Nat
      BY DEF Kind, NoId
    <3>2. n = ev[t]
      BY <1>3, <2>2, <2>3, <3>1, Ending DEF GivesUp
    <3>3. BeatenAndExpired(n)
      BY <2>3, <3>2 DEF GivesUp, Beaten
    <3> QED BY <1>1, <3>3, Stays
  <2>4. ASSUME NEW t \in Thread, NEW kind \in Kind, NEW s \in State, Wrote(t, kind, s) PROVE FALSE
    <3>1. Ends(t, kind, s.id) /\ s.id \in Nat /\ kind # "dropped"
      BY <2>4, StateFacts DEF Wrote
    <3> QED BY <1>3, <2>2, <3>1, Ending
  <2>5. ASSUME NEW t \in Thread, Begin(t) \/ Expire(t) \/ Reads(t) \/ CreateFails(t) PROVE FALSE
    BY <2>1, <2>5 DEF Begin, Expire, Reads, GoesOn, CreateFails, histVars
  <2>6. CASE UNCHANGED vars
    BY <2>1, <2>6 DEF vars, histVars
  <2> QED BY <2>3, <2>4, <2>5, <2>6, Moves
<1> QED BY <1>2, <1>3

-----------------------------------------------------------------------------
(* Counts *)

\* A call without rivals had none before; if it is the one that returns now, no
\* call for its fingerprint runs.
LEMMA Quiet ==
  ASSUME Basic, [Next]_vars, NEW n \in Begun', out'[n].kind # "pending", Rivals(n)' = {}
  PROVE  /\ n \in Begun /\ n \in Number /\ events'[n] = events[n] /\ events[n].fp \in Fingerprint
         /\ events[n].ts \in Nat /\ Rivals(n) = {}
         /\ out[n].kind # "pending" => out'[n] = out[n]
         /\ \A t \in Busy, u \in Busy : ev[t] = n /\ u # t => Fp(u) # events[n].fp
<1>1. n \in Begun /\ events'[n] = events[n]
  BY Growth
<1>2. n \in Number /\ events[n] \in Event
  BY <1>1 DEF Basic, TypeOK
<1>3. events[n].fp \in Fingerprint /\ events[n].ts \in Nat
  BY <1>2, EventFacts
<1>4. Rivals(n) = {} /\ (out[n].kind # "pending" => out'[n] = out[n])
  BY <1>1, Growth
<1>5. ASSUME NEW t \in Busy, NEW u \in Busy, ev[t] = n, u # t, Fp(u) = events[n].fp PROVE FALSE
  <2>1. ev[u] \in meets[n]
    BY <1>5 DEF Basic, Numbered
  <2> QED BY <1>4, <1>5, <2>1 DEF Rivals, SameFp, Fp
<1> QED BY <1>1, <1>2, <1>3, <1>4, <1>5

LEMMA CountStep ==
  ASSUME Basic, IdsKnown, Beaten, CountedUnlessRaced, ReadersCount, [Next]_vars
  PROVE  CountedUnlessRaced' /\ ReadersCount'
<1>1. ASSUME NEW n \in Counted', Rivals(n)' = {}
      PROVE  /\ n \in Begun' /\ out'[n].kind # "pending"
             /\ n \in Counted \/ out[n].kind = "pending"
  <2>1. n \in Begun' /\ out'[n].kind \in {"new", "update", "suppressed"}
    BY <1>1 DEF Counted
  <2> QED BY <1>1, <2>1, Quiet DEF Counted
<1>2. ASSUME \A n \in Counted' : Rivals(n)' = {} =>
                /\ n \in held'[events[n].fp] \cup closed'
                /\ \A t \in Deciding' : t \in Busy /\ (Fp(t) = events[n].fp => n \in gotHeld'[t] \cup closed')
      PROVE  CountedUnlessRaced' /\ ReadersCount'
  <2>1. Deciding' \subseteq Busy'
    BY DEF Deciding, Busy
  <2>2. ASSUME NEW n \in Counted', Rivals(n)' = {}
        PROVE  /\ n \in held'[events'[n].fp] \cup closed'
               /\ \A t \in Deciding' : events'[ev'[t]].fp = events'[n].fp => n \in gotHeld'[t] \cup closed'
    <3>1. n \in Begun' /\ out'[n].kind # "pending"
      BY <1>1, <2>2
    <3>2. events'[n] = events[n]
      BY <2>2, <3>1, Quiet
    <3>3. \A t \in Deciding' : t \in Busy /\ t \in Busy' /\ events'[ev'[t]].fp = Fp(t)
      BY <1>2, <2>1, <2>2, Growth DEF Fp
    <3> QED BY <1>2, <2>2, <3>2, <3>3
  <2>3. \A n \in Counted' : n \in held'[events'[n].fp] \cup closed' \/ Rivals(n)' # {}
    BY <2>2
  <2>4. \A n \in Counted' : Rivals(n)' = {} =>
           \A t \in Deciding' : Fp(t)' = events'[n].fp => n \in gotHeld'[t] \cup closed'
    BY <2>2 DEF Fp
  <2>5. CountedUnlessRaced'
    BY <2>3 DEF CountedUnlessRaced
  <2>6. ReadersCount'
    BY <2>4 DEF ReadersCount
  <2> QED BY <2>5, <2>6
<1> USE DEF Basic, TypeOK
<1>3. ASSUME out' = out, closed \subseteq closed', \A f \in Fingerprint : held[f] \subseteq held'[f] \cup closed',
             \A u \in Deciding' : \/ u \in Deciding /\ gotHeld'[u] = gotHeld[u]
                                  \/ u \in Busy /\ gotHeld'[u] = held[Fp(u)]
      PROVE  CountedUnlessRaced' /\ ReadersCount'
  <2> SUFFICES ASSUME NEW n \in Counted', Rivals(n)' = {}
               PROVE  /\ n \in held'[events[n].fp] \cup closed'
                      /\ \A u \in Deciding' : u \in Busy /\ (Fp(u) = events[n].fp => n \in gotHeld'[u] \cup closed')
    BY <1>2
  <2>1. n \in Begun' /\ out'[n].kind # "pending" /\ n \in Counted
    BY <1>1, <1>3
  <2>2. events[n].fp \in Fingerprint /\ Rivals(n) = {}
    BY <2>1, Quiet
  <2>3. n \in held[events[n].fp] \cup closed
    BY <2>1, <2>2 DEF CountedUnlessRaced
  <2>4. \A u \in Deciding : u \in Busy /\ (Fp(u) = events[n].fp => n \in gotHeld[u] \cup closed)
    BY <2>1, <2>2 DEF ReadersCount, Deciding, Busy
  <2> QED BY <1>3, <2>2, <2>3, <2>4
<1>4. CASE UNCHANGED vars
  <2>1. Deciding' = Deciding
    BY <1>4 DEF vars, threadVars, Deciding
  <2> QED BY <1>3, <1>4, <2>1 DEF vars, storeVars, threadVars, histVars
<1>5. ASSUME NEW t \in Thread, Begin(t) PROVE CountedUnlessRaced' /\ ReadersCount'
  <2>1. UNCHANGED <<held, closed, out, gotHeld>> /\ pc' = [pc EXCEPT ![t] = "expire"]
    BY <1>5 DEF Begin, storeVars
  <2>2. Deciding' \subseteq Deciding
    BY <2>1 DEF Deciding
  <2> QED BY <1>3, <2>1, <2>2
<1>6. ASSUME NEW t \in Thread, Expire(t) PROVE CountedUnlessRaced' /\ ReadersCount'
  <2> DEFINE gone == {f \in Fingerprint : Stale(store[f], events[ev[t]].ts)}
  <2>1. /\ UNCHANGED <<out, gotHeld>> /\ pc' = [pc EXCEPT ![t] = "get"]
        /\ held' = [f \in Fingerprint |-> IF f \in gone THEN {} ELSE held[f]]
        /\ closed' = closed \cup UNION {held[f] : f \in gone}
    BY <1>6 DEF Expire
  <2>2. Deciding' \subseteq Deciding
    BY <2>1 DEF Deciding
  <2> HIDE DEF gone
  <2>3. \A f \in Fingerprint : held[f] \subseteq held'[f] \cup closed'
    BY <2>1
  <2> QED BY <1>3, <2>1, <2>2, <2>3
<1>7. ASSUME NEW t \in Thread, Reads(t) PROVE CountedUnlessRaced' /\ ReadersCount'
  <2>1. /\ UNCHANGED <<held, closed, out>> /\ gotHeld' = [gotHeld EXCEPT ![t] = held[Fp(t)]]
        /\ t \in Busy /\ \A u \in Thread \ {t} : pc'[u] = pc[u]
    BY <1>7 DEF Reads, GoesOn, Read, storeVars
  <2>2. \A u \in Deciding' : u \in Deciding \/ u = t
    BY <2>1 DEF Deciding
  <2>3. t \in Thread /\ gotHeld'[t] = held[Fp(t)] /\ \A u \in Thread \ {t} : gotHeld'[u] = gotHeld[u]
    BY <2>1
  <2>4. Deciding \subseteq Thread
    BY DEF Deciding
  <2> QED BY <1>3, <2>1, <2>2, <2>3, <2>4
<1>8. ASSUME NEW t \in Thread, CreateFails(t) PROVE CountedUnlessRaced' /\ ReadersCount'
  <2>1. UNCHANGED <<held, closed, out, gotHeld>> /\ pc' = [pc EXCEPT ![t] = "winner"]
    BY <1>8 DEF CreateFails, storeVars, histVars
  <2>2. Deciding' \subseteq Deciding
    BY <2>1 DEF Deciding
  <2> QED BY <1>3, <2>1, <2>2
<1>9. ASSUME NEW t \in Thread, GivesUp(t) PROVE CountedUnlessRaced' /\ ReadersCount'
  <2>1. /\ "dropped" \in Kind /\ NoId \in Nat /\ UNCHANGED <<held, closed>> /\ Ends(t, "dropped", NoId)
        /\ t \in Busy
    BY <1>9 DEF Kind, NoId, GivesUp, storeVars
  <2>2. /\ Busy' = Busy \ {t} /\ \A u \in Thread \ {t} : UNCHANGED <<pc[u], gotHeld[u]>>
        /\ out'[ev[t]].kind = "dropped" /\ \A n \in Number : n # ev[t] => out'[n] = out[n]
    BY <2>1, Ending
  <2>3. \A u \in Deciding' : u \in Deciding /\ gotHeld'[u] = gotHeld[u] /\ u \in Busy
    <3>1. Deciding' \subseteq Busy'
      BY DEF Deciding, Busy
    <3> QED BY <2>2, <3>1 DEF Deciding, Busy
  <2>4. ASSUME NEW n \in Counted', Rivals(n)' = {}
        PROVE  /\ n \in held'[events[n].fp] \cup closed'
               /\ \A u \in Deciding' : u \in Busy /\ (Fp(u) = events[n].fp => n \in gotHeld'[u] \cup closed')
    <3>1. n \in Begun' /\ out'[n].kind # "pending" /\ out'[n].kind # "dropped"
      BY <2>4 DEF Counted
    <3>2. n \in Number /\ Rivals(n) = {} /\ n \in Begun
      BY <2>4, <3>1, Quiet
    <3>3. n \in Counted
      BY <2>2, <2>4, <3>1, <3>2 DEF Counted
    <3> QED BY <2>1, <2>3, <3>2, <3>3 DEF CountedUnlessRaced, ReadersCount
  <2> QED BY <1>2, <2>4
<1>10. ASSUME NEW t \in Thread, NEW kind \in Kind, NEW s \in State, Wrote(t, kind, s)
       PROVE  CountedUnlessRaced' /\ ReadersCount'
  <2>1. t \in Busy /\ t \in Deciding /\ Ends(t, kind, s.id) /\ s.id \in Nat /\ Fp(t) \in Fingerprint
    BY <1>10, StateFacts, Running DEF Wrote
  <2>2. /\ Busy' = Busy \ {t} /\ \A u \in Thread \ {t} : UNCHANGED <<pc[u], gotHeld[u]>>
        /\ \A n \in Number : n # ev[t] => out'[n] = out[n]
    BY <2>1, Ending
  <2>3. \A u \in Deciding' : u \in Deciding /\ gotHeld'[u] = gotHeld[u] /\ u \in Busy /\ u # t
    <3>1. Deciding' \subseteq Busy'
      BY DEF Deciding, Busy
    <3> QED BY <2>2, <3>1 DEF Deciding, Busy
  <2>4. \/ held' = [held EXCEPT ![Fp(t)] = {ev[t]}] /\ closed' = closed \cup gotHeld[t]
        \/ held' = [held EXCEPT ![Fp(t)] = gotHeld[t] \cup {ev[t]}] /\ closed' = closed
    BY <1>10 DEF Wrote, Opens, Continues
  <2>5. ASSUME NEW n \in Counted', Rivals(n)' = {}
        PROVE  /\ n \in held'[events[n].fp] \cup closed'
               /\ \A u \in Deciding' : u \in Busy /\ (Fp(u) = events[n].fp => n \in gotHeld'[u] \cup closed')
    <3>1. n \in Begun' /\ out'[n].kind # "pending"
      BY <1>1, <2>5
    <3>2. /\ n \in Number /\ n \in Begun /\ Rivals(n) = {} /\ events[n].fp \in Fingerprint
          /\ \A u \in Busy : ev[t] = n /\ u # t => Fp(u) # events[n].fp
      BY <2>1, <2>5, <3>1, Quiet
    <3>3. CASE n = ev[t]
      <4>1. events[n].fp = Fp(t)
        BY <3>3 DEF Fp
      <4>2. n \in held'[Fp(t)]
        BY <2>1, <2>4, <3>3
      <4> QED BY <2>3, <3>2, <3>3, <4>1, <4>2
    <3>4. CASE n # ev[t]
      <4>1. n \in Counted
        BY <2>2, <2>5, <3>2, <3>4 DEF Counted
      <4>2. n \in held[events[n].fp] \cup closed
        BY <3>2, <4>1 DEF CountedUnlessRaced
      <4>3. \A u \in Deciding : Fp(u) = events[n].fp => n \in gotHeld[u] \cup closed
        BY <3>2, <4>1 DEF ReadersCount
      <4>4. closed \subseteq closed'
        BY <2>4
      <4>5. n \in held'[events[n].fp] \cup closed'
        <5>1. CASE events[n].fp = Fp(t)
          <6>1. n \in gotHeld[t] \cup closed
            BY <2>1, <4>3, <5>1
          <6> QED BY <2>1, <2>4, <5>1, <6>1
        <5>2. CASE events[n].fp # Fp(t)
          <6>1. held'[events[n].fp] = held[events[n].fp]
            BY <2>4, <3>2, <5>2
          <6> QED BY <4>2, <4>4, <6>1
        <5> QED BY <5>1, <5>2
      <4> QED BY <2>3, <4>3, <4>4, <4>5
    <3> QED BY <3>3, <3>4
  <2> QED BY <1>2, <2>5
<1> QED BY <1>4, <1>5, <1>6, <1>7, <1>8, <1>9, <1>10, Moves

-----------------------------------------------------------------------------
(* Refire spacing *)

\* An id in use is a number, and that of a call that has returned.
LEMMA IdFacts ==
  ASSUME Basic, NEW o, NEW f, Known(o, f)
  PROVE  /\ o # 0 /\ \A t \in Busy : o # ev[t]
         /\ \A g : Known(o, g) => g = f
<1>1. o \in Number /\ out[o].kind # "pending"
  BY DEF Known, Basic, TypeOK
<1>2. o # 0
  BY <1>1, EngineAssumption DEF Number
<1>3. \A t \in Busy : o # ev[t]
  BY <1>1, Running
<1> QED BY <1>2, <1>3 DEF Known

LEMMA SpaceStep ==
  ASSUME Basic, IdsKnown, Beaten, ReadersSpace, AlertsSpaced, [Next]_vars
  PROVE  ReadersSpace' /\ AlertsSpaced'
<1>1. ASSUME NEW n \in Alerted'
      PROVE  n \in Begun' /\ out'[n].kind # "pending" /\ (out[n].kind # "pending" => n \in Alerted)
  <2>1. n \in Begun' /\ out'[n].kind \in {"new", "update"}
    BY <1>1 DEF Alerted
  <2> QED BY <2>1, Growth DEF Alerted
<1>2. ASSUME \A n \in Alerted' : Rivals(n)' = {} =>
                /\ \A f \in Fingerprint : store'[f].id = out'[n].id => store'[f].emitted >= events[n].ts
                /\ \A u \in Deciding' : got'[u].id = out'[n].id => got'[u].emitted >= events[n].ts,
             \A n, m \in Alerted' :
                n < m /\ out'[n].id = out'[m].id /\ Rivals(n)' = {} => events'[m].ts - events'[n].ts >= Refire
      PROVE  ReadersSpace' /\ AlertsSpaced'
  <2>1. AlertsSpaced'
    BY <1>2 DEF AlertsSpaced
  <2>2. \A n \in Alerted' : Rivals(n)' = {} => events'[n].ts = events[n].ts
    BY <1>1, Quiet
  <2>3. ReadersSpace'
    BY <1>2, <2>2 DEF ReadersSpace
  <2> QED BY <2>1, <2>3
<1> USE DEF Basic, TypeOK
<1>3. \A n \in Alerted : /\ n \in Begun /\ out[n].kind # "pending" /\ out[n].id # 0
                         /\ Known(out[n].id, events[n].fp) /\ \A t \in Busy : out[n].id # ev[t] /\ n # ev[t]
  <2> TAKE n \in Alerted
  <2>1. n \in Begun /\ out[n].kind # "pending" /\ Known(out[n].id, events[n].fp)
    BY DEF Alerted, IdsKnown
  <2>2. \A t \in Busy : n # ev[t]
    BY <2>1, Running
  <2> QED BY <2>1, <2>2, IdFacts
\* Steps after which no call has returned.
<1>4. ASSUME out' = out,
             \A f \in Fingerprint : store'[f] = store[f] \/ store'[f] = NoState,
             \A u \in Deciding' : \/ u \in Deciding /\ got'[u] = got[u]
                                  \/ u \in Busy /\ got'[u] = store[Fp(u)]
      PROVE  ReadersSpace' /\ AlertsSpaced'
  <2>1. ASSUME NEW n \in Alerted', Rivals(n)' = {}
        PROVE  /\ \A f \in Fingerprint : store'[f].id = out'[n].id => store'[f].emitted >= events[n].ts
               /\ \A u \in Deciding' : got'[u].id = out'[n].id => got'[u].emitted >= events[n].ts
    <3>1. n \in Alerted /\ Rivals(n) = {} /\ out[n].id # 0
      BY <1>1, <1>3, <1>4, <2>1, Quiet
    <3>2. \A f \in Fingerprint : store[f].id = out[n].id => store[f].emitted >= events[n].ts
      BY <3>1 DEF ReadersSpace
    <3>3. \A u \in Deciding : got[u].id = out[n].id => got[u].emitted >= events[n].ts
      BY <3>1 DEF ReadersSpace
    <3>4. \A u \in Busy : Fp(u) \in Fingerprint
      BY Running
    <3> QED BY <1>4, <3>1, <3>2, <3>3, <3>4, StateFacts
  <2>2. ASSUME NEW n \in Alerted', NEW m \in Alerted', n < m, out'[n].id = out'[m].id, Rivals(n)' = {}
        PROVE  events'[m].ts - events'[n].ts >= Refire
    <3>1. n \in Alerted /\ m \in Alerted
      BY <1>1, <1>4, <2>2
    <3>2. events'[n] = events[n] /\ events'[m] = events[m] /\ Rivals(n) = {}
      BY <1>1, <1>3, <2>2, <3>1, Quiet, Growth
    <3> QED BY <1>4, <2>2, <3>1, <3>2 DEF AlertsSpaced
  <2> QED BY <1>2, <2>1, <2>2
<1>5. CASE UNCHANGED vars
  <2>1. Deciding' = Deciding
    BY <1>5 DEF vars, threadVars, Deciding
  <2> QED BY <1>4, <1>5, <2>1 DEF vars, storeVars, threadVars, histVars
<1>6. ASSUME NEW t \in Thread, Begin(t) PROVE ReadersSpace' /\ AlertsSpaced'
  <2>1. UNCHANGED <<store, out, got>> /\ pc' = [pc EXCEPT ![t] = "expire"]
    BY <1>6 DEF Begin, storeVars
  <2>2. Deciding' \subseteq Deciding
    BY <2>1 DEF Deciding
  <2> QED BY <1>4, <2>1, <2>2
<1>7. ASSUME NEW t \in Thread, Expire(t) PROVE ReadersSpace' /\ AlertsSpaced'
  <2>1. /\ UNCHANGED <<out, got>> /\ pc' = [pc EXCEPT ![t] = "get"]
        /\ \A f \in Fingerprint : store'[f] = store[f] \/ store'[f] = NoState
    BY <1>7 DEF Expire
  <2>2. Deciding' \subseteq Deciding
    BY <2>1 DEF Deciding
  <2> QED BY <1>4, <2>1, <2>2
<1>8. ASSUME NEW t \in Thread, Reads(t) PROVE ReadersSpace' /\ AlertsSpaced'
  <2>1. /\ UNCHANGED <<store, out>> /\ got' = [got EXCEPT ![t] = store[Fp(t)]]
        /\ t \in Busy /\ \A u \in Thread \ {t} : pc'[u] = pc[u]
    BY <1>8 DEF Reads, GoesOn, Read, storeVars
  <2>2. \A u \in Deciding' : u \in Deciding \/ u = t
    BY <2>1 DEF Deciding
  <2>3. got'[t] = store[Fp(t)] /\ \A u \in Thread \ {t} : got'[u] = got[u]
    BY <2>1
  <2>4. Deciding \subseteq Thread
    BY DEF Deciding
  <2> QED BY <1>4, <2>1, <2>2, <2>3, <2>4
<1>9. ASSUME NEW t \in Thread, CreateFails(t) PROVE ReadersSpace' /\ AlertsSpaced'
  <2>1. UNCHANGED <<store, out, got>> /\ pc' = [pc EXCEPT ![t] = "winner"]
    BY <1>9 DEF CreateFails, storeVars, histVars
  <2>2. Deciding' \subseteq Deciding
    BY <2>1 DEF Deciding
  <2> QED BY <1>4, <2>1, <2>2
\* Steps by which a call returns.
<1>10. ASSUME NEW t \in Thread, NEW kind \in Kind, NEW id \in Nat, Ends(t, kind, id)
       PROVE  /\ \A u \in Deciding' : u \in Deciding /\ got'[u] = got[u] /\ u \in Busy /\ u # t
              /\ \A n \in Alerted' : \/ n \in Alerted /\ out'[n] = out[n]
                                     \/ n = ev[t] /\ out'[n].id = id /\ kind \in {"new", "update"}
              /\ events' = events /\ t \in Busy
  <2>1. /\ Busy' = Busy \ {t} /\ \A u \in Thread \ {t} : UNCHANGED <<pc[u], got[u]>>
        /\ \A n \in Number : n # ev[t] => out'[n] = out[n]
        /\ events' = events /\ out'[ev[t]].kind = kind /\ out'[ev[t]].id = id
    BY <1>10, Ending
  <2>2. Deciding' \subseteq Busy'
    BY DEF Deciding, Busy
  <2>3. \A u \in Deciding' : u \in Deciding /\ got'[u] = got[u] /\ u \in Busy /\ u # t
    BY <2>1, <2>2 DEF Deciding, Busy
  <2>4. \A n \in Alerted' : n \in Begun /\ n \in Number /\ out'[n].kind \in {"new", "update"}
    BY <2>1 DEF Alerted, Begun
  <2>5. \A n \in Alerted' : \/ n \in Alerted /\ out'[n] = out[n]
                            \/ n = ev[t] /\ out'[n].id = id /\ kind \in {"new", "update"}
    BY <2>1, <2>4 DEF Alerted
  <2> QED BY <1>10, <2>1, <2>3, <2>5 DEF Ends
<1>11. ASSUME NEW t \in Thread, GivesUp(t) PROVE ReadersSpace' /\ AlertsSpaced'
  <2>1. /\ "dropped" \in Kind /\ NoId \in Nat /\ store' = store /\ Ends(t, "dropped", NoId)
    BY <1>11 DEF Kind, NoId, GivesUp, storeVars
  <2>2. /\ \A n \in Alerted' : n \in Alerted /\ out'[n] = out[n]
        /\ events' = events /\ \A u \in Deciding' : u \in Deciding /\ got'[u] = got[u]
    BY <1>10, <2>1
  <2>3. ASSUME NEW n \in Alerted', Rivals(n)' = {}
        PROVE  n \in Alerted /\ out'[n] = out[n] /\ Rivals(n) = {}
    BY <1>1, <2>2, <2>3, Quiet
  <2>4. \A n \in Alerted' : Rivals(n)' = {} =>
           /\ \A f \in Fingerprint : store'[f].id = out'[n].id => store'[f].emitted >= events[n].ts
           /\ \A u \in Deciding' : got'[u].id = out'[n].id => got'[u].emitted >= events[n].ts
    BY <2>1, <2>2, <2>3 DEF ReadersSpace
  <2>5. \A n, m \in Alerted' :
           n < m /\ out'[n].id = out'[m].id /\ Rivals(n)' = {} => events'[m].ts - events'[n].ts >= Refire
    BY <2>2, <2>3 DEF AlertsSpaced
  <2> QED BY <1>2, <2>4, <2>5
<1>12. ASSUME NEW t \in Thread, NEW kind \in Kind, NEW s \in State, Wrote(t, kind, s)
       PROVE  ReadersSpace' /\ AlertsSpaced'
  <2>1. /\ t \in Busy /\ t \in Deciding /\ Ends(t, kind, s.id) /\ s.id \in Nat /\ Fp(t) \in Fingerprint
        /\ store' = [store EXCEPT ![Fp(t)] = s] /\ s.emitted \in Int /\ Clock(t) \in Nat
        /\ got[t] \in State /\ got[t].emitted \in Int /\ ev[t] \in Begun
    BY <1>12, StateFacts, Running DEF Wrote
  <2>2. /\ \A u \in Deciding' : u \in Deciding /\ got'[u] = got[u] /\ u \in Busy /\ u # t
        /\ \A n \in Alerted' : \/ n \in Alerted /\ out'[n] = out[n]
                               \/ n = ev[t] /\ out'[n].id = s.id /\ kind \in {"new", "update"}
        /\ events' = events
    BY <1>10, <2>1
  \* the entry opened is t's own, or the one t read, announced no earlier
  <2>3. \/ s.id = ev[t] /\ s.emitted = Clock(t)
        \/ /\ got[t] # NoState /\ s.id = got[t].id
           /\ \/ kind = "update" /\ s.emitted = Clock(t) /\ Clock(t) - got[t].emitted >= Refire
              \/ kind = "suppressed" /\ s.emitted = got[t].emitted
    BY <1>12 DEF Wrote, Opens, Continues
  <2>4. /\ s.emitted >= got[t].emitted \/ s.id = ev[t]
        /\ kind \in {"new", "update"} => s.emitted = Clock(t)
    BY <2>1, <2>3, DedupAssumption
  \* ids of the fingerprint
  <2>5. ASSUME NEW o, NEW f, o = s.id, Known(o, f) PROVE f = Fp(t) /\ s.id = got[t].id /\ got[t] # NoState
    <3>1. s.id # ev[t]
      BY <2>1, <2>5, IdFacts
    <3>2. got[t] # NoState /\ s.id = got[t].id
      BY <2>3, <3>1
    <3>3. Known(o, Fp(t))
      BY <2>1, <2>5, <3>2 DEF IdsKnown
    <3> QED BY <2>5, <3>2, <3>3, IdFacts
  <2>6. ASSUME NEW n \in Alerted', Rivals(n)' = {}
        PROVE  /\ \A f \in Fingerprint : store'[f].id = out'[n].id => store'[f].emitted >= events[n].ts
               /\ \A u \in Deciding' : got'[u].id = out'[n].id => got'[u].emitted >= events[n].ts
    <3>1. n \in Begun' /\ out'[n].kind # "pending"
      BY <1>1, <2>6
    <3>2. /\ Rivals(n) = {} /\ events[n].ts \in Nat
          /\ \A u \in Busy : ev[t] = n /\ u # t => Fp(u) # events[n].fp
      BY <2>1, <2>6, <3>1, Quiet
    <3>3. CASE n \in Alerted /\ out'[n] = out[n]
      <4>1. /\ \A f \in Fingerprint : store[f].id = out[n].id => store[f].emitted >= events[n].ts
            /\ \A u \in Deciding : got[u].id = out[n].id => got[u].emitted >= events[n].ts
        BY <3>2, <3>3 DEF ReadersSpace
      <4>2. s.id = out[n].id => s.emitted >= events[n].ts
        <5> SUFFICES ASSUME s.id = out[n].id PROVE s.emitted >= events[n].ts
          OBVIOUS
        <5>1. s.id # ev[t] /\ s.id = got[t].id
          BY <1>3, <2>1, <2>5, <3>3
        <5>2. got[t].emitted >= events[n].ts
          BY <2>1, <4>1, <5>1
        <5> QED BY <2>1, <2>4, <3>2, <5>1, <5>2
      <4> QED BY <2>1, <2>2, <3>3, <4>1, <4>2
    <3>4. CASE n = ev[t] /\ out'[n].id = s.id /\ kind \in {"new", "update"}
      <4>1. events[n].ts = Clock(t) /\ events[n].fp = Fp(t) /\ s.emitted = Clock(t) /\ s.id # 0
        <5>1. s.id # 0
          <6>1. CASE s.id = ev[t]
            BY <2>1, <6>1, Running
          <6>2. CASE got[t] # NoState /\ s.id = got[t].id
            BY <2>1, <6>2, IdFacts DEF IdsKnown
          <6> QED BY <2>3, <6>1, <6>2
        <5> QED BY <2>4, <3>4, <5>1 DEF Clock, Fp
      <4>2. ASSUME NEW f \in Fingerprint, f # Fp(t), store[f].id = s.id PROVE FALSE
        <5>1. store[f] # NoState
          BY <4>1, <4>2, StateFacts
        <5>2. Known(store[f].id, f)
          BY <5>1 DEF IdsKnown
        <5> QED BY <2>5, <4>2, <5>2
      <4>3. ASSUME NEW u \in Deciding', got'[u].id = s.id PROVE FALSE
        <5>1. u \in Busy /\ u # t /\ got[u].id = s.id /\ u \in Thread
          BY <2>2, <4>3 DEF Busy
        <5>2. Known(got[u].id, Fp(u))
          BY <4>1, <5>1, StateFacts DEF IdsKnown
        <5>3. Fp(u) = Fp(t)
          BY <2>5, <5>1, <5>2
        <5> QED BY <3>2, <3>4, <4>1, <5>1, <5>3
      <4>4. store'[Fp(t)] = s /\ \A f \in Fingerprint : f # Fp(t) => store'[f] = store[f]
        BY <2>1
      <4> QED BY <2>1, <3>4, <4>1, <4>2, <4>3, <4>4
    <3> QED BY <2>2, <3>3, <3>4
  <2>7. ASSUME NEW n \in Alerted', NEW m \in Alerted', n < m, out'[n].id = out'[m].id, Rivals(n)' = {}
        PROVE  events'[m].ts - events'[n].ts >= Refire
    <3>1. n \in Begun' /\ out'[n].kind # "pending"
      BY <1>1, <2>7
    <3>2. Rivals(n) = {} /\ events[n].ts \in Nat /\ n \in Number
      BY <2>1, <2>7, <3>1, Quiet
    <3>3. CASE n \in Alerted /\ m \in Alerted /\ out'[n] = out[n] /\ out'[m] = out[m]
      BY <2>2, <2>7, <3>2, <3>3 DEF AlertsSpaced
    <3>4. CASE /\ n \in Alerted /\ out'[n] = out[n]
               /\ m = ev[t] /\ out'[m].id = s.id /\ kind \in {"new", "update"}
      <4>1. out[n].id = s.id
        BY <2>7, <3>4
      <4>2. s.id = got[t].id /\ s.id # ev[t]
        BY <1>3, <2>1, <2>5, <3>4, <4>1
      <4>3. Clock(t) - got[t].emitted >= Refire
        BY <2>3, <3>4, <4>2
      <4>4. got[t].emitted >= events[n].ts
        BY <2>1, <3>2, <3>4, <4>1, <4>2 DEF ReadersSpace
      <4>5. events'[m].ts = Clock(t) /\ events'[n].ts = events[n].ts
        BY <2>2, <3>4 DEF Clock
      <4> QED BY <2>1, <3>2, <4>3, <4>4, <4>5, DedupAssumption
    <3>5. CASE n = ev[t] /\ out'[n].id = s.id /\ m \in Alerted /\ out'[m] = out[m]
      <4>1. Known(out[m].id, events[m].fp) /\ out[m].id = s.id /\ m \in Begun
        BY <1>3, <2>7, <3>5
      <4>2. events[m].fp = Fp(t)
        BY <2>5, <4>1
      <4>3. m \in meets[n]
        BY <2>1, <2>7, <3>5, <4>1 DEF Numbered
      <4>4. m \in Rivals(n)
        BY <3>5, <4>2, <4>3 DEF Rivals, SameFp, Fp
      <4> QED BY <3>2, <4>4
    <3>6. CASE n = ev[t] /\ m = ev[t]
      BY <2>7, <3>2, <3>6 DEF Number
    <3> QED BY <2>2, <3>3, <3>4, <3>5, <3>6
  <2> QED BY <1>2, <2>6, <2>7
<1> QED BY <1>5, <1>6, <1>7, <1>8, <1>9, <1>11, <1>12, Moves

-----------------------------------------------------------------------------
(* In step with the stream *)

\* What an entry, or its absence, and the keyed state of a fingerprint may be.
SameOrClosed(st, k) == st = k \/ (st = NoState /\ \E n \in Begun : Stale(k, events[n].ts))

\* What an event in order is decided to be, the stream decides too.
LEMMA SameDecision ==
  ASSUME Basic, NEW t \in Busy, NEW st \in State, NEW k \in State,
         ~Stale(st, Clock(t)), st = k \/ (st = NoState /\ Stale(k, Clock(t)))
  PROVE  /\ Decided(t, st).action = Decided(t, k).action
         /\ Decided(t, st).state = Decided(t, k).state
         /\ st = NoState => Decided(t, st).action = "new"
         /\ st # NoState => Decided(t, st).action \in {"update", "suppress"}
<1> DEFINE e == events[ev[t]]
<1>1. e.ts \in Nat /\ e.level \in Nat /\ ev[t] \in Nat \ {0} /\ Clock(t) = e.ts
  BY Running DEF Clock
<1>2. \A x : Decided(t, x) = Transition(x, e, e.ts, ev[t])
  BY DEF Decided
<1> HIDE DEF e
<1>3. /\ Decided(t, st).action \in {"new", "update", "suppress"}
      /\ Decided(t, st).action = "new" <=> st = NoState \/ Stale(st, e.ts)
      /\ Decided(t, st).action = "new" => Decided(t, st).state = Opened(e, e.ts, ev[t])
  BY <1>1, <1>2, Verdicts
<1>4. /\ Decided(t, k).action = "new" <=> k = NoState \/ Stale(k, e.ts)
      /\ Decided(t, k).action = "new" => Decided(t, k).state = Opened(e, e.ts, ev[t])
  BY <1>1, <1>2, Verdicts
<1> QED BY <1>1, <1>3, <1>4

LEMMA InStepStep ==
  ASSUME Basic, IdsKnown, Beaten, InStep, [Next]_vars
  PROVE  InStep'
<1> SUFFICES ASSUME Sequential', InOrder'
             PROVE  /\ differs' = {}
                    /\ \A t \in Busy', n \in Begun' : n <= ev'[t]
                    /\ \A f \in Fingerprint :
                         \/ store'[f] = keyed'[f]
                         \/ store'[f] = NoState /\ \E n \in Begun' : Stale(keyed'[f], events'[n].ts)
                    /\ \A t \in Busy' :
                         /\ pc'[t] # "winner"
                         /\ pc'[t] # "expire" => ~Stale(store'[Fp(t)'], Clock(t)')
                         /\ pc'[t] = "create" => store'[Fp(t)'] = NoState /\ got'[t] = NoState
                         /\ pc'[t] = "put" => got'[t] = store'[Fp(t)'] /\ store'[Fp(t)'] # NoState
  BY DEF InStep
<1>1. Sequential /\ InOrder
  <2>1. \A n \in Begun : n \in Begun' /\ events'[n] = events[n] /\ meets[n] \subseteq meets'[n]
    BY Growth
  <2> QED BY <2>1 DEF Sequential, InOrder
<1>2. /\ differs = {} /\ \A u \in Busy, n \in Begun : n <= ev[u]
      /\ \A f \in Fingerprint : SameOrClosed(store[f], keyed[f])
      /\ \A u \in Busy : /\ pc[u] # "winner"
                         /\ pc[u] # "expire" => ~Stale(store[Fp(u)], Clock(u))
                         /\ pc[u] = "create" => store[Fp(u)] = NoState /\ got[u] = NoState
                         /\ pc[u] = "put" => got[u] = store[Fp(u)] /\ store[Fp(u)] # NoState
  BY <1>1 DEF InStep, SameOrClosed
<1>3. TypeOK' /\ Numbered'
  BY BasicStep DEF Basic
<1>4. \A u, v \in Busy' : u = v
  BY <1>3 DEF Numbered, Sequential
<1>5. ASSUME NEW u \in Busy', NEW n \in Begun' PROVE n <= ev'[u]
  <2>1. n \in Number /\ ev'[u] \in Begun' /\ ev'[u] \in Number
    BY <1>3 DEF TypeOK, Numbered
  <2>2. meets'[ev'[u]] = {}
    BY <2>1 DEF Sequential
  <2>3. ~(n > ev'[u])
    BY <1>3, <2>2 DEF Numbered
  <2>4. n \in Int /\ ev'[u] \in Int
    BY <2>1, EngineAssumption DEF Number
  <2> QED BY <2>3, <2>4
<1>6. ASSUME differs' = {},
             \A f \in Fingerprint :
                \/ SameOrClosed(store'[f], keyed'[f])
                \/ store'[f] = keyed'[f],
             \A u \in Busy' :
                \/ pc'[u] = "expire"
                \/ /\ u \in Busy /\ pc'[u] # "winner" /\ ~Stale(store'[Fp(u)], Clock(u))
                   /\ pc'[u] = "create" => store'[Fp(u)] = NoState /\ got'[u] = NoState
                   /\ pc'[u] = "put" => got'[u] = store'[Fp(u)] /\ store'[Fp(u)] # NoState
      PROVE  /\ differs' = {}
             /\ \A t \in Busy', n \in Begun' : n <= ev'[t]
             /\ \A f \in Fingerprint :
                  \/ store'[f] = keyed'[f]
                  \/ store'[f] = NoState /\ \E n \in Begun' : Stale(keyed'[f], events'[n].ts)
             /\ \A t \in Busy' :
                  /\ pc'[t] # "winner"
                  /\ pc'[t] # "expire" => ~Stale(store'[Fp(t)'], Clock(t)')
                  /\ pc'[t] = "create" => store'[Fp(t)'] = NoState /\ got'[t] = NoState
                  /\ pc'[t] = "put" => got'[t] = store'[Fp(t)'] /\ store'[Fp(t)'] # NoState
  <2>1. \A n \in Begun : n \in Begun' /\ events'[n] = events[n]
    BY Growth
  <2>2. ASSUME NEW f \in Fingerprint
        PROVE  \/ store'[f] = keyed'[f]
               \/ store'[f] = NoState /\ \E n \in Begun' : Stale(keyed'[f], events'[n].ts)
    BY <1>6, <2>1 DEF SameOrClosed
  <2>3. ASSUME NEW u \in Busy'
        PROVE  /\ pc'[u] # "winner"
               /\ pc'[u] # "expire" => ~Stale(store'[Fp(u)'], Clock(u)')
               /\ pc'[u] = "create" => store'[Fp(u)'] = NoState /\ got'[u] = NoState
               /\ pc'[u] = "put" => got'[u] = store'[Fp(u)'] /\ store'[Fp(u)'] # NoState
    <3>1. CASE pc'[u] = "expire"
      BY <3>1
    <3>2. CASE u \in Busy
      <4>1. Fp(u)' = Fp(u) /\ Clock(u)' = Clock(u)
        BY <3>2, Growth
      <4> HIDE DEF Fp, Clock
      <4> QED BY <1>6, <3>2, <4>1
    <3> QED BY <1>6, <3>1, <3>2
  <2> QED BY <1>5, <1>6, <2>2, <2>3
<1> USE DEF Basic, TypeOK
<1>7. CASE UNCHANGED vars
  <2>1. Busy' = Busy /\ UNCHANGED <<store, pc, got, keyed, differs>>
    BY <1>7 DEF vars, storeVars, threadVars, histVars, Busy
  <2> QED BY <1>2, <1>6, <2>1
<1>8. ASSUME NEW t \in Thread, Begin(t)
      PROVE  UNCHANGED <<store, keyed, differs>> /\ \A u \in Busy' : pc'[u] = "expire"
  <2>1. UNCHANGED <<store, keyed, differs>> /\ pc' = [pc EXCEPT ![t] = "expire"]
    BY <1>8 DEF Begin, storeVars
  <2>2. t \in Busy'
    BY <2>1 DEF Busy
  <2> QED BY <1>4, <2>1, <2>2
<1>9. ASSUME NEW t \in Thread, Expire(t)
      PROVE  /\ differs' = {} /\ \A f \in Fingerprint : SameOrClosed(store'[f], keyed'[f])
             /\ \A u \in Busy' : u \in Busy /\ pc'[u] = "get" /\ ~Stale(store'[Fp(u)], Clock(u))
  <2>1. /\ \A f \in Fingerprint : store'[f] = IF Stale(store[f], Clock(t)) THEN NoState ELSE store[f]
        /\ UNCHANGED <<keyed, differs>> /\ pc[t] = "expire" /\ pc' = [pc EXCEPT ![t] = "get"]
    BY <1>9 DEF Expire, Clock
  <2>2. t \in Busy /\ t \in Busy' /\ Fp(t) \in Fingerprint /\ ev[t] \in Begun
    BY <2>1, Running DEF Busy
  <2>3. ASSUME NEW f \in Fingerprint PROVE SameOrClosed(store'[f], keyed'[f])
    BY <1>2, <2>1, <2>2 DEF SameOrClosed, Clock
  <2>4. ~Stale(store'[Fp(t)], Clock(t))
    BY <2>1, <2>2 DEF Stale
  <2>5. \A u \in Busy' : u = t /\ u \in Busy /\ pc'[u] = "get"
    BY <1>4, <2>1, <2>2
  <2> QED BY <1>2, <2>1, <2>3, <2>4, <2>5
<1>10. ASSUME NEW t \in Thread, Reads(t)
       PROVE  /\ UNCHANGED <<store, keyed, differs>>
              /\ \A u \in Busy' : /\ u \in Busy /\ ~Stale(store[Fp(u)], Clock(u)) /\ got'[u] = store[Fp(u)]
                                  /\ pc'[u] = IF store[Fp(u)] = NoState THEN "create" ELSE "put"
  <2>1. /\ UNCHANGED <<store, keyed, differs>> /\ t \in Busy /\ got'[t] = store[Fp(t)]
        /\ pc[t] = "get"
        /\ pc' = [pc EXCEPT ![t] = IF store[Fp(t)] = NoState \/ Stale(store[Fp(t)], Clock(t))
                                   THEN "create" ELSE "put"]
    BY <1>2, <1>10 DEF Reads, GoesOn, Read, storeVars
  <2>2. ~Stale(store[Fp(t)], Clock(t))
    BY <1>2, <2>1
  <2>3. t \in Busy'
    BY <2>1 DEF Busy
  <2>4. \A u \in Busy' : u = t
    BY <1>4, <2>3
  <2> QED BY <2>1, <2>2, <2>4
<1>11. ASSUME NEW t \in Thread, CreateFails(t) PROVE FALSE
  BY <1>2, <1>11 DEF CreateFails, Busy
<1>12. ASSUME NEW t \in Thread, GivesUp(t) PROVE FALSE
  BY <1>2, <1>12 DEF GivesUp
<1>13. ASSUME NEW t \in Thread, NEW kind \in Kind, NEW s \in State, Wrote(t, kind, s)
       PROVE  /\ differs' = {} /\ Busy' = {}
              /\ \A f \in Fingerprint : SameOrClosed(store'[f], keyed'[f]) \/ store'[f] = keyed'[f]
  <2>1. /\ t \in Busy /\ pc[t] \in {"create", "put"} /\ Return(t, kind, s.id) /\ Fp(t) \in Fingerprint
        /\ store' = [store EXCEPT ![Fp(t)] = s] /\ s = Decision(t).state
        /\ kind = IF pc[t] = "create" THEN "new" ELSE Outcome(Decision(t))
        /\ Ends(t, kind, s.id) /\ s.id \in Nat
    BY <1>13, StateFacts, Running DEF Wrote, Deciding, Ends
  <2>2. /\ store[Fp(t)] \in State /\ keyed[Fp(t)] \in State /\ got[t] = store[Fp(t)]
        /\ ~Stale(store[Fp(t)], Clock(t))
        /\ pc[t] = "create" <=> store[Fp(t)] = NoState
    BY <1>2, <2>1
  <2>3. \/ store[Fp(t)] = keyed[Fp(t)]
        \/ store[Fp(t)] = NoState /\ Stale(keyed[Fp(t)], Clock(t))
    <3> SUFFICES ASSUME NEW n \in Begun, Stale(keyed[Fp(t)], events[n].ts)
                 PROVE  Stale(keyed[Fp(t)], Clock(t))
      BY <1>2, <2>1 DEF SameOrClosed
    <3>1. n \in Number /\ ev[t] \in Begun /\ ev[t] \in Number /\ n <= ev[t] /\ events[n] \in Event
      BY <1>2, <2>1, Running
    <3>2. n \in Int /\ ev[t] \in Int /\ events[n].ts \in Nat /\ Clock(t) \in Nat
      <4>1. n \in Int /\ ev[t] \in Int
        BY <3>1, EngineAssumption DEF Number
      <4>2. events[n].ts \in Nat
        BY <3>1, EventFacts
      <4>3. Clock(t) \in Nat
        BY <2>1, Running
      <4> QED BY <4>1, <4>2, <4>3
    <3>3. events[n].ts <= Clock(t)
      BY <1>1, <3>1, <3>2 DEF InOrder, Clock
    <3> QED BY <2>2, <3>2, <3>3, StateFacts, DedupAssumption DEF Stale
  <2>4. /\ Decision(t).action = Decided(t, keyed[Fp(t)]).action
        /\ Decision(t).state = Decided(t, keyed[Fp(t)]).state
        /\ pc[t] = "create" => Decision(t).action = "new"
        /\ pc[t] = "put" => Decision(t).action \in {"update", "suppress"}
    BY <2>1, <2>2, <2>3, SameDecision DEF Decision
  <2>5. \/ Decision(t).action = kind
        \/ Decision(t).action = "suppress" /\ kind = "suppressed"
    BY <2>1, <2>4 DEF Outcome
  <2> DEFINE r == Transition(keyed[Fp(t)], events[ev[t]], events[ev[t]].ts, ev[t])
  <2>6. r = Decided(t, keyed[Fp(t)])
    BY DEF Decided
  <2>7. /\ keyed' = [keyed EXCEPT ![Fp(t)] = r.state]
        /\ differs' = IF r.action = kind \/ (r.action = "suppress" /\ kind = "suppressed")
                      THEN differs ELSE differs \cup {ev[t]}
    BY <2>1 DEF Return
  <2> HIDE DEF r
  <2>8. differs' = {} /\ keyed' = [keyed EXCEPT ![Fp(t)] = s]
    BY <1>2, <2>1, <2>4, <2>5, <2>6, <2>7
  <2>9. ASSUME NEW u \in Busy, u # t PROVE FALSE
    <3>1. ev[u] \in meets[ev[t]] /\ ev[t] \in Begun
      BY <2>1, <2>9 DEF Numbered
    <3> QED BY <1>1, <3>1 DEF Sequential
  <2>10. Busy' = {}
    BY <2>1, <2>9, Ending
  <2>11. \A f \in Fingerprint : SameOrClosed(store'[f], keyed'[f]) \/ store'[f] = keyed'[f]
    BY <1>2, <2>1, <2>8
  <2> QED BY <2>8, <2>10, <2>11
<1>14. ASSUME NEW t \in Thread, Begin(t)
       PROVE  /\ differs' = {} /\ \A f \in Fingerprint : SameOrClosed(store'[f], keyed'[f])
              /\ \A u \in Busy' : pc'[u] = "expire"
  BY <1>2, <1>8, <1>14
<1>15. ASSUME NEW t \in Thread, Reads(t)
       PROVE  /\ differs' = {} /\ \A f \in Fingerprint : SameOrClosed(store'[f], keyed'[f])
              /\ \A u \in Busy' :
                   /\ u \in Busy /\ pc'[u] # "winner" /\ ~Stale(store'[Fp(u)], Clock(u))
                   /\ pc'[u] = "create" => store'[Fp(u)] = NoState /\ got'[u] = NoState
                   /\ pc'[u] = "put" => got'[u] = store'[Fp(u)] /\ store'[Fp(u)] # NoState
  BY <1>2, <1>10, <1>15
<1> QED
  <2>1. CASE \E t \in Thread : Begin(t)
    BY <1>6, <1>14, <2>1
  <2>2. CASE \E t \in Thread : Expire(t)
    BY <1>6, <1>9, <2>2
  <2>3. CASE \E t \in Thread : Reads(t)
    BY <1>6, <1>15, <2>3
  <2>4. CASE \E t \in Thread, kind \in Kind, s \in State : Wrote(t, kind, s)
    BY <1>6, <1>13, <2>4
  <2> QED BY <1>7, <1>11, <1>12, <2>1, <2>2, <2>3, <2>4, Moves

-----------------------------------------------------------------------------
(* The inductive invariant, and what it gives *)

LEMMA InitIInv == Init => IInv
<1> SUFFICES ASSUME Init PROVE IInv
  OBVIOUS
<1>1. Begun = {} /\ Busy = {} /\ Counted = {} /\ Alerted = {} /\ Deciding = {}
  BY DEF Init, Begun, Busy, Counted, Alerted, Deciding
<1>2. TypeOK
  <2>1. events \in [Begun -> Event]
    BY <1>1 DEF Init, Begun
  <2>2. 0 \in 0..MaxEvents
    BY EngineAssumption
  <2> QED BY <1>1, <2>1, <2>2, StateFacts DEF Init, TypeOK, Kind, NoId
<1>3. Numbered
  <2>1. Begun = 1..0 /\ 0 \in 0..MaxEvents
    BY <1>1, EngineAssumption
  <2> QED BY <1>1, <2>1 DEF Init, Numbered
<1>4. \A f \in Fingerprint : store[f] = NoState /\ keyed[f] = NoState
  BY DEF Init
<1>5. \A t \in Thread : got[t] = NoState
  BY DEF Init
<1>6. IdsKnown /\ CountedUnlessRaced /\ ReadersCount /\ ReadersSpace /\ AlertsSpaced
  BY <1>1, <1>4, <1>5 DEF IdsKnown, CountedUnlessRaced, ReadersCount, ReadersSpace, AlertsSpaced
<1>7. Beaten /\ DroppedExplained
  BY <1>1 DEF Beaten, DroppedExplained
<1>8. InStep
  BY <1>1, <1>4 DEF Init, InStep
<1> QED BY <1>2, <1>3, <1>6, <1>7, <1>8 DEF IInv

LEMMA NextIInv == IInv /\ [Next]_vars => IInv'
<1> SUFFICES ASSUME IInv, [Next]_vars PROVE IInv'
  OBVIOUS
<1>1. Basic /\ IdsKnown /\ Beaten
  BY DEF IInv, Basic
<1>2. TypeOK' /\ Numbered'
  BY <1>1, BasicStep DEF Basic
<1>3. IdsKnown' /\ Beaten'
  BY <1>1, IdsStep, BeatenStep
<1>4. CountedUnlessRaced' /\ ReadersCount'
  BY <1>1, CountStep DEF IInv
<1>5. ReadersSpace' /\ AlertsSpaced'
  BY <1>1, SpaceStep DEF IInv
<1>6. DroppedExplained' /\ InStep'
  BY <1>1, DroppedStep, InStepStep DEF IInv
<1> QED BY <1>2, <1>3, <1>4, <1>5, <1>6 DEF IInv

\* Whatever the threads do between the store's locked calls, what the properties
\* rest on holds: ids are known, readers have read what was counted and alerted,
\* what beats a call is a rival's, and calls in order keep step with the stream.
THEOREM EngineInvariant == Spec => []IInv
<1>1. Init => IInv
  BY InitIInv
<1>2. IInv /\ [Next]_vars => IInv'
  BY NextIInv
<1> QED BY <1>1, <1>2, PTL DEF Spec

\* The store, the threads' reads and the history have their types.
THEOREM EngineTypes == Spec => []TypeOK
<1>1. IInv => TypeOK
  BY DEF IInv
<1> QED BY <1>1, EngineInvariant, PTL

\* get and put are two calls of the store, and yet an event is counted unless a
\* call for the same fingerprint ran at the same time.
THEOREM CountsKept == Spec => []CountedUnlessRaced
<1>1. IInv => CountedUnlessRaced
  BY DEF IInv
<1> QED BY <1>1, EngineInvariant, PTL

\* Every alert of process is of an incident that was announced as new, unless the
\* event that opened it was beaten to try_create by one a window older.
THEOREM AlertsAnnounced == Spec => []AnnouncedUnlessRaced
<1>1. IInv => AnnouncedUnlessRaced
  BY DEF IInv, IdsKnown, Known, AnnouncedUnlessRaced
<1> QED BY <1>1, EngineInvariant, PTL

\* process gives an event up only if the entry that beat it was expired at once
\* by a third call.
THEOREM DropsExplained == Spec => []DroppedExplained
<1>1. IInv => DroppedExplained
  BY DEF IInv
<1> QED BY <1>1, EngineInvariant, PTL

\* Two alerts of an incident are a refire interval apart, if the first met no rival.
THEOREM EngineAlertsSpaced == Spec => []AlertsSpaced
<1>1. IInv => AlertsSpaced
  BY DEF IInv
<1> QED BY <1>1, EngineInvariant, PTL

\* "Memory DedupEngine and Quix-state adapter must agree on emit decisions": they
\* do when calls neither overlap nor run back in time.
THEOREM ParityWhenOrdered == Spec => []ParityInOrder
<1>1. IInv => ParityInOrder
  BY DEF IInv, InStep, ParityInOrder
<1> QED BY <1>1, EngineInvariant, PTL
=============================================================================
