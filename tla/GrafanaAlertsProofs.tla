------------------------- MODULE GrafanaAlertsProofs -------------------------
(* Theorems about GrafanaAlerts, for any alerts, rules, readings and contents *)
(* of alerts.yaml.                                                            *)
EXTENDS GrafanaAlerts, TLAPS

-----------------------------------------------------------------------------
(* The transition at the event's own time *)

LEMMA Blobs ==
  /\ Judge!NoState \in Judge!State /\ Judge!NoState.id = 0
  /\ \A s \in Judge!State : /\ s.id \in Nat /\ s.first \in Int /\ s.last \in Int /\ s.count \in Nat
                            /\ s.emitted \in Int /\ s.level \in Nat
BY DEF Judge!State, Judge!NoState, Judge!NoId

\* What the rules make of event e, in window w and refire interval R, of state st.
Outcome(r, st, e, w, R, id) ==
    /\ r.action \in {"new", "update", "suppress"} /\ r.state \in Judge!State
    /\ r.state.last = e.ts /\ e.ts - r.state.emitted < R
    /\ r.action = "new" => r.state.id = id /\ r.state.emitted = e.ts
    /\ r.action # "new" => st # Judge!NoState /\ r.state.id = st.id /\ e.ts - st.last <= w
    /\ r.action = "update" => r.state.emitted = e.ts
    /\ r.action = "suppress" => r.state.emitted = st.emitted
    /\ st # Judge!NoState /\ st.last = e.ts => r.action # "new"
    /\ st # Judge!NoState /\ st.last = e.ts /\ e.ts - st.emitted < R => r.action = "suppress"

\* apply_dedup_transition of an event that is judged by its timestamp.
LEMMA TransitionResult ==
  ASSUME NEW w \in Nat \ {0}, NEW R \in Nat \ {0}, NEW st \in Judge!State,
         NEW e, e.ts \in Nat, e.level \in Nat, NEW id \in Nat \ {0},
         NEW r, r = Dedup(w, R)!Transition(st, e, e.ts, id)
  PROVE  Outcome(r, st, e, w, R, id)
<1> USE DEF Outcome
<1> DEFINE opened == Dedup(w, R)!Opened(e, e.ts, id)
           merged == Dedup(w, R)!Merged(st, e)
           spoken == [merged EXCEPT !.emitted = e.ts]
           old == st = Judge!NoState \/ e.ts - st.last > w
           soon == e.ts - st.emitted < R
<1>1. /\ opened \in Judge!State /\ opened.id = id /\ opened.last = e.ts /\ opened.emitted = e.ts
  BY DEF Dedup!Opened, Judge!State
<1>2. /\ merged \in Judge!State /\ merged.id = st.id /\ merged.last = e.ts /\ merged.emitted = st.emitted
  <2> DEFINE lv == Dedup(w, R)!WorseLevel(st.level, e.level)
  <2>1. lv \in Nat
    BY Blobs DEF Dedup!WorseLevel
  <2>2. merged = [st EXCEPT !.count = st.count + 1, !.last = e.ts, !.level = lv]
    BY DEF Dedup!Merged
  <2>3. st \in [id : Nat, first : Int, last : Int, count : Nat, emitted : Int, level : Nat]
    BY DEF Judge!State
  <2> HIDE DEF merged, lv
  <2>4. e.ts \in Int /\ st.count + 1 \in Nat
    BY <2>3
  <2>5. merged \in [id : Nat, first : Int, last : Int, count : Nat, emitted : Int, level : Nat]
    BY <2>1, <2>2, <2>3, <2>4
  <2>6. merged.id = st.id /\ merged.last = e.ts /\ merged.emitted = st.emitted
    BY <2>2, <2>3
  <2> QED BY <2>5, <2>6 DEF Judge!State
<1>3. /\ spoken \in Judge!State /\ spoken.id = st.id /\ spoken.last = e.ts /\ spoken.emitted = e.ts
  <2>1. merged \in [id : Nat, first : Int, last : Int, count : Nat, emitted : Int, level : Nat]
    BY <1>2 DEF Judge!State
  <2> HIDE DEF merged
  <2> QED BY <1>2, <2>1 DEF Judge!State
<1>4. r = IF old THEN [action |-> "new", state |-> opened]
          ELSE IF soon THEN [action |-> "suppress", state |-> merged]
          ELSE [action |-> "update", state |-> spoken]
  BY Zenon DEF Dedup!Transition, Dedup!WindowExpired, Dedup!TooSoon, Dedup!NoState, Dedup!NoId,
                Judge!NoState, Judge!NoId
<1> HIDE DEF opened, merged, spoken
<1>5. CASE old
  BY <1>1, <1>4, <1>5, Blobs
<1>6. CASE ~old /\ soon
  BY <1>2, <1>4, <1>6, Blobs
<1>7. CASE ~old /\ ~soon
  BY <1>3, <1>4, <1>7, Blobs
<1> QED BY <1>5, <1>6, <1>7

-----------------------------------------------------------------------------
(* What a post adds to the log and does to the state of its fingerprint *)

\* The verdict on a post p, the n-th, whose fingerprint was in state old, with
\* window w.
Judged(p, old, w, new, n) ==
    /\ p.action \in {"new", "update", "suppress"} /\ new \in Judge!State
    /\ new.id = p.id /\ new.last = p.ts /\ p.ts - new.emitted < p.settings.refire
    /\ p.action = "new" => p.id = n /\ new.emitted = p.ts
    /\ p.action # "new" => old # Judge!NoState /\ p.id = old.id /\ p.ts - old.last <= w
    /\ p.action = "update" => new.emitted = p.ts
    /\ p.action = "suppress" => new.emitted = old.emitted
    /\ old # Judge!NoState /\ old.last = p.ts => p.action # "new"
    /\ old # Judge!NoState /\ old.last = p.ts /\ p.ts - old.emitted < p.settings.refire
       => p.action = "suppress"

LEMMA Levels ==
  ASSUME NEW label, NEW status
  PROVE  Level(label, status) \in {10, 20, 30, 40, 50}
<1>1. /\ KnownLevel["info"] = 20 /\ KnownLevel["critical"] = 50 /\ KnownLevel["error"] = 40
      /\ \A l \in DOMAIN KnownLevel : KnownLevel[l] \in {10, 20, 30, 40, 50}
  BY DEF KnownLevel
<1> HIDE DEF KnownLevel
<1> QED BY <1>1 DEF Level

LEMMA PostResult ==
  ASSUME TypeOK, LogInv, NEW a \in Alert, Post(a)
  PROVE  \E p, new :
           /\ log' = Append(log, p)
           /\ p.ts \in 0 .. wall /\ p.alert \in Alert /\ Valid(p.settings)
           /\ \/ p.action = "drop" /\ p.id = 0 /\ keyed' = keyed /\ windows' = windows
              \/ /\ Judged(p, StateOf(p.fp), WindowOf(p.fp, p.settings), new, Len(log) + 1)
                 /\ keyed' = Put(keyed, p.fp, new) /\ windows' = Put(windows, p.fp, p.settings.window)
<1> DEFINE settings == ResolveFor(config, a)
<1>1. PICK reading \in Reading :
        LET e == Normalized(a, reading)
            v == Verdict(e, settings)
        IN /\ Store(v, settings)
           /\ log' = Append(log, [alert |-> a, status |-> episode[a].status, ts |-> e.ts,
                                  action |-> v.action, fp |-> v.fp, id |-> v.state.id,
                                  settings |-> settings])
  BY DEF Post
<1> DEFINE e == Normalized(a, reading)
           v == Verdict(e, settings)
           fp == Fingerprint(e, settings.dedup_fields)
           w == WindowOf(fp, settings)
           r == Dedup(w, settings.refire)!Transition(StateOf(fp), e, e.ts, Len(log) + 1)
           p == [alert |-> a, status |-> episode[a].status, ts |-> e.ts,
                 action |-> v.action, fp |-> v.fp, id |-> v.state.id, settings |-> settings]
<1>2. Valid(settings) /\ Skew \in Nat
  BY GrafanaAssumption DEF TypeOK
<1>3. e.ts \in 0 .. wall /\ e.level \in Nat /\ wall \in Nat
  <2>1. episode[a].since \in 0 .. wall /\ wall \in Nat
    BY DEF TypeOK
  <2>2. e.ts = episode[a].since /\ e.level = Level(severity[Rule(a)], episode[a].status)
    BY DEF Normalized, Event, Timestamp
  <2>3. Level(severity[Rule(a)], episode[a].status) \in Nat
    BY Levels
  <2> HIDE DEF e
  <2> QED BY <2>1, <2>2, <2>3
<1>4. Judge!EventClock(e.ts, wall) = e.ts
  <2> HIDE DEF e
  <2> QED BY <1>2, <1>3 DEF Judge!EventClock
<1>5. StateOf(fp) \in Judge!State
  <2> HIDE DEF fp
  <2> QED BY Blobs DEF StateOf, TypeOK
<1>6. Len(log) + 1 \in Nat \ {0}
  BY DEF LogInv
<1>7. v = IF AtMinLevel(e, settings)
          THEN [action |-> r.action, fp |-> fp, state |-> r.state]
          ELSE [action |-> "drop", fp |-> <<>>, state |-> Judge!NoState]
  BY <1>4, Zenon DEF Verdict
<1>8. log' = Append(log, p) /\ Store(v, settings)
  BY <1>1
<1>9. w \in Nat \ {0}
  <2> HIDE DEF settings, fp
  <2> QED BY <1>2 DEF WindowOf, TypeOK, Valid
<1>10. w = WindowOf(fp, settings)
  OBVIOUS
<1> HIDE DEF settings, e, fp, v, w, r
<1>11. p.ts = e.ts /\ p.alert = a /\ p.settings = settings /\ p.action = v.action
      /\ p.fp = v.fp /\ p.id = v.state.id
  OBVIOUS
<1> HIDE DEF p
<1>12. CASE ~AtMinLevel(e, settings)
  <2>1. v.action = "drop" /\ v.state = Judge!NoState
    BY <1>7, <1>12
  <2>2. keyed' = keyed /\ windows' = windows
    BY <1>8, <2>1 DEF Store
  <2> QED BY <1>2, <1>3, <1>8, <1>11, <2>1, <2>2, Blobs
<1>13. CASE AtMinLevel(e, settings)
  <2>1. v.action = r.action /\ v.fp = fp /\ v.state = r.state
    BY <1>7, <1>13
  <2>2. Judged(p, StateOf(fp), w, r.state, Len(log) + 1)
    <3> DEFINE R == settings.refire
               st == StateOf(fp)
               id == Len(log) + 1
    <3>1. w \in Nat \ {0} /\ R \in Nat \ {0}
      BY <1>2, <1>9 DEF Valid
    <3>2. r = Dedup(w, R)!Transition(st, e, e.ts, id)
      BY DEF r
    <3>3. e.ts \in Nat /\ e.level \in Nat /\ st \in Judge!State /\ id \in Nat \ {0}
      BY <1>3, <1>5, <1>6
    <3> HIDE DEF R, st, id
    <3>4. Outcome(r, st, e, w, R, id)
      BY <3>1, <3>2, <3>3, TransitionResult
    <3>5. p.action = r.action /\ p.ts = e.ts /\ p.id = r.state.id /\ p.settings = settings
      BY <1>11, <2>1
    <3> QED BY <3>4, <3>5 DEF Judged, Outcome, R, st, id
  <2>3. v.action # "drop"
    BY <2>1, <2>2, <1>11 DEF Judged
  <2>4. keyed' = Put(keyed, p.fp, r.state) /\ windows' = Put(windows, p.fp, p.settings.window)
    BY <1>8, <1>11, <2>1, <2>3 DEF Store
  <2>5. p.fp = fp /\ p.ts \in 0 .. wall /\ p.alert \in Alert /\ Valid(p.settings)
    BY <1>2, <1>3, <1>11, <2>1
  <2>6. Judged(p, StateOf(p.fp), WindowOf(p.fp, p.settings), r.state, Len(log) + 1)
    BY <1>11, <1>10, <2>2, <2>5
  <2> QED BY <1>8, <2>4, <2>5, <2>6
<1> QED BY <1>12, <1>13

-----------------------------------------------------------------------------
(* The log with a post p appended, and the state it leaves *)

Grown(p, n) ==
    /\ n \in Nat \ {0} /\ DOMAIN log = 1 .. n - 1 /\ DOMAIN log' = 1 .. n
    /\ \A i \in 1 .. n - 1 : log'[i] = log[i]
    /\ log'[n] = p

Effect(p, new, n) ==
    /\ p.ts \in 0 .. wall /\ p.alert \in Alert /\ Valid(p.settings)
    /\ \/ p.action = "drop" /\ p.id = 0 /\ keyed' = keyed /\ windows' = windows
       \/ /\ Judged(p, StateOf(p.fp), WindowOf(p.fp, p.settings), new, n)
          /\ keyed' = Put(keyed, p.fp, new) /\ windows' = Put(windows, p.fp, p.settings.window)

LEMMA LogGrows ==
  ASSUME LogInv, NEW p, log' = Append(log, p)
  PROVE  /\ Grown(p, Len(log) + 1)
         /\ log' \in Seq({log'[i] : i \in DOMAIN log'})
<1> DEFINE S == {log[i] : i \in DOMAIN log}
<1>1. log \in Seq(S) /\ Len(log) \in Nat /\ DOMAIN log = 1 .. Len(log)
  BY DEF LogInv
<1> HIDE DEF S
<1>2. log \in Seq(S \cup {p}) /\ p \in S \cup {p}
  <2>1. \A i \in 1 .. Len(log) : log[i] \in S
    BY <1>1
  <2> QED BY <1>1, <2>1
<1>3. log' \in Seq(S \cup {p}) /\ Len(log') = Len(log) + 1 /\ DOMAIN log' = 1 .. Len(log) + 1
  BY <1>1, <1>2
<1>4. \A i \in 1 .. Len(log) : log'[i] = log[i]
  BY <1>1, <1>2
<1>5. log'[Len(log) + 1] = p
  BY <1>1, <1>2
<1>6. Grown(p, Len(log) + 1)
  BY <1>1, <1>3, <1>4, <1>5 DEF Grown
<1>7. S \cup {p} = {log'[i] : i \in DOMAIN log'}
  <2>1. \A i \in DOMAIN log' : IF i = Len(log) + 1 THEN log'[i] = p ELSE log'[i] = log[i] /\ i \in DOMAIN log
    BY <1>1, <1>3, <1>4, <1>5
  <2>2. \A i \in DOMAIN log : log[i] = log'[i] /\ i \in DOMAIN log'
    BY <1>1, <1>3, <1>4
  <2>3. p = log'[Len(log) + 1] /\ Len(log) + 1 \in DOMAIN log'
    BY <1>1, <1>3, <1>5
  <2> QED BY <2>1, <2>2, <2>3 DEF S
<1> QED BY <1>3, <1>6, <1>7

LEMMA PostEffect ==
  ASSUME TypeOK, LogInv, NEW a \in Alert, Post(a)
  PROVE  \E p, new, n : /\ Grown(p, n) /\ Effect(p, new, n)
                       /\ log' \in Seq({log'[i] : i \in DOMAIN log'})
<1>1. PICK p, new :
           /\ log' = Append(log, p)
           /\ p.ts \in 0 .. wall /\ p.alert \in Alert /\ Valid(p.settings)
           /\ \/ p.action = "drop" /\ p.id = 0 /\ keyed' = keyed /\ windows' = windows
              \/ /\ Judged(p, StateOf(p.fp), WindowOf(p.fp, p.settings), new, Len(log) + 1)
                 /\ keyed' = Put(keyed, p.fp, new) /\ windows' = Put(windows, p.fp, p.settings.window)
  BY PostResult
<1>2. Effect(p, new, Len(log) + 1)
  BY <1>1 DEF Effect, Put
<1>3. Grown(p, Len(log) + 1) /\ log' \in Seq({log'[i] : i \in DOMAIN log'})
  BY <1>1, LogGrows
<1> QED BY <1>2, <1>3

LEMMA PutFacts ==
  ASSUME NEW f, NEW fp, NEW x
  PROVE  /\ DOMAIN Put(f, fp, x) = DOMAIN f \cup {fp} /\ Put(f, fp, x)[fp] = x
         /\ \A g \in DOMAIN f : g # fp => Put(f, fp, x)[g] = f[g]
BY DEF Put

\* A post leaves alone what was logged before it.
LEMMA OldPosts ==
  ASSUME NEW p, NEW n, Grown(p, n)
  PROVE  \A i \in 1 .. n - 1 : /\ Announced(i)' <=> Announced(i)
                              /\ \A k \in 1 .. n - 1 : SameKey(i, k)' <=> SameKey(i, k)
BY DEF Grown, Announced, SameKey

LEMMA StateKept ==
  ASSUME TypeOK, LogInv, StateInv, NEW p, NEW new, NEW n, Grown(p, n), Effect(p, new, n)
  PROVE  StateInv'
<1> SUFFICES ASSUME NEW i \in 1 .. n, log'[i].action # "drop"
             PROVE  /\ log'[i].fp \in DOMAIN keyed'
                    /\ Undisturbed(i)' =>
                         /\ keyed'[log'[i].fp].last = log'[i].ts /\ keyed'[log'[i].fp].id = log'[i].id
                         /\ log'[i].ts - keyed'[log'[i].fp].emitted < log'[i].settings.refire
  BY DEF StateInv, Grown
<1>1. CASE i = n
  BY <1>1 DEF Grown, Effect, Put, Judged
<1>2. CASE i # n
  <2>1. i \in DOMAIN log /\ log'[i] = log[i] /\ log[i].action # "drop"
    BY <1>2 DEF Grown
  <2>2. log[i].fp \in DOMAIN keyed /\ log[i].fp \in DOMAIN keyed'
    BY <2>1 DEF StateInv, Effect, Put
  <2>3. ASSUME Undisturbed(i)'
        PROVE  /\ keyed'[log[i].fp].last = log[i].ts /\ keyed'[log[i].fp].id = log[i].id
               /\ log[i].ts - keyed'[log[i].fp].emitted < log[i].settings.refire
    <3>1. Undisturbed(i)
      BY <1>2, <2>1, <2>3, OldPosts DEF Undisturbed, Grown
    <3> DEFINE st == keyed[log[i].fp]
    <3>2. st.last = log[i].ts /\ st.id = log[i].id /\ log[i].ts - st.emitted < log[i].settings.refire
      BY <2>1, <3>1 DEF StateInv
    <3>3. CASE p.action = "drop" \/ p.fp # log[i].fp
      BY <2>2, <3>2, <3>3 DEF Effect, Put, Judged
    <3>4. CASE p.action # "drop" /\ p.fp = log[i].fp
      <4>1. p.ts = log[i].ts
        BY <1>2, <2>1, <2>3, <3>4 DEF Undisturbed, SameKey, Grown
      <4>2. StateOf(p.fp) = st /\ st # Judge!NoState
        BY <2>1, <2>2, <3>2, <3>4, Blobs DEF StateOf, LogInv
      <4>3. Judged(p, st, WindowOf(p.fp, p.settings), new, n) /\ keyed'[log[i].fp] = new
        BY <2>2, <3>4, <4>2 DEF Effect, Put
      <4>4. log[i].ts \in Nat /\ log[i].settings.refire \in Nat \ {0}
        BY <2>1 DEF LogInv, Valid
      <4>5. new.id = log[i].id /\ new.last = log[i].ts
        BY <3>2, <4>1, <4>2, <4>3 DEF Judged
      <4>6. log[i].ts - new.emitted < log[i].settings.refire
        BY <3>2, <4>1, <4>2, <4>3, <4>4 DEF Judged
      <4> QED BY <4>3, <4>5, <4>6
    <3> QED BY <3>3, <3>4
  <2> QED BY <2>1, <2>2, <2>3
<1> QED BY <1>1, <1>2

LEMMA EmittedKept ==
  ASSUME TypeOK, LogInv, EmittedInv, NEW p, NEW new, NEW n, Grown(p, n), Effect(p, new, n)
  PROVE  EmittedInv'
<1> SUFFICES ASSUME NEW fp \in DOMAIN keyed'
             PROVE  \E i \in 1 .. n : /\ log'[i].action \in {"new", "update"} /\ log'[i].fp = fp
                                     /\ log'[i].id = keyed'[fp].id /\ log'[i].ts = keyed'[fp].emitted
  BY DEF EmittedInv, Announced, Grown
<1>1. ASSUME fp \in DOMAIN keyed, keyed'[fp].id = keyed[fp].id, keyed'[fp].emitted = keyed[fp].emitted
      PROVE  \E i \in 1 .. n : /\ log'[i].action \in {"new", "update"} /\ log'[i].fp = fp
                              /\ log'[i].id = keyed'[fp].id /\ log'[i].ts = keyed'[fp].emitted
  <2>1. PICK i \in DOMAIN log : /\ Announced(i) /\ log[i].fp = fp
                                /\ log[i].id = keyed[fp].id /\ log[i].ts = keyed[fp].emitted
    BY <1>1 DEF EmittedInv
  <2>2. i \in 1 .. n /\ log'[i] = log[i]
    BY DEF Grown
  <2> QED BY <1>1, <2>1, <2>2 DEF Announced
<1>2. CASE p.action = "drop" \/ fp # p.fp
  BY <1>1, <1>2 DEF Effect, Put, Judged
<1>3. CASE p.action \in {"new", "update"} /\ fp = p.fp
  BY <1>3 DEF Effect, Put, Judged, Grown
<1>4. CASE p.action = "suppress" /\ fp = p.fp
  <2>1. Judged(p, StateOf(fp), WindowOf(fp, p.settings), new, n) /\ keyed'[fp] = new
    BY <1>4 DEF Effect, Put
  <2>2. fp \in DOMAIN keyed /\ StateOf(fp) = keyed[fp]
    BY <1>4, <2>1 DEF Judged, StateOf
  <2> QED BY <1>1, <1>4, <2>1, <2>2 DEF Judged
<1> QED BY <1>2, <1>3, <1>4 DEF Effect, Put, Judged

\* The blob a post leaves behind holds the post's window.
LEMMA LatestKept ==
  ASSUME TypeOK, LogInv, LatestInv, NEW p, NEW new, NEW n, Grown(p, n), Effect(p, new, n)
  PROVE  LatestInv'
<1> SUFFICES ASSUME NEW fp \in DOMAIN keyed'
             PROVE  \E i \in 1 .. n :
                       /\ log'[i].action # "drop" /\ log'[i].fp = fp
                       /\ \A k \in 1 .. n : k > i => log'[k].action = "drop" \/ log'[k].fp # fp
                       /\ log'[i].id = keyed'[fp].id /\ log'[i].ts = keyed'[fp].last
                       /\ log'[i].settings.window = windows'[fp]
  BY DEF LatestInv, Grown
<1>1. CASE p.action = "drop" \/ fp # p.fp
  <2>1. fp \in DOMAIN keyed /\ keyed'[fp] = keyed[fp] /\ DOMAIN windows = DOMAIN keyed
    BY <1>1 DEF Effect, Put, Judged, TypeOK
  <2>2. windows'[fp] = windows[fp]
    BY <1>1, <2>1 DEF Effect, Put, Judged
  <2>3. PICK i \in DOMAIN log :
           /\ log[i].action # "drop" /\ log[i].fp = fp
           /\ \A k \in DOMAIN log : k > i => log[k].action = "drop" \/ log[k].fp # fp
           /\ log[i].id = keyed[fp].id /\ log[i].ts = keyed[fp].last
           /\ log[i].settings.window = windows[fp]
    BY <2>1 DEF LatestInv
  <2>4. i \in 1 .. n /\ log'[i] = log[i]
    BY DEF Grown
  <2>5. \A k \in 1 .. n : k > i => log'[k].action = "drop" \/ log'[k].fp # fp
    BY <1>1, <2>3 DEF Grown
  <2> QED BY <2>1, <2>2, <2>3, <2>4, <2>5
<1>2. CASE p.action # "drop" /\ fp = p.fp
  <2>1. /\ new.id = p.id /\ new.last = p.ts
        /\ keyed'[fp] = new /\ windows'[fp] = p.settings.window
    BY <1>2, PutFacts DEF Effect, Put, Judged
  <2>2. log'[n] = p /\ n \in 1 .. n /\ \A k \in 1 .. n : ~(k > n)
    BY DEF Grown
  <2> QED BY <1>2, <2>1, <2>2
<1> QED BY <1>1, <1>2

LEMMA TypesKept ==
  ASSUME TypeOK, LogInv, NEW p, NEW new, NEW n, Grown(p, n), Effect(p, new, n),
         log' \in Seq({log'[i] : i \in DOMAIN log'}),
         UNCHANGED <<config, severity, wall, episode>>
  PROVE  TypeOK' /\ LogInv'
<1>1. ASSUME NEW fp \in DOMAIN keyed'
      PROVE  /\ keyed'[fp] \in Judge!State
             /\ \E i \in 1 .. n : log'[i].action = "new" /\ log'[i].id = keyed'[fp].id /\ log'[i].fp = fp
  <2>1. ASSUME fp \in DOMAIN keyed, keyed'[fp].id = keyed[fp].id
        PROVE  \E i \in 1 .. n : log'[i].action = "new" /\ log'[i].id = keyed'[fp].id /\ log'[i].fp = fp
    <3>1. PICK i \in DOMAIN log : log[i].action = "new" /\ log[i].id = keyed[fp].id /\ log[i].fp = fp
      BY <2>1 DEF TypeOK
    <3>2. i \in 1 .. n /\ log'[i] = log[i]
      BY DEF Grown
    <3> QED BY <2>1, <3>1, <3>2
  <2>2. CASE p.action = "drop" \/ fp # p.fp
    <3>1. fp \in DOMAIN keyed /\ keyed'[fp] = keyed[fp]
      BY <2>2 DEF Effect, Put, Judged
    <3> QED BY <2>1, <3>1 DEF TypeOK
  <2>3. CASE p.action = "new" /\ fp = p.fp
    BY <2>3 DEF Effect, Put, Judged, Grown
  <2>4. CASE p.action \in {"update", "suppress"} /\ fp = p.fp
    <3>1. Judged(p, StateOf(fp), WindowOf(fp, p.settings), new, n) /\ keyed'[fp] = new
      BY <2>4 DEF Effect, Put
    <3>2. fp \in DOMAIN keyed /\ StateOf(fp) = keyed[fp]
      BY <2>4, <3>1 DEF Judged, StateOf
    <3> QED BY <2>1, <2>4, <3>1, <3>2 DEF Judged
  <2> QED BY <2>2, <2>3, <2>4 DEF Effect, Put, Judged
<1>2. wall' = wall /\ wall \in Nat
  BY DEF TypeOK
<1>3. ASSUME NEW i \in 1 .. n
      PROVE  /\ log'[i].action \in Judge!Action \cup {"drop"} /\ log'[i].ts <= wall
             /\ log'[i].ts \in Nat /\ log'[i].id \in Nat /\ log'[i].alert \in Alert
             /\ log'[i].action # "drop" => log'[i].id # 0
             /\ Valid(log'[i].settings)
  <2>1. CASE i = n
    <3>1. p.id \in Nat /\ (p.action # "drop" => p.id # 0)
      <4>1. CASE p.action = "drop"
        BY <4>1 DEF Effect, Put, Judged
      <4>2. CASE p.action = "new"
        BY <4>2 DEF Effect, Put, Judged, Grown
      <4>3. CASE p.action \in {"update", "suppress"}
        <5>1. p.fp \in DOMAIN keyed /\ p.id = keyed[p.fp].id
          BY <4>3 DEF Effect, Put, Judged, StateOf
        <5>2. PICK k \in DOMAIN log : log[k].action = "new" /\ log[k].id = keyed[p.fp].id
          BY <5>1 DEF TypeOK
        <5> QED BY <5>1, <5>2 DEF LogInv
      <4> QED BY <4>1, <4>2, <4>3 DEF Effect, Put, Judged
    <3>2. p.action \in Judge!Action \cup {"drop"} /\ p.ts <= wall /\ p.ts \in Nat
      BY <1>2 DEF Effect, Put, Judged, Judge!Action
    <3> QED BY <2>1, <3>1, <3>2 DEF Effect, Put, Grown
  <2>2. CASE i # n
    <3>1. i \in DOMAIN log /\ log'[i] = log[i]
      BY <2>2 DEF Grown
    <3> QED BY <3>1 DEF TypeOK, LogInv
  <2> QED BY <2>1, <2>2
<1>4. DOMAIN log' = 1 .. n
  BY DEF Grown
<1>5. windows' \in [DOMAIN keyed' -> Nat \ {0}]
  <2>1. CASE p.action = "drop"
    BY <2>1 DEF Effect, Put, Judged, TypeOK
  <2>2. CASE p.action # "drop"
    <3>1. p.settings.window \in Nat \ {0}
      BY DEF Effect, Put, Valid
    <3> QED BY <2>2, <3>1 DEF Effect, Put, TypeOK
  <2> QED BY <2>1, <2>2
<1>6. TypeOK'
  <2>1. \A fp \in DOMAIN keyed' :
           /\ keyed'[fp] \in Judge!State
           /\ \E i \in DOMAIN log' : log'[i].action = "new" /\ log'[i].id = keyed'[fp].id /\ log'[i].fp = fp
    BY <1>1, <1>4
  <2>2. \A i \in DOMAIN log' : log'[i].action \in Judge!Action \cup {"drop"} /\ log'[i].ts <= wall'
    BY <1>2, <1>3, <1>4
  <2>3. /\ config' \in Configs /\ severity' \in [Rules -> Severities]' /\ wall' \in 0 .. MaxWall
        /\ episode' \in [Alert -> [status : {"quiet", "firing", "resolved"}, since : 0 .. wall']]
    BY DEF TypeOK, Rules
  <2> QED BY <1>5, <2>1, <2>2, <2>3 DEF TypeOK
<1>7. LogInv'
  BY <1>3, <1>4 DEF LogInv
<1> QED BY <1>6, <1>7

LEMMA QuietKept ==
  ASSUME TypeOK, LogInv, StateInv, RepeatsStayQuiet,
         NEW p, NEW new, NEW n, Grown(p, n), Effect(p, new, n)
  PROVE  RepeatsStayQuiet'
<1> SUFFICES ASSUME NEW i \in 1 .. n, NEW j \in 1 .. n, i < j, SameKey(i, j)',
                    log'[i].ts = log'[j].ts, log'[i].settings.refire <= log'[j].settings.refire,
                    Announced(j)' \/ log'[i].id # log'[j].id
             PROVE  \E k \in i + 1 .. j - 1 : SameKey(i, k)' /\ log'[k].ts # log'[i].ts
  BY DEF RepeatsStayQuiet, Grown
<1>1. i \in 1 .. n - 1 /\ i \in DOMAIN log /\ log'[i] = log[i]
  BY DEF Grown
<1>2. \A k \in i + 1 .. j - 1 : k \in DOMAIN log /\ log'[k] = log[k] /\ (SameKey(i, k)' <=> SameKey(i, k))
  BY <1>1 DEF Grown, SameKey
<1>3. CASE j # n
  <2>1. j \in DOMAIN log /\ log'[j] = log[j]
    BY <1>3 DEF Grown
  <2>2. SameKey(i, j) /\ (Announced(j) \/ log[i].id # log[j].id)
    BY <1>1, <2>1 DEF SameKey, Announced
  <2>3. log[i].ts = log[j].ts /\ log[i].settings.refire <= log[j].settings.refire
    BY <1>1, <2>1
  <2>4. \E k \in i + 1 .. j - 1 : SameKey(i, k) /\ log[k].ts # log[i].ts
    BY <1>1, <2>1, <2>2, <2>3 DEF RepeatsStayQuiet
  <2> QED BY <1>1, <1>2, <2>4
<1>4. CASE j = n
  <2>1. SUFFICES ASSUME \A k \in i + 1 .. n - 1 : SameKey(i, k) => log[k].ts = log[i].ts
                 PROVE  FALSE
    BY <1>1, <1>2, <1>4
  <2>2. Undisturbed(i)
    BY <2>1, <1>1 DEF Undisturbed, Grown
  <2> DEFINE st == keyed[log[i].fp]
  <2>3. p.action # "drop" /\ log[i].action # "drop" /\ p.fp = log[i].fp
    BY <1>1, <1>4 DEF SameKey, Grown
  <2>4. /\ log[i].fp \in DOMAIN keyed
        /\ st.last = log[i].ts /\ st.id = log[i].id /\ log[i].ts - st.emitted < log[i].settings.refire
    BY <1>1, <2>2, <2>3 DEF StateInv
  <2>5. st # Judge!NoState /\ StateOf(p.fp) = st
    BY <1>1, <2>3, <2>4, Blobs DEF LogInv, StateOf
  <2>6. Judged(p, st, WindowOf(p.fp, p.settings), new, n)
    BY <2>3, <2>5 DEF Effect, Put
  <2>7. p.ts = log[i].ts /\ log[i].settings.refire <= p.settings.refire
    BY <1>1, <1>4 DEF Grown
  <2>8. st.emitted \in Int /\ log[i].ts \in Nat /\ log[i].settings.refire \in Nat /\ p.settings.refire \in Nat
    BY <1>1, <2>4, Blobs DEF TypeOK, LogInv, Effect, Put, Valid
  <2>9. p.ts - st.emitted < p.settings.refire
    BY <2>4, <2>7, <2>8
  <2>10. p.action = "suppress" /\ p.id = log[i].id
    BY <2>4, <2>5, <2>6, <2>7, <2>9 DEF Judged
  <2> QED BY <1>1, <1>4, <2>10 DEF Grown, Announced
<1> QED BY <1>3, <1>4

LEMMA SuppressedKept ==
  ASSUME TypeOK, LogInv, EmittedInv, LatestInv, SuppressedExplained,
         NEW p, NEW new, NEW n, Grown(p, n), Effect(p, new, n)
  PROVE  SuppressedExplained'
<1> SUFFICES ASSUME NEW j \in 1 .. n, log'[j].action = "suppress"
             PROVE  /\ \E i \in 1 .. j - 1 :
                          /\ SameKey(i, j)' /\ Announced(i)' /\ log'[i].id = log'[j].id
                          /\ log'[j].ts - log'[i].ts < log'[j].settings.refire
                    /\ \E i \in 1 .. j - 1 :
                          /\ Last(i, j)' /\ log'[i].id = log'[j].id
                          /\ log'[j].ts - log'[i].ts <= log'[i].settings.window
  BY DEF SuppressedExplained, Grown, Last
<1>1. CASE j # n
  <2>1. /\ j \in DOMAIN log /\ log'[j] = log[j]
        /\ \A i \in 1 .. j - 1 : log'[i] = log[i]
    BY <1>1 DEF Grown
  <2>2. PICK i \in 1 .. j - 1 :
           /\ SameKey(i, j) /\ Announced(i) /\ log[i].id = log[j].id
           /\ log[j].ts - log[i].ts < log[j].settings.refire
    BY <2>1 DEF SuppressedExplained
  <2>3. PICK h \in 1 .. j - 1 :
           /\ Last(h, j) /\ log[h].id = log[j].id
           /\ log[j].ts - log[h].ts <= log[h].settings.window
    BY <2>1 DEF SuppressedExplained
  <2>4. \A k \in h + 1 .. j - 1 : k \in 1 .. j - 1
    BY <2>3
  <2>5. Last(h, j)'
    BY <2>1, <2>3, <2>4 DEF Last, SameKey
  <2> QED BY <2>1, <2>2, <2>3, <2>5 DEF SameKey, Announced
<1>2. CASE j = n
  <2>1. p.action = "suppress" /\ log'[n] = p
    BY <1>2 DEF Grown
  <2>2. p.fp \in DOMAIN keyed /\ Judged(p, keyed[p.fp], windows[p.fp], new, n)
    BY <2>1 DEF Effect, Put, Judged, StateOf, WindowOf, TypeOK
  <2>3. PICK i \in DOMAIN log : /\ Announced(i) /\ log[i].fp = p.fp
                                /\ log[i].id = keyed[p.fp].id /\ log[i].ts = keyed[p.fp].emitted
    BY <2>2 DEF EmittedInv
  <2>4. i \in 1 .. n - 1 /\ log'[i] = log[i]
    BY DEF Grown
  <2>5. p.id = log[i].id /\ p.ts - log[i].ts < p.settings.refire
    BY <2>1, <2>2, <2>3 DEF Judged
  <2>6. PICK h \in DOMAIN log :
           /\ log[h].action # "drop" /\ log[h].fp = p.fp
           /\ \A k \in DOMAIN log : k > h => log[k].action = "drop" \/ log[k].fp # p.fp
           /\ log[h].id = keyed[p.fp].id /\ log[h].ts = keyed[p.fp].last
           /\ log[h].settings.window = windows[p.fp]
    BY <2>2 DEF LatestInv
  <2>7. h \in 1 .. n - 1 /\ log'[h] = log[h]
    BY DEF Grown
  <2>8. \A k \in h + 1 .. n - 1 : k \in DOMAIN log /\ k > h /\ log'[k] = log[k]
    BY <2>7 DEF Grown
  <2>9. Last(h, n)'
    BY <2>1, <2>6, <2>7, <2>8 DEF Last, SameKey
  <2>10. p.id = log[h].id /\ p.ts - log[h].ts <= log[h].settings.window
    BY <2>1, <2>2, <2>6 DEF Judged
  <2>11. /\ SameKey(i, n)' /\ Announced(i)' /\ log'[i].id = log'[n].id
         /\ log'[n].ts - log'[i].ts < log'[n].settings.refire
    BY <2>1, <2>3, <2>4, <2>5 DEF SameKey, Announced
  <2> QED BY <1>2, <2>1, <2>4, <2>7, <2>9, <2>10, <2>11
<1> QED BY <1>1, <1>2

-----------------------------------------------------------------------------
(* The invariant *)

LEMMA InvInit == Init => IInv
<1> SUFFICES ASSUME Init PROVE IInv
  OBVIOUS
<1>1. /\ DOMAIN keyed = {} /\ windows \in [DOMAIN keyed -> Nat \ {0}]
      /\ log = <<>> /\ DOMAIN log = {} /\ Len(log) = 0
  BY DEF Init
<1>2. TypeOK
  BY <1>1, GrafanaAssumption DEF TypeOK, Init
<1>3. LogInv
  BY <1>1 DEF LogInv
<1>4. StateInv /\ EmittedInv /\ LatestInv /\ RepeatsStayQuiet /\ SuppressedExplained
  BY <1>1 DEF StateInv, EmittedInv, LatestInv, RepeatsStayQuiet, SuppressedExplained
<1> QED BY <1>2, <1>3, <1>4 DEF IInv

\* Neither Grafana nor the clock touches log and state.
LEMMA InvElsewhere ==
  ASSUME IInv, UNCHANGED <<keyed, windows, log>>, TypeOK'
  PROVE  IInv'
<1> USE DEF IInv
<1>1. keyed' = keyed /\ windows' = windows /\ log' = log
  OBVIOUS
<1>2. \A i : Announced(i)' <=> Announced(i)
  BY <1>1 DEF Announced
<1>3. \A i, k : SameKey(i, k)' <=> SameKey(i, k)
  BY <1>1 DEF SameKey
<1>4. \A i, k : Last(i, k)' <=> Last(i, k)
  BY <1>3 DEF Last
<1>5. LogInv'
  BY <1>1 DEF LogInv
<1>6. StateInv'
  BY <1>1, <1>3 DEF StateInv, Undisturbed
<1>7. EmittedInv'
  BY <1>1, <1>2 DEF EmittedInv
<1>8. LatestInv'
  BY <1>1 DEF LatestInv
<1>9. RepeatsStayQuiet'
  BY <1>1, <1>2, <1>3 DEF RepeatsStayQuiet
<1>10. SuppressedExplained'
  BY <1>1, <1>2, <1>3, <1>4 DEF SuppressedExplained
<1> QED BY <1>5, <1>6, <1>7, <1>8, <1>9, <1>10

LEMMA InvStep == IInv /\ [Next]_vars => IInv'
<1> SUFFICES ASSUME IInv, [Next]_vars PROVE IInv'
  OBVIOUS
<1>1. ASSUME NEW a \in Alert, Post(a)
      PROVE  IInv'
  <2>1. PICK p, new, n : /\ Grown(p, n) /\ Effect(p, new, n)
                         /\ log' \in Seq({log'[i] : i \in DOMAIN log'})
    BY <1>1, PostEffect DEF IInv
  <2>2. UNCHANGED <<config, severity, wall, episode>>
    BY <1>1 DEF Post
  <2>3. TypeOK' /\ LogInv'
    BY <2>1, <2>2, TypesKept DEF IInv
  <2>4. StateInv'
    BY <2>1, StateKept DEF IInv
  <2>5. EmittedInv' /\ LatestInv'
    BY <2>1, EmittedKept, LatestKept DEF IInv
  <2>6. RepeatsStayQuiet'
    BY <2>1, QuietKept DEF IInv
  <2>7. SuppressedExplained'
    BY <2>1, SuppressedKept DEF IInv
  <2> QED BY <2>3, <2>4, <2>5, <2>6, <2>7 DEF IInv
<1>2. ASSUME NEW a \in Alert, Start(a)
      PROVE  IInv'
  <2>1. episode' \in [Alert -> [status : {"quiet", "firing", "resolved"}, since : 0 .. wall]]
    BY <1>2 DEF IInv, TypeOK, Start
  <2>2. TypeOK'
    BY <1>2, <2>1 DEF IInv, TypeOK, Start, Rules
  <2> QED BY <1>2, <2>2, InvElsewhere DEF Start
<1>3. ASSUME NEW a \in Alert, Resolve(a)
      PROVE  IInv'
  <2>1. episode' \in [Alert -> [status : {"quiet", "firing", "resolved"}, since : 0 .. wall]]
    BY <1>3 DEF IInv, TypeOK, Resolve
  <2>2. TypeOK'
    BY <1>3, <2>1 DEF IInv, TypeOK, Resolve, Rules
  <2> QED BY <1>3, <2>2, InvElsewhere DEF Resolve
<1>4. CASE Tick
  <2>1. wall' \in 0 .. MaxWall /\ wall \in Nat /\ wall' = wall + 1
    BY <1>4, GrafanaAssumption DEF IInv, TypeOK, Tick
  <2>2. 0 .. wall \subseteq 0 .. wall'
    BY <2>1
  <2>3. episode' \in [Alert -> [status : {"quiet", "firing", "resolved"}, since : 0 .. wall']]
    BY <1>4, <2>2 DEF IInv, TypeOK, Tick
  <2>4. \A i \in DOMAIN log : log[i].ts <= wall'
    BY <2>1 DEF IInv, TypeOK, LogInv
  <2>5. TypeOK'
    BY <1>4, <2>1, <2>3, <2>4 DEF IInv, TypeOK, Tick, Rules
  <2> QED BY <1>4, <2>5, InvElsewhere DEF Tick
<1>5. CASE UNCHANGED vars
  <2>1. TypeOK'
    BY <1>5 DEF IInv, TypeOK, vars, Rules
  <2> QED BY <1>5, <2>1, InvElsewhere DEF vars
<1> QED BY <1>1, <1>2, <1>3, <1>4, <1>5 DEF Next, Full

\* The inductive invariant holds in every reachable state.
THEOREM GrafanaInvariant == Spec => []IInv
BY InvInit, InvStep, PTL DEF Spec

\* Type correctness of posts and keyed state.
THEOREM GrafanaTypes == Spec => []TypeOK
<1>1. IInv => TypeOK
  BY DEF IInv
<1> QED BY <1>1, GrafanaInvariant, PTL

\* Repeats of an episode stay quiet unless their fingerprint is disturbed by a
\* post of another start.
THEOREM EpisodesStayQuiet == Spec => []RepeatsStayQuiet
<1>1. IInv => RepeatsStayQuiet
  BY DEF IInv
<1> QED BY <1>1, GrafanaInvariant, PTL

\* Every suppressed post follows a recent announcement of its incident.
THEOREM SuppressionsExplained == Spec => []SuppressedExplained
<1>1. IInv => SuppressedExplained
  BY DEF IInv
<1> QED BY <1>1, GrafanaInvariant, PTL
-----------------------------------------------------------------------------
(* What a logged post was *)

LEMMA PostRecorded ==
  ASSUME LogInv, NEW a \in Alert, Post(a)
  PROVE  \E p : \E reading \in Reading :
           /\ log' = Append(log, p)
           /\ LET e == Event(p.alert, p.status, p.ts, reading) IN
              IF AtMinLevel(e, p.settings)
              THEN p.action # "drop" /\ p.fp = Fingerprint(e, p.settings.dedup_fields)
              ELSE p.action = "drop"
<1> DEFINE settings == ResolveFor(config, a)
<1>1. PICK reading \in Reading :
        LET e == Normalized(a, reading)
            v == Verdict(e, settings)
        IN log' = Append(log, [alert |-> a, status |-> episode[a].status, ts |-> e.ts,
                               action |-> v.action, fp |-> v.fp, id |-> v.state.id,
                               settings |-> settings])
  BY DEF Post
<1> DEFINE e == Normalized(a, reading)
           v == Verdict(e, settings)
           p == [alert |-> a, status |-> episode[a].status, ts |-> e.ts,
                 action |-> v.action, fp |-> v.fp, id |-> v.state.id, settings |-> settings]
<1>2. e = Event(a, episode[a].status, e.ts, reading)
  BY DEF Normalized, Event
<1>3. IF AtMinLevel(e, settings)
      THEN v.action \in {"new", "suppress", "update"} /\ v.fp = Fingerprint(e, settings.dedup_fields)
      ELSE v.action = "drop"
  <2> DEFINE clock == Judge!EventClock(e.ts, wall)
             judged == Dedup(WindowOf(Fingerprint(e, settings.dedup_fields), settings), settings.refire)!
                         Transition(StateOf(Fingerprint(e, settings.dedup_fields)), e, clock, Len(log) + 1)
  <2>1. judged.action \in {"new", "suppress", "update"}
    <3> HIDE DEF e, settings, clock
    <3> QED BY Zenon DEF Dedup!Transition
  <2>2. v = IF AtMinLevel(e, settings)
            THEN [action |-> judged.action, fp |-> Fingerprint(e, settings.dedup_fields),
                  state |-> judged.state]
            ELSE [action |-> "drop", fp |-> <<>>, state |-> Judge!NoState]
    BY Zenon DEF Verdict
  <2> HIDE DEF e, v, settings, judged, clock
  <2> QED BY <2>1, <2>2
<1> HIDE DEF e, v, settings
<1>4. /\ p.alert = a /\ p.status = episode[a].status /\ p.ts = e.ts /\ p.settings = settings
      /\ p.action = v.action /\ p.fp = v.fp
  OBVIOUS
<1>5. log' = Append(log, p)
  BY <1>1 DEF e, v, settings
<1> HIDE DEF p
<1>6. Event(p.alert, p.status, p.ts, reading) = e
  BY <1>2, <1>4
<1>7. IF AtMinLevel(e, p.settings)
      THEN p.action # "drop" /\ p.fp = Fingerprint(e, p.settings.dedup_fields)
      ELSE p.action = "drop"
  BY <1>3, <1>4
<1> QED BY <1>5, <1>6, <1>7

LEMMA PostedStep == LogInv /\ PostedInv /\ [Next]_vars => PostedInv'
<1> SUFFICES ASSUME LogInv, PostedInv, [Next]_vars PROVE PostedInv'
  OBVIOUS
<1>1. severity' = severity
  BY DEF Next, Start, Resolve, Tick, Full, Post, vars
<1>2. \A a, status, ts, reading : Event(a, status, ts, reading)' = Event(a, status, ts, reading)
  BY <1>1 DEF Event, Labels
<1>3. CASE UNCHANGED log
  BY <1>2, <1>3 DEF PostedInv
<1>4. ASSUME NEW a \in Alert, Post(a) PROVE PostedInv'
  <2>1. PICK p : \E reading \in Reading :
           /\ log' = Append(log, p)
           /\ LET e == Event(p.alert, p.status, p.ts, reading) IN
              IF AtMinLevel(e, p.settings)
              THEN p.action # "drop" /\ p.fp = Fingerprint(e, p.settings.dedup_fields)
              ELSE p.action = "drop"
    BY <1>4, PostRecorded
  <2>2. PICK n : Grown(p, n)
    BY <2>1, LogGrows
  <2> SUFFICES ASSUME NEW i \in 1 .. n
               PROVE  \E r \in Reading :
                        LET e == Event(log'[i].alert, log'[i].status, log'[i].ts, r) IN
                        IF AtMinLevel(e, log'[i].settings)
                        THEN /\ log'[i].action # "drop"
                             /\ log'[i].fp = Fingerprint(e, log'[i].settings.dedup_fields)
                        ELSE log'[i].action = "drop"
    BY <1>2, <2>2 DEF PostedInv, Grown
  <2>3. CASE i = n
    BY <2>1, <2>2, <2>3 DEF Grown
  <2>4. CASE i # n
    <3>1. i \in DOMAIN log /\ log'[i] = log[i]
      BY <2>2, <2>4 DEF Grown
    <3> QED BY <3>1 DEF PostedInv
  <2> QED BY <2>3, <2>4
<1> QED BY <1>3, <1>4 DEF Next, Start, Resolve, Tick, Full, vars

\* Every logged post was judged by its own level and keyed by its own fields.
THEOREM PostsRecorded == Spec => []PostedInv
<1>1. Init => PostedInv
  BY DEF Init, PostedInv
<1>2. IInv => LogInv
  BY DEF IInv
<1> QED BY <1>1, <1>2, PostedStep, GrafanaInvariant, PTL DEF Spec

\* Equal fingerprints agree on the names and the values of their fields.
LEMMA FingerprintsAgree ==
  ASSUME NEW e, NEW f, NEW G, NEW H, Fingerprint(e, G) = Fingerprint(f, H)
  PROVE  DOMAIN G = DOMAIN H /\ \A n \in DOMAIN G : G[n] = H[n] /\ e[G[n]] = f[G[n]]
<1>1. DOMAIN Fingerprint(e, G) = DOMAIN G /\ DOMAIN Fingerprint(f, H) = DOMAIN H
  BY DEF Fingerprint
<1>2. ASSUME NEW n \in DOMAIN G PROVE G[n] = H[n] /\ e[G[n]] = f[G[n]]
  <2>1. Fingerprint(e, G)[n] = <<G[n], e[G[n]]>> /\ Fingerprint(f, H)[n] = <<H[n], f[H[n]]>>
    BY <1>1, <1>2 DEF Fingerprint
  <2> QED BY <2>1
<1> QED BY <1>1, <1>2

\* With labels or message among the fields, or the level where no severity is
\* known, a resolved alert never shares the fingerprint of its firing.
LEMMA Joins == PostedInv => ResolvedJoins
<1> SUFFICES ASSUME PostedInv, NEW i \in DOMAIN log, NEW j \in DOMAIN log, SameKey(i, j),
                    log[i].alert = log[j].alert, log[i].status = "firing",
                    log[j].status = "resolved"
             PROVE  /\ FieldsOf(i) \cap {"labels", "message"} = {}
                    /\ "level" \in FieldsOf(i) => severity[Rule(log[i].alert)] \in DOMAIN KnownLevel
  BY DEF ResolvedJoins
<1> DEFINE a == log[i].alert
           F == log[i].settings.dedup_fields
<1>1. PICK x : log[i].fp = Fingerprint(Event(a, "firing", log[i].ts, x), F)
  BY DEF PostedInv, SameKey
<1>2. PICK y : log[j].fp = Fingerprint(Event(a, "resolved", log[j].ts, y), log[j].settings.dedup_fields)
  BY DEF PostedInv, SameKey
<1> DEFINE e == Event(a, "firing", log[i].ts, x)
           f == Event(a, "resolved", log[j].ts, y)
<1>3. \A n \in DOMAIN F : e[F[n]] = f[F[n]]
  <2> DEFINE H == log[j].settings.dedup_fields
  <2>1. Fingerprint(e, F) = Fingerprint(f, H)
    BY <1>1, <1>2 DEF SameKey
  <2> HIDE DEF e, f, F, H
  <2> QED BY <2>1, FingerprintsAgree
<1>4. e["labels"] # f["labels"] /\ e["message"] # f["message"]
  BY DEF Event, Labels, Message
<1>5. severity[Rule(a)] \notin DOMAIN KnownLevel => e["level"] # f["level"]
  <2>1. /\ e["level"] = Level(severity[Rule(a)], "firing")
        /\ f["level"] = Level(severity[Rule(a)], "resolved")
    BY DEF Event
  <2> HIDE DEF e, f
  <2> QED BY <2>1 DEF Level, KnownLevel
<1> HIDE DEF e, f
<1> QED BY <1>3, <1>4, <1>5 DEF FieldsOf

\* A resolved alert joins its firing's incident only under a key that cannot
\* tell the two apart.
THEOREM ResolvedAlertsJoin == Spec => []ResolvedJoins
BY Joins, PostsRecorded, PTL

LEMMA Mild == IInv /\ PostedInv => DropsAreMild
<1> SUFFICES ASSUME IInv, PostedInv, NEW i \in DOMAIN log, log[i].action = "drop",
                    log[i].status = "firing", severity[Rule(log[i].alert)] # "fatal"
             PROVE  /\ severity[Rule(log[i].alert)] # "none"
                    /\ SchemaLevel(severity[Rule(log[i].alert)]) < log[i].settings.min_level
  BY DEF DropsAreMild
<1> DEFINE label == severity[Rule(log[i].alert)]
           least == log[i].settings.min_level
<1>1. least \in {10, 20, 30, 40, 50}
  BY DEF IInv, LogInv, Valid
<1>2. ~(Level(label, "firing") >= least)
  BY DEF PostedInv, AtMinLevel, Event
<1> HIDE DEF label, least
<1>3. \/ label = "debug" /\ Level(label, "firing") = 10
      \/ label = "info" /\ Level(label, "firing") = 20
      \/ label \in {"warn", "warning"} /\ Level(label, "firing") = 30
      \/ label \in {"error", "high"} /\ Level(label, "firing") = 40
      \/ label \in {"critical", "none"} /\ Level(label, "firing") = 50
      \/ /\ label \notin {"debug", "info", "warn", "warning", "error", "high", "critical", "none"}
         /\ Level(label, "firing") = 40
  BY DEF Level, KnownLevel
<1>4. label # "none" /\ (label # "fatal" => SchemaLevel(label) < least)
  BY <1>1, <1>2, <1>3 DEF SchemaLevel
<1> QED BY <1>4 DEF label, least

\* A firing alert is dropped only if every other source would drop it, or if
\* it is labelled fatal.
THEOREM DropsMild == Spec => []DropsAreMild
BY Mild, GrafanaInvariant, PostsRecorded, PTL
=============================================================================
