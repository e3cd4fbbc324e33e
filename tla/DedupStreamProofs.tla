-------------------------- MODULE DedupStreamProofs --------------------------
(* Theorems about DedupStream, for any number of messages, crashes and        *)
(* checkpoints and every window, refire interval and skew.                    *)
EXTENDS DedupStream, TLAPS

-----------------------------------------------------------------------------
(* The transition *)

LEMMA StateFacts ==
  /\ NoState \in State
  /\ \A s \in State : /\ s.id \in Nat /\ s.first \in Int /\ s.last \in Int /\ s.count \in Nat
                      /\ s.emitted \in Int /\ s.level \in Nat
BY DEF State, NoState, NoId

\* The three outcomes of apply_dedup_transition: a fresh incident, or the old
\* one with one event more and the worse of the two levels.
LEMMA TransitionResult ==
  ASSUME NEW s \in State, NEW e \in Message, NEW clock \in Int, NEW id \in Nat
  PROVE  LET r == Transition(s, e, clock, id) IN
         /\ r.action \in Action /\ r.state \in State
         /\ r.action = "new" => r.state.count = 1 /\ r.state.level = e.level
         /\ r.action # "new" => /\ s # NoState /\ r.state.count = s.count + 1
                                /\ r.state.level = WorseLevel(s.level, e.level)
<1> DEFINE r == Transition(s, e, clock, id)
<1>1. e.ts \in Int /\ e.level \in Nat
  BY DEF Message
<1>2. /\ Opened(e, clock, id) \in State
      /\ Opened(e, clock, id).count = 1 /\ Opened(e, clock, id).level = e.level
  BY <1>1 DEF Opened, State
<1>3. WorseLevel(s.level, e.level) \in Nat
  BY <1>1, StateFacts DEF WorseLevel
<1>4. /\ Merged(s, e) \in State
      /\ Merged(s, e).count = s.count + 1
      /\ Merged(s, e).level = WorseLevel(s.level, e.level)
  <2>1. s.count + 1 \in Nat
    BY StateFacts
  <2>2. Merged(s, e) = [s EXCEPT !.count = s.count + 1, !.last = e.ts,
                                 !.level = WorseLevel(s.level, e.level)]
    BY DEF Merged
  <2> QED BY <1>1, <1>3, <2>1, <2>2 DEF State
<1>5. /\ [Merged(s, e) EXCEPT !.emitted = clock] \in State
      /\ [Merged(s, e) EXCEPT !.emitted = clock].count = s.count + 1
      /\ [Merged(s, e) EXCEPT !.emitted = clock].level = WorseLevel(s.level, e.level)
  BY <1>4 DEF State
<1>6. CASE s = NoState \/ WindowExpired(s, clock)
  BY <1>2, <1>6 DEF Transition, Action
<1>7. CASE s # NoState /\ ~WindowExpired(s, clock) /\ TooSoon(s, clock)
  BY <1>4, <1>7 DEF Transition, Action
<1>8. CASE s # NoState /\ ~WindowExpired(s, clock) /\ ~TooSoon(s, clock)
  BY <1>5, <1>8 DEF Transition, Action
<1> QED BY <1>6, <1>7, <1>8

-----------------------------------------------------------------------------
(* Types *)

LEMMA ParsedType ==
  ASSUME NEW e \in Message, wall \in Nat
  PROVE  Parsed(e) \in Message
BY DEF Parsed, Message

LEMMA RewoundType ==
  ASSUME TypeOK, Rewound, dlq' \in {dlq \cup S : S \in SUBSET dlqBuf}, crashes' \in Nat
  PROVE  TypeOK'
<1>1. Nothing \in Emitted
  BY DEF Nothing, Emitted, NoId
<1>2. /\ saved.src \in Nat \ {0} /\ saved.part \in Nat \ {0} /\ saved.st \in State /\ saved.opened \in Nat
      /\ dlq' \subseteq Nat
  BY DEF TypeOK
<1>3. dlqBuf' \subseteq Nat /\ refused' \subseteq Nat /\ lost' \subseteq Nat
  BY DEF TypeOK, Rewound, RecordsGone
<1> QED BY <1>1, <1>2, <1>3 DEF TypeOK, Rewound, topicVars, histVars

LEMMA DedupType ==
  ASSUME TypeOK, Dedup
  PROVE  TypeOK'
<1> DEFINE e == part[partPos]
           clock == EventClock(e.ts, wall)
           r == Transition(st, e, clock, nextId)
<1>1. partPos \in 1..Len(part) /\ e \in Message
  BY DEF Dedup, TypeOK
<1>2. e.ts \in Nat /\ clock \in Int
  BY <1>1 DEF EventClock, Message, TypeOK
<1>3. r.action \in Action /\ r.state \in State
  BY <1>1, <1>2, TransitionResult DEF TypeOK
<1> HIDE DEF e, clock, r
<1>4. st' \in State /\ opened' \in Nat /\ nextId' \in Nat \ {0} /\ partPos' \in Nat \ {0}
  BY <1>1, <1>3 DEF Dedup, TypeOK, Stored, e, clock, r
<1>5. pending' \in Emitted
  <2>1. Nothing \in Emitted
    BY DEF Nothing, Emitted, NoId
  <2>2. pending' = Nothing \/ pending' = [action |-> r.action, msg |-> partPos, id |-> r.state.id,
                                          clock |-> clock, level |-> r.state.level]
    BY DEF Dedup, e, clock, r
  <2>3. r.state.id \in Nat /\ r.state.level \in Nat
    BY <1>3, StateFacts
  <2> QED BY <1>1, <1>2, <1>3, <2>1, <2>2, <2>3 DEF Emitted
<1>6. decided' \in [1..MaxPart -> Action \cup {None}]
  <2>1. decided' = decided \/ decided' = [decided EXCEPT ![partPos] = r.action]
    BY DEF Dedup, e, clock, r
  <2> QED BY <1>3, <2>1 DEF TypeOK
<1>7. redecided' \subseteq Nat /\ clamped' \subseteq Nat
  BY <1>1 DEF Dedup, TypeOK
<1> QED BY <1>4, <1>5, <1>6, <1>7 DEF Dedup, TypeOK, topicVars, dlqVars

\* The record of a garbled message is buffered or refused.
LEMMA EnrichDlq ==
  ASSUME Enrich, ~Raises(source[srcPos])
  PROVE  /\ dlqBuf \subseteq dlqBuf' /\ dlqBuf' \subseteq dlqBuf \cup {srcPos}
         /\ refused \subseteq refused' /\ refused' \subseteq refused \cup {srcPos}
         /\ source[srcPos].kind = "garbage" => srcPos \in dlqBuf' \cup refused'
<1> DEFINE e == source[srcPos]
<1>1. IF e.kind = "garbage" THEN Buffers(srcPos) \/ Refuses(srcPos) ELSE UNCHANGED <<dlqBuf, refused>>
  BY Zenon DEF Enrich
<1> QED BY <1>1 DEF Buffers, Refuses

LEMMA NextType == TypeOK /\ [Next]_vars => TypeOK'
<1> SUFFICES ASSUME TypeOK, [Next]_vars PROVE TypeOK'
  OBVIOUS
<1> USE DEF topicVars, stateVars, dlqVars, histVars
<1>1. CASE UNCHANGED vars
  BY <1>1 DEF vars, TypeOK
<1>2. CASE Tick
  BY <1>2 DEF Tick, TypeOK
<1>3. CASE Produce
  <2>1. PICK k \in Kinds, t \in Times, l \in Levels :
           source' = Append(source, [kind |-> k, ts |-> t, level |-> l])
    BY <1>3 DEF Produce
  <2>2. [kind |-> k, ts |-> t, level |-> l] \in Message
    BY StreamAssumption DEF Message, Times
  <2>3. source' \in Seq(Message)
    BY <2>1, <2>2 DEF TypeOK
  <2> QED BY <1>3, <2>3 DEF Produce, TypeOK
<1>4. CASE Enrich
  <2> DEFINE e == source[srcPos]
  <2>1. e \in Message
    BY <1>4 DEF Enrich, TypeOK
  <2>2. CASE Raises(e)
    <3>1. Rewound /\ UNCHANGED crashes /\ dlq' \in {dlq \cup S : S \in SUBSET dlqBuf}
      BY <1>4, <2>2, Zenon DEF Enrich, Stopped
    <3>2. crashes' \in Nat
      BY <3>1 DEF TypeOK
    <3> QED BY <3>1, <3>2, RewoundType
  <2>3. CASE ~Raises(e)
    <3>1. /\ srcPos' = srcPos + 1
          /\ part' = IF Kept(e) THEN Append(part, Parsed(e)) ELSE part
          /\ UNCHANGED <<wall, source, partPos, st, opened, pending, sunk, dlq, lost, saved, nextId,
                         histVars>>
          /\ UNCHANGED crashes
      BY <1>4, <2>3, Zenon DEF Enrich
    <3>3. dlqBuf' \subseteq dlqBuf \cup {srcPos} /\ refused' \subseteq refused \cup {srcPos}
      BY <1>4, <2>3, EnrichDlq
    <3>2. part' \in Seq(Message)
      BY <2>1, <3>1, ParsedType DEF TypeOK
    <3> QED BY <3>1, <3>2, <3>3 DEF TypeOK
  <2> QED BY <2>2, <2>3
<1>5. CASE Dedup
  BY <1>5, DedupType
<1>6. CASE Sink
  <2>1. Nothing \in Emitted
    BY DEF Nothing, Emitted, NoId
  <2> QED BY <1>6, <2>1 DEF Sink, TypeOK
<1>7. CASE SinkRaises
  <2>1. Rewound /\ crashes' = crashes + 1 /\ dlq' \in {dlq \cup S : S \in SUBSET dlqBuf}
    BY <1>7 DEF SinkRaises, SinkError, Stopped
  <2>2. crashes' \in Nat
    BY <2>1 DEF TypeOK
  <2> QED BY <2>1, <2>2, RewoundType
<1>8. ASSUME NEW m \in dlqBuf, DlqDelivers(m) \/ DlqExpires(m) PROVE TypeOK'
  BY <1>8 DEF DlqDelivers, DlqExpires, TypeOK
<1>9. CASE Checkpoint
  BY <1>9 DEF Checkpoint, Snapshot, TypeOK
<1>10. CASE Crash
  <2>1. crashes' \in Nat
    BY <1>10 DEF Crash, TypeOK
  <2>2. dlq' \in {dlq \cup S : S \in SUBSET dlqBuf}
    <3>1. dlq' = dlq \cup {}
      BY <1>10 DEF Crash
    <3> QED BY <3>1
  <2> QED BY <1>10, <2>1, <2>2, RewoundType DEF Crash
<1> QED BY <1>1, <1>2, <1>3, <1>4, <1>5, <1>6, <1>7, <1>8, <1>9, <1>10 DEF Next

-----------------------------------------------------------------------------
(* The summary *)

\* The repartition topic only grows.
LEMMA TopicGrows ==
  ASSUME TypeOK, [Next]_vars
  PROVE  Len(part) <= Len(part') /\ \A m \in 1..Len(part) : part'[m] = part[m]
<1>1. CASE UNCHANGED part
  BY <1>1 DEF TypeOK
<1>2. CASE Enrich
  <2> DEFINE e == source[srcPos]
  <2>1. CASE Raises(e)
    <3>1. Rewound
      BY <1>2, <2>1, Zenon DEF Enrich, Stopped
    <3> QED BY <1>1, <3>1 DEF Rewound, topicVars
  <2>2. CASE ~Raises(e)
    <3>1. part' = IF Kept(e) THEN Append(part, Parsed(e)) ELSE part
      BY <1>2, <2>2, Zenon DEF Enrich
    <3>2. part \in Seq(Message) /\ Parsed(e) \in Message
      BY <1>2, ParsedType DEF Enrich, TypeOK
    <3> QED BY <3>1, <3>2
  <2> QED BY <2>1, <2>2
<1> QED
  BY <1>1, <1>2
  DEF Next, vars, topicVars, Tick, Produce, Dedup, Sink, SinkRaises, SinkError, Stopped, Rewound,
      DlqDelivers, DlqExpires, Checkpoint, Crash

\* A summary of a prefix survives the growth of the topic.
LEMMA SummaryStays ==
  ASSUME NEW old \in Seq(Message), NEW new \in Seq(Message),
         \A m \in 1..Len(old) : new[m] = old[m],
         NEW s \in State, NEW from \in Nat, NEW to \in Nat, to <= Len(old) + 1,
         Summarises(old, s, from, to)
  PROVE  Summarises(new, s, from, to)
<1> SUFFICES ASSUME s # NoState PROVE Summarises(new, s, from, to)
  BY DEF Summarises
<1>1. from \in 1..(to - 1) /\ Len(old) \in Nat
  BY DEF Summarises
<1>2. \A m \in from..(to - 1) : m \in 1..Len(old)
  BY <1>1
<1> QED BY <1>1, <1>2 DEF Summarises

\* One more message, and the state still summarises its incident.
LEMMA DedupSummary ==
  ASSUME IInv, Dedup
  PROVE  Summarises(part, st', opened', partPos')
<1> DEFINE e == part[partPos]
           clock == EventClock(e.ts, wall)
           r == Transition(st, e, clock, nextId)
<1>1. /\ partPos \in 1..Len(part) /\ e \in Message /\ e.level \in Nat /\ clock \in Int
      /\ opened \in Nat /\ st \in State /\ st.level \in Nat /\ st.count \in Nat
  <2>1. partPos \in 1..Len(part) /\ e \in Message
    BY DEF IInv, TypeOK, Dedup
  <2>2. e.ts \in Nat /\ e.level \in Nat
    BY <2>1 DEF Message
  <2>3. clock \in Int
    BY <2>2 DEF EventClock, IInv, TypeOK
  <2> QED BY <2>1, <2>2, <2>3, StateFacts DEF IInv, TypeOK
<1>2. /\ r.action = "new" => r.state.count = 1 /\ r.state.level = e.level
      /\ r.action # "new" => /\ st # NoState /\ r.state.count = st.count + 1
                             /\ r.state.level = WorseLevel(st.level, e.level)
  BY <1>1, TransitionResult DEF IInv, TypeOK
<1>3. st' = r.state /\ partPos' = partPos + 1
      /\ opened' = IF r.action = "new" THEN partPos ELSE opened
  BY DEF Dedup, Stored
<1>4. CASE r.action = "new"
  <2>1. opened' = partPos /\ st'.count = 1 /\ st'.level = part[partPos].level
    BY <1>2, <1>3, <1>4
  <2>2. partPos' = partPos + 1 /\ partPos \in Nat /\ partPos >= 1
    BY <1>1, <1>3
  <2>3. opened'..(partPos' - 1) = {partPos}
    BY <2>1, <2>2
  <2>4. opened' \in 1..(partPos' - 1) /\ st'.count = partPos' - opened'
    BY <2>1, <2>2
  <2>5. part[partPos].level <= st'.level
    BY <1>1, <2>1
  <2> QED BY <2>1, <2>3, <2>4, <2>5 DEF Summarises
<1>5. CASE r.action # "new"
  <2>1. /\ opened' = opened /\ st # NoState /\ st'.count = st.count + 1
        /\ st'.level = WorseLevel(st.level, part[partPos].level)
    BY <1>2, <1>3, <1>5
  <2>2. /\ opened \in 1..(partPos - 1) /\ st.count = partPos - opened
        /\ \A m \in opened..(partPos - 1) : part[m].level <= st.level
        /\ \E m \in opened..(partPos - 1) : part[m].level = st.level
    BY <2>1 DEF IInv, Summarises
  <2>3. ASSUME NEW m \in opened..partPos
        PROVE  part[m].level <= st'.level
    <3>1. part[m] \in Message /\ part[m].level \in Nat
      <4>1. m \in 1..Len(part) /\ part \in Seq(Message)
        BY <1>1, <2>2 DEF IInv, TypeOK
      <4>2. part[m] \in Message
        BY <4>1
      <4> QED BY <4>2 DEF Message
    <3>2. CASE m = partPos
      BY <1>1, <2>1, <3>2 DEF WorseLevel
    <3>3. CASE m # partPos
      <4>1. part[m].level <= st.level
        BY <1>1, <2>2, <3>3
      <4> QED BY <1>1, <2>1, <3>1, <4>1 DEF WorseLevel
    <3> QED BY <3>2, <3>3
  <2>4. \E m \in opened..partPos : part[m].level = st'.level
    <3>1. PICK k \in opened..(partPos - 1) : part[k].level = st.level
      BY <2>2
    <3>2. k \in opened..partPos /\ partPos \in opened..partPos
      BY <1>1, <2>2, <3>1
    <3>3. st'.level = part[k].level \/ st'.level = part[partPos].level
      BY <2>1, <3>1 DEF WorseLevel
    <3> QED BY <3>2, <3>3
  <2> QED BY <1>1, <1>3, <2>1, <2>2, <2>3, <2>4 DEF Summarises
<1> QED BY <1>4, <1>5

LEMMA NextIInv == IInv /\ [Next]_vars => IInv'
<1> SUFFICES ASSUME IInv, [Next]_vars PROVE IInv'
  OBVIOUS
<1>1. TypeOK /\ TypeOK'
  BY NextType DEF IInv
<1>2. /\ Len(part) \in Nat /\ Len(part') \in Nat /\ Len(part) <= Len(part')
      /\ \A m \in 1..Len(part) : part'[m] = part[m]
  <2>1. part \in Seq(Message) /\ part' \in Seq(Message)
    BY <1>1 DEF TypeOK
  <2>2. Len(part) \in Nat /\ Len(part') \in Nat
    BY <2>1
  <2> QED BY <1>1, <2>2, TopicGrows
<1>3. /\ partPos <= Len(part') + 1 /\ Summarises(part', st, opened, partPos)
      /\ saved.part <= Len(part') + 1 /\ Summarises(part', saved.st, saved.opened, saved.part)
  <2>1. /\ partPos \in Nat /\ st \in State /\ opened \in Nat
        /\ saved.part \in Nat /\ saved.st \in State /\ saved.opened \in Nat
        /\ part \in Seq(Message) /\ part' \in Seq(Message)
    BY <1>1 DEF TypeOK
  <2> QED BY <1>2, <2>1, SummaryStays DEF IInv
<1>4. CASE UNCHANGED <<st, opened, partPos, saved>>
  BY <1>1, <1>3, <1>4 DEF IInv
<1>5. CASE Dedup
  <2>1. UNCHANGED <<part, saved>> /\ partPos' = partPos + 1 /\ partPos <= Len(part)
    BY <1>5 DEF Dedup, topicVars
  <2>2. Summarises(part', st', opened', partPos')
    BY <1>5, <2>1, DedupSummary
  <2>3. partPos' <= Len(part') + 1
    BY <1>1, <1>2, <2>1 DEF TypeOK
  <2> QED BY <1>1, <1>3, <2>1, <2>2, <2>3 DEF IInv
<1>6. CASE Rewound
  <2>1. partPos' = saved.part /\ st' = saved.st /\ opened' = saved.opened /\ saved' = saved
    BY <1>6 DEF Rewound
  <2> QED BY <1>1, <1>3, <2>1 DEF IInv
<1>7. CASE Checkpoint
  <2>1. /\ saved'.part = partPos /\ saved'.st = st /\ saved'.opened = opened
        /\ UNCHANGED <<st, opened, partPos>>
    BY <1>7 DEF Checkpoint, Snapshot, stateVars
  <2> QED BY <1>1, <1>3, <2>1 DEF IInv
<1>8. Enrich => Rewound \/ UNCHANGED <<st, opened, partPos, saved>>
  <2> DEFINE e == source[srcPos]
  <2>1. Enrich /\ Raises(e) => Rewound
    BY Zenon DEF Enrich, Stopped
  <2>2. Enrich /\ ~Raises(e) => UNCHANGED <<wall, source, partPos, st, opened, pending, sunk, dlq,
                                            saved, nextId, histVars>>
    BY Zenon DEF Enrich
  <2> QED BY <2>1, <2>2
<1> QED
  BY <1>4, <1>5, <1>6, <1>7, <1>8
  DEF Next, vars, stateVars, Tick, Produce, Sink, SinkRaises, SinkError, Stopped,
      DlqDelivers, DlqExpires, Crash

LEMMA InitIInv == Init => IInv
<1> SUFFICES ASSUME Init PROVE IInv
  OBVIOUS
<1>1. /\ part = <<>> /\ partPos = 1 /\ st = NoState /\ opened = 0
      /\ saved = [src |-> 1, part |-> 1, st |-> NoState, opened |-> 0]
  BY DEF Init, Snapshot
<1>2. Nothing \in Emitted
  BY DEF Nothing, Emitted, NoId
<1>3. TypeOK
  BY <1>1, <1>2, StateFacts DEF Init, TypeOK
<1>4. \A s, from, to : s = NoState => Summarises(part, s, from, to)
  BY DEF Summarises
<1> QED BY <1>1, <1>3, <1>4 DEF IInv

\* State and checkpoint summarise their incident for any number of messages,
\* crashes, restarts and checkpoints.
THEOREM StreamInvariant == Spec => []IInv
<1> QED BY InitIInv, NextIInv, PTL DEF Spec

\* Every variable of the stream keeps its type.
THEOREM StreamTypes == Spec => []TypeOK
<1>1. IInv => TypeOK
  BY DEF IInv
<1> QED BY <1>1, StreamInvariant, PTL

\* Each event of an incident is counted once, however often it is replayed
\* (store_incident before the sink, state and offsets committed together).
THEOREM EventsCountOnce == Spec => []CountsEveryEvent
<1>1. IInv => CountsEveryEvent
  BY DEF IInv, Summarises, CountsEveryEvent
<1> QED BY <1>1, StreamInvariant, PTL

\* An incident has the worst severity of its events (merge_severity).
THEOREM WorstSeverity == Spec => []SeverityIsWorst
<1>1. IInv => SeverityIsWorst
  BY DEF IInv, Summarises, SeverityIsWorst
<1> QED BY <1>1, StreamInvariant, PTL

-----------------------------------------------------------------------------
(* What cannot be parsed *)

GarbageInv ==
    /\ saved.src <= srcPos /\ srcPos <= Len(source) + 1
    /\ GarbageKept

\* Messages keep their place in the source topic.
LEMMA SourceGrows ==
  ASSUME TypeOK, TypeOK', [Next]_vars
  PROVE  /\ Len(source) \in Nat /\ Len(source') \in Nat /\ Len(source) <= Len(source')
         /\ \A m \in 1..Len(source) : source'[m] = source[m]
<1>1. source \in Seq(Message) /\ Len(source) \in Nat /\ Len(source') \in Nat
  BY DEF TypeOK
<1>2. CASE Produce
  <2>1. PICK k \in Kinds, t \in Times, l \in Levels :
           source' = Append(source, [kind |-> k, ts |-> t, level |-> l])
    BY <1>2 DEF Produce
  <2>2. [kind |-> k, ts |-> t, level |-> l] \in Message
    BY StreamAssumption DEF Message, Times
  <2> QED BY <1>1, <2>1, <2>2
<1>3. CASE UNCHANGED source
  BY <1>1, <1>3
<1>4. Enrich => UNCHANGED source
  <2> DEFINE e == source[srcPos]
  <2>1. Enrich /\ Raises(e) => UNCHANGED source
    BY Zenon DEF Enrich, Stopped, Rewound, topicVars
  <2>2. Enrich /\ ~Raises(e) => UNCHANGED source
    BY Zenon DEF Enrich
  <2> QED BY <2>1, <2>2
<1> QED
  BY <1>2, <1>3, <1>4
  DEF Next, vars, topicVars, Tick, Dedup, Sink, SinkRaises, SinkError, Stopped, Rewound,
      DlqDelivers, DlqExpires, Checkpoint, Crash

\* After a restart every message read so far is a committed one, and a record
\* that was in the buffer, refused or given up is remembered as lost.
LEMMA GarbageRewound ==
  ASSUME TypeOK, GarbageInv, Rewound, dlq \subseteq dlq', UNCHANGED source
  PROVE  GarbageInv'
<1>1. /\ srcPos' = saved.src /\ saved' = saved /\ saved.src \in Nat /\ srcPos \in Nat
      /\ lost' = lost \cup dlqBuf \cup refused
  BY DEF Rewound, RecordsGone, TypeOK
<1>2. ASSUME NEW m \in 1..(srcPos' - 1), source[m].kind = "garbage"
      PROVE  m \in dlq' \/ (m \in lost' /\ m < saved'.src)
  <2>1. m \in 1..(srcPos - 1) /\ m < saved'.src
    BY <1>1 DEF GarbageInv
  <2> QED BY <1>1, <1>2, <2>1 DEF GarbageInv, GarbageKept
<1> QED BY <1>1, <1>2 DEF GarbageInv, GarbageKept, TypeOK

LEMMA GarbageStep ==
  ASSUME TypeOK, TypeOK', GarbageInv, [Next]_vars
  PROVE  GarbageInv'
<1>1. /\ Len(source) \in Nat /\ Len(source') \in Nat /\ Len(source) <= Len(source')
      /\ \A m \in 1..Len(source) : source'[m] = source[m]
  BY SourceGrows
<1>2. srcPos \in Nat \ {0} /\ saved.src \in Nat \ {0} /\ srcPos <= Len(source) + 1
      /\ DOMAIN source = 1..Len(source) /\ DOMAIN source' = 1..Len(source')
  BY DEF TypeOK, GarbageInv
<1>5. CASE Enrich
  <2> DEFINE e == source[srcPos]
  <2>1. CASE Raises(e)
    <3>1. Rewound /\ dlq \subseteq dlq' /\ UNCHANGED source
      <4>1. Stopped
        BY <1>5, <2>1, Zenon DEF Enrich
      <4> QED BY <4>1 DEF Stopped, Rewound, topicVars
    <3> QED BY <3>1, GarbageRewound
  <2>2. CASE ~Raises(e)
    <3>1. srcPos' = srcPos + 1 /\ UNCHANGED <<source, saved, dlq, lost>>
      BY <1>5, <2>2, Zenon DEF Enrich
    <3>2. /\ dlqBuf \subseteq dlqBuf' /\ refused \subseteq refused'
          /\ e.kind = "garbage" => srcPos \in dlqBuf' \cup refused'
      BY <1>5, <2>2, EnrichDlq
    <3>3. ASSUME NEW m \in 1..(srcPos' - 1), source[m].kind = "garbage"
          PROVE  m \in dlq' \cup dlqBuf' \cup refused' \/ (m \in lost /\ m < saved.src)
      <4>1. CASE m = srcPos
        BY <3>2, <3>3, <4>1
      <4>2. CASE m # srcPos
        <5>1. m \in 1..(srcPos - 1)
          BY <1>2, <3>1, <4>2
        <5> QED BY <3>1, <3>2, <3>3, <5>1 DEF GarbageInv, GarbageKept
      <4> QED BY <4>1, <4>2
    <3>4. saved'.src <= srcPos' /\ srcPos' <= Len(source') + 1
      BY <1>1, <1>2, <1>5, <3>1 DEF Enrich, GarbageInv
    <3> QED BY <3>1, <3>3, <3>4 DEF GarbageInv, GarbageKept
  <2> QED BY <2>1, <2>2
<1>6. CASE SinkRaises \/ Crash
  <2>1. Rewound /\ dlq \subseteq dlq'
    BY <1>6 DEF SinkRaises, SinkError, Stopped, Crash
  <2>2. UNCHANGED source
    BY <2>1 DEF Rewound, topicVars
  <2> QED BY <2>1, <2>2, GarbageRewound
<1>7. CASE Checkpoint
  <2>1. saved'.src = srcPos /\ UNCHANGED <<srcPos, dlq, dlqBuf, refused, lost, source>>
    BY <1>7 DEF Checkpoint, Snapshot, stateVars, dlqVars, topicVars
  <2>2. ASSUME NEW m \in 1..(srcPos - 1), source[m].kind = "garbage"
        PROVE  m \in dlq \cup dlqBuf \cup refused \/ (m \in lost /\ m < srcPos)
    BY <1>2, <2>2 DEF GarbageInv, GarbageKept
  <2> QED BY <1>2, <2>1, <2>2 DEF GarbageInv, GarbageKept
<1>8. ASSUME UNCHANGED <<srcPos, saved, lost>>,
             dlq \cup dlqBuf \cup refused \subseteq dlq' \cup dlqBuf' \cup refused',
             srcPos - 1 <= Len(source)
      PROVE  GarbageInv'
  <2>1. ASSUME NEW m \in 1..(srcPos - 1), source'[m].kind = "garbage"
        PROVE  m \in dlq' \cup dlqBuf' \cup refused' \/ (m \in lost /\ m < saved.src)
    <3>1. source[m].kind = "garbage"
      BY <1>1, <1>2, <1>8, <2>1
    <3> QED BY <1>8, <3>1 DEF GarbageInv, GarbageKept
  <2> QED BY <1>1, <1>2, <1>8, <2>1 DEF GarbageInv, GarbageKept
<1>9. srcPos - 1 <= Len(source)
  BY <1>1, <1>2
<1>10. CASE Tick \/ Produce \/ Dedup \/ Sink \/ UNCHANGED vars
  <2>1. UNCHANGED <<srcPos, saved, lost, dlq, dlqBuf, refused>>
    BY <1>10 DEF Tick, Produce, Dedup, Sink, vars, stateVars, dlqVars
  <2> QED BY <1>8, <1>9, <2>1
<1>11. ASSUME NEW n \in dlqBuf, DlqDelivers(n) \/ DlqExpires(n) PROVE GarbageInv'
  <2>1. UNCHANGED <<srcPos, saved, lost>>
    BY <1>11 DEF DlqDelivers, DlqExpires, stateVars
  <2>2. dlq \cup dlqBuf \cup refused \subseteq dlq' \cup dlqBuf' \cup refused'
    BY <1>11 DEF DlqDelivers, DlqExpires
  <2> QED BY <1>8, <1>9, <2>1, <2>2
<1> QED BY <1>5, <1>6, <1>7, <1>10, <1>11 DEF Next

\* A garbled message is lost to the DLQ only between its commit and its
\* delivery, for any number of messages, crashes and checkpoints.
THEOREM GarbageReachesDlq == Spec => []GarbageKept
<1>1. Init => GarbageInv
  BY DEF Init, Snapshot, GarbageInv, GarbageKept
<1>2. IInv /\ GarbageInv /\ [Next]_vars => GarbageInv'
  BY NextIInv, GarbageStep DEF IInv
<1>3. GarbageInv => GarbageKept
  BY DEF GarbageInv
<1> QED BY <1>1, <1>2, <1>3, StreamInvariant, PTL DEF Spec
-----------------------------------------------------------------------------
(* What is decided *)

Act == Transition(st, part[partPos], EventClock(part[partPos].ts, wall), nextId).action

\* The action of the transition follows from the two intervals, and the state
\* keeps the event's own timestamp and, unless suppressed, the clock.
LEMMA TransitionFields ==
  ASSUME NEW s \in State, NEW e \in Message, NEW clock \in Int, NEW id \in Nat
  PROVE  LET r == Transition(s, e, clock, id) IN
         /\ r.action = "new" <=> s = NoState \/ WindowExpired(s, clock)
         /\ r.action # "new" => (r.action = "suppress" <=> TooSoon(s, clock))
         /\ r.state # NoState /\ r.state.last = e.ts
         /\ r.state.id = IF r.action = "new" THEN id ELSE s.id
         /\ r.state.emitted = IF r.action = "suppress" THEN s.emitted ELSE clock
<1> DEFINE r == Transition(s, e, clock, id)
<1>1. /\ Opened(e, clock, id).last = e.ts /\ Opened(e, clock, id).id = id
      /\ Opened(e, clock, id).emitted = clock
  BY DEF Opened
<1>2. /\ Merged(s, e).last = e.ts /\ Merged(s, e).id = s.id /\ Merged(s, e).emitted = s.emitted
      /\ [Merged(s, e) EXCEPT !.emitted = clock].last = e.ts
      /\ [Merged(s, e) EXCEPT !.emitted = clock].id = s.id
      /\ [Merged(s, e) EXCEPT !.emitted = clock].emitted = clock
  BY DEF Merged, State
<1>3. r.state.count # 0
  <2>1. r.action \in Action /\ (r.action = "new" => r.state.count = 1)
        /\ (r.action # "new" => r.state.count = s.count + 1)
    BY TransitionResult
  <2> QED BY <2>1, StateFacts
<1>4. r.state # NoState
  BY <1>3 DEF NoState
<1>5. CASE s = NoState \/ WindowExpired(s, clock)
  BY <1>1, <1>4, <1>5 DEF Transition
<1>6. CASE ~(s = NoState \/ WindowExpired(s, clock)) /\ TooSoon(s, clock)
  BY <1>2, <1>4, <1>6 DEF Transition
<1>7. CASE ~(s = NoState \/ WindowExpired(s, clock)) /\ ~TooSoon(s, clock)
  BY <1>2, <1>4, <1>7 DEF Transition
<1> QED BY <1>5, <1>6, <1>7

\* What a step of Dedup writes, in terms of its decision.
LEMMA DedupWrites ==
  ASSUME IInv, Dedup
  PROVE  /\ Act \in Action /\ partPos \in 1..Len(part) /\ partPos' = partPos + 1
         /\ part[partPos] \in Message /\ pending = Nothing
         /\ Act = "new" <=> st = NoState \/ WindowExpired(st, EventClock(part[partPos].ts, wall))
         /\ Act # "new" => (Act = "suppress" <=> TooSoon(st, EventClock(part[partPos].ts, wall)))
         /\ st' # NoState /\ st'.last = part[partPos].ts
         /\ st'.id = IF Act = "new" THEN nextId ELSE st.id
         /\ st'.emitted = IF Act = "suppress" THEN st.emitted ELSE EventClock(part[partPos].ts, wall)
         /\ opened' = IF Act = "new" THEN partPos ELSE opened
         /\ nextId' = IF Act = "new" THEN nextId + 1 ELSE nextId
         /\ Act = "suppress" => pending' = Nothing
         /\ Act # "suppress" => /\ pending'.msg = partPos /\ pending'.id = st'.id
                                /\ pending'.clock = EventClock(part[partPos].ts, wall)
         /\ decided' = IF decided[partPos] = None
                       THEN [decided EXCEPT ![partPos] = Act] ELSE decided
         /\ redecided' = IF decided[partPos] \in {None, Act}
                         THEN redecided ELSE redecided \cup {partPos}
         /\ clamped' = IF part[partPos].ts > wall + Skew THEN clamped \cup {partPos} ELSE clamped
         /\ UNCHANGED <<part, saved, sunk>>
<1> DEFINE e == part[partPos]
           clock == EventClock(e.ts, wall)
           r == Transition(st, e, clock, nextId)
<1>1. partPos \in 1..Len(part) /\ e \in Message
  BY DEF Dedup, IInv, TypeOK
<1>2. clock \in Int /\ st \in State /\ nextId \in Nat
  BY <1>1 DEF EventClock, Message, IInv, TypeOK
<1>3. r.action \in Action
  BY <1>1, <1>2, TransitionResult
<1>4. /\ r.action = "new" <=> st = NoState \/ WindowExpired(st, clock)
      /\ r.action # "new" => (r.action = "suppress" <=> TooSoon(st, clock))
      /\ r.state # NoState /\ r.state.last = e.ts
      /\ r.state.id = IF r.action = "new" THEN nextId ELSE st.id
      /\ r.state.emitted = IF r.action = "suppress" THEN st.emitted ELSE clock
  BY <1>1, <1>2, TransitionFields
<1>5. st' = r.state /\ r.action = Act
  BY DEF Dedup, Stored, Act
<1>6. pending' = IF r.action = "suppress" THEN Nothing
                 ELSE [action |-> r.action, msg |-> partPos, id |-> r.state.id,
                       clock |-> clock, level |-> r.state.level]
  BY DEF Dedup
<1>7. /\ Act = "suppress" => pending' = Nothing
      /\ Act # "suppress" => pending'.msg = partPos /\ pending'.id = st'.id /\ pending'.clock = clock
  BY <1>5, <1>6
<1> QED BY <1>1, <1>3, <1>4, <1>5, <1>7 DEF Dedup, topicVars

\* A message has one last announcement before it.
LEMMA OneLast ==
  ASSUME NEW pos \in Nat, NEW k \in Nat, NEW l \in Nat, LastEmission(k, pos), LastEmission(l, pos)
  PROVE  k = l
<1>1. k \in 1..(pos - 1) /\ l \in 1..(pos - 1) /\ decided[k] # "suppress" /\ decided[l] # "suppress"
  BY DEF LastEmission, Emitting
<1>2. ~(k < l) /\ ~(l < k)
  BY <1>1 DEF LastEmission
<1> QED BY <1>1, <1>2

\* The decision of a step, in terms of the topic and of earlier decisions.
LEMMA DedupDecides ==
  ASSUME IInv, HistoryInv, Dedup
  PROVE  /\ partPos = 1 => Act = "new"
         /\ partPos > 1 /\ partPos \notin clamped' =>
               (Act = "new" <=> part[partPos].ts - part[partPos - 1].ts > Window)
         /\ (\A c \in clamped' : partPos < c) /\ Act # "new" =>
               \E k \in 1..(partPos - 1) :
                   /\ LastEmission(k, partPos) /\ st.emitted = part[k].ts
                   /\ Act = "suppress" <=> part[partPos].ts - part[k].ts < Refire
<1> DEFINE e == part[partPos]
<1>1. /\ partPos \in 1..Len(part) /\ e.ts \in Nat /\ wall + Skew \in Nat
      /\ Act = "new" <=> st = NoState \/ WindowExpired(st, EventClock(e.ts, wall))
      /\ Act # "new" => (Act = "suppress" <=> TooSoon(st, EventClock(e.ts, wall)))
      /\ clamped' = IF e.ts > wall + Skew THEN clamped \cup {partPos} ELSE clamped
  <2>1. e \in Message /\ wall \in Nat
    BY DedupWrites DEF IInv, TypeOK
  <2>2. e.ts \in Nat /\ wall + Skew \in Nat
    BY <2>1, DedupAssumption DEF Message
  <2> QED BY <2>2, DedupWrites
<1>2. st = NoState <=> partPos = 1
  BY DEF HistoryInv, Remembers
<1>3. partPos \notin clamped' => EventClock(e.ts, wall) = e.ts
  BY <1>1 DEF EventClock
<1>4. partPos > 1 => st.last = part[partPos - 1].ts
  BY DEF HistoryInv, Remembers
<1>5. ASSUME \A c \in clamped' : partPos < c, Act # "new"
      PROVE  \E k \in 1..(partPos - 1) :
                   /\ LastEmission(k, partPos) /\ st.emitted = part[k].ts
                   /\ Act = "suppress" <=> e.ts - part[k].ts < Refire
  <2>1. partPos > 1 /\ partPos \notin clamped'
    BY <1>1, <1>2, <1>5
  <2>2. \A c \in clamped : partPos - 1 < c
    <3>1. \A c \in clamped : c \in Nat
      BY DEF IInv, TypeOK
    <3> QED BY <1>1, <1>5, <3>1
  <2>3. PICK k \in 1..(partPos - 1) : LastEmission(k, partPos) /\ st.emitted = part[k].ts
    BY <2>1, <2>2 DEF HistoryInv, Remembers, Sure
  <2> QED BY <1>1, <1>3, <1>5, <2>1, <2>3 DEF TooSoon
<1>6. ASSUME partPos > 1, partPos \notin clamped'
      PROVE  Act = "new" <=> e.ts - part[partPos - 1].ts > Window
  BY <1>1, <1>2, <1>3, <1>4, <1>6 DEF WindowExpired
<1> QED BY <1>1, <1>2, <1>5, <1>6

\* A message that was never judged by the wall clock, nor one before it, is
\* decided as it was.
LEMMA DedupAgrees ==
  ASSUME IInv, HistoryInv, Dedup, \A c \in clamped' : partPos < c
  PROVE  decided[partPos] \in {None, Act} /\ decided'[partPos] = Act
<1>1. /\ partPos \in 1..Len(part) /\ Act \in Action /\ Len(part) \in Nat
      /\ decided' = IF decided[partPos] = None
                    THEN [decided EXCEPT ![partPos] = Act] ELSE decided
      /\ clamped \subseteq clamped'
  BY DedupWrites DEF IInv, TypeOK
<1>2. partPos \in 1..MaxPart /\ decided \in [1..MaxPart -> Action \cup {None}]
  BY <1>1, StreamAssumption DEF HistoryInv, IInv, TypeOK
<1>3. SUFFICES ASSUME decided[partPos] # None PROVE decided[partPos] = Act
  BY <1>1, <1>2
<1>4. /\ Ruled(partPos) /\ decided[partPos] \in Action
      /\ Sure(partPos) /\ partPos \notin clamped /\ partPos \notin clamped'
  <2>1. Ruled(partPos) /\ decided[partPos] \in Action
    BY <1>2, <1>3 DEF HistoryInv
  <2>2. Sure(partPos)
    BY <1>1 DEF Sure
  <2>3. partPos \notin clamped'
    BY <1>1
  <2> QED BY <1>1, <2>1, <2>2, <2>3
<1>5. decided[partPos] = "new" <=> Act = "new"
  BY <1>1, <1>4, DedupDecides DEF Ruled
<1>6. CASE Act # "new"
  <2>1. PICK k \in 1..(partPos - 1) :
             LastEmission(k, partPos) /\ (Act = "suppress" <=> part[partPos].ts - part[k].ts < Refire)
    BY <1>6, DedupDecides
  <2>2. decided[partPos] = "suppress" <=> Act = "suppress"
    BY <1>4, <1>5, <1>6, <2>1 DEF Ruled
  <2> QED BY <1>1, <1>4, <1>5, <1>6, <2>2 DEF Action
<1> QED BY <1>5, <1>6

\* Growth of the topic, of the decisions and of the clamped messages.
Grows ==
    /\ Len(part) <= Len(part') /\ Len(part') <= MaxPart
    /\ \A m \in 1..Len(part) : part'[m] = part[m]
    /\ \A m \in 1..MaxPart : decided[m] # None => decided'[m] = decided[m]
    /\ clamped \subseteq clamped'

LEMMA NextGrows ==
  ASSUME IInv, HistoryInv, [Next]_vars
  PROVE  Grows
<1>1. Len(part) <= Len(part') /\ \A m \in 1..Len(part) : part'[m] = part[m]
  BY TopicGrows DEF IInv
<1>2. CASE Dedup
  <2>1. decided \in [1..MaxPart -> Action \cup {None}] /\ UNCHANGED part
        /\ (decided' = decided \/ (decided[partPos] = None /\ decided' = [decided EXCEPT ![partPos] = Act]))
        /\ clamped \subseteq clamped'
    BY <1>2, DedupWrites DEF IInv, TypeOK
  <2> QED BY <1>1, <2>1 DEF Grows, HistoryInv
<1>3. CASE Enrich
  <2> DEFINE e == source[srcPos]
  <2>1. CASE Raises(e)
    <3>1. UNCHANGED <<part, decided, clamped>>
      BY <1>3, <2>1, Zenon DEF Enrich, Stopped, Rewound, topicVars, histVars
    <3> QED BY <1>1, <3>1 DEF Grows, HistoryInv
  <2>2. CASE ~Raises(e)
    <3>1. /\ UNCHANGED <<decided, clamped>> /\ (Kept(e) => Len(part) < MaxPart)
          /\ part' = IF Kept(e) THEN Append(part, Parsed(e)) ELSE part
      BY <1>3, <2>2, Zenon DEF Enrich, histVars
    <3>2. part \in Seq(Message) /\ Parsed(e) \in Message /\ MaxPart \in Nat
      BY <1>3, ParsedType, StreamAssumption DEF Enrich, IInv, TypeOK
    <3>3. Len(part') <= MaxPart
      BY <3>1, <3>2 DEF HistoryInv
    <3> QED BY <1>1, <3>1, <3>3 DEF Grows
  <2> QED BY <2>1, <2>2
<1>4. CASE UNCHANGED <<part, decided, clamped>>
  BY <1>1, <1>4 DEF Grows, HistoryInv
<1> QED
  BY <1>2, <1>3, <1>4
  DEF Next, vars, topicVars, histVars, Tick, Produce, Sink, SinkRaises, SinkError, Stopped, Rewound,
      DlqDelivers, DlqExpires, Checkpoint, Crash

\* The last announcement before a message stays the last one.
LEMMA LastStays ==
  ASSUME TypeOK, Grows, NEW k \in Nat, NEW pos \in Nat, pos <= Len(part) + 1,
         \A m \in 1..(pos - 1) : decided[m] # None
  PROVE  LastEmission(k, pos)' <=> LastEmission(k, pos)
<1>1. \A m \in 1..(pos - 1) : decided'[m] = decided[m]
  <2>1. Len(part) \in Nat /\ Len(part') \in Nat /\ MaxPart \in Nat
    BY StreamAssumption DEF TypeOK
  <2> QED BY <2>1 DEF Grows
<1>2. ASSUME k \in 1..(pos - 1)
      PROVE  \A j \in (k + 1)..(pos - 1) : decided'[j] = decided[j]
  BY <1>1, <1>2
<1> QED BY <1>1, <1>2 DEF LastEmission

\* What a state remembers stays true.
LEMMA MemoryStays ==
  ASSUME TypeOK, Grows, NEW s \in State, NEW pos \in Nat \ {0}, pos <= Len(part) + 1, Remembers(s, pos)
  PROVE  Remembers(s, pos)'
<1>1. /\ Len(part) \in Nat /\ Len(part') \in Nat /\ MaxPart \in Nat
      /\ \A m \in 1..(pos - 1) : m \in 1..Len(part) /\ m \in 1..MaxPart
  <2>1. Len(part) \in Nat /\ Len(part') \in Nat /\ MaxPart \in Nat
    BY StreamAssumption DEF TypeOK
  <2>2. pos - 1 <= Len(part) /\ pos \in Nat
    BY <2>1
  <2>3. Len(part) <= MaxPart
    BY <2>1 DEF Grows
  <2> QED BY <2>1, <2>2, <2>3
<1>2. /\ \A m \in 1..(pos - 1) : decided[m] # None
      /\ s = NoState <=> pos = 1
      /\ pos > 1 => s.last = part[pos - 1].ts
  BY DEF Remembers
<1>3. \A m \in 1..(pos - 1) : decided'[m] # None /\ part'[m] = part[m]
  <2>1. ASSUME NEW m \in 1..(pos - 1) PROVE decided'[m] # None /\ part'[m] = part[m]
    <3>1. m \in 1..Len(part) /\ m \in 1..MaxPart /\ decided[m] # None
      BY <1>1, <1>2
    <3> QED BY <3>1 DEF Grows
  <2> QED BY <2>1
<1>4. pos > 1 => s.last = part'[pos - 1].ts
  BY <1>1, <1>2, <1>3
<1>5. ASSUME pos > 1, Sure(pos - 1)'
      PROVE  \E k \in 1..(pos - 1) : LastEmission(k, pos)' /\ s.emitted = part'[k].ts
  <2>1. Sure(pos - 1)
    BY <1>5 DEF Sure, Grows
  <2>2. PICK k \in 1..(pos - 1) : LastEmission(k, pos) /\ s.emitted = part[k].ts
    BY <1>5, <2>1 DEF Remembers
  <2>3. LastEmission(k, pos)'
    BY <1>2, <2>2, LastStays
  <2> QED BY <1>3, <2>2, <2>3
<1> QED BY <1>2, <1>3, <1>4, <1>5 DEF Remembers

\* So does the rule an earlier decision followed.
LEMMA RuleStays ==
  ASSUME TypeOK, Grows, NEW m \in 1..MaxPart, decided[m] # None, m <= Len(part),
         \A n \in 1..m : decided[n] # None, Ruled(m)
  PROVE  Ruled(m)'
<1>1. /\ Len(part) \in Nat /\ MaxPart \in Nat
      /\ decided'[m] = decided[m] /\ part'[m] = part[m]
      /\ \A n \in 1..(m - 1) : part'[n] = part[n]
      /\ clamped \subseteq clamped'
  <2>1. Len(part) \in Nat /\ MaxPart \in Nat
    BY StreamAssumption DEF TypeOK
  <2> QED BY <2>1 DEF Grows
<1>2. m > 1 => part'[m - 1] = part[m - 1]
  BY <1>1
<1>3. \A k \in 1..(m - 1) : LastEmission(k, m)' <=> LastEmission(k, m)
  BY LastStays
<1>4. Sure(m)' => Sure(m)
  BY <1>1 DEF Sure
<1>5. /\ m = 1 => decided'[m] = "new"
      /\ m > 1 /\ m \notin clamped' =>
            (decided'[m] = "new" <=> part'[m].ts - part'[m - 1].ts > Window)
  BY <1>1, <1>2 DEF Ruled
<1>6. ASSUME Sure(m)', decided'[m] # "new", NEW k \in 1..(m - 1), LastEmission(k, m)'
      PROVE  decided'[m] = "suppress" <=> part'[m].ts - part'[k].ts < Refire
  BY <1>1, <1>3, <1>4, <1>6 DEF Ruled
<1> QED BY <1>5, <1>6 DEF Ruled

\* The memory of the next state and position, and of the next checkpoint.
LEMMA NextMemory ==
  ASSUME NEW s, NEW pos, Remembers(s, pos)'
  PROVE  /\ s = st' /\ pos = partPos' => Remembers(st, partPos)'
         /\ s = saved'.st /\ pos = saved'.part => Remembers(saved.st, saved.part)'
<1>1. ASSUME s = st', pos = partPos' PROVE Remembers(st, partPos)'
  BY <1>1 DEF Remembers, LastEmission, Sure
<1>2. ASSUME s = saved'.st, pos = saved'.part PROVE Remembers(saved.st, saved.part)'
  BY <1>2 DEF Remembers, LastEmission, Sure
<1> QED BY <1>1, <1>2

\* A message decided for the first time follows the rule, and the state
\* remembers the decision.
LEMMA FirstDecision ==
  ASSUME IInv, HistoryInv, Dedup, Grows, NEW p \in Nat, p = partPos, decided[p] = None
  PROVE  Ruled(p)'
<1>1. /\ p \in 1..Len(part) /\ Len(part) \in Nat /\ UNCHANGED part /\ decided'[p] = Act
      /\ \A m \in 1..(p - 1) : decided[m] # None
  <2>1. /\ p \in 1..Len(part) /\ UNCHANGED part
        /\ decided' = [decided EXCEPT ![p] = Act]
    BY DedupWrites
  <2>2. p \in 1..MaxPart /\ Len(part) \in Nat
        /\ decided \in [1..MaxPart -> Action \cup {None}]
    BY <2>1, StreamAssumption DEF HistoryInv, IInv, TypeOK
  <2> QED BY <2>1, <2>2 DEF HistoryInv, Remembers
<1>2. ASSUME Sure(p)', decided'[p] # "new", NEW l \in 1..(p - 1), LastEmission(l, p)'
      PROVE  decided'[p] = "suppress" <=> part'[p].ts - part'[l].ts < Refire
  <2>1. PICK k \in 1..(p - 1) :
             /\ LastEmission(k, p)
             /\ Act = "suppress" <=> part[p].ts - part[k].ts < Refire
    BY <1>1, <1>2, DedupDecides DEF Sure
  <2>2. LastEmission(l, p)
    BY <1>1, <1>2, LastStays DEF IInv
  <2>3. k = l
    BY <1>1, <2>1, <2>2, OneLast
  <2> QED BY <1>1, <2>1, <2>3
<1>3. /\ p = 1 => decided'[p] = "new"
      /\ p > 1 /\ p \notin clamped' =>
            (decided'[p] = "new" <=> part'[p].ts - part'[p - 1].ts > Window)
  BY <1>1, DedupDecides
<1> QED BY <1>2, <1>3 DEF Ruled

LEMMA DedupRemembers ==
  ASSUME IInv, HistoryInv, Dedup, Grows
  PROVE  Remembers(st, partPos)'
<1> SUFFICES ASSUME NEW s, NEW p \in Nat, s = st', p = partPos PROVE Remembers(s, p + 1)'
  <2>1. partPos \in Nat /\ partPos' = partPos + 1
    BY DedupWrites DEF IInv, TypeOK
  <2> QED BY <2>1, NextMemory
<1>1. /\ p \in 1..Len(part) /\ Act \in Action /\ UNCHANGED part
      /\ s # NoState /\ s.last = part[p].ts
      /\ s.emitted = IF Act = "suppress" THEN st.emitted ELSE EventClock(part[p].ts, wall)
      /\ clamped' = IF part[p].ts > wall + Skew THEN clamped \cup {p} ELSE clamped
  BY DedupWrites
<1>2. /\ \A m \in 1..(p - 1) : decided[m] # None /\ decided'[m] = decided[m]
      /\ decided'[p] # None
  <2>1. \A m \in 1..(p - 1) : decided[m] # None
    BY DEF HistoryInv, Remembers
  <2>2. p \in 1..MaxPart /\ Len(part) \in Nat /\ MaxPart \in Nat
        /\ decided \in [1..MaxPart -> Action \cup {None}]
    <3>1. Len(part) \in Nat /\ MaxPart \in Nat /\ Len(part) <= MaxPart
      BY StreamAssumption DEF HistoryInv, IInv, TypeOK
    <3> QED BY <1>1, <3>1 DEF IInv, TypeOK
  <2>3. \A m \in 1..(p - 1) : m \in 1..MaxPart
    BY <2>2
  <2>4. decided'[p] # None
    BY <1>1, <2>2, DedupWrites DEF Action, None
  <2> QED BY <2>1, <2>3, <2>4 DEF Grows
<1>3. \A m \in 1..p : decided'[m] # None
  BY <1>2
<1>4. ASSUME Sure(p)'
      PROVE  \E k \in 1..p : LastEmission(k, p + 1)' /\ s.emitted = part'[k].ts
  <2>1. \A c \in clamped' : p < c
    BY <1>4 DEF Sure
  <2>2. decided'[p] = Act
    BY <2>1, DedupAgrees
  <2>3. CASE Act = "suppress"
    <3>1. PICK k \in 1..(p - 1) : LastEmission(k, p) /\ st.emitted = part[k].ts
      BY <2>1, <2>3, DedupDecides
    <3>2. ASSUME NEW j \in (k + 1)..(p + 1 - 1) PROVE decided'[j] = "suppress"
      <4>1. CASE j = p
        BY <2>2, <2>3, <4>1
      <4>2. CASE j # p
        <5>1. j \in (k + 1)..(p - 1) /\ j \in 1..(p - 1)
          BY <4>2
        <5> QED BY <1>2, <3>1, <5>1 DEF LastEmission
      <4> QED BY <4>1, <4>2
    <3>3. k \in 1..(p + 1 - 1) /\ decided'[k] \in Emitting
      BY <1>1, <1>2, <3>1 DEF LastEmission
    <3>4. LastEmission(k, p + 1)'
      BY <3>2, <3>3 DEF LastEmission
    <3> QED BY <1>1, <2>3, <3>1, <3>3, <3>4
  <2>4. CASE Act # "suppress"
    <3>1. ~(part[p].ts > wall + Skew)
      <4>1. ~(p < p)
        OBVIOUS
      <4>2. p \notin clamped'
        BY <2>1, <4>1
      <4> QED BY <1>1, <4>2, Zenon
    <3>2. s.emitted = part'[p].ts
      BY <1>1, <2>4, <3>1 DEF EventClock
    <3>3. p \in 1..(p + 1 - 1) /\ (p + 1)..(p + 1 - 1) = {}
      BY <1>1
    <3>4. LastEmission(p, p + 1)'
      BY <1>1, <2>2, <2>4, <3>3 DEF LastEmission, Emitting, Action
    <3> QED BY <3>2, <3>3, <3>4
  <2> QED BY <2>3, <2>4
<1>5. p + 1 - 1 = p /\ p + 1 > 1 /\ p + 1 # 1
  BY <1>1
<1>6. Sure(p + 1 - 1)' <=> Sure(p)'
  BY <1>5 DEF Sure
<1> QED BY <1>1, <1>3, <1>4, <1>5, <1>6 DEF Remembers

LEMMA HistoryStep ==
  ASSUME IInv, IInv', HistoryInv, [Next]_vars
  PROVE  HistoryInv'
<1>1. Grows
  BY NextGrows
<1>2. /\ TypeOK /\ Len(part) \in Nat /\ Len(part') \in Nat
      /\ st \in State /\ partPos \in Nat \ {0} /\ partPos <= Len(part) + 1
      /\ saved.st \in State /\ saved.part \in Nat \ {0} /\ saved.part <= Len(part) + 1
  <2>1. part \in Seq(Message) /\ part' \in Seq(Message)
    BY DEF IInv, TypeOK
  <2>2. Len(part) \in Nat /\ Len(part') \in Nat
    BY <2>1
  <2> QED BY <2>2 DEF IInv, TypeOK
<1>3. /\ Remembers(st, partPos) /\ Remembers(saved.st, saved.part)
      /\ \A m \in 1..MaxPart : decided[m] # None =>
            m <= Len(part) /\ (\A n \in 1..m : decided[n] # None) /\ Ruled(m)
      /\ ReplayStable
  BY DEF HistoryInv
<1>4. \E s, pos : s = st /\ pos = partPos /\ Remembers(s, pos)'
  BY <1>1, <1>2, <1>3, MemoryStays
<1>5. \E s, pos : s = saved.st /\ pos = saved.part /\ Remembers(s, pos)'
  BY <1>1, <1>2, <1>3, MemoryStays
<1>6. ASSUME UNCHANGED <<decided, redecided>>,
             UNCHANGED <<st, partPos>> \/ (st' = saved.st /\ partPos' = saved.part),
             UNCHANGED saved \/ (saved'.st = st /\ saved'.part = partPos)
      PROVE  HistoryInv'
  <2>1. Remembers(st, partPos)'
    BY <1>4, <1>5, <1>6, NextMemory
  <2>2. Remembers(saved.st, saved.part)'
    BY <1>4, <1>5, <1>6, NextMemory
  <2>3. ASSUME NEW m \in 1..MaxPart, decided'[m] # None
        PROVE  m <= Len(part') /\ (\A n \in 1..m : decided'[n] # None) /\ Ruled(m)'
    <3>1. decided[m] # None /\ m <= Len(part) /\ (\A n \in 1..m : decided[n] # None) /\ Ruled(m)
      BY <1>3, <1>6, <2>3
    <3>2. Ruled(m)'
      BY <1>1, <1>2, <3>1, RuleStays
    <3> QED BY <1>1, <1>2, <1>6, <3>1, <3>2 DEF Grows
  <2>4. ReplayStable'
    BY <1>1, <1>3, <1>6 DEF ReplayStable, Sure, Grows
  <2> QED BY <1>1, <2>1, <2>2, <2>3, <2>4 DEF HistoryInv, Grows
<1>7. CASE Dedup
  <2>1. /\ partPos \in 1..Len(part) /\ partPos' = partPos + 1 /\ UNCHANGED <<part, saved>>
        /\ decided' = IF decided[partPos] = None
                      THEN [decided EXCEPT ![partPos] = Act] ELSE decided
        /\ redecided' = IF decided[partPos] \in {None, Act}
                        THEN redecided ELSE redecided \cup {partPos}
    BY <1>7, DedupWrites
  <2>2. Remembers(st, partPos)'
    BY <1>1, <1>7, DedupRemembers
  <2>3. Remembers(saved.st, saved.part)'
    BY <1>5, <2>1, NextMemory
  <2>4. ASSUME NEW m \in 1..MaxPart, decided'[m] # None
        PROVE  m <= Len(part') /\ (\A n \in 1..m : decided'[n] # None) /\ Ruled(m)'
    <3>1. CASE decided[m] # None
      <4>1. m <= Len(part) /\ (\A n \in 1..m : decided[n] # None) /\ Ruled(m)
        BY <1>3, <3>1
      <4>2. Ruled(m)'
        BY <1>1, <1>2, <3>1, <4>1, RuleStays
      <4>3. \A n \in 1..m : n \in 1..MaxPart
        BY StreamAssumption
      <4> QED BY <1>1, <2>1, <4>1, <4>2, <4>3 DEF Grows
    <3>2. CASE decided[m] = None
      <4>1. m = partPos /\ m \in Nat
        BY <2>1, <2>4, <3>2 DEF IInv, TypeOK
      <4>2. Ruled(m)'
        BY <1>1, <1>7, <3>2, <4>1, FirstDecision
      <4>3. \A n \in 1..m : decided'[n] # None
        <5>1. \A n \in 1..(partPos' - 1) : decided'[n] # None
          BY <2>2 DEF Remembers
        <5> QED BY <1>2, <2>1, <4>1, <5>1
      <4> QED BY <2>1, <4>1, <4>2, <4>3
    <3> QED BY <3>1, <3>2
  <2>5. ReplayStable'
    <3>1. ASSUME NEW m \in redecided', Sure(m)' PROVE FALSE
      <4>1. m \notin redecided
        BY <1>1, <1>3, <3>1 DEF ReplayStable, Sure, Grows
      <4>2. m = partPos /\ decided[partPos] \notin {None, Act}
        BY <2>1, <3>1, <4>1
      <4> QED BY <1>7, <3>1, <4>2, DedupAgrees DEF Sure
    <3> QED BY <3>1 DEF ReplayStable
  <2> QED BY <1>1, <2>2, <2>3, <2>4, <2>5 DEF HistoryInv, Grows
<1>8. CASE Enrich
  <2> DEFINE e == source[srcPos]
  <2>1. Raises(e) => Rewound
    BY <1>8, Zenon DEF Enrich, Stopped
  <2>2. ~Raises(e) => UNCHANGED <<partPos, st, saved, decided, redecided>>
    BY <1>8, Zenon DEF Enrich, histVars
  <2> QED BY <1>6, <2>1, <2>2 DEF Rewound, histVars
<1>9. CASE Checkpoint
  BY <1>6, <1>9 DEF Checkpoint, Snapshot, stateVars, histVars
<1> QED
  BY <1>6, <1>7, <1>8, <1>9
  DEF Next, vars, stateVars, histVars, Tick, Produce, Sink, SinkRaises, SinkError, Stopped, Rewound,
      DlqDelivers, DlqExpires, Crash

LEMMA InitHistory == Init => HistoryInv
<1> SUFFICES ASSUME Init PROVE HistoryInv
  OBVIOUS
<1>1. /\ part = <<>> /\ partPos = 1 /\ st = NoState /\ saved.st = NoState /\ saved.part = 1
      /\ decided = [m \in 1..MaxPart |-> None] /\ redecided = {}
  BY DEF Init, Snapshot
<1>2. Remembers(st, partPos) /\ Remembers(saved.st, saved.part)
  BY <1>1 DEF Remembers
<1> QED BY <1>1, <1>2, StreamAssumption DEF HistoryInv, ReplayStable

\* State and checkpoint remember what was decided, and each first decision
\* follows from the topic and from the announcement before it.
THEOREM StreamHistory == Spec => []HistoryInv
<1>1. IInv /\ HistoryInv /\ [Next]_vars => HistoryInv'
  BY NextIInv, HistoryStep
<1> QED BY <1>1, InitHistory, StreamInvariant, PTL DEF Spec

\* A replay changes no decision, except behind a message the wall clock judged.
THEOREM ReplaysAgree == Spec => []ReplayStable
<1>1. HistoryInv => ReplayStable
  BY DEF HistoryInv
<1> QED BY <1>1, StreamHistory, PTL

\* Incidents are split exactly by silences longer than the window.
THEOREM SilenceSplits == Spec => []SplitsOnSilence
<1>1. IInv /\ HistoryInv => SplitsOnSilence
  <2> SUFFICES ASSUME IInv, HistoryInv, NEW m \in 2..Len(part), decided[m] # None, m \notin clamped
               PROVE  decided[m] = "new" <=> part[m].ts - part[m - 1].ts > Window
    BY DEF SplitsOnSilence
  <2>1. Len(part) \in Nat /\ MaxPart \in Nat /\ Len(part) <= MaxPart
    BY StreamAssumption DEF IInv, TypeOK, HistoryInv
  <2>2. Ruled(m)
    BY <2>1 DEF HistoryInv
  <2> QED BY <2>2 DEF Ruled
<1> QED BY <1>1, StreamInvariant, StreamHistory, PTL

-----------------------------------------------------------------------------
(* Delivery *)

LEMMA DeliveryStep ==
  ASSUME IInv, HistoryInv, DeliveryInv, [Next]_vars
  PROVE  DeliveryInv'
<1>1. Grows
  BY NextGrows
<1>2. /\ \A m \in 1..(partPos - 1) : decided'[m] = decided[m]
      /\ \A m \in 1..(saved.part - 1) : decided'[m] = decided[m]
      /\ \A m \in Nat : Sure(m)' => Sure(m)
      /\ partPos \in Nat \ {0} /\ saved.part \in Nat \ {0}
  <2>1. /\ \A m \in 1..(partPos - 1) : decided[m] # None
        /\ \A m \in 1..(saved.part - 1) : decided[m] # None
    BY DEF HistoryInv, Remembers
  <2>2. /\ partPos \in Nat \ {0} /\ saved.part \in Nat \ {0}
        /\ partPos <= MaxPart + 1 /\ saved.part <= MaxPart + 1 /\ MaxPart \in Nat
    <3>1. Len(part) \in Nat /\ MaxPart \in Nat
      BY StreamAssumption DEF IInv, TypeOK
    <3> QED BY <3>1 DEF IInv, TypeOK, HistoryInv
  <2>3. /\ \A m \in 1..(partPos - 1) : m \in 1..MaxPart
        /\ \A m \in 1..(saved.part - 1) : m \in 1..MaxPart
    BY <2>2
  <2>4. \A m \in Nat : Sure(m)' => Sure(m)
    BY <1>1 DEF Sure, Grows
  <2> QED BY <1>1, <2>1, <2>2, <2>3, <2>4 DEF Grows
<1>3. /\ \A m \in 1..(partPos - 1) : decided[m] \in Emitting /\ Sure(m) =>
            pending.msg = m \/ \E a \in sunk : a.msg = m
      /\ \A m \in 1..(saved.part - 1) : decided[m] \in Emitting /\ Sure(m) =>
            \E a \in sunk : a.msg = m
  BY DEF DeliveryInv, CommittedMeansSunk
<1>4. ASSUME pending = Nothing
      PROVE  \A m \in 1..(partPos - 1) : decided[m] \in Emitting /\ Sure(m) =>
                \E a \in sunk : a.msg = m
  <2>1. pending.msg = 0
    BY <1>4 DEF Nothing
  <2> QED BY <1>3, <2>1
<1>5. ASSUME UNCHANGED <<partPos, saved>>, sunk \subseteq sunk',
             UNCHANGED pending \/ pending \in sunk'
      PROVE  DeliveryInv'
  BY <1>2, <1>3, <1>5 DEF DeliveryInv, CommittedMeansSunk
<1>6. CASE Rewound
  <2>1. partPos' = saved.part /\ saved' = saved /\ sunk' = sunk
    BY <1>6 DEF Rewound
  <2>2. ASSUME NEW m \in 1..(saved.part - 1), decided'[m] \in Emitting, Sure(m)'
        PROVE  \E a \in sunk' : a.msg = m
    BY <1>2, <1>3, <2>1, <2>2
  <2> QED BY <2>1, <2>2 DEF DeliveryInv, CommittedMeansSunk
<1>7. CASE Dedup
  <2>1. /\ pending = Nothing /\ partPos' = partPos + 1 /\ UNCHANGED <<saved, sunk>>
        /\ Act # "suppress" => pending'.msg = partPos
    BY <1>7, DedupWrites
  <2>2. ASSUME NEW m \in 1..partPos, decided'[m] \in Emitting, Sure(m)'
        PROVE  pending'.msg = m \/ \E a \in sunk' : a.msg = m
    <3>1. CASE m = partPos
      <4>1. decided'[partPos] = Act
        BY <1>7, <2>2, <3>1, DedupAgrees DEF Sure
      <4> QED BY <2>1, <2>2, <3>1, <4>1 DEF Emitting
    <3>2. CASE m # partPos
      <4>1. m \in 1..(partPos - 1)
        BY <1>2, <3>2
      <4> QED BY <1>2, <1>4, <2>1, <2>2, <4>1
    <3> QED BY <3>1, <3>2
  <2>3. ASSUME NEW m \in 1..(saved.part - 1), decided'[m] \in Emitting, Sure(m)'
        PROVE  \E a \in sunk' : a.msg = m
    BY <1>2, <1>3, <2>1, <2>3
  <2>4. \A m \in 1..(partPos' - 1) : m \in 1..partPos
    BY <1>2, <2>1
  <2> QED BY <2>1, <2>2, <2>3, <2>4 DEF DeliveryInv, CommittedMeansSunk
<1>8. CASE Checkpoint
  <2>1. pending = Nothing /\ saved'.part = partPos /\ UNCHANGED <<partPos, pending, sunk>>
    BY <1>8 DEF Checkpoint, Snapshot, stateVars
  <2>2. ASSUME NEW m \in 1..(partPos - 1), decided'[m] \in Emitting, Sure(m)'
        PROVE  \E a \in sunk' : a.msg = m
    BY <1>2, <1>4, <2>1, <2>2
  <2> QED BY <2>1, <2>2 DEF DeliveryInv, CommittedMeansSunk
<1>9. CASE Enrich
  <2> DEFINE e == source[srcPos]
  <2>1. Raises(e) => Rewound
    BY <1>9, Zenon DEF Enrich, Stopped
  <2>2. ~Raises(e) => UNCHANGED <<partPos, saved, sunk, pending>>
    BY <1>9, Zenon DEF Enrich
  <2> QED BY <1>5, <1>6, <2>1, <2>2
<1> QED
  BY <1>5, <1>6, <1>7, <1>8, <1>9
  DEF Next, vars, stateVars, Tick, Produce, Sink, SinkRaises, SinkError, Stopped,
      DlqDelivers, DlqExpires, Crash

\* A message whose offset is committed reached the database if it was announced,
\* for any number of crashes and failing upserts.
THEOREM NothingLost == Spec => []CommittedMeansSunk
<1>1. Init => DeliveryInv
  BY DEF Init, Snapshot, DeliveryInv, CommittedMeansSunk
<1>2. IInv /\ HistoryInv /\ DeliveryInv /\ [Next]_vars => DeliveryInv'
  BY DeliveryStep
<1>3. DeliveryInv => CommittedMeansSunk
  BY DEF DeliveryInv
<1> QED BY <1>1, <1>2, <1>3, StreamInvariant, StreamHistory, PTL DEF Spec

-----------------------------------------------------------------------------
(* Spacing *)

LEMMA AlertFacts ==
  ASSUME TypeOK
  PROVE  \A a \in Alerts : a.id \in Nat /\ a.msg \in Nat
BY DEF TypeOK, Alerts, Emitted

\* Whether two messages belong to one incident does not change once the later
\* one is decided.
LEMMA SameStays ==
  ASSUME TypeOK, HistoryInv, Grows, NEW o \in Nat, NEW q \in 0..MaxPart,
         q = 0 \/ decided[q] # None
  PROVE  SameIncident(o, q)' <=> SameIncident(o, q)
<1>1. ASSUME NEW j \in (o + 1)..q PROVE decided'[j] = decided[j]
  <2>1. q \in 1..MaxPart /\ j \in 1..q /\ j \in 1..MaxPart
    BY <1>1, StreamAssumption
  <2>2. decided[j] # None
    BY <2>1 DEF HistoryInv
  <2> QED BY <2>1, <2>2 DEF Grows
<1> QED BY <1>1 DEF SameIncident

\* The parts of SpacingInv that a step leaves alone which decides nothing.
LEMMA SpacingKept ==
  ASSUME IInv, HistoryInv, SpacingInv, Grows, UNCHANGED <<decided, nextId>>, Alerts' \subseteq Alerts,
         UNCHANGED <<st, opened, partPos>>
            \/ (st' = saved.st /\ opened' = saved.opened /\ partPos' = saved.part),
         UNCHANGED saved
            \/ (saved'.st = st /\ saved'.opened = opened /\ saved'.part = partPos)
  PROVE  SpacingInv'
<1> SUFFICES ASSUME clamped' = {} PROVE SpacingInv'
  BY DEF SpacingInv
<1>1. /\ clamped = {} /\ Len(part) \in Nat /\ MaxPart \in Nat /\ Len(part) <= MaxPart
      /\ Len(part) <= Len(part')
      /\ \A m \in 1..Len(part) : part'[m] = part[m]
  BY StreamAssumption DEF Grows, HistoryInv, IInv, TypeOK
<1>2. /\ AlertsPlaced /\ AlertsTogether /\ OneOpening /\ Spaced
      /\ Continues(st, opened, partPos) /\ Continues(saved.st, saved.opened, saved.part)
  BY <1>1 DEF SpacingInv
<1>3. \A o, q : SameIncident(o, q)' <=> SameIncident(o, q)
  BY DEF SameIncident
<1>4. AlertsPlaced'
  <2>1. ASSUME NEW a \in Alerts'
        PROVE  /\ a.msg \in 1..Len(part') /\ decided'[a.msg] \in Emitting
               /\ a.clock = part'[a.msg].ts /\ a.id < nextId'
    <3>1. /\ a.msg \in 1..Len(part) /\ decided[a.msg] \in Emitting
          /\ a.clock = part[a.msg].ts /\ a.id < nextId
      BY <1>2, <2>1 DEF AlertsPlaced
    <3>2. Len(part') \in Int /\ a.msg <= Len(part')
      BY <1>1, <3>1 DEF Grows
    <3> QED BY <1>1, <3>1, <3>2
  <2> QED BY <2>1 DEF AlertsPlaced
<1>5. AlertsTogether'
  <2>1. ASSUME NEW a \in Alerts', NEW b \in Alerts', a.id = b.id
        PROVE  \E o \in 1..Len(part') : SameIncident(o, a.msg)' /\ SameIncident(o, b.msg)'
    <3>1. PICK o \in 1..Len(part) : SameIncident(o, a.msg) /\ SameIncident(o, b.msg)
      BY <1>2, <2>1 DEF AlertsTogether
    <3> QED BY <1>1, <1>3, <3>1
  <2> QED BY <2>1 DEF AlertsTogether
<1>6. OneOpening'
  BY <1>2 DEF OneOpening
<1>7. Spaced'
  <2>1. ASSUME NEW i \in 1..Len(part'), NEW j \in 1..Len(part'), i < j,
               decided[i] \in Emitting, decided[j] \in Emitting, SameIncident(i, j)'
        PROVE  part'[j].ts - part'[i].ts >= Refire
    <3>1. i \in 1..Len(part) /\ j \in 1..Len(part)
      <4>1. Len(part') <= MaxPart
        BY DEF Grows
      <4>2. decided[i] # None /\ decided[j] # None
        BY <2>1 DEF Emitting, None
      <4> QED BY <1>1, <2>1, <4>1, <4>2 DEF HistoryInv
    <3> QED BY <1>1, <1>2, <1>3, <2>1, <3>1 DEF Spaced
  <2> QED BY <2>1 DEF Spaced
<1>8. Continues(st, opened, partPos)' /\ Continues(saved.st, saved.opened, saved.part)'
  <2>1. CASE UNCHANGED <<st, opened, partPos>> /\ UNCHANGED saved
    BY <1>2, <2>1 DEF Continues, SameIncident
  <2>2. CASE st' = saved.st /\ opened' = saved.opened /\ partPos' = saved.part /\ UNCHANGED saved
    BY <1>2, <2>2 DEF Continues, SameIncident
  <2>3. CASE UNCHANGED <<st, opened, partPos>> /\ saved'.st = st /\ saved'.opened = opened
             /\ saved'.part = partPos
    BY <1>2, <2>3 DEF Continues, SameIncident
  <2>4. CASE st' = saved.st /\ opened' = saved.opened /\ partPos' = saved.part
             /\ saved'.st = st /\ saved'.opened = opened /\ saved'.part = partPos
    BY <1>2, <2>4 DEF Continues, SameIncident
  <2> QED BY <2>1, <2>2, <2>3, <2>4
<1> QED BY <1>4, <1>5, <1>6, <1>7, <1>8 DEF SpacingInv

\* Decided announcements stay spaced: the last one is the nearest.
LEMMA DedupSpaced ==
  ASSUME IInv, HistoryInv, Dedup, Grows, clamped' = {}, Spaced
  PROVE  Spaced'
<1>1. /\ partPos \in 1..Len(part) /\ UNCHANGED part /\ decided'[partPos] = Act
      /\ Len(part) \in Nat /\ MaxPart \in Nat /\ Len(part) <= MaxPart
      /\ decided' = IF decided[partPos] = None THEN [decided EXCEPT ![partPos] = Act] ELSE decided
  <2>1. /\ partPos \in 1..Len(part) /\ UNCHANGED part
        /\ decided' = IF decided[partPos] = None THEN [decided EXCEPT ![partPos] = Act] ELSE decided
    BY DedupWrites
  <2>2. decided'[partPos] = Act
    BY DedupAgrees
  <2>3. Len(part) \in Nat /\ MaxPart \in Nat /\ Len(part) <= MaxPart
    BY StreamAssumption DEF HistoryInv, IInv, TypeOK
  <2> QED BY <2>1, <2>2, <2>3
<1>2. \A m \in 1..MaxPart : m # partPos => decided'[m] = decided[m]
  <2>1. decided \in [1..MaxPart -> Action \cup {None}]
    BY DEF IInv, TypeOK
  <2> QED BY <1>1, <2>1
<1>3. \A m \in 1..Len(part) : part[m].ts \in Nat
  <2>1. \A m \in 1..Len(part) : part[m] \in Message
    BY DEF IInv, TypeOK
  <2> QED BY <2>1 DEF Message
<1>4. ASSUME NEW i \in 1..Len(part), NEW j \in 1..Len(part), i < j,
             decided'[i] \in Emitting, decided'[j] \in Emitting, SameIncident(i, j)'
      PROVE  part[j].ts - part[i].ts >= Refire
  <2>1. CASE decided[j] # None
    <3>1. \A n \in 1..j : decided[n] # None
      BY <1>1, <2>1 DEF HistoryInv
    <3>2. decided'[i] = decided[i] /\ decided'[j] = decided[j]
      BY <1>1, <1>4, <3>1 DEF Grows
    <3>3. SameIncident(i, j)
      BY <1>1, <1>4, <2>1, SameStays DEF IInv
    <3> QED BY <1>4, <3>2, <3>3 DEF Spaced
  <2>2. CASE decided[j] = None
    <3>1. j = partPos /\ i \in 1..(partPos - 1) /\ decided'[i] = decided[i]
      BY <1>1, <1>2, <1>4, <2>2 DEF Emitting, None
    <3>2. Act # "new" /\ Act # "suppress"
      <4>1. decided'[j] # "new"
        BY <1>4 DEF SameIncident
      <4> QED BY <1>1, <1>4, <3>1, <4>1 DEF Emitting
    <3>3. PICK k \in 1..(partPos - 1) :
             LastEmission(k, partPos) /\ (Act = "suppress" <=> part[partPos].ts - part[k].ts < Refire)
      BY <3>2, DedupDecides
    <3>4. part[j].ts - part[k].ts >= Refire
      <4>1. part[partPos].ts \in Nat /\ part[k].ts \in Nat
        BY <1>1, <1>3
      <4> QED BY <3>1, <3>2, <3>3, <4>1, DedupAssumption
    <3>5. i <= k
      <4>1. decided[i] # "suppress"
        BY <1>4, <3>1 DEF Emitting
      <4> QED BY <3>1, <3>3, <4>1 DEF LastEmission
    <3>6. CASE i = k
      BY <3>4, <3>6
    <3>7. CASE i < k
      <4>1. k \in 1..Len(part) /\ decided[i] \in Emitting /\ decided[k] \in Emitting
        BY <1>1, <1>4, <3>1, <3>3 DEF LastEmission
      <4>2. SameIncident(i, k)
        <5>1. ASSUME NEW n \in (i + 1)..k PROVE decided[n] # "new"
          <6>1. n \in (i + 1)..j /\ n \in 1..MaxPart /\ n # partPos
            BY <1>1, <3>1, <5>1
          <6> QED BY <1>2, <1>4, <6>1 DEF SameIncident
        <5> QED BY <3>5, <5>1 DEF SameIncident
      <4>3. part[k].ts - part[i].ts >= Refire
        BY <3>7, <4>1, <4>2 DEF Spaced
      <4> QED BY <1>3, <3>4, <4>1, <4>3, DedupAssumption
    <3> QED BY <1>1, <3>1, <3>3, <3>5, <3>6, <3>7
  <2> QED BY <2>1, <2>2
<1> QED BY <1>1, <1>4 DEF Spaced

\* An announcement joins the alerts of its incident, or is the first of a fresh id.
LEMMA DedupSpacing ==
  ASSUME IInv, IInv', HistoryInv, HistoryInv', SpacingInv, Dedup, Grows
  PROVE  SpacingInv'
<1> SUFFICES ASSUME clamped' = {} PROVE SpacingInv'
  BY DEF SpacingInv
<1>1. /\ Act \in Action /\ partPos \in 1..Len(part) /\ partPos' = partPos + 1
      /\ pending = Nothing /\ st' # NoState
      /\ st'.id = IF Act = "new" THEN nextId ELSE st.id
      /\ opened' = IF Act = "new" THEN partPos ELSE opened
      /\ nextId' = IF Act = "new" THEN nextId + 1 ELSE nextId
      /\ UNCHANGED <<part, saved, sunk>>
  BY DedupWrites
<1>2. /\ Act = "suppress" => pending' = Nothing
      /\ Act # "suppress" => /\ pending'.msg = partPos /\ pending'.id = st'.id
                             /\ pending'.clock = part[partPos].ts
  <2>1. partPos \notin clamped'
    OBVIOUS
  <2>2. EventClock(part[partPos].ts, wall) = part[partPos].ts
    BY <2>1, DedupWrites DEF EventClock
  <2> QED BY <2>2, DedupWrites
<1>3. /\ Len(part) \in Nat /\ MaxPart \in Nat /\ Len(part) <= MaxPart
      /\ nextId \in Nat /\ nextId' \in Nat /\ opened \in Nat /\ saved.opened \in Nat
      /\ saved.part \in Nat \ {0} /\ saved.part <= Len(part) + 1 /\ partPos \in Nat
  BY StreamAssumption DEF HistoryInv, IInv, TypeOK
<1>4. /\ clamped = {} /\ AlertsPlaced /\ AlertsTogether /\ OneOpening /\ Spaced
      /\ Continues(st, opened, partPos) /\ Continues(saved.st, saved.opened, saved.part)
  <2>1. clamped = {}
    BY DEF Grows
  <2> QED BY <2>1 DEF SpacingInv
<1>5. decided'[partPos] = Act
  BY DedupAgrees
<1>6. /\ \A a \in Alerts' : a \in sunk \/ (a = pending' /\ Act # "suppress")
      /\ sunk \subseteq Alerts
  BY <1>1, <1>2 DEF Alerts
<1>7. ASSUME NEW a \in sunk
      PROVE  /\ a.msg \in 1..Len(part) /\ decided[a.msg] # None /\ decided'[a.msg] = decided[a.msg]
             /\ decided[a.msg] \in Emitting /\ a.clock = part[a.msg].ts /\ a.id < nextId
             /\ \A o \in Nat : SameIncident(o, a.msg) => \A j \in (o + 1)..a.msg : decided'[j] # "new"
  <2>1. a.msg \in 1..Len(part) /\ decided[a.msg] \in Emitting /\ a.clock = part[a.msg].ts /\ a.id < nextId
    BY <1>4, <1>6, <1>7 DEF AlertsPlaced
  <2>2. decided[a.msg] # None /\ a.msg \in 1..MaxPart
    BY <1>3, <2>1 DEF Emitting, None
  <2>3. ASSUME NEW o \in Nat, SameIncident(o, a.msg), NEW j \in (o + 1)..a.msg
        PROVE  decided'[j] # "new"
    <3>1. j \in 1..a.msg /\ j \in 1..MaxPart
      BY <1>3, <2>2, <2>3
    <3>2. decided[j] # None
      BY <2>2, <3>1 DEF HistoryInv
    <3> QED BY <2>3, <3>1, <3>2 DEF Grows, SameIncident
  <2> QED BY <2>1, <2>2, <2>3 DEF Grows
<1>8. ASSUME Act # "new"
      PROVE  /\ st # NoState /\ st.id < nextId /\ opened <= partPos
             /\ \A j \in (opened + 1)..partPos : decided'[j] # "new"
             /\ \A a \in sunk : a.id = st.id => SameIncident(opened, a.msg)
  <2>1. st # NoState
    BY <1>8, DedupWrites
  <2>2. st.id < nextId /\ SameIncident(opened, partPos - 1)
        /\ \A a \in sunk : a.id = st.id => SameIncident(opened, a.msg)
    BY <1>4, <1>6, <2>1 DEF Continues
  <2>3. ASSUME NEW j \in (opened + 1)..partPos PROVE decided'[j] # "new"
    <3>1. CASE j = partPos
      BY <1>5, <1>8, <3>1
    <3>2. CASE j # partPos
      <4>1. j \in (opened + 1)..(partPos - 1) /\ j \in 1..(partPos - 1) /\ j \in 1..MaxPart
        BY <1>1, <1>3, <3>2
      <4>2. decided[j] # None /\ decided[j] # "new"
        BY <2>2, <4>1 DEF SameIncident, HistoryInv, Remembers
      <4> QED BY <4>1, <4>2 DEF Grows
    <3> QED BY <3>1, <3>2
  <2>4. opened <= partPos
    BY <1>3, <2>2 DEF SameIncident
  <2> QED BY <2>1, <2>2, <2>3, <2>4
<1>9. AlertsPlaced'
  <2>1. ASSUME NEW a \in Alerts'
        PROVE  /\ a.msg \in 1..Len(part') /\ decided'[a.msg] \in Emitting
               /\ a.clock = part'[a.msg].ts /\ a.id < nextId'
    <3>1. CASE a \in sunk
      <4>1. a.id < nextId'
        <5>1. a.id \in Nat
          BY <3>1 DEF IInv, TypeOK, Emitted
        <5> QED BY <1>1, <1>3, <1>7, <3>1, <5>1
      <4> QED BY <1>1, <1>7, <3>1, <4>1
    <3>2. CASE a = pending' /\ Act # "suppress"
      <4>1. a.id < nextId'
        BY <1>1, <1>2, <1>3, <1>8, <3>2
      <4> QED BY <1>1, <1>2, <1>5, <3>2, <4>1 DEF Action, Emitting
    <3> QED BY <1>6, <2>1, <3>1, <3>2
  <2> QED BY <2>1 DEF AlertsPlaced
<1>10. ASSUME NEW a \in Alerts', a.id = st'.id
       PROVE  opened' <= a.msg /\ \A j \in (opened' + 1)..a.msg : decided'[j] # "new"
  <2>1. CASE a \in sunk /\ Act = "new"
    <3>1. a.id \in Nat /\ a.id < nextId
      BY <1>7, <2>1 DEF IInv, TypeOK, Emitted
    <3> QED BY <1>1, <1>3, <1>10, <2>1, <3>1
  <2>2. CASE a \in sunk /\ Act # "new"
    <3>1. SameIncident(opened, a.msg) /\ opened' = opened
      BY <1>1, <1>8, <1>10, <2>2
    <3> QED BY <1>3, <1>7, <2>2, <3>1 DEF SameIncident
  <2>3. CASE a = pending' /\ Act = "new"
    <3>1. a.msg = partPos /\ opened' = partPos
      BY <1>1, <1>2, <2>3
    <3> QED BY <1>3, <3>1
  <2>4. CASE a = pending' /\ Act # "suppress" /\ Act # "new"
    BY <1>1, <1>2, <1>8, <2>4
  <2> QED BY <1>6, <1>10, <2>1, <2>2, <2>3, <2>4
<1>11. Continues(st, opened, partPos)'
  <2>1. partPos' - 1 = partPos
    BY <1>1, <1>3
  <2>2. st'.id < nextId'
    BY <1>1, <1>3, <1>8
  <2>3. opened' <= partPos /\ \A j \in (opened' + 1)..partPos : decided'[j] # "new"
    BY <1>1, <1>3, <1>8
  <2>4. SameIncident(opened, partPos - 1)'
    BY <2>1, <2>3 DEF SameIncident
  <2>5. \A a \in Alerts' : a.id = st'.id => SameIncident(opened, a.msg)'
    BY <1>10 DEF SameIncident
  <2> QED BY <2>2, <2>4, <2>5 DEF Continues
<1>12. Continues(saved.st, saved.opened, saved.part)'
  <2> SUFFICES ASSUME saved.st # NoState
               PROVE  /\ saved.st.id < nextId' /\ SameIncident(saved.opened, saved.part - 1)'
                      /\ \A a \in Alerts' : a.id = saved.st.id => SameIncident(saved.opened, a.msg)'
    BY <1>1 DEF Continues
  <2>1. /\ saved.st.id < nextId /\ SameIncident(saved.opened, saved.part - 1) /\ saved.st.id \in Nat
        /\ \A a \in sunk : a.id = saved.st.id => SameIncident(saved.opened, a.msg)
    BY <1>4, <1>6, StateFacts DEF Continues, IInv, TypeOK
  <2>2. saved.st.id < nextId'
    BY <1>1, <1>3, <2>1
  <2>3. SameIncident(saved.opened, saved.part - 1)'
    <3>1. \A j \in (saved.opened + 1)..(saved.part - 1) : j \in 1..(saved.part - 1) /\ j \in 1..MaxPart
      BY <1>3
    <3>2. \A j \in (saved.opened + 1)..(saved.part - 1) : decided'[j] = decided[j]
      BY <3>1 DEF HistoryInv, Remembers, Grows
    <3> QED BY <1>1, <2>1, <3>2 DEF SameIncident
  <2>4. ASSUME NEW a \in Alerts', a.id = saved.st.id
        PROVE  SameIncident(saved.opened, a.msg)'
    <3>1. CASE a \in sunk
      BY <1>1, <1>3, <1>7, <2>1, <2>4, <3>1 DEF SameIncident
    <3>2. CASE a = pending' /\ Act # "suppress"
      <4>1. a.id = st'.id /\ Act # "new"
        BY <1>1, <1>2, <1>3, <2>1, <2>4, <3>2
      <4>2. opened = saved.opened /\ opened' = opened
        BY <1>1, <1>4, <1>8, <2>4, <4>1 DEF OneOpening
      <4>3. opened' <= a.msg /\ \A j \in (opened' + 1)..a.msg : decided'[j] # "new"
        BY <1>10, <4>1
      <4> QED BY <1>1, <4>2, <4>3 DEF SameIncident
    <3> QED BY <1>6, <2>4, <3>1, <3>2
  <2> QED BY <2>2, <2>3, <2>4
<1>13. OneOpening'
  <2> SUFFICES ASSUME saved.st # NoState, st'.id = saved.st.id PROVE opened' = saved.opened
    BY <1>1 DEF OneOpening
  <2>1. saved.st.id < nextId /\ saved.st.id \in Nat
    BY <1>4, StateFacts DEF Continues, IInv, TypeOK
  <2>2. Act # "new"
    BY <1>1, <1>3, <2>1
  <2> QED BY <1>1, <1>4, <1>8, <2>2 DEF OneOpening
<1>14. Spaced'
  BY <1>4, DedupSpaced
<1>15. AlertsTogether'
  <2>1. ASSUME NEW a \in Alerts', NEW b \in Alerts', a.id = b.id
        PROVE  \E o \in 1..Len(part') : SameIncident(o, a.msg)' /\ SameIncident(o, b.msg)'
    <3>1. CASE a \in sunk /\ b \in sunk
      <4>1. PICK o \in 1..Len(part) : SameIncident(o, a.msg) /\ SameIncident(o, b.msg)
        BY <1>4, <1>6, <2>1, <3>1 DEF AlertsTogether
      <4>2. o \in Nat
        BY <1>3
      <4> QED BY <1>1, <1>7, <3>1, <4>1, <4>2 DEF SameIncident
    <3>2. CASE ~(a \in sunk /\ b \in sunk)
      <4>1. a.id = st'.id /\ b.id = st'.id
        BY <1>2, <1>6, <2>1, <3>2
      <4>2. opened' \in 1..Len(part)
        <5>1. opened' \in 1..(partPos' - 1)
          BY <1>1 DEF IInv, Summarises
        <5> QED BY <1>1, <1>3, <5>1
      <4>3. PICK o \in 1..Len(part) : o = opened'
        BY <4>2
      <4> QED BY <1>1, <1>10, <2>1, <4>1, <4>3 DEF SameIncident
    <3> QED BY <3>1, <3>2
  <2> QED BY <2>1 DEF AlertsTogether
<1> QED BY <1>9, <1>11, <1>12, <1>13, <1>14, <1>15 DEF SpacingInv

LEMMA SpacingStep ==
  ASSUME IInv, IInv', HistoryInv, HistoryInv', SpacingInv, [Next]_vars
  PROVE  SpacingInv'
<1>1. Grows
  BY NextGrows
<1>2. CASE Dedup
  BY <1>1, <1>2, DedupSpacing
<1>3. CASE Rewound
  <2>1. Alerts' \subseteq Alerts
    BY <1>3 DEF Rewound, Alerts
  <2> QED BY <1>1, <1>3, <2>1, SpacingKept DEF Rewound, histVars
<1>4. CASE Sink
  <2>1. Alerts' \subseteq Alerts
    BY <1>4 DEF Sink, Alerts
  <2> QED BY <1>1, <1>4, <2>1, SpacingKept DEF Sink, stateVars, histVars
<1>5. CASE UNCHANGED <<st, opened, partPos, decided, nextId, pending, sunk, saved>>
  <2>1. Alerts' \subseteq Alerts
    BY <1>5 DEF Alerts
  <2> QED BY <1>1, <1>5, <2>1, SpacingKept
<1>6. CASE Checkpoint
  <2>1. Alerts' \subseteq Alerts /\ UNCHANGED <<st, opened, partPos, decided, nextId>>
        /\ saved'.st = st /\ saved'.opened = opened /\ saved'.part = partPos
    BY <1>6 DEF Checkpoint, Snapshot, Alerts, stateVars, histVars
  <2> QED BY <1>1, <2>1, SpacingKept
<1>7. CASE Enrich
  <2> DEFINE e == source[srcPos]
  <2>1. Raises(e) => Rewound
    BY <1>7, Zenon DEF Enrich, Stopped
  <2>2. ~Raises(e) => UNCHANGED <<st, opened, partPos, decided, nextId, pending, sunk, saved>>
    BY <1>7, Zenon DEF Enrich, histVars
  <2> QED BY <1>3, <1>5, <2>1, <2>2
<1> QED
  BY <1>2, <1>3, <1>4, <1>5, <1>6, <1>7
  DEF Next, vars, stateVars, histVars, Tick, Produce, SinkRaises, SinkError, Stopped,
      DlqDelivers, DlqExpires, Crash

LEMMA InitSpacing == Init => SpacingInv
BY DEF Init, Snapshot, SpacingInv, AlertsPlaced, AlertsTogether, OneOpening, Spaced, Continues, Alerts

\* Alerts of one incident are a refire interval apart in event time, whatever
\* was replayed, unless the wall clock judged a message.
THEOREM AlertsAreSpaced == Spec => []RefireSpacing
<1>1. IInv /\ HistoryInv /\ SpacingInv /\ [Next]_vars => SpacingInv'
  BY NextIInv, HistoryStep, SpacingStep
<1>2. IInv /\ SpacingInv => RefireSpacing
  <2> SUFFICES ASSUME IInv, SpacingInv, clamped = {}, NEW a \in sunk, NEW b \in sunk,
                      a.id = b.id, a.msg < b.msg
               PROVE  b.clock - a.clock >= Refire
    BY DEF RefireSpacing
  <2>1. a \in Emitted /\ b \in Emitted /\ a \in Alerts /\ b \in Alerts
    BY DEF IInv, TypeOK, Alerts
  <2>2. /\ a.msg \in 1..Len(part) /\ decided[a.msg] \in Emitting /\ a.clock = part[a.msg].ts
        /\ b.msg \in 1..Len(part) /\ decided[b.msg] \in Emitting /\ b.clock = part[b.msg].ts
    BY <2>1 DEF SpacingInv, AlertsPlaced
  <2>3. PICK o \in 1..Len(part) : SameIncident(o, a.msg) /\ SameIncident(o, b.msg)
    BY <2>1 DEF SpacingInv, AlertsTogether
  <2>4. SameIncident(a.msg, b.msg)
    BY <2>2, <2>3 DEF SameIncident
  <2> QED BY <2>2, <2>4 DEF SpacingInv, Spaced
<1> QED BY <1>1, <1>2, InitSpacing, StreamInvariant, StreamHistory, PTL DEF Spec
=============================================================================
