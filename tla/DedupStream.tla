----------------------------- MODULE DedupStream -----------------------------
(***************************************************************************)
(* The stream pipeline of quix_runtime.py for the log events of one        *)
(* fingerprint: source topic -> enrich -> repartition topic (group_by) ->  *)
(* keyed-state dedup -> sink.  Topics are logs that survive a crash;       *)
(* positions and keyed state return to the last checkpoint.                *)
(***************************************************************************)
EXTENDS DedupTransition, Sequences, FiniteSets

CONSTANTS
    Kinds,       \* what producers write, a subset of AllKinds
    Levels,      \* ranks of the levels that pass min_level
    MaxTime,     \* bound: timestamps
    MaxWall,     \* bound: the wall clock
    MaxMsgs,     \* bound: messages in the source topic
    MaxPart,     \* bound: messages in the repartition topic
    MaxIds,      \* bound: alert ids (uuid4) handed out
    MaxCrashes   \* bound: crashes

\* bare has no timestamp, quiet is below min_level, garbage is no JSON object,
\* the timestamp of poison is no date.
AllKinds == {"good", "bare", "quiet", "garbage", "poison"}

ASSUME StreamAssumption ==
    /\ Kinds \subseteq AllKinds /\ Levels \subseteq Nat \ {0}
    /\ MaxTime \in Nat /\ MaxWall \in Nat /\ MaxMsgs \in Nat /\ MaxPart \in Nat
    /\ MaxIds \in Nat /\ MaxCrashes \in Nat

VARIABLES
    wall,               \* the wall clock
    source, part,       \* the topics
    srcPos, partPos,    \* next message to read of each
    st,                 \* the fingerprint's keyed state
    pending,            \* the emission on its way to the sink
    sunk,               \* what emit_alert was called with, and returned from
    \* source positions with a record in the DLQ producer's buffer, in the topic;
    \* history: records this process's producer refused or gave up, and those
    \* that were never seen delivered by a process that is gone
    dlqBuf, dlq, refused, lost,
    saved,              \* the last checkpoint
    nextId,
    \* history: where the incident was opened; the first decision on each
    \* message, those decided otherwise later, those judged by the wall clock
    opened, decided, redecided, clamped,
    crashes

topicVars == <<source, part>>
stateVars == <<srcPos, partPos, st, opened>>
dlqVars   == <<dlqBuf, dlq, refused, lost>>
histVars  == <<decided, redecided, clamped>>
vars == <<wall, topicVars, stateVars, pending, sunk, dlqVars, saved, nextId, histVars, crashes>>

-----------------------------------------------------------------------------
None     == "none"
Nothing  == [action |-> None, msg |-> 0, id |-> NoId, clock |-> 0, level |-> 0]
Times    == 0..MaxTime
Snapshot == [src |-> srcPos, part |-> partPos, st |-> st, opened |-> opened]

Init ==
    /\ wall = 0
    /\ source = <<>> /\ part = <<>> /\ srcPos = 1 /\ partPos = 1
    /\ st = NoState /\ opened = 0
    /\ pending = Nothing /\ sunk = {}
    /\ dlqBuf = {} /\ dlq = {} /\ refused = {} /\ lost = {}
    /\ saved = Snapshot
    /\ nextId = 1
    /\ decided = [m \in 1..MaxPart |-> None] /\ redecided = {} /\ clamped = {}
    /\ crashes = 0

-----------------------------------------------------------------------------
Tick ==
    /\ wall < MaxWall /\ wall' = wall + 1
    /\ UNCHANGED <<topicVars, stateVars, pending, sunk, dlqVars, saved, nextId, histVars, crashes>>

\* Producers stamp messages with any time, their order is the topic's.
Produce ==
    /\ Len(source) < MaxMsgs
    /\ \E k \in Kinds, t \in Times, l \in Levels :
          source' = Append(source, [kind |-> k, ts |-> t, level |-> l])
    /\ UNCHANGED <<wall, part, stateVars, pending, sunk, dlqVars, saved, nextId, histVars, crashes>>

\* The DLQ producer's buffer goes with the process.
RecordsGone == dlqBuf' = {} /\ refused' = {} /\ lost' = lost \cup dlqBuf \cup refused

\* Mutant: the source offset is not restored.
StateOnly ==
    /\ partPos' = saved.part /\ st' = saved.st /\ opened' = saved.opened
    /\ pending' = Nothing /\ RecordsGone
    /\ UNCHANGED <<wall, topicVars, srcPos, sunk, saved, nextId, histVars>>

\* The process is gone: everything not checkpointed is read again.
Rewound ==
    /\ srcPos' = saved.src /\ partPos' = saved.part
    /\ st' = saved.st /\ opened' = saved.opened
    /\ pending' = Nothing /\ RecordsGone
    /\ UNCHANGED <<wall, topicVars, sunk, saved, nextId, histVars>>

\* An exception ends app.run: the DLQ producer has five seconds to flush.
Stopped == Rewound /\ dlq' \in {dlq \cup S : S \in SUBSET dlqBuf}

\* Mutant: the deserializer raises on what it cannot parse.
RaisesOnGarbage(e) == e.kind \in {"poison", "garbage"}
Raises(e) == e.kind = "poison"

\* A message without a timestamp is stamped when it is parsed.
Parsed(e) == IF e.kind = "bare" THEN [e EXCEPT !.ts = wall] ELSE e
Kept(e)   == e.kind \in {"good", "bare"}

\* _publish_dlq: the record is buffered, or produce raises, which is logged.
Buffers(m) == dlqBuf' = dlqBuf \cup {m} /\ UNCHANGED refused
Refuses(m) == refused' = refused \cup {m} /\ UNCHANGED dlqBuf

\* A message of the source: unparseable ones go to the DLQ producer, those
\* below min_level are dropped, the others go on under their fingerprint.  A
\* timestamp that does not parse raises, and stops the application.
Enrich ==
    /\ pending = Nothing /\ srcPos <= Len(source)
    /\ LET e == source[srcPos] IN
       IF Raises(e)
       THEN Stopped
       ELSE /\ srcPos' = srcPos + 1
            /\ Kept(e) => Len(part) < MaxPart
            /\ part' = IF Kept(e) THEN Append(part, Parsed(e)) ELSE part
            /\ IF e.kind = "garbage" THEN Buffers(srcPos) \/ Refuses(srcPos)
               ELSE UNCHANGED <<dlqBuf, refused>>
            /\ UNCHANGED <<wall, source, partPos, st, opened, pending, sunk, dlq,
                           lost, saved, nextId, histVars>>
    /\ UNCHANGED crashes

\* What is stored after an event.  Mutant: a suppressed event is not stored.
StoredIfEmitted(r, old) == IF r.action = "suppress" THEN old ELSE r.state
Stored(r, old) == r.state

\* process_enriched_with_state.
Dedup ==
    /\ pending = Nothing /\ partPos <= Len(part)
    /\ LET e     == part[partPos]
           clock == EventClock(e.ts, wall)
           r     == Transition(st, e, clock, nextId)
       IN
       /\ r.action = "new" => nextId <= MaxIds
       /\ nextId' = IF r.action = "new" THEN nextId + 1 ELSE nextId
       /\ st' = Stored(r, st)
       /\ opened' = IF r.action = "new" THEN partPos ELSE opened
       /\ pending' = IF r.action = "suppress" THEN Nothing
                     ELSE [action |-> r.action, msg |-> partPos, id |-> r.state.id,
                           clock |-> clock, level |-> r.state.level]
       /\ decided' = IF decided[partPos] = None
                     THEN [decided EXCEPT ![partPos] = r.action] ELSE decided
       /\ redecided' = IF decided[partPos] \in {None, r.action}
                       THEN redecided ELSE redecided \cup {partPos}
       /\ clamped' = IF e.ts > wall + Skew THEN clamped \cup {partPos} ELSE clamped
    /\ partPos' = partPos + 1
    /\ UNCHANGED <<wall, topicVars, srcPos, sunk, dlqVars, saved, crashes>>

\* sink: emit_alert returns ...
Sink ==
    /\ pending # Nothing
    /\ sunk' = sunk \cup {pending}
    /\ pending' = Nothing
    /\ UNCHANGED <<wall, topicVars, stateVars, dlqVars, saved, nextId, histVars, crashes>>

\* ... or raises, and the application stops.  Mutant: the error is swallowed.
Swallowed ==
    /\ pending' = Nothing
    /\ UNCHANGED <<wall, topicVars, stateVars, sunk, dlqVars, saved, nextId, histVars>>
SinkError == Stopped

SinkRaises == pending # Nothing /\ crashes < MaxCrashes /\ crashes' = crashes + 1 /\ SinkError

\* librdkafka delivers the DLQ producer's buffer in the background, or gives a
\* record up at its timeout; no delivery callback is registered.
DlqDelivers(m) ==
    /\ m \in dlqBuf /\ dlqBuf' = dlqBuf \ {m} /\ dlq' = dlq \cup {m}
    /\ UNCHANGED <<wall, topicVars, stateVars, pending, sunk, refused, lost, saved, nextId,
                   histVars, crashes>>

DlqExpires(m) ==
    /\ m \in dlqBuf /\ dlqBuf' = dlqBuf \ {m} /\ refused' = refused \cup {m}
    /\ UNCHANGED <<wall, topicVars, stateVars, pending, sunk, dlq, lost, saved, nextId,
                   histVars, crashes>>

\* Between two messages offsets and state are committed together; the DLQ
\* producer is not flushed by it.
Checkpoint ==
    /\ pending = Nothing /\ saved # Snapshot
    /\ saved' = Snapshot
    /\ UNCHANGED <<wall, topicVars, stateVars, pending, sunk, dlqVars, nextId, histVars, crashes>>

Crash ==
    /\ saved # Snapshot \/ dlqBuf # {}
    /\ crashes < MaxCrashes /\ crashes' = crashes + 1 /\ Rewound /\ UNCHANGED dlq

Next ==
    \/ Tick \/ Produce \/ Enrich \/ Dedup \/ Sink \/ SinkRaises
    \/ Checkpoint \/ Crash \/ \E m \in dlqBuf : DlqDelivers(m) \/ DlqExpires(m)

Spec == Init /\ [][Next]_vars

\* A running application polls, and is restarted when it stops; the database
\* answers, so an emission ends.
FairSpec == Spec /\ WF_vars(Enrich) /\ WF_vars(Dedup) /\ WF_vars(Sink) /\ WF_vars(Checkpoint)
-----------------------------------------------------------------------------
(* Properties *)

Message == [kind : AllKinds, ts : Nat, level : Nat]
Emitted == [action : Action \cup {None}, msg : Nat, id : Nat, clock : Int, level : Nat]

TypeOK ==
    /\ wall \in Nat /\ source \in Seq(Message) /\ part \in Seq(Message)
    /\ srcPos \in Nat \ {0} /\ partPos \in Nat \ {0}
    /\ st \in State /\ opened \in Nat
    /\ pending \in Emitted /\ sunk \subseteq Emitted
    /\ dlqBuf \subseteq Nat /\ dlq \subseteq Nat /\ refused \subseteq Nat /\ lost \subseteq Nat
    /\ saved \in [src : Nat \ {0}, part : Nat \ {0}, st : State, opened : Nat]
    /\ nextId \in Nat \ {0} /\ crashes \in Nat
    /\ decided \in [1..MaxPart -> Action \cup {None}]
    /\ redecided \subseteq Nat /\ clamped \subseteq Nat

\* The state of an incident counts every event since it was opened exactly
\* once, suppressed ones too, whatever was replayed after a crash.
CountsEveryEvent ==
    /\ st # NoState => st.count = partPos - opened
    /\ saved.st # NoState => saved.st.count = saved.part - saved.opened

\* The severity of an incident is the worst of its events, and each of its
\* alerts carries the worst one up to then.
SeverityIsWorst ==
    st # NoState =>
        /\ \A m \in opened..(partPos - 1) : part[m].level <= st.level
        /\ \E m \in opened..(partPos - 1) : part[m].level = st.level

\* Two alerts of one incident are at least the refire interval apart in event
\* time, across replays as well, as long as no timestamp had to be clamped.
RefireSpacing ==
    clamped = {} =>
        \A a, b \in sunk : a.id = b.id /\ a.msg < b.msg => b.clock - a.clock >= Refire

\* No message up to m was stamped so far ahead that the wall clock judged it.
Sure(m) == \A c \in clamped : m < c

\* Replaying a message decides it as before, unless it or a message before it
\* was stamped so far ahead that the wall clock judged it.
ReplayStable == \A m \in redecided : ~Sure(m)

\* A message whose offset is committed has reached the database if dedup
\* decided to emit it: a crash or a failing upsert never loses an alert.
Emitting == {"new", "update"}
CommittedMeansSunk ==
    \A m \in 1..(saved.part - 1) :
        decided[m] \in Emitting /\ Sure(m) => \E a \in sunk : a.msg = m

\* A garbled message that was read is in the DLQ or on its way to it, except
\* through a named window: this process's producer refused its record or gave
\* it up, or an earlier process never delivered it and yet its offset was
\* committed.  What a restart reads again is written again.
GarbageKept ==
    \A m \in 1..(srcPos - 1) : source[m].kind = "garbage" =>
        m \in dlq \cup dlqBuf \cup refused \/ (m \in lost /\ m < saved.src)

\* A second incident is opened exactly by a message stamped more than the
\* window after the one before it, in whatever order they come and from
\* wherever a restart resumed, unless the wall clock judged it.
SplitsOnSilence ==
    \A m \in 2..Len(part) : decided[m] # None /\ m \notin clamped =>
        (decided[m] = "new" <=> part[m].ts - part[m - 1].ts > Window)

\* Every message is read to the end: the offsets of the source get past it.
EveryMessagePasses ==
    \A m \in 1..MaxMsgs : m <= Len(source) ~> saved.src > m \/ Len(part) = MaxPart \/ nextId > MaxIds
-----------------------------------------------------------------------------
(* The strengthening of CountsEveryEvent and SeverityIsWorst: the state, and *)
(* the one a crash returns to, summarise the messages of their incident.     *)

Summarises(messages, s, from, to) ==
    s # NoState =>
        /\ from \in 1..(to - 1) /\ s.count = to - from
        /\ \A m \in from..(to - 1) : messages[m].level <= s.level
        /\ \E m \in from..(to - 1) : messages[m].level = s.level

IInv ==
    /\ TypeOK
    /\ partPos <= Len(part) + 1 /\ Summarises(part, st, opened, partPos)
    /\ saved.part <= Len(part) + 1 /\ Summarises(part, saved.st, saved.opened, saved.part)
-----------------------------------------------------------------------------
(* The strengthening of ReplayStable, SplitsOnSilence and CommittedMeansSunk: *)
(* the state, and the one a crash returns to, remember what was decided.      *)

\* The last message before pos that was announced.
LastEmission(k, pos) ==
    /\ k \in 1..(pos - 1) /\ decided[k] \in Emitting
    /\ \A j \in (k + 1)..(pos - 1) : decided[j] = "suppress"

Remembers(s, pos) ==
    /\ \A m \in 1..(pos - 1) : decided[m] # None
    /\ s = NoState <=> pos = 1
    /\ pos > 1 => s.last = part[pos - 1].ts
    /\ pos > 1 /\ Sure(pos - 1) =>
          \E k \in 1..(pos - 1) : LastEmission(k, pos) /\ s.emitted = part[k].ts

\* The rule each first decision follows.
Ruled(m) ==
    /\ m = 1 => decided[m] = "new"
    /\ m > 1 /\ m \notin clamped => (decided[m] = "new" <=> part[m].ts - part[m - 1].ts > Window)
    /\ Sure(m) /\ decided[m] # "new" =>
          \A k \in 1..(m - 1) : LastEmission(k, m) =>
              (decided[m] = "suppress" <=> part[m].ts - part[k].ts < Refire)

HistoryInv ==
    /\ Len(part) <= MaxPart
    /\ Remembers(st, partPos) /\ Remembers(saved.st, saved.part)
    /\ \A m \in 1..MaxPart : decided[m] # None =>
          m <= Len(part) /\ (\A n \in 1..m : decided[n] # None) /\ Ruled(m)
    /\ ReplayStable

DeliveryInv ==
    /\ \A m \in 1..(partPos - 1) : decided[m] \in Emitting /\ Sure(m) =>
          pending.msg = m \/ \E a \in sunk : a.msg = m
    /\ CommittedMeansSunk

(* The strengthening of RefireSpacing: alerts with one id belong to messages  *)
(* between which no incident was opened, and those alerts are spaced.         *)
Alerts == sunk \cup ({pending} \ {Nothing})
SameIncident(o, p) == o <= p /\ \A j \in (o + 1)..p : decided[j] # "new"

AlertsPlaced ==
    \A a \in Alerts : /\ a.msg \in 1..Len(part) /\ decided[a.msg] \in Emitting
                      /\ a.clock = part[a.msg].ts /\ a.id < nextId
AlertsTogether ==
    \A a, b \in Alerts : a.id = b.id =>
        \E o \in 1..Len(part) : SameIncident(o, a.msg) /\ SameIncident(o, b.msg)
Continues(s, o, pos) ==
    s # NoState => /\ s.id < nextId /\ SameIncident(o, pos - 1)
                   /\ \A a \in Alerts : a.id = s.id => SameIncident(o, a.msg)
OneOpening ==
    st # NoState /\ saved.st # NoState /\ st.id = saved.st.id => opened = saved.opened
Spaced ==
    \A i, j \in 1..Len(part) :
        i < j /\ decided[i] \in Emitting /\ decided[j] \in Emitting /\ SameIncident(i, j) =>
            part[j].ts - part[i].ts >= Refire

SpacingInv == clamped = {} =>
    /\ AlertsPlaced /\ AlertsTogether /\ OneOpening /\ Spaced
    /\ Continues(st, opened, partPos) /\ Continues(saved.st, saved.opened, saved.part)
=============================================================================
