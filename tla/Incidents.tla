------------------------------ MODULE Incidents ------------------------------
(***************************************************************************)
(* The incidents of one fingerprint and everybody who writes them: the     *)
(* stream worker (AlertProcessor.emit_alert), demo-fire requests, which    *)
(* upsert the same rows from the UI process, operators who set a status,   *)
(* and clear_all.  Rows of different fingerprints never meet.              *)
(*                                                                         *)
(* A session SELECTs without a lock and UPDATEs later, so an upsert and a  *)
(* status change are two steps: load, and commit.  The row lock taken by   *)
(* the UPDATE is held to the commit, which makes flush, outbox insert and  *)
(* commit one step.  The partial unique index on the active fingerprint is *)
(* checked at that step.                                                   *)
(***************************************************************************)
EXTENDS Naturals, FiniteSets

CONSTANTS
    Pipe,           \* the stream worker that owns the fingerprint
    Demo,           \* concurrent demo-fire requests of the UI
    Operator,       \* concurrent status requests of the UI
    Reopen,         \* the values of allow_reopen_after_resolve the events carry:
                    \* an error code may override it, and is no part of the key
    SuppressAcked,  \* suppress_dispatch_while_acknowledged
    MaxIds,         \* bound: alert ids (uuid4) handed out
    MaxMsgs,        \* bound: log events of the fingerprint
    MaxFires,       \* bound: upserts by demo requests
    MaxOps,         \* bound: status changes and clears
    MaxCrashes      \* bound: crashes of the stream worker

ASSUME IncidentsAssumption ==
    /\ Pipe \notin Demo /\ Reopen \subseteq BOOLEAN /\ SuppressAcked \in BOOLEAN
    /\ MaxIds \in Nat /\ MaxMsgs \in Nat /\ MaxFires \in Nat
    /\ MaxOps \in Nat /\ MaxCrashes \in Nat

VARIABLES
    \* alerts (acked and resolved: acknowledged_at and resolved_at are set),
    \* the outbox keys of the incidents, and the ids handed out so far
    status, count, acked, resolved, outbox, nextId,
    \* Quix keyed state with the offset, and its last checkpoint
    stream, saved,
    \* an emission in progress: place, event, the row it loaded, retries
    pc, ev, row, tries,
    \* a status request: row, new status, what it loaded; a clear in progress
    opRow, opNew, opSeen, clearing, clearKeys,
    \* history: emissions that another emission, or an operator, overtook; ids
    \* whose count was written from a stale base; ids whose outbox keys a
    \* clear left behind; ids a notification of which found its key taken;
    \* messages that were notified once, and again
    overtaken, touched, regressed, orphaned, swallowed, notified, twice,
    \* budgets
    fires, ops, crashes

dbVars     == <<status, count, acked, resolved, outbox>>
streamVars == <<stream, saved>>
emitVars   == <<pc, ev, row, tries>>
opVars     == <<opRow, opNew, opSeen>>
clearVars  == <<clearing, clearKeys>>
histVars   == <<overtaken, touched, regressed, orphaned, swallowed, notified, twice>>
budgets    == <<fires, ops, crashes>>
vars == <<dbVars, nextId, streamVars, emitVars, opVars, clearVars, histVars, budgets>>

-----------------------------------------------------------------------------
Id       == 1..MaxIds
NoId     == 0
Emitter  == Demo \cup {Pipe}
Absent   == "absent"
ActiveStatus   == {"open", "updated", "acknowledged"}
OperatorStatus == ActiveStatus \cup {"resolved"}
RowStatus      == OperatorStatus \cup {Absent}

Rows    == {i \in Id : status[i] # Absent}
Active  == {i \in Id : status[i] \in ActiveStatus}
Busy    == {e \in Emitter : pc[e] # "idle"}
NoRow   == [id |-> NoId, status |-> Absent, count |-> 0]
NoSeen  == [status |-> Absent, acked |-> FALSE, resolved |-> FALSE]
NoEvent == [id |-> NoId, count |-> 0, new |-> FALSE, status |-> "open",
            occ |-> 0, wants |-> FALSE, msg |-> 0, reopen |-> TRUE]

\* A session writes only the columns whose value differs from what it loaded.
Flush(loaded, current, new) == IF loaded = new THEN current ELSE new

Init ==
    /\ status = [i \in Id |-> Absent] /\ count = [i \in Id |-> 0]
    /\ acked = [i \in Id |-> FALSE] /\ resolved = [i \in Id |-> FALSE]
    /\ outbox = {} /\ nextId = 1
    /\ stream = [id |-> NoId, count |-> 0, next |-> 1] /\ saved = stream
    /\ pc = [e \in Emitter |-> "idle"] /\ ev = [e \in Emitter |-> NoEvent]
    /\ row = [e \in Emitter |-> NoRow] /\ tries = [e \in Emitter |-> 0]
    /\ opRow = [o \in Operator |-> NoId] /\ opNew = [o \in Operator |-> "open"]
    /\ opSeen = [o \in Operator |-> NoSeen]
    /\ clearing = FALSE /\ clearKeys = {}
    /\ overtaken = {} /\ touched = {} /\ regressed = {} /\ orphaned = {}
    /\ swallowed = {} /\ notified = {} /\ twice = {}
    /\ fires = 0 /\ ops = 0 /\ crashes = 0

-----------------------------------------------------------------------------
(* The stream worker decides (dedup); DedupStream models when. *)

\* Emission e sets out with event a.
Begin(e, a) ==
    /\ pc' = [pc EXCEPT ![e] = IF a.reopen THEN "load" ELSE "policy"]
    /\ ev' = [ev EXCEPT ![e] = a]
    /\ row' = [row EXCEPT ![e] = NoRow]
    /\ tries' = [tries EXCEPT ![e] = 0]
    /\ overtaken' = overtaken \ {e}
    /\ touched' = touched \ {e}
    /\ UNCHANGED <<regressed, orphaned, swallowed, notified, twice>>

\* Emission e is over.
Leave(e) ==
    /\ pc' = [pc EXCEPT ![e] = "idle"]
    /\ ev' = [ev EXCEPT ![e] = NoEvent]
    /\ row' = [row EXCEPT ![e] = NoRow]
    /\ tries' = [tries EXCEPT ![e] = 0]

StreamReady == pc[Pipe] = "idle" /\ stream.next <= MaxMsgs

\* No state for the key, or its window has expired.
StreamNew ==
    /\ StreamReady /\ nextId <= MaxIds
    /\ stream' = [id |-> nextId, count |-> 1, next |-> stream.next + 1]
    /\ nextId' = nextId + 1
    /\ \E r \in Reopen :
          Begin(Pipe, [id |-> nextId, count |-> 1, new |-> TRUE, status |-> "open",
                       occ |-> 0, wants |-> TRUE, msg |-> stream.next, reopen |-> r])
    /\ UNCHANGED <<dbVars, saved, opVars, clearVars, budgets>>

\* Within the window, past the refire interval.
StreamRefire ==
    /\ StreamReady /\ stream.id # NoId
    /\ stream' = [stream EXCEPT !.count = @ + 1, !.next = @ + 1]
    /\ \E r \in Reopen :
          Begin(Pipe, [id |-> stream.id, count |-> stream.count + 1, new |-> FALSE, occ |-> 0,
                       status |-> "updated", wants |-> TRUE, msg |-> stream.next, reopen |-> r])
    /\ UNCHANGED <<dbVars, nextId, saved, opVars, clearVars, budgets>>

\* Within the refire interval: counted, not emitted.
StreamSuppress ==
    /\ StreamReady /\ stream.id # NoId
    /\ stream' = [stream EXCEPT !.count = @ + 1, !.next = @ + 1]
    /\ UNCHANGED <<dbVars, nextId, saved, emitVars, opVars, clearVars, histVars, budgets>>

\* Offsets and the state changelog are committed together, now and then.
Checkpoint ==
    /\ pc[Pipe] = "idle" /\ saved # stream
    /\ saved' = stream
    /\ UNCHANGED <<dbVars, nextId, stream, emitVars, opVars, clearVars, histVars, budgets>>

\* Whatever was not committed is forgotten, and delivered again.
Rewind(e) == stream' = IF e = Pipe THEN saved ELSE stream

Crash ==
    /\ crashes < MaxCrashes /\ crashes' = crashes + 1
    /\ stream # saved \/ pc[Pipe] # "idle"
    /\ Rewind(Pipe) /\ Leave(Pipe)
    /\ overtaken' = overtaken \ {Pipe} /\ touched' = touched \ {Pipe}
    /\ UNCHANGED <<dbVars, nextId, saved, opVars, clearVars,
                   regressed, orphaned, swallowed, notified, twice, fires, ops>>

-----------------------------------------------------------------------------
(* demo_fire *)

\* It reads the active row in a session of its own.
DemoRead(d) ==
    /\ pc[d] = "idle" /\ fires < MaxFires /\ fires' = fires + 1
    /\ \/ \E i \in Active :
             /\ Begin(d, [id |-> i, count |-> count[i] + 1, new |-> FALSE, status |-> "updated",
                          occ |-> count[i] + 1, wants |-> FALSE, msg |-> 0, reopen |-> TRUE])
             /\ UNCHANGED nextId
       \/ /\ Active = {} /\ nextId <= MaxIds /\ nextId' = nextId + 1
          /\ Begin(d, [id |-> nextId, count |-> 1, new |-> TRUE, status |-> "open",
                       occ |-> 1, wants |-> TRUE, msg |-> 0, reopen |-> TRUE])
    /\ UNCHANGED <<dbVars, streamVars, opVars, clearVars, ops, crashes>>

-----------------------------------------------------------------------------
(* emit_alert: reopen policy, then the upsert transaction. *)

\* Mutant: the resolved rows are not looked at.
NoneResolved == FALSE
SomeResolved == \E i \in Id : status[i] = "resolved"

\* has_active_fingerprint, then has_resolved_fingerprint, in two sessions.
PolicyActive(e) ==
    /\ pc[e] = "policy"
    /\ pc' = [pc EXCEPT ![e] = IF Active # {} THEN "load" ELSE "policy2"]
    /\ UNCHANGED <<dbVars, nextId, streamVars, ev, row, tries, opVars, clearVars, histVars, budgets>>

PolicyResolved(e) ==
    /\ pc[e] = "policy2"
    /\ IF SomeResolved
       THEN Leave(e)
       ELSE pc' = [pc EXCEPT ![e] = "load"] /\ UNCHANGED <<ev, row, tries>>
    /\ UNCHANGED <<dbVars, nextId, streamVars, opVars, clearVars, histVars, budgets>>

\* The SELECTs of _upsert_in_session: the active row, else whether the event's
\* id is taken by a row that is not active; then the event gets a fresh id.
Load(e) ==
    /\ pc[e] = "load"
    /\ \/ /\ \E i \in Active :
              row' = [row EXCEPT ![e] = [id |-> i, status |-> status[i], count |-> count[i]]]
          /\ UNCHANGED <<ev, nextId>>
       \/ /\ Active = {} /\ row' = [row EXCEPT ![e] = NoRow]
          /\ IF ev[e].id \in Rows
             THEN /\ nextId <= MaxIds /\ nextId' = nextId + 1
                  /\ ev' = [ev EXCEPT ![e].id = nextId, ![e].new = TRUE]
             ELSE UNCHANGED <<ev, nextId>>
    /\ pc' = [pc EXCEPT ![e] = "commit"]
    /\ UNCHANGED <<dbVars, streamVars, tries, opVars, clearVars, histVars, budgets>>

\* apply_event_to_record: the count and the status it gives a loaded row.
\* Mutants: the event's count is taken as it is; acknowledged is not kept; the
\* enum's name, not its value.
EventCount(a, loaded) == a.count
NextCount(a, loaded) ==
    IF a.new \/ a.count <= loaded.count THEN loaded.count + 1 ELSE a.count

AlwaysUpdated(s) == "updated"
RefreshedStatus(s) == IF s = "acknowledged" THEN s ELSE "updated"

\* _should_enqueue; demo_fire asks for a notification of the first event only.
\* Mutant: acknowledged incidents notify.
AlwaysNotify(e, s) == ev[e].wants
ShouldEnqueue(e, s) == ev[e].wants /\ ~(e = Pipe /\ SuppressAcked /\ s = "acknowledged")

\* The outbox insert of the same transaction; a key that is there is skipped.
Notify(e, i, n, s) ==
    IF ShouldEnqueue(e, s)
    THEN /\ outbox' = outbox \cup {<<i, n>>}
         /\ swallowed' = IF <<i, n>> \in outbox THEN swallowed \cup {i} ELSE swallowed
         /\ notified' = IF e = Pipe THEN notified \cup {ev[e].msg} ELSE notified
         /\ twice' = IF e = Pipe THEN twice \cup ({ev[e].msg} \cap notified) ELSE twice
    ELSE UNCHANGED <<outbox, swallowed, notified, twice>>

\* What an emission finds when it writes: the index or the primary key
\* refuses the row (IntegrityError), or the row has gone (StaleDataError).
Written(e) == Flush(row[e].status, status[row[e].id], RefreshedStatus(row[e].status))
Gone(e)    == row[e] # NoRow /\ row[e].id \notin Rows
Clashes(e) ==
    IF row[e] = NoRow
    THEN Active # {} \/ ev[e].id \in Rows
    ELSE ~Gone(e) /\ Written(e) \in ActiveStatus /\ Active \ {row[e].id} # {}

\* A row was written: everybody else at work has been overtaken.
Overtake(e) ==
    /\ overtaken' = (overtaken \cup Busy) \ {e}
    /\ touched' = touched \ {e}

\* A demo request goes on with its next event, or it is done.
Finish(e, i) ==
    \/ Leave(e) /\ UNCHANGED fires
    \/ /\ e \in Demo /\ fires < MaxFires /\ fires' = fires + 1
       /\ pc' = [pc EXCEPT ![e] = "load"]
       /\ ev' = [ev EXCEPT ![e] = [id |-> i, count |-> ev[e].occ + 1, new |-> FALSE,
                    status |-> "updated", occ |-> ev[e].occ + 1, wants |-> FALSE, msg |-> 0,
                    reopen |-> TRUE]]
       /\ row' = [row EXCEPT ![e] = NoRow]
       /\ tries' = [tries EXCEPT ![e] = 0]

Insert(e) ==
    LET i == ev[e].id IN
    /\ pc[e] = "commit" /\ row[e] = NoRow /\ ~Clashes(e)
    /\ status' = [status EXCEPT ![i] = ev[e].status]
    /\ count' = [count EXCEPT ![i] = ev[e].count]
    /\ acked' = [acked EXCEPT ![i] = FALSE]
    /\ resolved' = [resolved EXCEPT ![i] = FALSE]
    /\ Notify(e, i, ev[e].count, ev[e].status)
    /\ Overtake(e) /\ Finish(e, i)
    /\ UNCHANGED <<nextId, streamVars, opVars, clearVars, regressed, orphaned, ops, crashes>>

Update(e) ==
    LET i == row[e].id
        n == NextCount(ev[e], row[e])
    IN
    /\ pc[e] = "commit" /\ row[e] # NoRow /\ ~Gone(e) /\ ~Clashes(e)
    /\ status' = [status EXCEPT ![i] = Written(e)]
    /\ count' = [count EXCEPT ![i] = n]
    /\ regressed' = IF row[e].count # count[i] /\ n <= count[i]
                    THEN regressed \cup {i} ELSE regressed
    /\ Notify(e, i, n, RefreshedStatus(row[e].status))
    /\ Overtake(e) /\ Finish(e, i)
    /\ UNCHANGED <<acked, resolved, nextId, streamVars, opVars, clearVars, orphaned, ops, crashes>>

\* "Concurrent insert of same active fingerprint - retry as update", once.
\* Mutant: no retry.
NoRetries == 0
MaxRetries == 1

Retry(e) ==
    /\ pc[e] = "commit" /\ Clashes(e) /\ tries[e] < MaxRetries
    /\ tries' = [tries EXCEPT ![e] = @ + 1]
    /\ ev' = [ev EXCEPT ![e].new = FALSE]
    /\ row' = [row EXCEPT ![e] = NoRow]
    /\ pc' = [pc EXCEPT ![e] = "load"]
    /\ UNCHANGED <<dbVars, nextId, streamVars, opVars, clearVars, histVars, budgets>>

Raises(e) == pc[e] = "commit" /\ (Gone(e) \/ (Clashes(e) /\ tries[e] >= MaxRetries))

\* Nothing catches it: the stream application stops and is restarted, the
\* demo request answers 500.
Raise(e) ==
    /\ Raises(e)
    /\ Rewind(e) /\ Leave(e)
    /\ overtaken' = overtaken \ {e} /\ touched' = touched \ {e}
    /\ UNCHANGED <<dbVars, nextId, saved, opVars, clearVars,
                   regressed, orphaned, swallowed, notified, twice, budgets>>

-----------------------------------------------------------------------------
(* Operators: _apply_status and clear_all *)

OpLoad(o) ==
    /\ opRow[o] = NoId /\ ops < MaxOps /\ ops' = ops + 1
    /\ \E i \in Rows, s \in OperatorStatus :
          /\ opRow' = [opRow EXCEPT ![o] = i]
          /\ opNew' = [opNew EXCEPT ![o] = s]
          /\ opSeen' = [opSeen EXCEPT ![o] = [status |-> status[i], acked |-> acked[i],
                                             resolved |-> resolved[i]]]
    /\ UNCHANGED <<dbVars, nextId, streamVars, emitVars, clearVars, histVars, fires, crashes>>

\* apply_status_timestamps: what becomes of acknowledged_at and resolved_at.
\* Mutant: no implicit acknowledgement on resolve.
NoImplicitAck(new, loaded, current) ==
    CASE new = "acknowledged" /\ loaded.status \in {"open", "updated"} -> TRUE
      [] new = "open" /\ loaded.status = "acknowledged" -> Flush(loaded.acked, current, FALSE)
      [] new \in {"open", "updated"} /\ loaded.status = "resolved"
            -> Flush(loaded.acked, current, FALSE)
      [] OTHER -> current
AckedAfter(new, loaded, current) ==
    CASE new = "acknowledged" /\ loaded.status \in {"open", "updated"} -> TRUE
      [] new = "resolved" /\ loaded.status # "resolved" /\ ~loaded.acked -> TRUE
      [] new = "open" /\ loaded.status = "acknowledged" -> Flush(loaded.acked, current, FALSE)
      [] new \in {"open", "updated"} /\ loaded.status = "resolved"
            -> Flush(loaded.acked, current, FALSE)
      [] OTHER -> current

ResolvedAfter(new, loaded, current) ==
    CASE new = "resolved" /\ loaded.status # "resolved" -> TRUE
      [] new \in {"open", "updated"} /\ loaded.status = "resolved"
            -> Flush(loaded.resolved, current, FALSE)
      [] OTHER -> current

OpDone(o) ==
    /\ opRow' = [opRow EXCEPT ![o] = NoId]
    /\ opNew' = [opNew EXCEPT ![o] = "open"]
    /\ opSeen' = [opSeen EXCEPT ![o] = NoSeen]

OpStatus(o) == Flush(opSeen[o].status, status[opRow[o]], opNew[o])
OpRefused(o) ==
    \/ opRow[o] \notin Rows
    \/ OpStatus(o) \in ActiveStatus /\ Active \ {opRow[o]} # {}

OpCommit(o) ==
    LET i == opRow[o] IN
    /\ i # NoId /\ ~OpRefused(o)
    /\ status' = [status EXCEPT ![i] = OpStatus(o)]
    /\ acked' = [acked EXCEPT ![i] = AckedAfter(opNew[o], opSeen[o], @)]
    /\ resolved' = [resolved EXCEPT ![i] = ResolvedAfter(opNew[o], opSeen[o], @)]
    /\ touched' = touched \cup Busy
    /\ OpDone(o)
    /\ UNCHANGED <<count, outbox, nextId, streamVars, emitVars, clearVars, overtaken,
                   regressed, orphaned, swallowed, notified, twice, budgets>>

\* The row has gone, or another one is active for the fingerprint: a 500.
OpFail(o) ==
    /\ opRow[o] # NoId /\ OpRefused(o)
    /\ OpDone(o)
    /\ UNCHANGED <<dbVars, nextId, streamVars, emitVars, clearVars, histVars, budgets>>

\* clear_all deletes the outbox rows it can see, and in a later statement the
\* incidents it can see then.
ClearOutbox ==
    /\ ~clearing /\ ops < MaxOps /\ ops' = ops + 1
    /\ clearing' = TRUE /\ clearKeys' = outbox
    /\ UNCHANGED <<dbVars, nextId, streamVars, emitVars, opVars, histVars, fires, crashes>>

ClearAlerts ==
    /\ clearing /\ clearing' = FALSE /\ clearKeys' = {}
    /\ outbox' = outbox \ clearKeys
    /\ status' = [i \in Id |-> Absent] /\ count' = [i \in Id |-> 0]
    /\ acked' = [i \in Id |-> FALSE] /\ resolved' = [i \in Id |-> FALSE]
    /\ orphaned' = orphaned \cup {k[1] : k \in outbox \ clearKeys}
    /\ touched' = touched \cup Busy
    /\ UNCHANGED <<nextId, streamVars, emitVars, opVars, overtaken,
                   regressed, swallowed, notified, twice, budgets>>

-----------------------------------------------------------------------------
Emission(e) ==
    PolicyActive(e) \/ PolicyResolved(e) \/ Load(e) \/ Insert(e) \/ Update(e) \/ Retry(e) \/ Raise(e)

Next ==
    \/ StreamNew \/ StreamRefire \/ StreamSuppress \/ Checkpoint \/ Crash
    \/ \E d \in Demo : DemoRead(d)
    \/ \E e \in Emitter : Emission(e)
    \/ \E o \in Operator : OpLoad(o) \/ OpCommit(o) \/ OpFail(o)
    \/ ClearOutbox \/ ClearAlerts

Spec == Init /\ [][Next]_vars
-----------------------------------------------------------------------------
(* Properties *)

Event == [id : 0..MaxIds, count : Nat, new : BOOLEAN, status : {"open", "updated"},
          occ : Nat, wants : BOOLEAN, msg : Nat, reopen : BOOLEAN]
Stream == [id : 0..MaxIds, count : Nat, next : Nat]

DbType ==
    /\ status \in [Id -> RowStatus] /\ count \in [Id -> Nat]
    /\ acked \in [Id -> BOOLEAN] /\ resolved \in [Id -> BOOLEAN]
    /\ outbox \subseteq Id \X Nat /\ nextId \in 1..(MaxIds + 1)

EmitType ==
    /\ stream \in Stream /\ saved \in Stream
    /\ pc \in [Emitter -> {"idle", "policy", "policy2", "load", "commit"}]
    /\ ev \in [Emitter -> Event]
    /\ row \in [Emitter -> [id : 0..MaxIds, status : RowStatus, count : Nat]]
    /\ tries \in [Emitter -> Nat]

OpType ==
    /\ opRow \in [Operator -> 0..MaxIds] /\ opNew \in [Operator -> OperatorStatus]
    /\ opSeen \in [Operator -> [status : RowStatus, acked : BOOLEAN, resolved : BOOLEAN]]
    /\ clearing \in BOOLEAN /\ clearKeys \subseteq Id \X Nat

HistType ==
    /\ overtaken \subseteq Emitter /\ touched \subseteq Emitter
    /\ regressed \subseteq Id /\ orphaned \subseteq Id /\ swallowed \subseteq Id
    /\ notified \subseteq Nat /\ twice \subseteq Nat
    /\ fires \in Nat /\ ops \in Nat /\ crashes \in Nat

TypeOK == DbType /\ EmitType /\ OpType /\ HistType

\* A resolved incident has a resolved_at, whatever mix of status requests and
\* upserts from stale rows wrote it (apply_status_timestamps, session flush).
ResolvedStamped == \A i \in Id : status[i] = "resolved" => resolved[i]

\* Resolving stamps acknowledged_at as well, unless another operator took an
\* acknowledgement back after the resolving request had seen it.
ResolveAcks ==
    [][\A i \in Id : status[i] # "resolved" /\ status'[i] = "resolved" =>
          \/ acked'[i]
          \/ \E o \in Operator : opRow[o] = i /\ opSeen[o].acked /\ ~acked[i]]_vars

\* The occurrence count of an incident goes down only when an emission writes
\* from a row that another emission has moved on in the meantime: replays of
\* the stream, lost stream state and operators never lower it.
CountsGrow ==
    [][\A i \in Rows : status'[i] # Absent /\ count'[i] < count[i] =>
          \E e \in overtaken : pc[e] = "commit" /\ row[e].id = i]_vars

\* A notification that upsert_and_maybe_enqueue wants finds its idempotency key
\* taken, and is dropped, only for an incident whose count a stale upsert has
\* set back or whose outbox rows a clear left behind: replays, resolved ids
\* that return and lost stream state always get a key of their own.
RefiresNotify == swallowed \subseteq regressed \cup orphaned

\* An emission overrides what an operator set only on the first refire of an
\* incident, when the operator's commit came after the emission loaded the row.
OperatorKept ==
    [][\A i \in Id : status[i] \in {"acknowledged", "resolved"}
                       /\ status'[i] \in {"open", "updated"} =>
          \/ \E o \in Operator : opRow[o] = i
          \/ \E e \in touched : pc[e] = "commit" /\ row[e].id = i /\ row[e].status = "open"]_vars

\* While an incident is acknowledged the stream adds no notification of it,
\* unless the acknowledgement came after the emission had begun.
AckSilences ==
    [][\A i \in Active : SuppressAcked /\ status[i] = "acknowledged" =>
          \A k \in outbox' \ outbox : k[1] = i =>
             Pipe \in touched \/ \E d \in Demo : pc[d] = "commit"]_vars

\* Without allow_reopen_after_resolve the stream opens an incident beside a
\* resolved one only if something was written after it looked.
PolicyKept ==
    [][Insert(Pipe) /\ ~ev[Pipe].reopen =>
          Pipe \in touched \cup overtaken \/ \A i \in Id : status[i] # "resolved"]_vars

\* The one retry is enough: emissions that race each other never raise, only
\* an operator's commit in between makes one fail.
RetrySuffices == \A e \in Emitter : Raises(e) => e \in touched
-----------------------------------------------------------------------------
(* The strengthening that IncidentsProofs proves inductive. *)

\* Ids are handed out in order; rows and events have only such ids.
IdsInOrder ==
    /\ \A i \in Rows : i < nextId
    /\ stream.id < nextId /\ saved.id < nextId
    /\ \A e \in Emitter : ev[e].id < nextId /\ (pc[e] # "idle" => ev[e].id # NoId)

\* The partial unique index.
OneActive == \A i, j \in Active : i = j

\* What an emission knows while no operator has intervened: the row it loaded
\* is active, an id taken meanwhile was taken by an active row, and after a
\* conflict there is a row to load.
InSight ==
    \A e \in Emitter \ touched :
        /\ pc[e] = "commit" /\ row[e] # NoRow => row[e].id \in Active
        /\ pc[e] = "commit" /\ row[e] = NoRow /\ ev[e].id \in Rows => Active # {}
        /\ tries[e] > 0 => /\ pc[e] \in {"load", "commit"} /\ Active # {}
                           /\ pc[e] = "commit" => row[e] # NoRow

\* The inductive invariant: the active rows of a fingerprint are one at most,
\* ids are fresh when they are handed out, and an emission nobody but emissions
\* interfered with still sees the row it loaded.
IInv == TypeOK /\ IdsInOrder /\ OneActive /\ InSight /\ ResolvedStamped

(* The strengthening of the properties of single steps, and of RefiresNotify: *)
(* what an emission has seen is so until somebody interferes.                 *)

\* A loaded row was active, and acknowledged if it is and no operator came since.
StatusSeen ==
    /\ \A e \in Emitter : row[e] # NoRow => row[e].status \in ActiveStatus
    /\ \A e \in Emitter \ touched : pc[e] = "commit" /\ row[e] # NoRow =>
          (status[row[e].id] = "acknowledged" => row[e].status = "acknowledged")

\* A loaded count is the row's while no emission has moved it on.
CountSeen ==
    \A e \in Emitter \ overtaken :
        pc[e] = "commit" /\ row[e] # NoRow /\ row[e].id \in Rows => row[e].count = count[row[e].id]

\* The reopen policy passed for what is in the table while nobody wrote to it.
PolicySeen ==
    \A e \in Emitter \ (touched \cup overtaken) :
        pc[e] \in {"load", "commit"} /\ ~ev[e].reopen => Active # {} \/ ~SomeResolved

\* The notification keys of an incident are not ahead of its count.
KeysCounted ==
    \A k \in outbox : k[1] \in regressed \cup orphaned \/ (k[1] \in Rows /\ k[2] <= count[k[1]])

SeenInv == StatusSeen /\ CountSeen /\ PolicySeen /\ KeysCounted /\ RefiresNotify
=============================================================================
