--------------------------- MODULE IncidentsProofs ---------------------------
(* Theorems about Incidents, for every number of ids, demo requests,          *)
(* operators, messages and crashes, and both policies.                        *)
EXTENDS Incidents, TLAPS

-----------------------------------------------------------------------------
(* Types *)

RowRecord == [id : 0..MaxIds, status : RowStatus, count : Nat]
SeenRecord == [status : RowStatus, acked : BOOLEAN, resolved : BOOLEAN]
EmitPlaces == {"idle", "policy", "policy2", "load", "commit"}

LEMMA Basics ==
  /\ Id \subseteq Nat /\ Id \subseteq 0..MaxIds /\ NoId \notin Id /\ NoId \in 0..MaxIds
  /\ \A i \in 0..MaxIds : i # NoId => i \in Id
  /\ \A n \in Nat : n # 0 /\ n <= MaxIds => n \in Id
  /\ Pipe \in Emitter /\ Demo \subseteq Emitter
BY IncidentsAssumption DEF Id, NoId, Emitter

LEMMA Records ==
  /\ NoEvent \in Event /\ NoRow \in RowRecord /\ NoSeen \in SeenRecord
  /\ NoEvent.id = NoId /\ NoRow.id = NoId /\ NoSeen.status = Absent
  /\ \A a \in Event : a.id \in 0..MaxIds /\ a.count \in Nat /\ a.status \in {"open", "updated"}
                      /\ a.occ \in Nat /\ a.msg \in Nat
  /\ \A r \in RowRecord : r.id \in 0..MaxIds /\ r.status \in RowStatus /\ r.count \in Nat
BY Basics DEF NoEvent, Event, NoRow, RowRecord, NoSeen, SeenRecord, RowStatus, Absent

LEMMA EmitParts ==
  EmitType <=> /\ stream \in Stream /\ saved \in Stream /\ pc \in [Emitter -> EmitPlaces]
               /\ ev \in [Emitter -> Event] /\ row \in [Emitter -> RowRecord]
               /\ tries \in [Emitter -> Nat]
BY DEF EmitType, RowRecord, EmitPlaces

\* An emission begins, ends, or goes on.
LEMMA BeginType ==
  ASSUME EmitType, HistType, NEW e \in Emitter, NEW a \in Event, Begin(e, a),
         stream' \in Stream, saved' \in Stream, UNCHANGED budgets
  PROVE  EmitType' /\ HistType'
<1>1. /\ pc' \in [Emitter -> EmitPlaces] /\ ev' \in [Emitter -> Event]
      /\ row' \in [Emitter -> RowRecord] /\ tries' \in [Emitter -> Nat]
  BY EmitParts, Records DEF Begin, EmitPlaces
<1>2. EmitType'
  BY <1>1 DEF EmitType, RowRecord, EmitPlaces
<1> QED BY <1>2 DEF Begin, HistType, budgets

LEMMA LeaveType ==
  ASSUME EmitType, NEW e \in Emitter, Leave(e), stream' \in Stream, saved' \in Stream
  PROVE  EmitType'
<1>1. /\ pc' \in [Emitter -> EmitPlaces] /\ ev' \in [Emitter -> Event]
      /\ row' \in [Emitter -> RowRecord] /\ tries' \in [Emitter -> Nat]
  BY EmitParts, Records DEF Leave, EmitPlaces
<1> QED BY <1>1 DEF EmitType, RowRecord, EmitPlaces

LEMMA FinishType ==
  ASSUME EmitType, HistType, NEW e \in Emitter, NEW i \in Id, Finish(e, i), UNCHANGED streamVars
  PROVE  EmitType' /\ fires' \in Nat
<1>1. stream' \in Stream /\ saved' \in Stream
  BY DEF EmitType, streamVars
<1>2. CASE Leave(e) /\ UNCHANGED fires
  BY <1>1, <1>2, LeaveType DEF HistType
<1>3. CASE ~(Leave(e) /\ UNCHANGED fires)
  <2> DEFINE a == [id |-> i, count |-> ev[e].occ + 1, new |-> FALSE,
                   status |-> "updated", occ |-> ev[e].occ + 1, wants |-> FALSE, msg |-> 0, reopen |-> TRUE]
  <2>1. a \in Event
    <3>1. ev[e].occ + 1 \in Nat
      BY EmitParts, Records
    <3> QED BY <3>1, Basics DEF Event
  <2>2. /\ fires' = fires + 1 /\ pc' = [pc EXCEPT ![e] = "load"] /\ ev' = [ev EXCEPT ![e] = a]
        /\ row' = [row EXCEPT ![e] = NoRow] /\ tries' = [tries EXCEPT ![e] = 0]
    BY <1>3, Zenon DEF Finish
  <2>3. /\ pc' \in [Emitter -> EmitPlaces] /\ ev' \in [Emitter -> Event]
        /\ row' \in [Emitter -> RowRecord] /\ tries' \in [Emitter -> Nat]
    BY <2>1, <2>2, EmitParts, Records DEF EmitPlaces
  <2> QED BY <1>1, <2>2, <2>3 DEF EmitType, RowRecord, EmitPlaces, HistType
<1> QED BY <1>2, <1>3

LEMMA NotifyType ==
  ASSUME DbType, EmitType, HistType, NEW e \in Emitter, NEW i \in Id, NEW n \in Nat, NEW s, Notify(e, i, n, s)
  PROVE  /\ outbox' \subseteq Id \X Nat /\ swallowed' \subseteq Id
         /\ notified' \subseteq Nat /\ twice' \subseteq Nat
<1>1. ev[e].msg \in Nat
  BY EmitParts, Records
<1> QED BY <1>1 DEF Notify, DbType, HistType

LEMMA StreamStepType ==
  ASSUME TypeOK, StreamNew \/ StreamRefire \/ StreamSuppress \/ Checkpoint \/ Crash
  PROVE  TypeOK'
<1> USE DEF TypeOK, opVars, clearVars, budgets, dbVars, DbType, OpType
<1>1. /\ nextId \in Nat /\ stream.id \in 0..MaxIds /\ stream.count \in Nat /\ stream.next \in Nat
      /\ stream.count + 1 \in Nat /\ stream.next + 1 \in Nat
  BY IncidentsAssumption DEF EmitType, Stream
<1>2. CASE StreamNew
  <2> DEFINE a(r) == [id |-> nextId, count |-> 1, new |-> TRUE, status |-> "open",
                      occ |-> 0, wants |-> TRUE, msg |-> stream.next, reopen |-> r]
  <2> PICK r \in Reopen : Begin(Pipe, a(r))
    BY <1>2 DEF StreamNew
  <2>1. nextId \in 0..MaxIds /\ nextId + 1 \in 1..(MaxIds + 1)
    BY <1>2, IncidentsAssumption DEF StreamNew
  <2>2. a(r) \in Event
    BY <1>1, <2>1, IncidentsAssumption DEF Event
  <2>3. stream' \in Stream /\ saved' \in Stream
    BY <1>1, <1>2, <2>1 DEF StreamNew, Stream, EmitType
  <2>4. EmitType' /\ HistType'
    BY <1>2, <2>2, <2>3, Basics, BeginType DEF StreamNew
  <2> QED BY <1>2, <2>1, <2>4 DEF StreamNew
<1>3. CASE StreamRefire
  <2> DEFINE a(r) == [id |-> stream.id, count |-> stream.count + 1, new |-> FALSE, occ |-> 0,
                      status |-> "updated", wants |-> TRUE, msg |-> stream.next, reopen |-> r]
  <2> PICK r \in Reopen : Begin(Pipe, a(r))
    BY <1>3 DEF StreamRefire
  <2>1. a(r) \in Event
    BY <1>1, IncidentsAssumption DEF Event
  <2>2. stream' \in Stream /\ saved' \in Stream
    BY <1>1, <1>3 DEF StreamRefire, Stream, EmitType
  <2>3. EmitType' /\ HistType'
    BY <1>3, <2>1, <2>2, Basics, BeginType DEF StreamRefire
  <2> QED BY <1>3, <2>3 DEF StreamRefire
<1>4. CASE StreamSuppress
  <2>1. stream' \in Stream
    BY <1>1, <1>4 DEF StreamSuppress, Stream, EmitType
  <2> QED BY <1>4, <2>1 DEF StreamSuppress, EmitType, HistType, emitVars, histVars
<1>5. CASE Checkpoint
  BY <1>5 DEF Checkpoint, EmitType, HistType, emitVars, histVars
<1>6. CASE Crash
  <2>1. stream' \in Stream /\ saved' \in Stream
    BY <1>6 DEF Crash, Rewind, EmitType
  <2>2. EmitType'
    BY <1>6, <2>1, Basics, LeaveType DEF Crash
  <2> QED BY <1>6, <2>2 DEF Crash, HistType
<1> QED BY <1>2, <1>3, <1>4, <1>5, <1>6

LEMMA DemoStepType ==
  ASSUME TypeOK, NEW d \in Demo, DemoRead(d)
  PROVE  TypeOK'
<1> USE DEF TypeOK, DbType, OpType, opVars, clearVars, dbVars
<1>1. d \in Emitter
  BY Basics
<1>2. ASSUME NEW a \in Event, Begin(d, a) PROVE EmitType' /\ HistType'
  <2>1. stream' \in Stream /\ saved' \in Stream
    BY DEF DemoRead, streamVars, EmitType
  <2>2. /\ pc' \in [Emitter -> EmitPlaces] /\ ev' \in [Emitter -> Event]
        /\ row' \in [Emitter -> RowRecord] /\ tries' \in [Emitter -> Nat]
    BY <1>1, <1>2, EmitParts, Records DEF Begin, EmitPlaces
  <2>3. fires' \in Nat /\ ops' \in Nat /\ crashes' \in Nat
    BY DEF DemoRead, HistType
  <2>4. HistType'
    BY <1>1, <1>2, <2>3 DEF Begin, HistType
  <2> QED BY <2>1, <2>2, <2>4 DEF EmitType, RowRecord, EmitPlaces
<1>3. ASSUME NEW i \in Active,
             Begin(d, [id |-> i, count |-> count[i] + 1, new |-> FALSE, status |-> "updated",
                       occ |-> count[i] + 1, wants |-> FALSE, msg |-> 0, reopen |-> TRUE]),
             UNCHANGED nextId
      PROVE  TypeOK'
  <2>1. i \in Id /\ count[i] + 1 \in Nat
    BY DEF Active
  <2>2. [id |-> i, count |-> count[i] + 1, new |-> FALSE, status |-> "updated",
         occ |-> count[i] + 1, wants |-> FALSE, msg |-> 0, reopen |-> TRUE] \in Event
    BY <2>1, Basics DEF Event
  <2>3. EmitType' /\ HistType'
    BY <1>2, <1>3, <2>2
  <2> QED BY <1>3, <2>3 DEF DemoRead
<1>4. ASSUME nextId <= MaxIds, nextId' = nextId + 1,
             Begin(d, [id |-> nextId, count |-> 1, new |-> TRUE, status |-> "open",
                       occ |-> 1, wants |-> TRUE, msg |-> 0, reopen |-> TRUE])
      PROVE  TypeOK'
  <2>1. nextId \in 0..MaxIds /\ nextId' \in 1..(MaxIds + 1)
    BY <1>4, IncidentsAssumption
  <2>2. [id |-> nextId, count |-> 1, new |-> TRUE, status |-> "open",
         occ |-> 1, wants |-> TRUE, msg |-> 0, reopen |-> TRUE] \in Event
    BY <2>1 DEF Event
  <2>3. EmitType' /\ HistType'
    BY <1>2, <1>4, <2>2
  <2> QED BY <2>1, <2>3 DEF DemoRead
<1> QED BY <1>3, <1>4 DEF DemoRead

LEMMA CountType ==
  ASSUME EmitType, NEW e \in Emitter
  PROVE  NextCount(ev[e], row[e]) \in Nat /\ RefreshedStatus(row[e].status) \in ActiveStatus
<1>1. row[e].count \in Nat /\ ev[e].count \in Nat
  BY EmitParts, Records
<1> QED BY <1>1 DEF NextCount, RefreshedStatus, ActiveStatus

LEMMA EmissionType ==
  ASSUME TypeOK, IdsInOrder, NEW e \in Emitter, Emission(e)
  PROVE  TypeOK'
<1> USE DEF TypeOK, OpType, opVars, clearVars
<1>1. /\ stream \in Stream /\ saved \in Stream /\ pc \in [Emitter -> EmitPlaces]
      /\ ev \in [Emitter -> Event] /\ row \in [Emitter -> RowRecord] /\ tries \in [Emitter -> Nat]
  BY EmitParts
<1>2. ev[e] \in Event /\ (pc[e] # "idle" => ev[e].id \in Id)
  BY <1>1, Basics, Records DEF IdsInOrder
<1>3. CASE PolicyActive(e)
  <2>1. pc' \in [Emitter -> EmitPlaces]
    BY <1>1, <1>3 DEF PolicyActive, EmitPlaces
  <2> QED BY <1>3, <2>1 DEF PolicyActive, DbType, dbVars, EmitType, EmitPlaces, HistType, histVars,
                            streamVars, budgets
<1>4. CASE PolicyResolved(e)
  <2>1. CASE Leave(e)
    <3>1. EmitType'
      BY <1>1, <1>4, <2>1, LeaveType DEF PolicyResolved, streamVars
    <3> QED BY <1>4, <3>1 DEF PolicyResolved, DbType, dbVars, HistType, histVars, budgets
  <2>2. CASE pc' = [pc EXCEPT ![e] = "load"] /\ UNCHANGED <<ev, row, tries>>
    <3>1. pc' \in [Emitter -> EmitPlaces]
      BY <1>1, <2>2 DEF EmitPlaces
    <3> QED BY <1>4, <2>2, <3>1 DEF PolicyResolved, DbType, dbVars, EmitType, EmitPlaces, HistType,
                                    histVars, streamVars, budgets
  <2> QED BY <1>4, <2>1, <2>2 DEF PolicyResolved
<1>5. CASE Load(e)
  <2>1. pc' \in [Emitter -> EmitPlaces]
    BY <1>1, <1>5 DEF Load, EmitPlaces
  <2>2. row' \in [Emitter -> RowRecord]
    <3>1. \A i \in Active : [id |-> i, status |-> status[i], count |-> count[i]] \in RowRecord
      BY Basics DEF Active, RowRecord, DbType
    <3> QED BY <1>1, <1>5, <3>1, Records DEF Load
  <2>3. ev' \in [Emitter -> Event] /\ nextId' \in 1..(MaxIds + 1)
    <3>1. CASE UNCHANGED <<ev, nextId>>
      BY <1>1, <3>1 DEF DbType
    <3>2. CASE nextId <= MaxIds /\ nextId' = nextId + 1
               /\ ev' = [ev EXCEPT ![e].id = nextId, ![e].new = TRUE]
      <4>1. nextId \in 0..MaxIds /\ nextId' \in 1..(MaxIds + 1)
        BY <3>2, IncidentsAssumption DEF DbType
      <4>2. [ev[e] EXCEPT !.id = nextId, !.new = TRUE] \in Event
        BY <1>2, <4>1 DEF Event
      <4>3. ev' = [ev EXCEPT ![e] = [ev[e] EXCEPT !.id = nextId, !.new = TRUE]]
        BY <1>1, <3>2
      <4> QED BY <1>1, <4>1, <4>2, <4>3
    <3> QED BY <1>5, <3>1, <3>2 DEF Load
  <2> QED BY <1>5, <2>1, <2>2, <2>3
          DEF Load, DbType, dbVars, EmitType, EmitPlaces, RowRecord, HistType, histVars, streamVars, budgets
<1>6. CASE Insert(e)
  <2> DEFINE i == ev[e].id
  <2>1. i \in Id /\ ev[e].count \in Nat /\ ev[e].status \in RowStatus
    BY <1>2, <1>6, Records DEF Insert, RowStatus, OperatorStatus, ActiveStatus
  <2>2. /\ status' \in [Id -> RowStatus] /\ count' \in [Id -> Nat]
        /\ acked' \in [Id -> BOOLEAN] /\ resolved' \in [Id -> BOOLEAN]
    BY <1>6, <2>1 DEF Insert, DbType
  <2>3. /\ outbox' \subseteq Id \X Nat /\ swallowed' \subseteq Id
        /\ notified' \subseteq Nat /\ twice' \subseteq Nat
    <3>1. Notify(e, i, ev[e].count, ev[e].status)
      BY <1>6 DEF Insert
    <3> QED BY <2>1, <3>1, NotifyType
  <2>4. EmitType' /\ fires' \in Nat
    <3>1. Finish(e, i) /\ UNCHANGED streamVars
      BY <1>6 DEF Insert
    <3> QED BY <2>1, <3>1, FinishType
  <2> QED BY <1>6, <2>2, <2>3, <2>4 DEF Insert, DbType, HistType, Overtake, Busy
<1>7. CASE Update(e)
  <2> DEFINE i == row[e].id
             n == NextCount(ev[e], row[e])
  <2>1. i \in Id /\ n \in Nat /\ Written(e) \in RowStatus
    <3>1. i \in Rows
      BY <1>7 DEF Update, Gone
    <3> QED BY <3>1, CountType DEF Rows, Written, Flush, DbType, RowStatus, OperatorStatus
  <2>2. status' \in [Id -> RowStatus] /\ count' \in [Id -> Nat] /\ UNCHANGED <<acked, resolved, nextId>>
    BY <1>7, <2>1 DEF Update, DbType
  <2>3. /\ outbox' \subseteq Id \X Nat /\ swallowed' \subseteq Id
        /\ notified' \subseteq Nat /\ twice' \subseteq Nat
    <3>1. Notify(e, i, n, RefreshedStatus(row[e].status))
      BY <1>7 DEF Update
    <3> QED BY <2>1, <3>1, NotifyType
  <2>4. EmitType' /\ fires' \in Nat
    <3>1. Finish(e, i) /\ UNCHANGED streamVars
      BY <1>7 DEF Update
    <3> QED BY <2>1, <3>1, FinishType
  <2>5. regressed' \subseteq Id
    BY <1>7, <2>1 DEF Update, HistType
  <2> QED BY <1>7, <2>2, <2>3, <2>4, <2>5 DEF Update, DbType, HistType, Overtake, Busy
<1>8. CASE Retry(e)
  <2>1. /\ pc' \in [Emitter -> EmitPlaces]
        /\ row' \in [Emitter -> RowRecord] /\ tries' \in [Emitter -> Nat]
    BY <1>1, <1>8, Records DEF Retry, EmitPlaces
  <2>2. ev' \in [Emitter -> Event]
    <3>1. [ev[e] EXCEPT !.new = FALSE] \in Event
      BY <1>2 DEF Event
    <3>2. ev' = [ev EXCEPT ![e] = [ev[e] EXCEPT !.new = FALSE]]
      BY <1>8 DEF Retry
    <3> QED BY <1>1, <3>1, <3>2
  <2> QED BY <1>8, <2>1, <2>2
          DEF Retry, DbType, dbVars, EmitType, EmitPlaces, RowRecord, HistType, histVars, streamVars, budgets
<1>9. CASE Raise(e)
  <2>1. stream' \in Stream /\ saved' \in Stream
    BY <1>1, <1>9 DEF Raise, Rewind
  <2>2. EmitType'
    BY <1>9, <2>1, LeaveType DEF Raise
  <2> QED BY <1>9, <2>2 DEF Raise, DbType, dbVars, HistType, budgets
<1> QED BY <1>3, <1>4, <1>5, <1>6, <1>7, <1>8, <1>9 DEF Emission

LEMMA OperatorType ==
  ASSUME TypeOK, (\E o \in Operator : OpLoad(o) \/ OpCommit(o) \/ OpFail(o)) \/ ClearOutbox \/ ClearAlerts
  PROVE  TypeOK'
<1> USE DEF TypeOK, DbType, OpType, opVars, dbVars, clearVars
<1>1. ASSUME NEW o \in Operator, OpDone(o) PROVE /\ opRow' \in [Operator -> 0..MaxIds]
                                               /\ opNew' \in [Operator -> OperatorStatus]
                                               /\ opSeen' \in [Operator -> SeenRecord]
  BY <1>1, Basics, Records DEF OpDone, SeenRecord, OperatorStatus, ActiveStatus
<1>2. ASSUME NEW o \in Operator, OpLoad(o) PROVE TypeOK'
  <2>1. PICK i \in Rows, s \in OperatorStatus :
            /\ opRow' = [opRow EXCEPT ![o] = i] /\ opNew' = [opNew EXCEPT ![o] = s]
            /\ opSeen' = [opSeen EXCEPT ![o] = [status |-> status[i], acked |-> acked[i],
                                               resolved |-> resolved[i]]]
    BY <1>2 DEF OpLoad
  <2>2. [status |-> status[i], acked |-> acked[i], resolved |-> resolved[i]] \in SeenRecord /\ i \in 0..MaxIds
    BY Basics DEF Rows, SeenRecord
  <2>3. /\ opRow' \in [Operator -> 0..MaxIds] /\ opNew' \in [Operator -> OperatorStatus]
        /\ opSeen' \in [Operator -> SeenRecord]
    BY <2>1, <2>2 DEF SeenRecord
  <2> QED BY <1>2, <2>3 DEF OpLoad, EmitType, emitVars, streamVars, HistType, histVars, SeenRecord
<1>3. ASSUME NEW o \in Operator, OpCommit(o) PROVE TypeOK'
  <2>1. opSeen[o] \in SeenRecord /\ opRow[o] \in Id /\ opNew[o] \in RowStatus /\ OpStatus(o) \in RowStatus
    BY <1>3 DEF OpCommit, OpRefused, Rows, OpStatus, Flush, SeenRecord, RowStatus
  <2>2. \A b \in BOOLEAN : /\ AckedAfter(opNew[o], opSeen[o], b) \in BOOLEAN
                           /\ ResolvedAfter(opNew[o], opSeen[o], b) \in BOOLEAN
    BY <2>1, Zenon DEF AckedAfter, ResolvedAfter, Flush
  <2>3. status' \in [Id -> RowStatus] /\ acked' \in [Id -> BOOLEAN] /\ resolved' \in [Id -> BOOLEAN]
    BY <1>3, <2>1, <2>2 DEF OpCommit
  <2>4. OpDone(o)
    BY <1>3 DEF OpCommit
  <2> QED BY <1>1, <1>3, <2>3, <2>4
          DEF OpCommit, EmitType, emitVars, streamVars, HistType, Busy, budgets, SeenRecord
<1>4. ASSUME NEW o \in Operator, OpFail(o) PROVE TypeOK'
  <2>1. OpDone(o)
    BY <1>4 DEF OpFail
  <2> QED BY <1>1, <1>4, <2>1
          DEF OpFail, EmitType, emitVars, streamVars, HistType, histVars, budgets, SeenRecord
<1>5. CASE ClearOutbox
  BY <1>5 DEF ClearOutbox, EmitType, emitVars, streamVars, HistType, histVars
<1>6. CASE ClearAlerts
  <2>1. status' \in [Id -> RowStatus] /\ orphaned' \subseteq Id
    BY <1>6 DEF ClearAlerts, RowStatus, HistType
  <2> QED BY <1>6, <2>1 DEF ClearAlerts, EmitType, emitVars, streamVars, HistType, Busy, budgets
<1> QED BY <1>2, <1>3, <1>4, <1>5, <1>6

LEMMA NextType == TypeOK /\ IdsInOrder /\ [Next]_vars => TypeOK'
<1> SUFFICES ASSUME TypeOK, IdsInOrder, [Next]_vars PROVE TypeOK'
  OBVIOUS
<1>1. CASE UNCHANGED vars
  BY <1>1 DEF vars, dbVars, streamVars, emitVars, opVars, clearVars, histVars, budgets,
              TypeOK, DbType, EmitType, OpType, HistType
<1> QED BY <1>1, StreamStepType, DemoStepType, EmissionType, OperatorType DEF Next

-----------------------------------------------------------------------------
(* Frames *)

\* Who writes the alerts table.
LEMMA StatusFrame ==
  ASSUME [Next]_vars
  PROVE  \/ UNCHANGED <<status, resolved>>
         \/ \E e \in Emitter : Insert(e) \/ Update(e)
         \/ \E o \in Operator : OpCommit(o)
         \/ ClearAlerts
BY DEF Next, vars, dbVars, StreamNew, StreamRefire, StreamSuppress, Checkpoint, Crash, DemoRead, Emission,
   PolicyActive, PolicyResolved, Load, Retry, Raise, OpLoad, OpFail, ClearOutbox

\* What a write makes of each row.
LEMMA RowFrame ==
  ASSUME TypeOK, IdsInOrder, [Next]_vars, NEW i \in Id
  PROVE  \/ status'[i] = status[i]
         \/ \E e \in Emitter : Insert(e) /\ i = ev[e].id /\ status'[i] = ev[e].status
         \/ \E e \in Emitter : Update(e) /\ i = row[e].id /\ i \in Rows /\ status'[i] = Written(e)
         \/ \E o \in Operator : OpCommit(o) /\ i = opRow[o] /\ i \in Rows /\ status'[i] = OpStatus(o)
         \/ ClearAlerts /\ status'[i] = Absent
<1> USE DEF TypeOK, DbType
<1>1. ASSUME NEW e \in Emitter, Insert(e)
      PROVE  status'[i] = status[i] \/ (i = ev[e].id /\ status'[i] = ev[e].status)
  BY <1>1 DEF Insert
<1>2. ASSUME NEW e \in Emitter, Update(e)
      PROVE  status'[i] = status[i] \/ (i = row[e].id /\ i \in Rows /\ status'[i] = Written(e))
  BY <1>2 DEF Update, Gone
<1>3. ASSUME NEW o \in Operator, OpCommit(o)
      PROVE  status'[i] = status[i] \/ (i = opRow[o] /\ i \in Rows /\ status'[i] = OpStatus(o))
  BY <1>3 DEF OpCommit, OpRefused
<1>4. CASE ClearAlerts
  BY <1>4 DEF ClearAlerts
<1> QED BY <1>1, <1>2, <1>3, <1>4, StatusFrame

\* What becomes of an emission's event.
LEMMA EventFrame ==
  ASSUME TypeOK, IdsInOrder, [Next]_vars, NEW u \in Emitter
  PROVE  \/ pc'[u] = "idle" /\ ev'[u].id = NoId
         \/ ev'[u].id = ev[u].id /\ (pc[u] # "idle" \/ pc'[u] = "idle")
         \/ ev'[u].id = nextId /\ nextId' = nextId + 1
         \/ ev'[u].id = stream.id /\ stream.id # NoId
         \/ ev'[u].id \in Rows
         \/ \E e \in Emitter : Insert(e) /\ ev'[u].id = ev[e].id
<1> USE EmitParts, Records DEF TypeOK
<1>1. CASE UNCHANGED emitVars
  BY <1>1 DEF emitVars
<1>2. CASE StreamNew \/ StreamRefire
  BY <1>2 DEF StreamNew, StreamRefire, Begin
<1>3. CASE Crash
  BY <1>3 DEF Crash, Leave
<1>4. ASSUME NEW d \in Demo, DemoRead(d)
      PROVE  \/ ev'[u].id = ev[u].id /\ (pc[u] # "idle" \/ pc'[u] = "idle")
             \/ ev'[u].id = nextId /\ nextId' = nextId + 1
             \/ ev'[u].id \in Rows
  <2>1. d \in Emitter /\ Active \subseteq Rows
    BY Basics DEF Active, Rows, ActiveStatus, Absent
  <2> QED BY <1>4, <2>1 DEF DemoRead, Begin
<1>5. ASSUME NEW e \in Emitter, PolicyActive(e) \/ PolicyResolved(e) \/ Retry(e) \/ Raise(e)
      PROVE  \/ pc'[u] = "idle" /\ ev'[u].id = NoId
             \/ ev'[u].id = ev[u].id /\ (pc[u] # "idle" \/ pc'[u] = "idle")
  BY <1>5 DEF PolicyActive, PolicyResolved, Retry, Raise, Raises, Leave, Event
<1>6. ASSUME NEW e \in Emitter, Load(e)
      PROVE  \/ ev'[u].id = ev[u].id /\ (pc[u] # "idle" \/ pc'[u] = "idle")
             \/ ev'[u].id = nextId /\ nextId' = nextId + 1
  <2>1. pc[e] = "load" /\ pc' = [pc EXCEPT ![e] = "commit"]
    BY <1>6 DEF Load
  <2>2. CASE ev' = ev
    BY <2>1, <2>2
  <2>3. CASE nextId' = nextId + 1 /\ ev' = [ev EXCEPT ![e].id = nextId, ![e].new = TRUE]
    BY <2>1, <2>3 DEF Event
  <2> QED BY <1>6, <2>2, <2>3 DEF Load
<1>7. ASSUME NEW e \in Emitter, NEW i, Finish(e, i), pc[e] # "idle"
      PROVE  \/ pc'[u] = "idle" /\ ev'[u].id = NoId
             \/ ev'[u].id = ev[u].id /\ (pc[u] # "idle" \/ pc'[u] = "idle")
             \/ ev'[u].id = i
  BY <1>7 DEF Finish, Leave
<1>8. ASSUME NEW e \in Emitter, Insert(e) \/ Update(e)
      PROVE  \/ pc'[u] = "idle" /\ ev'[u].id = NoId
             \/ ev'[u].id = ev[u].id /\ (pc[u] # "idle" \/ pc'[u] = "idle")
             \/ ev'[u].id \in Rows
             \/ Insert(e) /\ ev'[u].id = ev[e].id
  <2>1. CASE Insert(e)
    BY <1>7, <2>1 DEF Insert
  <2>2. CASE Update(e)
    BY <1>7, <2>2 DEF Update, Gone
  <2> QED BY <1>8, <2>1, <2>2
<1> QED
  BY <1>1, <1>2, <1>3, <1>4, <1>5, <1>6, <1>8
  DEF Next, vars, Emission, StreamSuppress, Checkpoint, OpLoad, OpCommit, OpFail, ClearOutbox, ClearAlerts

LEMMA IdNumbers == TypeOK => nextId \in Nat /\ nextId # NoId /\ stream.id \in Nat /\ saved.id \in Nat
<1>1. TypeOK => nextId \in 1..(MaxIds + 1) /\ stream \in Stream /\ saved \in Stream
  BY DEF TypeOK, DbType, EmitType
<1>2. MaxIds \in Nat
  BY IncidentsAssumption
<1> QED BY <1>1, <1>2 DEF Stream, NoId

\* Ids are handed out one by one.
LEMMA IdFrame ==
  ASSUME [Next]_vars
  PROVE  /\ nextId' \in {nextId, nextId + 1}
         /\ saved' \in {stream, saved}
BY DEF Next, vars, streamVars, StreamNew, StreamRefire, StreamSuppress, Checkpoint, Crash, DemoRead, Emission,
   PolicyActive, PolicyResolved, Load, Insert, Update, Retry, Raise, OpLoad, OpCommit, OpFail,
   ClearOutbox, ClearAlerts

LEMMA StreamFrame ==
  ASSUME TypeOK, [Next]_vars
  PROVE  stream'.id \in {stream.id, saved.id} \/ (stream'.id = nextId /\ nextId' = nextId + 1)
<1>1. stream \in Stream
  BY DEF TypeOK, EmitType
<1>2. CASE StreamNew \/ StreamRefire \/ StreamSuppress
  <2>1. CASE StreamNew
    BY <2>1 DEF StreamNew
  <2>2. CASE StreamRefire \/ StreamSuppress
    BY <1>1, <2>2 DEF StreamRefire, StreamSuppress, Stream
  <2> QED BY <1>2, <2>1, <2>2
<1>3. CASE stream' \in {stream, saved}
  BY <1>3
<1>4. stream' \in {stream, saved} \/ StreamNew \/ StreamRefire \/ StreamSuppress
  BY DEF Next, vars, streamVars, Checkpoint, Crash, DemoRead, Emission, PolicyActive, PolicyResolved,
     Load, Insert, Update, Retry, Raise, Rewind, OpLoad, OpCommit, OpFail, ClearOutbox, ClearAlerts
<1> QED BY <1>2, <1>3, <1>4

LEMMA NextIds == TypeOK /\ IdsInOrder /\ [Next]_vars => IdsInOrder'
<1> SUFFICES ASSUME TypeOK, IdsInOrder, [Next]_vars PROVE IdsInOrder'
  OBVIOUS
<1>1. TypeOK' /\ nextId \in Nat /\ nextId' \in Nat /\ nextId <= nextId'
  <2>1. nextId \in Nat
    BY IdNumbers
  <2> QED BY <2>1, NextType, IdFrame
<1> USE DEF IdsInOrder
<1>3. ASSUME NEW i \in Rows' PROVE i < nextId'
  <2>1. i \in Id /\ i \in Nat /\ status'[i] # Absent
    BY Basics DEF Rows
  <2>2. i \in Rows \/ \E e \in Emitter : i = ev[e].id
    BY <2>1, RowFrame DEF Rows
  <2> QED BY <1>1, <2>1, <2>2
<1>4. stream'.id < nextId' /\ saved'.id < nextId'
  <2>1. stream.id \in Nat /\ saved.id \in Nat
    BY IdNumbers
  <2> QED BY <1>1, <2>1, IdFrame, StreamFrame
<1>5. ASSUME NEW u \in Emitter
      PROVE  ev'[u].id < nextId' /\ (pc'[u] # "idle" => ev'[u].id # NoId)
  <2>1. /\ ev[u].id \in Nat /\ ev[u].id < nextId /\ stream.id \in Nat /\ stream.id < nextId
        /\ nextId # NoId /\ NoId < nextId' /\ 0 < nextId' /\ NoId \notin Rows
        /\ \A i \in Rows : i \in Nat /\ i < nextId
    BY <1>1, IdNumbers, EmitParts, Records, Basics, IncidentsAssumption
       DEF TypeOK, NoId, DbType, Rows
  <2>2. \A e \in Emitter : Insert(e) => ev[e].id # NoId /\ ev[e].id < nextId /\ ev[e].id \in Nat
    BY EmitParts, Records, IncidentsAssumption DEF Insert, TypeOK
  <2>3. (pc[u] # "idle" => ev[u].id # NoId)
    OBVIOUS
  <2> QED BY <1>1, <2>1, <2>2, <2>3, EventFrame DEF NoId
<1> QED BY <1>3, <1>4, <1>5

-----------------------------------------------------------------------------
(* The partial unique index *)

LEMMA NextOneActive == TypeOK /\ OneActive /\ [Next]_vars => OneActive'
<1> SUFFICES ASSUME TypeOK, OneActive, [Next]_vars PROVE OneActive'
  OBVIOUS
<1> USE DEF OneActive
<1>1. status \in [Id -> RowStatus]
  BY DEF TypeOK, DbType
<1>2. CASE UNCHANGED status
  BY <1>2 DEF Active
<1>3. ASSUME NEW e \in Emitter, Insert(e) PROVE OneActive'
  <2>1. Active = {} /\ status' = [status EXCEPT ![ev[e].id] = ev[e].status]
    BY <1>3 DEF Insert, Clashes
  <2>2. Active' \subseteq {ev[e].id}
    BY <1>1, <2>1 DEF Active
  <2> QED BY <2>2
<1>4. ASSUME NEW e \in Emitter, Update(e) PROVE OneActive'
  <2>1. /\ status' = [status EXCEPT ![row[e].id] = Written(e)]
        /\ Written(e) \notin ActiveStatus \/ Active \subseteq {row[e].id}
    BY <1>4 DEF Update, Clashes
  <2>2. Active' \subseteq Active \/ Active' \subseteq {row[e].id}
    BY <1>1, <2>1 DEF Active
  <2> QED BY <2>2
<1>5. ASSUME NEW o \in Operator, OpCommit(o) PROVE OneActive'
  <2>1. /\ status' = [status EXCEPT ![opRow[o]] = OpStatus(o)]
        /\ OpStatus(o) \notin ActiveStatus \/ Active \subseteq {opRow[o]}
    BY <1>5 DEF OpCommit, OpRefused
  <2>2. Active' \subseteq Active \/ Active' \subseteq {opRow[o]}
    BY <1>1, <2>1 DEF Active
  <2> QED BY <2>2
<1>6. CASE ClearAlerts
  <2>1. \A i \in Id : status'[i] = Absent
    BY <1>6 DEF ClearAlerts
  <2> QED BY <2>1 DEF Active, ActiveStatus, Absent
<1> QED BY <1>2, <1>3, <1>4, <1>5, <1>6, StatusFrame

-----------------------------------------------------------------------------
(* resolved_at *)

LEMMA NextStamped == TypeOK /\ ResolvedStamped /\ [Next]_vars => ResolvedStamped'
<1> SUFFICES ASSUME TypeOK, ResolvedStamped, [Next]_vars, NEW i \in Id, status'[i] = "resolved"
             PROVE  resolved'[i]
  BY DEF ResolvedStamped
<1> USE DEF ResolvedStamped
<1>1. status \in [Id -> RowStatus] /\ resolved \in [Id -> BOOLEAN]
  BY DEF TypeOK, DbType
<1>2. CASE UNCHANGED <<status, resolved>>
  BY <1>2
<1>3. ASSUME NEW e \in Emitter, Insert(e) PROVE resolved'[i]
  <2>1. /\ status' = [status EXCEPT ![ev[e].id] = ev[e].status]
        /\ resolved' = [resolved EXCEPT ![ev[e].id] = FALSE]
    BY <1>3 DEF Insert
  <2>2. ev[e].status # "resolved"
    BY EmitParts, Records DEF TypeOK
  <2>3. i # ev[e].id
    BY <1>1, <2>1, <2>2
  <2>4. status[i] = "resolved" /\ resolved'[i] = resolved[i]
    BY <1>1, <2>1, <2>3
  <2> QED BY <2>4
<1>4. ASSUME NEW e \in Emitter, Update(e) PROVE resolved'[i]
  <2>1. status' = [status EXCEPT ![row[e].id] = Written(e)] /\ resolved' = resolved
    BY <1>4 DEF Update
  <2>2. RefreshedStatus(row[e].status) # "resolved"
    BY DEF RefreshedStatus
  <2>3. status[i] = "resolved"
    BY <1>1, <2>1, <2>2 DEF Written, Flush
  <2> QED BY <2>1, <2>3
<1>5. ASSUME NEW o \in Operator, OpCommit(o) PROVE resolved'[i]
  <2>1. /\ status' = [status EXCEPT ![opRow[o]] = OpStatus(o)]
        /\ resolved' = [resolved EXCEPT ![opRow[o]] = ResolvedAfter(opNew[o], opSeen[o], @)]
    BY <1>5 DEF OpCommit
  <2>2. CASE i # opRow[o]
    <3>1. status[i] = "resolved" /\ resolved'[i] = resolved[i]
      BY <1>1, <2>1, <2>2
    <3> QED BY <3>1
  <2>3. CASE i = opRow[o]
    <3>1. OpStatus(o) = "resolved" /\ resolved'[i] = ResolvedAfter(opNew[o], opSeen[o], resolved[i])
      BY <1>1, <2>1, <2>3
    <3>2. CASE opSeen[o].status = opNew[o]
      <4>1. resolved[i]
        BY <2>3, <3>1, <3>2 DEF OpStatus, Flush
      <4>2. ResolvedAfter(opNew[o], opSeen[o], resolved[i])
        BY <3>2, <4>1, Zenon DEF ResolvedAfter
      <4> QED BY <3>1, <4>2
    <3>3. CASE opSeen[o].status # opNew[o]
      <4>1. opNew[o] = "resolved"
        BY <3>1, <3>3 DEF OpStatus, Flush
      <4>2. ResolvedAfter(opNew[o], opSeen[o], resolved[i])
        BY <3>3, <4>1 DEF ResolvedAfter
      <4> QED BY <3>1, <4>2
    <3> QED BY <3>2, <3>3
  <2> QED BY <2>2, <2>3
<1>6. CASE ClearAlerts
  <2>1. status'[i] = Absent
    BY <1>6 DEF ClearAlerts
  <2> QED BY <2>1 DEF Absent
<1> QED BY <1>2, <1>3, <1>4, <1>5, <1>6, StatusFrame

-----------------------------------------------------------------------------
(* What an emission knows of the rows *)

\* The conjuncts of InSight, for one emission.
Sight(u) ==
    /\ pc[u] = "commit" /\ row[u] # NoRow => row[u].id \in Active
    /\ pc[u] = "commit" /\ row[u] = NoRow /\ ev[u].id \in Rows => Active # {}
    /\ tries[u] > 0 => /\ pc[u] \in {"load", "commit"} /\ Active # {}
                       /\ pc[u] = "commit" => row[u] # NoRow

\* An emission that has only begun knows nothing.
Starting(u) == pc[u] # "commit" /\ tries[u] = 0

LEMMA StartingSees == \A u : (Starting(u) => Sight(u)) /\ (Starting(u)' => Sight(u)')
BY DEF Starting, Sight

\* Nobody but operators takes a row out of Active, or brings one in outside it.
LEMMA WriteKeeps ==
  ASSUME TypeOK, NEW e \in Emitter, Insert(e) \/ Update(e)
  PROVE  Active \subseteq Active' /\ Rows' \subseteq Rows \cup Active'
<1>1. status \in [Id -> RowStatus] /\ Active \subseteq Rows /\ Active' \subseteq Rows'
  BY DEF TypeOK, DbType, Active, Rows, ActiveStatus, Absent
<1>2. CASE Insert(e)
  <2>1. /\ Active = {} /\ status' = [status EXCEPT ![ev[e].id] = ev[e].status]
        /\ ev[e].status \in ActiveStatus
    BY <1>2, EmitParts, Records DEF Insert, Clashes, TypeOK, ActiveStatus
  <2> QED BY <1>1, <2>1 DEF Active, Rows
<1>3. CASE Update(e)
  <2>1. /\ row[e].id \in Rows /\ status' = [status EXCEPT ![row[e].id] = Written(e)]
        /\ Written(e) \in ActiveStatus \/ Written(e) = status[row[e].id]
    BY <1>3, CountType DEF Update, Gone, Written, Flush, TypeOK
  <2> QED BY <1>1, <2>1 DEF Active, Rows
<1> QED BY <1>2, <1>3

\* An emission that does not move keeps what it knows, whatever others write.
LEMMA OthersKeep ==
  ASSUME NEW u \in Emitter, Sight(u), pc'[u] = pc[u], row'[u] = row[u], ev'[u] = ev[u],
         tries'[u] = tries[u], Active \subseteq Active', Rows' \subseteq Rows \cup Active'
  PROVE  Sight(u)'
<1>1. Active # {} => Active' # {}
  OBVIOUS
<1>2. pc[u] = "commit" /\ row[u] = NoRow /\ ev[u].id \in Rows' => Active' # {}
  BY <1>1 DEF Sight
<1> QED BY <1>1, <1>2 DEF Sight

LEMMA LeaveFinishStart ==
  ASSUME TypeOK, NEW e \in Emitter, NEW i, Leave(e) \/ Finish(e, i)
  PROVE  /\ Starting(e)'
         /\ \A u \in Emitter \ {e} : pc'[u] = pc[u] /\ row'[u] = row[u] /\ ev'[u] = ev[u] /\ tries'[u] = tries[u]
<1>1. /\ pc \in [Emitter -> EmitPlaces] /\ tries \in [Emitter -> Nat]
      /\ ev \in [Emitter -> Event] /\ row \in [Emitter -> RowRecord]
  BY EmitParts DEF TypeOK
<1> QED BY <1>1 DEF Leave, Finish, Starting

LEMMA BeginStart ==
  ASSUME TypeOK, NEW e \in Emitter, NEW a, Begin(e, a)
  PROVE  /\ Starting(e)'
         /\ \A u \in Emitter \ {e} : pc'[u] = pc[u] /\ row'[u] = row[u] /\ ev'[u] = ev[u] /\ tries'[u] = tries[u]
<1>1. /\ pc \in [Emitter -> EmitPlaces] /\ tries \in [Emitter -> Nat]
      /\ ev \in [Emitter -> Event] /\ row \in [Emitter -> RowRecord]
  BY EmitParts DEF TypeOK
<1> QED BY <1>1 DEF Begin, Starting

\* An emission's own steps.
LEMMA OwnStepSees ==
  ASSUME TypeOK, IdsInOrder, NEW e \in Emitter, Sight(e),
         PolicyActive(e) \/ PolicyResolved(e) \/ Load(e) \/ Retry(e)
  PROVE  Sight(e)'
<1> USE EmitParts, Records DEF TypeOK
<1>1. CASE PolicyActive(e) \/ PolicyResolved(e)
  <2>1. tries[e] = 0
    <3>1. tries[e] \in Nat /\ pc[e] \in {"policy", "policy2"}
      BY <1>1 DEF PolicyActive, PolicyResolved
    <3> QED BY <3>1 DEF Sight
  <2>2. Starting(e)'
    BY <1>1, <2>1 DEF PolicyActive, PolicyResolved, Leave, Starting
  <2> QED BY <2>2, StartingSees
<1>2. CASE Load(e)
  <2>1. pc'[e] = "commit" /\ tries'[e] = tries[e] /\ status' = status
    BY <1>2 DEF Load, dbVars
  <2>2. Active' = Active /\ Rows' = Rows
    BY <2>1 DEF Active, Rows
  <2>3. CASE Active # {}
    <3>1. PICK i \in Active : row' = [row EXCEPT ![e] = [id |-> i, status |-> status[i], count |-> count[i]]]
      BY <1>2, <2>3 DEF Load
    <3>2. row'[e].id = i /\ row'[e] # NoRow
      BY <3>1, Basics DEF Active, NoRow
    <3> QED BY <2>1, <2>2, <3>1, <3>2 DEF Sight
  <2>4. CASE Active = {}
    <3>1. tries[e] = 0 /\ row'[e] = NoRow
      <4>1. tries[e] \in Nat
        OBVIOUS
      <4> QED BY <1>2, <2>4, <4>1 DEF Sight, Load
    <3>2. ev'[e].id \notin Rows
      <4>1. nextId \notin Rows
        BY IdNumbers DEF IdsInOrder
      <4>2. CASE ev[e].id \in Rows
        <5>1. ev' = [ev EXCEPT ![e].id = nextId, ![e].new = TRUE]
          BY <1>2, <2>4, <4>2 DEF Load
        <5>2. ev'[e] = [ev[e] EXCEPT !.id = nextId, !.new = TRUE]
          BY <5>1
        <5> QED BY <4>1, <5>2 DEF Event
      <4>3. CASE ev[e].id \notin Rows
        BY <1>2, <2>4, <4>3 DEF Load
      <4> QED BY <4>2, <4>3
    <3> QED BY <2>1, <2>2, <3>1, <3>2 DEF Sight
  <2> QED BY <2>3, <2>4
<1>3. CASE Retry(e)
  <2>1. pc[e] = "commit" /\ Clashes(e) /\ pc'[e] = "load" /\ status' = status
    BY <1>3 DEF Retry, dbVars
  <2>2. Active # {}
    BY <2>1 DEF Clashes, Sight
  <2>3. Active' = Active
    BY <2>1 DEF Active
  <2> QED BY <2>1, <2>2, <2>3 DEF Sight
<1> QED BY <1>1, <1>2, <1>3

\* Who moves an emission, and who tells of an operator's commit.
LEMMA NextInSight == TypeOK /\ IdsInOrder /\ InSight /\ [Next]_vars => InSight'
<1> SUFFICES ASSUME TypeOK, IdsInOrder, InSight, [Next]_vars, NEW u \in Emitter, u \notin touched'
             PROVE  Sight(u)'
  BY DEF InSight, Sight
<1> DEFINE Still == pc'[u] = pc[u] /\ row'[u] = row[u] /\ ev'[u] = ev[u] /\ tries'[u] = tries[u]
<1>1. u \notin touched => Sight(u)
  BY DEF InSight, Sight
<1>2. ASSUME u \notin touched, Still, status' = status PROVE Sight(u)'
  <2>1. Active' = Active /\ Rows' = Rows
    BY <1>2 DEF Active, Rows
  <2> QED BY <1>1, <1>2, <2>1, OthersKeep
<1>3. CASE StreamNew \/ StreamRefire
  <2>1. PICK a : Begin(Pipe, a)
    BY <1>3 DEF StreamNew, StreamRefire
  <2>2. status' = status /\ touched' = touched \ {Pipe}
    BY <1>3, <2>1 DEF StreamNew, StreamRefire, Begin, dbVars
  <2> QED BY <1>2, <2>1, <2>2, Basics, BeginStart, StartingSees
<1>4. ASSUME NEW d \in Demo, DemoRead(d) PROVE Sight(u)'
  <2>1. d \in Emitter /\ \E a : Begin(d, a)
    BY <1>4, Basics DEF DemoRead
  <2>2. PICK a : Begin(d, a)
    BY <2>1
  <2>3. status' = status /\ touched' = touched \ {d}
    BY <1>4, <2>2 DEF DemoRead, Begin, dbVars
  <2> QED BY <1>2, <2>1, <2>2, <2>3, BeginStart, StartingSees
<1>5. CASE Crash
  <2>1. Leave(Pipe) /\ status' = status /\ touched' = touched \ {Pipe}
    BY <1>5 DEF Crash, dbVars
  <2> QED BY <1>2, <2>1, Basics, LeaveFinishStart, StartingSees
<1>6. ASSUME NEW e \in Emitter, Raise(e) PROVE Sight(u)'
  <2>1. Leave(e) /\ status' = status /\ touched' = touched \ {e}
    BY <1>6 DEF Raise, dbVars
  <2> QED BY <1>2, <1>6, <2>1, LeaveFinishStart, StartingSees
<1>7. ASSUME NEW e \in Emitter, Insert(e) \/ Update(e) PROVE Sight(u)'
  <2>1. touched' = touched \ {e} /\ \E i : Finish(e, i)
    BY <1>7 DEF Insert, Update, Overtake
  <2>2. PICK i : Finish(e, i)
    BY <2>1
  <2>3. Starting(e)' /\ (u # e => Still)
    BY <2>2, LeaveFinishStart
  <2> QED BY <1>1, <1>7, <2>1, <2>3, WriteKeeps, OthersKeep, StartingSees
<1>8. ASSUME NEW e \in Emitter, PolicyActive(e) \/ PolicyResolved(e) \/ Load(e) \/ Retry(e) PROVE Sight(u)'
  <2>1. status' = status /\ touched' = touched
    BY <1>8 DEF PolicyActive, PolicyResolved, Load, Retry, dbVars, histVars
  <2>2. CASE u = e
    BY <1>1, <1>8, <2>1, <2>2, OwnStepSees
  <2>3. CASE u # e
    <3>1. Still
      BY <1>8, <2>3, EmitParts DEF TypeOK, PolicyActive, PolicyResolved, Load, Retry, Leave
    <3> QED BY <1>2, <2>1, <3>1
  <2> QED BY <2>2, <2>3
<1>9. CASE UNCHANGED <<status, emitVars, touched>>
  BY <1>2, <1>9 DEF emitVars
<1>10. ASSUME UNCHANGED emitVars, touched' = touched \cup Busy PROVE Sight(u)'
  <2>1. pc[u] = "idle" /\ Sight(u) /\ Still
    BY <1>1, <1>10 DEF Busy, emitVars
  <2>2. tries[u] \in Nat
    BY EmitParts DEF TypeOK
  <2>3. Starting(u)'
    BY <2>1, <2>2 DEF Sight, Starting
  <2> QED BY <2>3, StartingSees
<1>11. \/ UNCHANGED <<status, emitVars, touched>>
       \/ UNCHANGED emitVars /\ touched' = touched \cup Busy
       \/ StreamNew \/ StreamRefire \/ Crash \/ \E d \in Demo : DemoRead(d)
       \/ \E e \in Emitter : Emission(e)
  BY DEF Next, vars, dbVars, histVars, StreamSuppress, Checkpoint, OpLoad, OpCommit, OpFail, ClearOutbox,
     ClearAlerts
<1> QED BY <1>3, <1>4, <1>5, <1>6, <1>7, <1>8, <1>9, <1>10, <1>11 DEF Emission

-----------------------------------------------------------------------------
(* The invariant, and what it says *)

LEMMA InitIInv == Init => IInv
<1> SUFFICES ASSUME Init PROVE IInv
  OBVIOUS
<1> USE DEF Init
<1>1. MaxIds \in Nat /\ 1 \in 1..(MaxIds + 1) /\ 0 \in 0..MaxIds
  BY IncidentsAssumption
<1>2. DbType
  BY <1>1 DEF DbType, RowStatus
<1>3. stream \in Stream /\ saved \in Stream
  BY <1>1 DEF Stream, NoId
<1>4. EmitType
  BY <1>3, Records, EmitParts DEF EmitPlaces
<1>5. OpType
  BY <1>1, Records DEF OpType, OperatorStatus, ActiveStatus, SeenRecord, NoId
<1>6. HistType
  BY DEF HistType
<1>7. Rows = {} /\ Active = {}
  BY DEF Rows, Active, ActiveStatus, Absent
<1>8. IdsInOrder
  BY <1>7, Records DEF IdsInOrder, NoId
<1>9. InSight
  BY DEF InSight
<1> QED BY <1>2, <1>4, <1>5, <1>6, <1>7, <1>8, <1>9 DEF IInv, TypeOK, OneActive, ResolvedStamped, Absent

\* Where TypeOK, IdsInOrder, OneActive, InSight and ResolvedStamped hold, they
\* hold after every step: a step of a stream, a demo request, an operator or a
\* crash.
THEOREM IncidentsInvariant == Spec => []IInv
<1>1. IInv /\ [Next]_vars => IInv'
  BY NextType, NextIds, NextOneActive, NextInSight, NextStamped DEF IInv
<1> QED BY <1>1, InitIInv, PTL DEF Spec

\* Every variable of the incidents keeps its type.
THEOREM IncidentsTypes == Spec => []TypeOK
<1>1. IInv => TypeOK
  BY DEF IInv
<1> QED BY <1>1, IncidentsInvariant, PTL

\* A resolved incident has a resolved_at, for any number of racing status
\* requests and upserts (apply_status_timestamps).
THEOREM StampKept == Spec => []ResolvedStamped
<1>1. IInv => ResolvedStamped
  BY DEF IInv
<1> QED BY <1>1, IncidentsInvariant, PTL

\* One retry of the upsert is enough, for any number of racing emissions: the
\* second IntegrityError that raises needs an operator's commit in between.
THEOREM OneRetryIsEnough == Spec => []RetrySuffices
<1>1. IInv => RetrySuffices
  <2> SUFFICES ASSUME IInv, NEW e \in Emitter, Raises(e), e \notin touched PROVE FALSE
    BY DEF RetrySuffices
  <2>1. Sight(e)
    BY DEF IInv, InSight, Sight
  <2>2. pc[e] = "commit" /\ tries[e] \in Nat /\ Active \subseteq Rows
    BY EmitParts DEF Raises, IInv, TypeOK, Active, Rows, ActiveStatus, Absent
  <2>3. ~Gone(e)
    BY <2>1, <2>2 DEF Gone, Sight
  <2>4. Clashes(e) /\ tries[e] > 0
    BY <2>2, <2>3 DEF Raises, MaxRetries
  <2>5. row[e] # NoRow /\ row[e].id \in Active
    BY <2>1, <2>2, <2>4 DEF Sight
  <2>6. Active \ {row[e].id} = {}
    BY <2>5 DEF IInv, OneActive
  <2> QED BY <2>4, <2>5, <2>6 DEF Clashes
<1> QED BY <1>1, IncidentsInvariant, PTL

-----------------------------------------------------------------------------
(* What an emission has seen *)

\* An emission at its beginning, or over, has loaded nothing and passed no policy.
Unread(u) == pc[u] # "commit" /\ row[u] = NoRow /\ (pc[u] = "load" => ev[u].reopen)

LEMMA BeginUnread ==
  ASSUME TypeOK, NEW e \in Emitter, NEW a, Begin(e, a)
  PROVE  Unread(e)'
BY EmitParts DEF TypeOK, Begin, Unread

LEMMA LeaveUnread ==
  ASSUME TypeOK, NEW e \in Emitter, NEW i, Leave(e) \/ Finish(e, i)
  PROVE  Unread(e)'
BY EmitParts DEF TypeOK, Leave, Finish, Unread

\* The conjuncts of StatusSeen, CountSeen and PolicySeen, for one emission.
Seen(u) ==
    /\ row[u] # NoRow => row[u].status \in ActiveStatus
    /\ u \notin touched /\ pc[u] = "commit" /\ row[u] # NoRow =>
          (status[row[u].id] = "acknowledged" => row[u].status = "acknowledged")
    /\ u \notin overtaken /\ pc[u] = "commit" /\ row[u] # NoRow /\ row[u].id \in Rows =>
          row[u].count = count[row[u].id]
    /\ u \notin touched \cup overtaken /\ pc[u] \in {"load", "commit"} /\ ~ev[u].reopen =>
          Active # {} \/ ~SomeResolved

LEMMA SeenParts == StatusSeen /\ CountSeen /\ PolicySeen <=> \A u \in Emitter : Seen(u)
BY DEF StatusSeen, CountSeen, PolicySeen, Seen

LEMMA UnreadSees == \A u : (Unread(u) => Seen(u)) /\ (Unread(u)' => Seen(u)')
BY DEF Unread, Seen

\* The emissions a step does not move.
Still(u) == pc'[u] = pc[u] /\ row'[u] = row[u] /\ ev'[u] = ev[u]

\* Who has not been interfered with sees the same table.
LEMMA SameTable ==
  ASSUME NEW u \in Emitter, Seen(u), Still(u), UNCHANGED <<status, count>>,
         u \notin touched' => u \notin touched, u \notin overtaken' => u \notin overtaken
  PROVE  Seen(u)'
<1>1. Rows' = Rows /\ Active' = Active /\ SomeResolved' = SomeResolved
  BY DEF Rows, Active, SomeResolved
<1> QED BY <1>1 DEF Seen, Still

\* The row a session writes gets acknowledged only if it is.
LEMMA WriteNeverAcks ==
  ASSUME TypeOK, NEW e \in Emitter, Insert(e) \/ Update(e), NEW i \in Id, status'[i] = "acknowledged"
  PROVE  status[i] = "acknowledged"
<1>1. status \in [Id -> RowStatus]
  BY DEF TypeOK, DbType
<1>2. CASE Insert(e)
  <2>1. status' = [status EXCEPT ![ev[e].id] = ev[e].status] /\ ev[e].status # "acknowledged"
    BY <1>2, EmitParts, Records DEF Insert, TypeOK
  <2> QED BY <1>1, <2>1
<1>3. CASE Update(e)
  <2>1. status' = [status EXCEPT ![row[e].id] = Written(e)]
    BY <1>3 DEF Update
  <2>2. Written(e) = "acknowledged" => status[row[e].id] = "acknowledged"
    BY DEF Written, Flush, RefreshedStatus
  <2> QED BY <1>1, <2>1, <2>2
<1> QED BY <1>2, <1>3

\* An emission that did not move, while another one wrote.
LEMMA WriteSeen ==
  ASSUME TypeOK, NEW e \in Emitter, Insert(e) \/ Update(e), NEW u \in Emitter \ {e},
         Seen(u), Sight(u) \/ u \in touched, Still(u)
  PROVE  Seen(u)'
<1>1. touched' = touched \ {e} /\ overtaken' = (overtaken \cup Busy) \ {e}
  BY DEF Insert, Update, Overtake
<1>2. u \in overtaken' \/ pc[u] = "idle"
  BY <1>1 DEF Busy
<1>3. ASSUME u \notin touched', pc[u] = "commit", row[u] # NoRow, status'[row[u].id] = "acknowledged"
      PROVE  row[u].status = "acknowledged"
  <2>1. row[u].id \in Id
    BY <1>1, <1>3 DEF Sight, Active
  <2>2. status[row[u].id] = "acknowledged"
    BY <1>3, <2>1, WriteNeverAcks
  <2> QED BY <1>1, <1>3, <2>2 DEF Seen
<1> QED BY <1>2, <1>3 DEF Seen, Still

\* An emission's own steps before it writes.
LEMMA OwnStepSeen ==
  ASSUME TypeOK, NEW e \in Emitter, Seen(e),
         PolicyActive(e) \/ PolicyResolved(e) \/ Load(e) \/ Retry(e)
  PROVE  Seen(e)'
<1> USE EmitParts, Records DEF TypeOK
<1>1. /\ UNCHANGED <<status, count, touched, overtaken>>
      /\ Rows' = Rows /\ Active' = Active /\ SomeResolved' = SomeResolved
  <2>1. UNCHANGED <<status, count, touched, overtaken>>
    BY DEF PolicyActive, PolicyResolved, Load, Retry, dbVars, histVars
  <2> QED BY <2>1 DEF Rows, Active, SomeResolved
<1>2. CASE PolicyActive(e)
  <2>1. /\ pc'[e] \in {"load", "policy2"} /\ (pc'[e] = "load" => Active # {})
        /\ UNCHANGED <<row, ev>>
    BY <1>2 DEF PolicyActive
  <2> QED BY <1>1, <2>1 DEF Seen
<1>3. CASE PolicyResolved(e)
  <2>1. CASE SomeResolved
    BY <1>3, <2>1, LeaveUnread, UnreadSees DEF PolicyResolved
  <2>2. CASE ~SomeResolved
    <3>1. pc'[e] = "load" /\ UNCHANGED <<row, ev>>
      BY <1>3, <2>2 DEF PolicyResolved
    <3> QED BY <1>1, <2>2, <3>1 DEF Seen
  <2> QED BY <2>1, <2>2
<1>4. CASE Load(e)
  <2>1. pc[e] = "load" /\ pc'[e] = "commit" /\ ev'[e].reopen = ev[e].reopen
    BY <1>4 DEF Load, Event
  <2>2. \/ row'[e] = NoRow
        \/ \E i \in Active : row'[e] = [id |-> i, status |-> status[i], count |-> count[i]]
    <3>1. CASE row' = [row EXCEPT ![e] = NoRow]
      BY <3>1
    <3>2. CASE \E i \in Active : row' = [row EXCEPT ![e] = [id |-> i, status |-> status[i], count |-> count[i]]]
      <4>1. PICK i \in Active : row' = [row EXCEPT ![e] = [id |-> i, status |-> status[i], count |-> count[i]]]
        BY <3>2
      <4>2. row'[e] = [id |-> i, status |-> status[i], count |-> count[i]]
        BY <4>1
      <4> QED BY <4>2
    <3> QED BY <1>4, <3>1, <3>2 DEF Load
  <2>3. row'[e] # NoRow => /\ row'[e].status \in ActiveStatus
                           /\ status[row'[e].id] = row'[e].status /\ row'[e].count = count[row'[e].id]
    <3> SUFFICES ASSUME NEW i \in Active, row'[e] = [id |-> i, status |-> status[i], count |-> count[i]]
                 PROVE  /\ row'[e].status \in ActiveStatus
                        /\ status[row'[e].id] = row'[e].status /\ row'[e].count = count[row'[e].id]
      BY <2>2
    <3> QED BY DEF Active
  <2> QED BY <1>1, <2>1, <2>3 DEF Seen
<1>5. CASE Retry(e)
  <2>1. pc[e] = "commit" /\ pc'[e] = "load" /\ row'[e] = NoRow /\ ev'[e].reopen = ev[e].reopen
    BY <1>5 DEF Retry, Event
  <2> QED BY <1>1, <2>1 DEF Seen
<1> QED BY <1>2, <1>3, <1>4, <1>5

\* An operator's commit and a clear tell whoever is at work.
LEMMA OperatorSeen ==
  ASSUME TypeOK, (\E o \in Operator : OpCommit(o)) \/ ClearAlerts, NEW u \in Emitter, Seen(u)
  PROVE  Seen(u)'
<1>1. touched' = touched \cup Busy /\ UNCHANGED <<pc, row, ev, overtaken>>
  BY DEF OpCommit, ClearAlerts, emitVars
<1>2. pc[u] = "idle" \/ u \in touched'
  BY <1>1 DEF Busy
<1>3. \A i \in Id : i \in Rows' => i \in Rows /\ count'[i] = count[i]
  <2>1. ASSUME NEW o \in Operator, OpCommit(o) PROVE \A i \in Id : i \in Rows' => i \in Rows /\ count'[i] = count[i]
    BY <2>1 DEF OpCommit, OpRefused, Rows, TypeOK, DbType
  <2>2. CASE ClearAlerts
    BY <2>2 DEF ClearAlerts, Rows
  <2> QED BY <2>1, <2>2
<1>4. row[u].id \in Rows' => row[u].id \in Rows /\ count'[row[u].id] = count[row[u].id]
  BY <1>3 DEF Rows
<1> QED BY <1>1, <1>2, <1>4 DEF Seen

LEMMA NextSeen ==
  ASSUME TypeOK, InSight, \A u \in Emitter : Seen(u), [Next]_vars, NEW u \in Emitter
  PROVE  Seen(u)'
<1>1. Seen(u) /\ (Sight(u) \/ u \in touched)
  BY DEF InSight, Sight
<1>2. ASSUME NEW e \in Emitter, UNCHANGED <<status, count>>, Unread(e)',
             \A v \in Emitter \ {e} : Still(v), touched' = touched \ {e}, overtaken' = overtaken \ {e}
      PROVE  Seen(u)'
  BY <1>1, <1>2, SameTable, UnreadSees
<1>3. CASE StreamNew \/ StreamRefire
  <2>1. PICK a : Begin(Pipe, a)
    BY <1>3 DEF StreamNew, StreamRefire
  <2>2. UNCHANGED <<status, count>> /\ touched' = touched \ {Pipe} /\ overtaken' = overtaken \ {Pipe}
    BY <1>3, <2>1 DEF StreamNew, StreamRefire, Begin, dbVars
  <2> QED BY <1>2, <2>1, <2>2, Basics, BeginStart, BeginUnread DEF Still
<1>4. ASSUME NEW d \in Demo, DemoRead(d) PROVE Seen(u)'
  <2>1. d \in Emitter /\ \E a : Begin(d, a)
    BY <1>4, Basics DEF DemoRead
  <2>2. PICK a : Begin(d, a)
    BY <2>1
  <2>3. UNCHANGED <<status, count>> /\ touched' = touched \ {d} /\ overtaken' = overtaken \ {d}
    BY <1>4, <2>2 DEF DemoRead, Begin, dbVars
  <2> QED BY <1>2, <2>1, <2>2, <2>3, BeginStart, BeginUnread DEF Still
<1>5. CASE Crash
  <2>1. /\ Leave(Pipe) /\ UNCHANGED <<status, count>>
        /\ touched' = touched \ {Pipe} /\ overtaken' = overtaken \ {Pipe}
    BY <1>5 DEF Crash, dbVars
  <2> QED BY <1>2, <2>1, Basics, LeaveFinishStart, LeaveUnread DEF Still
<1>6. ASSUME NEW e \in Emitter, Raise(e) PROVE Seen(u)'
  <2>1. /\ Leave(e) /\ UNCHANGED <<status, count>>
        /\ touched' = touched \ {e} /\ overtaken' = overtaken \ {e}
    BY <1>6 DEF Raise, dbVars
  <2> QED BY <1>2, <1>6, <2>1, LeaveFinishStart, LeaveUnread DEF Still
<1>7. ASSUME NEW e \in Emitter, Insert(e) \/ Update(e) PROVE Seen(u)'
  <2>1. PICK i : Finish(e, i)
    BY <1>7 DEF Insert, Update
  <2>2. Unread(e)' /\ (u # e => Still(u))
    BY <2>1, LeaveFinishStart, LeaveUnread DEF Still
  <2> QED BY <1>1, <1>7, <2>2, WriteSeen, UnreadSees
<1>8. ASSUME NEW e \in Emitter, PolicyActive(e) \/ PolicyResolved(e) \/ Load(e) \/ Retry(e)
      PROVE  Seen(u)'
  <2>1. CASE u = e
    BY <1>1, <1>8, <2>1, OwnStepSeen
  <2>2. CASE u # e
    <3>1. UNCHANGED <<status, count, touched, overtaken>>
      BY <1>8 DEF PolicyActive, PolicyResolved, Load, Retry, dbVars, histVars
    <3>2. Still(u)
      BY <1>8, <2>2, EmitParts DEF TypeOK, PolicyActive, PolicyResolved, Load, Retry, Leave, Still
    <3> QED BY <1>1, <3>1, <3>2, SameTable
  <2> QED BY <2>1, <2>2
<1>9. CASE (\E o \in Operator : OpCommit(o)) \/ ClearAlerts
  BY <1>1, <1>9, OperatorSeen
<1>10. CASE UNCHANGED <<status, count, emitVars, touched, overtaken>>
  BY <1>1, <1>10, SameTable DEF emitVars, Still
<1>11. \/ UNCHANGED <<status, count, emitVars, touched, overtaken>>
       \/ (\E o \in Operator : OpCommit(o)) \/ ClearAlerts
       \/ StreamNew \/ StreamRefire \/ Crash \/ \E d \in Demo : DemoRead(d)
       \/ \E e \in Emitter : Emission(e)
  BY DEF Next, vars, dbVars, histVars, StreamSuppress, Checkpoint, OpLoad, OpFail, ClearOutbox
<1> QED BY <1>3, <1>4, <1>5, <1>6, <1>7, <1>8, <1>9, <1>10, <1>11 DEF Emission

-----------------------------------------------------------------------------
(* The keys of the notifications *)

\* A refresh counts further than the row it loaded.
LEMMA CountRises ==
  ASSUME EmitType, NEW e \in Emitter
  PROVE  NextCount(ev[e], row[e]) > row[e].count
<1>1. row[e].count \in Nat /\ ev[e].count \in Nat
  BY EmitParts, Records
<1> QED BY <1>1 DEF NextCount

\* What a notification does to the keys.
LEMMA NotifyKeys ==
  ASSUME NEW e \in Emitter, NEW i, NEW n, NEW s, Notify(e, i, n, s)
  PROVE  /\ \A k \in outbox' : k \in outbox \/ (k = <<i, n>> /\ ShouldEnqueue(e, s))
         /\ swallowed' = swallowed \/ (swallowed' = swallowed \cup {i} /\ <<i, n>> \in outbox)
BY DEF Notify

\* Who touches the keys, and the counts they are compared with.
LEMMA KeyFrame ==
  ASSUME [Next]_vars
  PROVE  \/ UNCHANGED <<outbox, status, count, regressed, orphaned, swallowed>>
         \/ \E e \in Emitter : Insert(e) \/ Update(e)
         \/ \E o \in Operator : OpCommit(o)
         \/ ClearAlerts
BY DEF Next, vars, dbVars, histVars, Begin, StreamNew, StreamRefire, StreamSuppress, Checkpoint, Crash,
   DemoRead, Emission, PolicyActive, PolicyResolved, Load, Retry, Raise, OpLoad, OpFail, ClearOutbox

LEMMA NextKeys == TypeOK /\ IdsInOrder /\ KeysCounted /\ RefiresNotify /\ [Next]_vars => KeysCounted' /\ RefiresNotify'
<1> SUFFICES ASSUME TypeOK, IdsInOrder, KeysCounted, RefiresNotify, [Next]_vars
             PROVE  KeysCounted' /\ RefiresNotify'
  OBVIOUS
<1> USE DEF KeysCounted, RefiresNotify
<1>1. /\ status \in [Id -> RowStatus] /\ count \in [Id -> Nat] /\ outbox \subseteq Id \X Nat
      /\ \A k \in outbox : k[1] \in Id /\ k[2] \in Nat /\ k = <<k[1], k[2]>>
  BY DEF TypeOK, DbType
<1>2. CASE UNCHANGED <<outbox, status, count, regressed, orphaned, swallowed>>
  BY <1>2 DEF Rows
<1>3. ASSUME NEW e \in Emitter, Insert(e) PROVE KeysCounted' /\ RefiresNotify'
  <2> DEFINE i == ev[e].id
             n == ev[e].count
  <2>1. /\ i \notin Rows /\ status' = [status EXCEPT ![i] = ev[e].status]
        /\ count' = [count EXCEPT ![i] = n] /\ UNCHANGED <<regressed, orphaned>>
        /\ Notify(e, i, n, ev[e].status)
    BY <1>3 DEF Insert, Clashes
  <2>2. n \in Nat /\ ev[e].status # Absent
    BY EmitParts, Records DEF TypeOK, Absent
  <2>3. ASSUME NEW k \in outbox
        PROVE  k[1] \in regressed' \cup orphaned' \/ (k[1] \in Rows' /\ k[2] <= count'[k[1]])
    BY <1>1, <2>1 DEF Rows
  <2>4. <<i, n>> \in outbox => i \in regressed \cup orphaned
    BY <1>1, <2>1
  <2>5. ASSUME NEW k \in outbox', k = <<i, n>>, ShouldEnqueue(e, ev[e].status), k \notin outbox
        PROVE  k[1] \in Rows' /\ k[2] <= count'[k[1]]
    <3>1. i \in Id
      BY <1>3, EmitParts, Records, Basics DEF TypeOK, IdsInOrder, Insert
    <3> QED BY <1>1, <2>1, <2>2, <2>5, <3>1 DEF Rows
  <2> QED BY <2>1, <2>3, <2>4, <2>5, NotifyKeys
<1>4. ASSUME NEW e \in Emitter, Update(e) PROVE KeysCounted' /\ RefiresNotify'
  <2> DEFINE i == row[e].id
             n == NextCount(ev[e], row[e])
  <2>1. /\ i \in Rows /\ status' = [status EXCEPT ![i] = Written(e)]
        /\ count' = [count EXCEPT ![i] = n] /\ UNCHANGED orphaned
        /\ regressed' = IF row[e].count # count[i] /\ n <= count[i] THEN regressed \cup {i} ELSE regressed
        /\ Notify(e, i, n, RefreshedStatus(row[e].status))
    BY <1>4 DEF Update, Gone
  <2>2. n \in Nat /\ n > row[e].count /\ i \in Id /\ count[i] \in Nat /\ row[e].count \in Nat
    BY <1>1, <2>1, CountType, CountRises, EmitParts, Records DEF TypeOK, Rows
  <2>3. n <= count[i] => i \in regressed'
    BY <2>1, <2>2
  <2>4. Written(e) # Absent
    BY <2>1, CountType DEF TypeOK, Written, Flush, Rows, ActiveStatus, Absent
  <2>5. i \in Rows' /\ count'[i] = n
    BY <1>1, <2>1, <2>2, <2>4 DEF Rows
  <2> HIDE DEF i, n
  <2>6. ASSUME NEW k \in outbox
        PROVE  k[1] \in regressed' \cup orphaned' \/ (k[1] \in Rows' /\ k[2] <= count'[k[1]])
    <3>1. k[1] \in regressed \cup orphaned \/ (k[1] \in Rows /\ k[2] <= count[k[1]])
      BY <2>6
    <3>2. CASE k[1] = i
      <4>1. k[2] <= count[i] /\ n > count[i] => k[2] <= n
        BY <1>1, <2>2, <2>6
      <4> QED BY <2>1, <2>2, <2>3, <2>5, <3>1, <3>2, <4>1
    <3>3. CASE k[1] # i
      BY <1>1, <2>1, <2>6, <3>1, <3>3 DEF Rows
    <3> QED BY <3>2, <3>3
  <2>7. <<i, n>> \in outbox => i \in regressed' \cup orphaned'
    BY <2>1, <2>3
  <2>8. ASSUME NEW k \in outbox', k = <<i, n>> PROVE k[1] \in Rows' /\ k[2] <= count'[k[1]]
    BY <2>2, <2>5, <2>8
  <2>9. regressed \subseteq regressed' /\ orphaned' = orphaned
    BY <2>1
  <2> QED BY <2>1, <2>6, <2>7, <2>8, <2>9, NotifyKeys
<1>5. ASSUME NEW o \in Operator, OpCommit(o) PROVE KeysCounted' /\ RefiresNotify'
  <2>1. /\ status' = [status EXCEPT ![opRow[o]] = OpStatus(o)] /\ opRow[o] \in Rows
        /\ UNCHANGED <<count, outbox, regressed, orphaned, swallowed>>
    BY <1>5 DEF OpCommit, OpRefused
  <2>2. OpStatus(o) # Absent
    BY <2>1 DEF TypeOK, OpType, OpStatus, Flush, Rows, OperatorStatus, ActiveStatus, Absent
  <2>3. Rows' = Rows
    BY <1>1, <2>1, <2>2 DEF Rows
  <2> QED BY <2>1, <2>3
<1>6. CASE ClearAlerts
  <2>1. outbox' = outbox \ clearKeys /\ orphaned' = orphaned \cup {k[1] : k \in outbox \ clearKeys}
        /\ UNCHANGED <<regressed, swallowed>>
    BY <1>6 DEF ClearAlerts
  <2> QED BY <2>1
<1> QED BY <1>2, <1>3, <1>4, <1>5, <1>6, KeyFrame

\* What an emission has seen is so until somebody interferes, and the keys of
\* an incident are not ahead of its count.
THEOREM SeenInvariant == Spec => []SeenInv
<1>1. Init => SeenInv
  <2> SUFFICES ASSUME Init PROVE SeenInv
    OBVIOUS
  <2>1. \A u \in Emitter : Unread(u)
    BY DEF Init, Unread
  <2> QED BY <2>1, UnreadSees, SeenParts DEF SeenInv, Init, KeysCounted, RefiresNotify
<1>2. IInv /\ SeenInv /\ [Next]_vars => SeenInv'
  <2> SUFFICES ASSUME IInv, SeenInv, [Next]_vars PROVE SeenInv'
    OBVIOUS
  <2>1. \A u \in Emitter : Seen(u)
    BY SeenParts DEF SeenInv
  <2>2. \A u \in Emitter : Seen(u)'
    BY <2>1, NextSeen DEF IInv
  <2>3. (StatusSeen /\ CountSeen /\ PolicySeen)'
    BY <2>2 DEF Seen, StatusSeen, CountSeen, PolicySeen
  <2> QED BY <2>3, NextKeys DEF IInv, SeenInv
<1> QED BY <1>1, <1>2, IncidentsInvariant, PTL DEF Spec

\* A wanted notification finds its key taken only after a stale upsert set the
\* count back or a clear left keys behind, whatever is replayed or reopened.
THEOREM KeysAreFresh == Spec => []RefiresNotify
<1>1. SeenInv => RefiresNotify
  BY DEF SeenInv
<1> QED BY <1>1, SeenInvariant, PTL

-----------------------------------------------------------------------------
(* What a step may do to a row *)

\* A row that is there is not inserted.
LEMMA InsertsAbsent ==
  ASSUME NEW e \in Emitter, Insert(e)
  PROVE  ev[e].id \notin Rows /\ Active = {}
BY DEF Insert, Clashes

\* The refresh of a row that no operator changed since it was loaded leaves an
\* acknowledged one alone.
LEMMA UpdateKeepsAck ==
  ASSUME IInv, NEW e \in Emitter, Seen(e), Update(e), e \notin touched,
         status[row[e].id] \in {"acknowledged", "resolved"}
  PROVE  status[row[e].id] = "acknowledged" /\ row[e].status = "acknowledged"
<1>1. pc[e] = "commit" /\ row[e] # NoRow /\ row[e].id \in Active
  BY DEF Update, IInv, InSight
<1> QED BY <1>1 DEF Seen, Active, ActiveStatus

LEMMA CountStep ==
  ASSUME IInv, \A u \in Emitter : Seen(u), [Next]_vars,
         NEW i \in Rows, status'[i] # Absent, count'[i] < count[i]
  PROVE  \E e \in overtaken : pc[e] = "commit" /\ row[e].id = i
<1>1. count \in [Id -> Nat] /\ i \in Id
  BY DEF IInv, TypeOK, DbType, Rows
<1>2. CASE UNCHANGED <<outbox, status, count, regressed, orphaned, swallowed>>
  BY <1>1, <1>2
<1>3. ASSUME NEW e \in Emitter, Insert(e) PROVE FALSE
  <2>1. i # ev[e].id /\ count' = [count EXCEPT ![ev[e].id] = ev[e].count]
    BY <1>3, InsertsAbsent DEF Insert
  <2> QED BY <1>1, <2>1
<1>4. ASSUME NEW e \in Emitter, Update(e)
      PROVE  e \in overtaken /\ pc[e] = "commit" /\ row[e].id = i
  <2>1. /\ pc[e] = "commit" /\ row[e] # NoRow
        /\ count' = [count EXCEPT ![row[e].id] = NextCount(ev[e], row[e])]
    BY <1>4 DEF Update
  <2>2. row[e].id = i
    BY <1>1, <2>1
  <2>3. NextCount(ev[e], row[e]) > row[e].count /\ NextCount(ev[e], row[e]) \in Nat
        /\ row[e].count \in Nat
    BY CountRises, CountType, EmitParts, Records DEF IInv, TypeOK
  <2>4. row[e].count # count[i]
    BY <1>1, <2>1, <2>2, <2>3
  <2> QED BY <2>1, <2>2, <2>4 DEF Seen
<1>5. ASSUME NEW o \in Operator, OpCommit(o) PROVE FALSE
  BY <1>1, <1>5 DEF OpCommit
<1>6. CASE ClearAlerts
  BY <1>1, <1>6 DEF ClearAlerts
<1> QED BY <1>2, <1>3, <1>4, <1>5, <1>6, KeyFrame

\* Only an overtaken emission lowers a count.
THEOREM CountsNeverDrop == Spec => CountsGrow
<1>1. IInv /\ SeenInv /\ [Next]_vars =>
        [\A i \in Rows : status'[i] # Absent /\ count'[i] < count[i] =>
            \E e \in overtaken : pc[e] = "commit" /\ row[e].id = i]_vars
  <2> SUFFICES ASSUME IInv, SeenInv, [Next]_vars
               PROVE  \A i \in Rows : status'[i] # Absent /\ count'[i] < count[i] =>
                         \E e \in overtaken : pc[e] = "commit" /\ row[e].id = i
    OBVIOUS
  <2>1. \A u \in Emitter : Seen(u)
    BY SeenParts DEF SeenInv
  <2> QED BY <2>1, CountStep
<1> QED BY <1>1, IncidentsInvariant, SeenInvariant, PTL DEF Spec, CountsGrow

LEMMA OperatorStep ==
  ASSUME IInv, \A u \in Emitter : Seen(u), [Next]_vars, NEW i \in Id,
         status[i] \in {"acknowledged", "resolved"}, status'[i] \in {"open", "updated"}
  PROVE  \/ \E o \in Operator : opRow[o] = i
         \/ \E e \in touched : pc[e] = "commit" /\ row[e].id = i /\ row[e].status = "open"
<1>1. TypeOK /\ IdsInOrder /\ i \in Rows
  BY DEF IInv, Rows, Absent
<1>2. ASSUME NEW e \in Emitter, Insert(e), i = ev[e].id PROVE FALSE
  BY <1>1, <1>2, InsertsAbsent
<1>3. ASSUME NEW e \in Emitter, Update(e), i = row[e].id, status'[i] = Written(e)
      PROVE  e \in touched /\ pc[e] = "commit" /\ row[e].id = i /\ row[e].status = "open"
  <2>1. pc[e] = "commit" /\ row[e] # NoRow /\ row[e].status \in ActiveStatus
    BY <1>3 DEF Update, Seen
  <2>2. row[e].status # RefreshedStatus(row[e].status)
    BY <1>3 DEF Written, Flush
  <2>3. row[e].status = "open"
    BY <2>1, <2>2 DEF RefreshedStatus, ActiveStatus
  <2>4. e \in touched
    BY <1>3, <2>3, UpdateKeepsAck
  <2> QED BY <1>3, <2>1, <2>3, <2>4
<1> QED BY <1>1, <1>2, <1>3, RowFrame DEF Absent

\* An emission overrides an operator only in the window of a first refire.
THEOREM OperatorsAreKept == Spec => OperatorKept
<1>1. IInv /\ SeenInv /\ [Next]_vars =>
        [\A i \in Id : status[i] \in {"acknowledged", "resolved"}
                         /\ status'[i] \in {"open", "updated"} =>
            \/ \E o \in Operator : opRow[o] = i
            \/ \E e \in touched : pc[e] = "commit" /\ row[e].id = i /\ row[e].status = "open"]_vars
  <2> SUFFICES ASSUME IInv, SeenInv, [Next]_vars
               PROVE  \A i \in Id : status[i] \in {"acknowledged", "resolved"}
                                      /\ status'[i] \in {"open", "updated"} =>
                  \/ \E o \in Operator : opRow[o] = i
                  \/ \E e \in touched : pc[e] = "commit" /\ row[e].id = i /\ row[e].status = "open"
    OBVIOUS
  <2>1. \A u \in Emitter : Seen(u)
    BY SeenParts DEF SeenInv
  <2> QED BY <2>1, OperatorStep
<1> QED BY <1>1, IncidentsInvariant, SeenInvariant, PTL DEF Spec, OperatorKept

\* The reopen policy is overridden only by what was written after the look.
THEOREM PolicyIsKept == Spec => PolicyKept
<1>1. IInv /\ SeenInv /\ [Next]_vars =>
        [Insert(Pipe) /\ ~ev[Pipe].reopen =>
            Pipe \in touched \cup overtaken \/ \A i \in Id : status[i] # "resolved"]_vars
  <2> SUFFICES ASSUME SeenInv, Insert(Pipe), ~ev[Pipe].reopen, Pipe \notin touched \cup overtaken
               PROVE  \A i \in Id : status[i] # "resolved"
    OBVIOUS
  <2>1. pc[Pipe] = "commit" /\ Active = {}
    BY Basics, InsertsAbsent DEF Insert
  <2>2. ~SomeResolved
    BY <2>1, Basics DEF SeenInv, PolicySeen
  <2> QED BY <2>2 DEF SomeResolved
<1> QED BY <1>1, IncidentsInvariant, SeenInvariant, PTL DEF Spec, PolicyKept

LEMMA AckStep ==
  ASSUME IInv, \A u \in Emitter : Seen(u), [Next]_vars, NEW i \in Active, SuppressAcked,
         status[i] = "acknowledged", NEW k \in outbox' \ outbox, k[1] = i
  PROVE  Pipe \in touched \/ \E d \in Demo : pc[d] = "commit"
<1>1. i \in Rows
  BY DEF Active, Rows, ActiveStatus, Absent
<1>2. ASSUME NEW e \in Emitter, Insert(e) PROVE FALSE
  <2>1. Notify(e, ev[e].id, ev[e].count, ev[e].status) /\ Active = {}
    BY <1>2, InsertsAbsent DEF Insert
  <2> QED BY <2>1
<1>3. ASSUME NEW e \in Emitter, Update(e)
      PROVE  Pipe \in touched \/ \E d \in Demo : pc[d] = "commit"
  <2>1. /\ pc[e] = "commit"
        /\ Notify(e, row[e].id, NextCount(ev[e], row[e]), RefreshedStatus(row[e].status))
    BY <1>3 DEF Update
  <2>2. k = <<row[e].id, NextCount(ev[e], row[e])>> /\ ShouldEnqueue(e, RefreshedStatus(row[e].status))
    BY <2>1, NotifyKeys
  <2>3. row[e].id = i
    BY <2>2
  <2>4. CASE e \in Demo
    BY <2>1, <2>4
  <2>5. CASE e = Pipe /\ Pipe \notin touched
    <3>1. row[e].status = "acknowledged"
      BY <1>3, <2>3, <2>5, UpdateKeepsAck
    <3> QED BY <2>2, <2>5, <3>1 DEF ShouldEnqueue, RefreshedStatus
  <2> QED BY <2>4, <2>5 DEF Emitter
<1>4. ASSUME NEW o \in Operator, OpCommit(o) PROVE FALSE
  BY <1>4 DEF OpCommit
<1>5. CASE ClearAlerts
  BY <1>5 DEF ClearAlerts
<1>6. CASE UNCHANGED <<outbox, status, count, regressed, orphaned, swallowed>>
  BY <1>6
<1> QED BY <1>2, <1>3, <1>4, <1>5, <1>6, KeyFrame

\* The stream adds no notification of an incident that it saw acknowledged.
THEOREM AcksSilence == Spec => AckSilences
<1>1. IInv /\ SeenInv /\ [Next]_vars =>
        [\A i \in Active : SuppressAcked /\ status[i] = "acknowledged" =>
            \A k \in outbox' \ outbox : k[1] = i =>
               Pipe \in touched \/ \E d \in Demo : pc[d] = "commit"]_vars
  <2> SUFFICES ASSUME IInv, SeenInv, [Next]_vars
               PROVE  \A i \in Active : SuppressAcked /\ status[i] = "acknowledged" =>
                         \A k \in outbox' \ outbox : k[1] = i =>
                            Pipe \in touched \/ \E d \in Demo : pc[d] = "commit"
    OBVIOUS
  <2>1. \A u \in Emitter : Seen(u)
    BY SeenParts DEF SeenInv
  <2> QED BY <2>1, AckStep
<1> QED BY <1>1, IncidentsInvariant, SeenInvariant, PTL DEF Spec, AckSilences

LEMMA ResolveStep ==
  ASSUME IInv, [Next]_vars, NEW i \in Id, status[i] # "resolved", status'[i] = "resolved"
  PROVE  acked'[i] \/ \E o \in Operator : opRow[o] = i /\ opSeen[o].acked /\ ~acked[i]
<1>1. TypeOK /\ IdsInOrder
  BY DEF IInv
<1>2. ASSUME NEW e \in Emitter, Insert(e), status'[i] = ev[e].status PROVE FALSE
  BY <1>1, <1>2, EmitParts, Records DEF TypeOK
<1>3. ASSUME NEW e \in Emitter, Update(e), i = row[e].id, status'[i] = Written(e) PROVE FALSE
  BY <1>3 DEF Written, Flush, RefreshedStatus
<1>4. ASSUME NEW o \in Operator, OpCommit(o), i = opRow[o], status'[i] = OpStatus(o)
      PROVE  acked'[i] \/ (opSeen[o].acked /\ ~acked[i])
  <2>1. opNew[o] = "resolved" /\ opSeen[o].status # "resolved"
    BY <1>4 DEF OpStatus, Flush
  <2>2. acked'[i] = AckedAfter(opNew[o], opSeen[o], acked[i])
    BY <1>1, <1>4 DEF OpCommit, TypeOK, DbType
  <2>3. CASE ~opSeen[o].acked
    <3>1. AckedAfter(opNew[o], opSeen[o], acked[i]) = TRUE
      BY <2>1, <2>3 DEF AckedAfter
    <3> QED BY <2>2, <3>1
  <2>4. CASE opSeen[o].acked
    <3>1. AckedAfter(opNew[o], opSeen[o], acked[i]) = acked[i]
      BY <2>1, <2>4 DEF AckedAfter
    <3> QED BY <2>2, <2>4, <3>1
  <2> QED BY <2>3, <2>4
<1> QED BY <1>1, <1>2, <1>3, <1>4, RowFrame DEF Absent

\* Resolving acknowledges, unless the acknowledgement was there and taken back.
THEOREM ResolvingAcks == Spec => ResolveAcks
<1>1. IInv /\ [Next]_vars =>
        [\A i \in Id : status[i] # "resolved" /\ status'[i] = "resolved" =>
            \/ acked'[i]
            \/ \E o \in Operator : opRow[o] = i /\ opSeen[o].acked /\ ~acked[i]]_vars
  BY ResolveStep
<1> QED BY <1>1, IncidentsInvariant, PTL DEF Spec, ResolveAcks
=============================================================================
