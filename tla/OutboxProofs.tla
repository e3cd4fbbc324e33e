---------------------------- MODULE OutboxProofs ----------------------------
(* Theorems about Outbox, for every number of workers, keys and rows. *)
EXTENDS Outbox, FiniteSetTheorems, TLAPS

-----------------------------------------------------------------------------
(* Frames: the steps that touch each group of variables. *)

\* Only a worker's own step, its crash or its restart changes its memory.
LEMMA WorkerFrame ==
  ASSUME [Next]_vars
  PROVE  UNCHANGED workerVars \/ \E w \in Worker : WorkerStep(w) \/ Crash(w)
BY DEF Next, Operator, vars, Enqueue, SeedInsert, BackoffElapsed, ClaimExpires,
   RedriveSelect, RedriveWrite, DeleteRows, ClearOutbox, ClearLog, SeedMark, MarkOpenDead

\* Only operator requests hold an operator's session.
LEMMA OpFrame ==
  ASSUME [Next]_vars
  PROVE  \/ UNCHANGED opVars
         \/ \E k \in Key : SeedInsert(k)
         \/ RedriveSelect \/ RedriveWrite \/ SeedMark \/ MarkOpenDead
BY DEF Next, Operator, WorkerStep, vars, Enqueue, BackoffElapsed, ClaimExpires, Claim, Check,
   Send, LogDispatch, MarkLoad, MarkCommit, Crash, Restart, DeleteRows, ClearOutbox, ClearLog

\* A worker's step leaves the memory of the others alone.
LEMMA OthersStay ==
  ASSUME WorkerType, NEW v \in Worker, WorkerStep(v) \/ Crash(v), NEW w \in Worker, w # v
  PROVE  UNCHANGED <<pc[w], cur[w], outcome[w]>>
BY DEF WorkerStep, Claim, Check, Send, LogDispatch, MarkLoad, MarkCommit, Restart, Crash,
   NextRow, Die, WorkerType

LEMMA IdFacts ==
  Id \subseteq Nat /\ NoRow \notin Id /\ \A n \in Nat : n >= 1 /\ n <= MaxRows => n \in Id
BY OutboxAssumption DEF Id, NoRow

LEMMA StatusFacts ==
  /\ \A s \in {"pending", "processing", "sent", "failed", "dead", "absent"} : s \in RowStatus
  /\ NoSeen \in Seen
BY DEF RowStatus, OutboxStatus, Absent, Seen, NoSeen

-----------------------------------------------------------------------------
(* Types *)

LEMMA NextClearType == ClearType /\ [Next]_vars => ClearType'
<1> SUFFICES ASSUME ClearType, [Next]_vars PROVE ClearType'
  OBVIOUS
<1> USE DEF ClearType
<1>1. CASE UNCHANGED clearVars
  BY <1>1 DEF clearVars
<1>2. CASE ClearOutbox
  BY <1>2 DEF ClearOutbox, Rows
<1>3. CASE ClearLog
  BY <1>3 DEF ClearLog, Unlogged, Rows
<1> QED
  BY <1>1, <1>2, <1>3 DEF Next, Operator, WorkerStep, vars, Enqueue, SeedInsert, BackoffElapsed,
     ClaimExpires, Claim, Check, Send, LogDispatch, MarkLoad, MarkCommit, Crash, Restart,
     RedriveSelect, RedriveWrite, DeleteRows, SeedMark, MarkOpenDead

LEMMA NextOpType == DbType /\ OpType /\ [Next]_vars => OpType'
<1> SUFFICES ASSUME DbType, OpType, [Next]_vars PROVE OpType'
  OBVIOUS
<1> USE DEF OpType
<1>1. CASE UNCHANGED opVars
  BY <1>1 DEF opVars
<1>2. ASSUME NEW k \in Key, SeedInsert(k) PROVE OpType'
  <2>1. nextId \in Id
    BY <1>2, IdFacts DEF SeedInsert, InsertRow, DbType
  <2> QED BY <1>2, <2>1 DEF SeedInsert
<1>3. CASE RedriveSelect
  <2>1. opIds' \subseteq Id
    BY <1>3 DEF RedriveSelect, RedriveSets, Rows
  <2>2. \A i \in Id : [status |-> status[i], attempts |-> attempts[i]] \in Seen
    BY DEF DbType, Seen
  <2> QED BY <1>3, <2>1, <2>2, StatusFacts DEF RedriveSelect
<1>4. CASE RedriveWrite
  BY <1>4, StatusFacts DEF RedriveWrite, OpEnd
<1>5. CASE SeedMark
  BY <1>5, StatusFacts DEF SeedMark, OpEnd
<1>6. CASE MarkOpenDead
  BY <1>6, StatusFacts DEF MarkOpenDead, OpEnd
<1> QED
  BY <1>1, <1>2, <1>3, <1>4, <1>5, <1>6, OpFrame

LEMMA NextWorkerType ==
  DbType /\ WorkerType /\ RowInHand /\ [Next]_vars => WorkerType' /\ RowInHand'
<1> SUFFICES ASSUME DbType, WorkerType, RowInHand, [Next]_vars
             PROVE  WorkerType' /\ RowInHand'
  OBVIOUS
<1>1. CASE UNCHANGED workerVars
  BY <1>1 DEF workerVars, WorkerType, RowInHand
<1>2. ASSUME NEW w \in Worker, WorkerStep(w) \/ Crash(w)
       PROVE  WorkerType' /\ RowInHand'
  <2> USE StatusFacts DEF WorkerType, RowInHand, WorkerPc, NoRow
  <2>0. /\ NextRow(w) => WorkerType' /\ RowInHand'
        /\ Die(w) => WorkerType' /\ RowInHand'
    <3>1. ASSUME NextRow(w) PROVE WorkerType' /\ RowInHand'
      BY <3>1 DEF NextRow
    <3>2. ASSUME Die(w) PROVE WorkerType' /\ RowInHand'
      BY <3>2 DEF Die
    <3> QED BY <3>1, <3>2
  <2>1. CASE Claim(w)
    <3>1. Claimable \subseteq Id
      BY DEF Claimable, Recoverable
    <3> QED BY <2>1, <3>1 DEF Claim
  <2>2. CASE Check(w)
    BY <2>2 DEF Check
  <2>3. CASE Send(w)
    BY <2>3 DEF Send
  <2>4. CASE LogDispatch(w)
    BY <2>4 DEF LogDispatch
  <2>5. CASE MarkLoad(w)
    <3>1. CASE status[cur[w]] = Absent
      BY <2>0, <2>5, <3>1 DEF MarkLoad
    <3>2. CASE status[cur[w]] # Absent
      <4>1. cur[w] \in Id
        BY <2>5 DEF MarkLoad
      <4>2. [status |-> status[cur[w]], attempts |-> attempts[cur[w]]] \in Seen
        BY <4>1 DEF DbType, Seen
      <4> QED BY <2>5, <3>2, <4>2 DEF MarkLoad
    <3> QED BY <3>1, <3>2
  <2>6. CASE MarkCommit(w)
    BY <2>0, <2>6 DEF MarkCommit
  <2>7. CASE Crash(w)
    BY <2>7 DEF Crash, Die
  <2>8. CASE Restart(w)
    BY <2>8 DEF Restart
  <2> QED BY <1>2, <2>1, <2>2, <2>3, <2>4, <2>5, <2>6, <2>7, <2>8 DEF WorkerStep
<1> QED
  BY <1>1, <1>2, WorkerFrame

\* A row in a worker's batch was handed out and has a real key.
LEMMA HeldRows ==
  ASSUME DbType, WorkerType, FreshIds, NEW w \in Worker, NEW i \in batch[w]
  PROVE  i \in Id /\ i < nextId /\ keyOf[i] \in Key
<1>1. i \in Id
  BY DEF WorkerType
<1>2. i < nextId \/ ~(i < nextId)
  OBVIOUS
<1> QED BY <1>1, <1>2 DEF FreshIds

LEMMA NextDbType ==
  DbType /\ WorkerType /\ RowInHand /\ OpType /\ FreshIds /\ [Next]_vars => DbType'
<1> SUFFICES ASSUME DbType, WorkerType, RowInHand, OpType, FreshIds, [Next]_vars PROVE DbType'
  OBVIOUS
<1> USE StatusFacts DEF DbType
<1>1. ASSUME NEW k \in Key, InsertRow(k) PROVE DbType'
  <2>1. nextId + 1 \in 1..(MaxRows + 1)
    BY <1>1, OutboxAssumption DEF InsertRow
  <2> QED BY <1>1, <2>1 DEF InsertRow
<1>2. ASSUME NEW i \in Id, BackoffElapsed(i) PROVE DbType'
  BY <1>2 DEF BackoffElapsed
<1>3. ASSUME NEW i \in Id, ClaimExpires(i) PROVE DbType'
  BY <1>3 DEF ClaimExpires
<1>4. ASSUME NEW w \in Worker, Claim(w) PROVE DbType'
  BY <1>4 DEF Claim
<1>5. ASSUME NEW w \in Worker, LogDispatch(w) PROVE DbType'
  <2>1. keyOf[cur[w]] \in Key
    BY <1>5, HeldRows DEF LogDispatch, RowInHand
  <2> QED BY <1>5, <2>1 DEF LogDispatch
<1>6. ASSUME NEW w \in Worker, MarkCommit(w) PROVE DbType'
  <2>1. cur[w] \in Id /\ status[cur[w]] \in RowStatus
    BY <1>6, HeldRows DEF MarkCommit, RowInHand
  <2>2. Flush(seen[w].status, status[cur[w]], MarkedStatus(outcome[w], seen[w])) \in RowStatus
    BY <2>1 DEF Flush, MarkedStatus
  <2> QED BY <1>6, <2>1, <2>2 DEF MarkCommit
<1>7. CASE RedriveWrite
  <2>1. \A i \in Id : Flush(opSeen[i].attempts, attempts[i], 0) \in Nat
    BY DEF Flush
  <2> QED BY <1>7, <2>1 DEF RedriveWrite
<1>8. ASSUME NEW S, RemoveRows(S), audit' \in {audit, {}} PROVE DbType'
  BY <1>8 DEF RemoveRows, Absent
<1>9. CASE SeedMark
  BY <1>9, OutboxAssumption DEF SeedMark
<1>10. CASE MarkOpenDead
  BY <1>10 DEF MarkOpenDead
<1>11. CASE UNCHANGED dbVars
  BY <1>11 DEF dbVars
<1> QED
  BY <1>1, <1>2, <1>3, <1>4, <1>5, <1>6, <1>7, <1>8, <1>9, <1>10, <1>11
  DEF Next, Operator, WorkerStep, vars, Enqueue, SeedInsert, Check, Send, MarkLoad, Crash,
      Restart, RedriveSelect, DeleteRows, ClearOutbox, ClearLog

LEMMA NextHistType ==
  TypeOK /\ RowInHand /\ FreshIds /\ [Next]_vars => HistType'
<1> SUFFICES ASSUME TypeOK, RowInHand, FreshIds, [Next]_vars PROVE HistType'
  OBVIOUS
<1> USE DEF TypeOK, HistType
<1>1. ASSUME NEW S \in SUBSET Id, NEW kept, TakeBack(S, kept)
      PROVE  stolen' \subseteq Id /\ returned' \in [Id -> Nat]
  BY <1>1 DEF TakeBack
<1>2. ASSUME NEW w \in Worker, Claim(w) PROVE HistType'
  <2>1. Recoverable \subseteq Id
    BY DEF Recoverable
  <2> QED BY <1>1, <1>2, <2>1 DEF Claim, chanVars, budgets
<1>3. ASSUME NEW w \in Worker, Send(w) PROVE HistType'
  <2>1. keyOf[cur[w]] \in Key
    BY <1>3, HeldRows DEF Send, RowInHand
  <2> QED BY <1>3, <2>1 DEF Send, histVars, budgets
<1>4. ASSUME NEW w \in Worker, Crash(w) PROVE HistType'
  <2>1. pc[w] = "log" => keyOf[cur[w]] \in Key
    BY HeldRows DEF RowInHand
  <2>2. crashes + 1 \in 0..MaxCrashes
    BY <1>4, OutboxAssumption DEF Crash
  <2> QED BY <1>4, <2>1, <2>2 DEF Crash, histVars
<1>5. ASSUME NEW i \in Id, ClaimExpires(i) PROVE HistType'
  BY <1>5, OutboxAssumption DEF ClaimExpires, chanVars, histVars
<1>6. OpStart => /\ crashes' \in 0..MaxCrashes /\ slow' \in 0..MaxSlow /\ ops' \in 0..MaxOps
  BY OutboxAssumption DEF OpStart
<1>7. CASE RedriveSelect \/ ClearOutbox \/ \E k \in Key : SeedInsert(k)
  BY <1>6, <1>7 DEF RedriveSelect, ClearOutbox, SeedInsert, chanVars, histVars
<1>8. CASE RedriveWrite
  <2>1. {i \in opIds : opSeen[i].status # "pending"} \in SUBSET Id
    BY DEF OpType
  <2> QED BY <1>1, <1>8, <2>1 DEF RedriveWrite, chanVars, histVars, budgets
<1>9. CASE DeleteRows \/ ClearLog
  <2>1. ASSUME NEW S \in SUBSET Rows, RemoveRows(S)
        PROVE  stolen' \subseteq Id /\ returned' \in [Id -> Nat]
    BY <2>1 DEF RemoveRows, Rows
  <2>2. CASE DeleteRows
    BY <1>6, <2>1, <2>2 DEF DeleteRows, chanVars
  <2>3. CASE ClearLog
    BY <2>1, <2>3 DEF ClearLog, DbType, budgets
  <2> QED BY <1>9, <2>2, <2>3
<1>10. CASE SeedMark
  BY <1>1, <1>10 DEF SeedMark, Rows, chanVars, budgets
<1>11. CASE MarkOpenDead
  BY <1>1, <1>11 DEF MarkOpenDead, Rows, chanVars, budgets
<1>12. CASE UNCHANGED <<chanVars, histVars, budgets>>
  BY <1>12 DEF chanVars, histVars, budgets
<1> QED
  BY <1>2, <1>3, <1>4, <1>5, <1>7, <1>8, <1>9, <1>10, <1>11, <1>12
  DEF Next, Operator, WorkerStep, vars, Enqueue, BackoffElapsed, Check, LogDispatch,
      MarkLoad, MarkCommit, Restart

\* What an unused id looks like survives every step: only InsertRow uses one.
LEMMA NextFreshIds ==
  TypeOK /\ RowInHand /\ FreshIds /\ [Next]_vars => FreshIds'
<1> SUFFICES ASSUME TypeOK, RowInHand, FreshIds, [Next]_vars PROVE FreshIds'
  OBVIOUS
<1> USE DEF TypeOK
<1>0. /\ nextId \in Nat
      /\ \A j \in Id : j \in Nat
      /\ \A j \in Rows : j < nextId
      /\ \A w \in Worker : batch[w] \subseteq Id
  BY IdFacts, OutboxAssumption DEF DbType, WorkerType, FreshIds, Rows
<1>1. ASSUME NEW k \in Key, InsertRow(k), opIds' \subseteq opIds \cup {nextId},
             UNCHANGED <<workerVars, histVars>>
      PROVE  FreshIds'
  <2> SUFFICES ASSUME NEW j \in Id
               PROVE  IF j < nextId' THEN keyOf'[j] \in Key
                      ELSE /\ status'[j] = Absent /\ j \notin opIds' \cup stolen'
                           /\ \A w \in Worker : j \notin batch'[w]
    BY DEF FreshIds
  <2>1. CASE j = nextId
    BY <1>0, <1>1, <2>1 DEF InsertRow, DbType
  <2>2. CASE j # nextId
    <3>1. j < nextId' <=> j < nextId
      BY <1>0, <1>1, <2>2 DEF InsertRow
    <3> QED BY <1>1, <2>2, <3>1 DEF InsertRow, DbType, FreshIds, workerVars, histVars
  <2> QED BY <2>1, <2>2
\* A step that inserts nothing keeps the property if it touches known rows only.
<1>2. ASSUME UNCHANGED <<keyOf, nextId>>,
             \A j \in Id : j \notin Rows => status'[j] = status[j],
             opIds' \subseteq opIds \cup Rows,
             stolen' \subseteq stolen \cup {j \in Id : Held(j)},
             \A w \in Worker : batch'[w] \subseteq batch[w] \cup Rows
      PROVE  FreshIds'
  <2> SUFFICES ASSUME NEW j \in Id
               PROVE  IF j < nextId THEN keyOf[j] \in Key
                      ELSE /\ status'[j] = Absent /\ j \notin opIds' \cup stolen'
                           /\ \A w \in Worker : j \notin batch'[w]
    BY <1>2 DEF FreshIds
  <2>1. CASE j < nextId
    BY <2>1 DEF FreshIds
  <2>2. CASE ~(j < nextId)
    <3>1. j \notin Rows /\ ~Held(j)
      BY <1>0, <2>2 DEF FreshIds, Held
    <3> QED BY <1>2, <2>2, <3>1 DEF FreshIds
  <2> QED BY <2>1, <2>2
<1>3. ASSUME NEW S, NEW kept, TakeBack(S, kept) PROVE stolen' \subseteq stolen \cup {j \in Id : Held(j)}
  BY <1>0, <1>3 DEF TakeBack, Held
<1>4. CASE \E k \in Key : Enqueue(k) \/ SeedInsert(k)
  BY <1>1, <1>4 DEF Enqueue, SeedInsert, opVars
<1>5. ASSUME NEW j \in Id, BackoffElapsed(j) \/ ClaimExpires(j) PROVE FreshIds'
  BY <1>2, <1>5 DEF BackoffElapsed, ClaimExpires, opVars, histVars, workerVars
<1>6. ASSUME NEW w \in Worker, Claim(w) PROVE FreshIds'
  <2>1. Claimable \subseteq Rows /\ Recoverable \subseteq Rows
    BY DEF Claimable, Recoverable, ClaimableStatus, Rows, Absent
  <2>2. \A j \in Id : j \notin Rows => status'[j] = status[j]
    BY <1>6, <2>1 DEF Claim
  <2>3. \A v \in Worker : batch'[v] \subseteq batch[v] \cup Rows
    BY <1>6, <2>1 DEF Claim, WorkerType
  <2> QED BY <1>2, <1>3, <1>6, <2>2, <2>3 DEF Claim, opVars
<1>7. ASSUME NEW w \in Worker, Check(w) \/ Send(w) \/ LogDispatch(w) \/ Restart(w) PROVE FreshIds'
  BY <1>2, <1>7 DEF Check, Send, LogDispatch, Restart, dbVars, opVars, histVars
<1>8. ASSUME NEW w \in Worker, NextRow(w) \/ Die(w)
      PROVE  \A v \in Worker : batch'[v] \subseteq batch[v]
  BY <1>8 DEF NextRow, Die, WorkerType
<1>9. ASSUME NEW w \in Worker, MarkLoad(w) \/ Crash(w) PROVE FreshIds'
  <2>1. \A v \in Worker : batch'[v] \subseteq batch[v]
    BY <1>8, <1>9 DEF MarkLoad, Crash
  <2> QED BY <1>2, <1>9, <2>1 DEF MarkLoad, Crash, dbVars, opVars, histVars
<1>10. ASSUME NEW w \in Worker, MarkCommit(w) PROVE FreshIds'
  <2>1. \A v \in Worker : batch'[v] \subseteq batch[v]
    BY <1>8, <1>10 DEF MarkCommit
  <2>2. \A j \in Id : j \notin Rows => status'[j] = status[j]
    BY <1>10 DEF MarkCommit, Rows, DbType
  <2> QED BY <1>2, <1>10, <2>1, <2>2 DEF MarkCommit, opVars, histVars
<1>11. CASE RedriveSelect
  <2>1. opIds' \subseteq Rows
    BY <1>11 DEF RedriveSelect, RedriveSets, Rows, OutboxStatus, Absent
  <2> QED BY <1>2, <1>11, <2>1 DEF RedriveSelect, dbVars, workerVars, histVars
<1>12. CASE RedriveWrite
  <2>1. \A j \in Id : j \notin Rows => status'[j] = status[j]
    BY <1>12 DEF RedriveWrite
  <2>2. stolen' \subseteq stolen \cup {j \in Id : Held(j)}
    BY <1>3, <1>12 DEF RedriveWrite, histVars
  <2> QED BY <1>2, <1>12, <2>1, <2>2 DEF RedriveWrite, OpEnd, workerVars
<1>13. CASE DeleteRows \/ ClearLog
  <2>1. ASSUME NEW S \in SUBSET Rows, RemoveRows(S), UNCHANGED <<workerVars, opVars>>
        PROVE  FreshIds'
    <3>1. stolen' \subseteq stolen \cup {j \in Id : Held(j)}
      BY <2>1 DEF RemoveRows, Rows
    <3> QED BY <1>2, <2>1, <3>1 DEF RemoveRows, workerVars, opVars
  <2> QED BY <1>13, <2>1 DEF DeleteRows, ClearOutbox, ClearLog
<1>14. CASE SeedMark
  BY <1>2, <1>3, <1>14 DEF SeedMark, OpEnd, workerVars
<1>15. CASE MarkOpenDead
  BY <1>2, <1>3, <1>15 DEF MarkOpenDead, OpEnd, workerVars
<1>16. CASE UNCHANGED vars \/ ClearOutbox
  BY <1>16, <1>2 DEF vars, ClearOutbox, dbVars, opVars, histVars, workerVars
<1> QED
  BY <1>4, <1>5, <1>6, <1>7, <1>9, <1>10, <1>11, <1>12, <1>13, <1>14, <1>15, <1>16
  DEF Next, Operator, WorkerStep

\* Types, fresh ids and rows in hand, which every later argument rests on.
Basic == TypeOK /\ FreshIds /\ RowInHand

LEMMA NextBasic == Basic /\ [Next]_vars => Basic'
BY NextOpType, NextClearType, NextWorkerType, NextDbType, NextHistType, NextFreshIds DEF Basic, TypeOK

-----------------------------------------------------------------------------
(* Ownership of rows *)

\* A step inserts one row or adds none, and keys of existing rows never change.
LEMMA RowsFrame ==
  ASSUME Basic, [Next]_vars
  PROVE  \/ \E k \in Key : Enqueue(k) \/ SeedInsert(k)
         \/ Rows' \subseteq Rows /\ keyOf' = keyOf
<1> USE DEF Basic, TypeOK, DbType, Rows
<1>1. ASSUME NEW w \in Worker, Claim(w) PROVE Rows' \subseteq Rows /\ keyOf' = keyOf
  BY <1>1 DEF Claim, Claimable, Recoverable, ClaimableStatus, Absent
<1>2. ASSUME NEW w \in Worker, MarkCommit(w) PROVE Rows' \subseteq Rows /\ keyOf' = keyOf
  BY <1>2 DEF MarkCommit
<1>3. CASE RedriveWrite
  BY <1>3 DEF RedriveWrite
<1>4. CASE DeleteRows \/ ClearLog
  BY <1>4 DEF DeleteRows, ClearOutbox, ClearLog, RemoveRows
<1>5. CASE SeedMark \/ MarkOpenDead
  BY <1>5 DEF SeedMark, MarkOpenDead
<1>6. CASE UNCHANGED <<status, keyOf>>
  BY <1>6
<1> QED
  BY <1>1, <1>2, <1>3, <1>4, <1>5, <1>6
  DEF Next, Operator, WorkerStep, vars, dbVars, BackoffElapsed, ClaimExpires, Check, Send,
      LogDispatch, MarkLoad, Crash, Restart, RedriveSelect, ClearOutbox

LEMMA NextUniqueKeys == Basic /\ UniqueKeys /\ [Next]_vars => UniqueKeys'
<1> SUFFICES ASSUME Basic, UniqueKeys, [Next]_vars PROVE UniqueKeys'
  OBVIOUS
<1>1. ASSUME NEW k \in Key, InsertRow(k) PROVE UniqueKeys'
  BY <1>1 DEF InsertRow, Present, UniqueKeys, Rows, Basic, TypeOK, DbType
<1>2. CASE Rows' \subseteq Rows /\ keyOf' = keyOf
  BY <1>2 DEF UniqueKeys
<1> QED BY <1>1, <1>2, RowsFrame DEF Enqueue, SeedInsert

LEMMA NextOwned == Basic /\ Owned /\ [Next]_vars => Owned'
<1> SUFFICES ASSUME Basic, Owned, [Next]_vars PROVE Owned'
  OBVIOUS
<1> USE DEF Basic, TypeOK
\* Rows are let go of, or change status only when that is recorded as theft.
<1>1. ASSUME \A v \in Worker : batch'[v] \subseteq batch[v],
             stolen \subseteq stolen',
             \A v \in Worker : \A i \in batch'[v] : i \in stolen' \/ status'[i] = status[i]
      PROVE  Owned'
  BY <1>1 DEF Owned
<1>2. \A v \in Worker : \A i \in batch[v] : i \in Id /\ i # nextId /\ Held(i)
  BY HeldRows, IdFacts DEF Held, DbType
<1>3. ASSUME NEW S, NEW kept, TakeBack(S, kept), UNCHANGED batch,
             \A i \in Id : i \notin S => status'[i] = status[i]
      PROVE  Owned'
  <2>1. \A v \in Worker : \A i \in batch'[v] : i \in stolen' \/ status'[i] = status[i]
    <3> SUFFICES ASSUME NEW v \in Worker, NEW i \in batch[v], i \in S, i \notin stolen
                 PROVE  i \in stolen'
      BY <1>2, <1>3 DEF TakeBack
    <3> QED BY <1>2, <1>3 DEF TakeBack, Owned
  <2> QED BY <1>1, <1>3, <2>1 DEF TakeBack
<1>4. CASE \E k \in Key : Enqueue(k) \/ SeedInsert(k)
  BY <1>1, <1>2, <1>4 DEF Enqueue, SeedInsert, InsertRow, DbType, workerVars, histVars
<1>5. ASSUME NEW w \in Worker, Claim(w) PROVE Owned'
  <2>1. batch[w] = {}
    BY <1>5 DEF Claim, RowInHand
  <2>2. PICK b \in SUBSET Claimable :
          /\ status' = [i \in Id |-> IF i \in b THEN "processing"
                                     ELSE IF i \in Recoverable THEN "pending" ELSE status[i]]
          /\ batch' = [batch EXCEPT ![w] = b]
    BY <1>5 DEF Claim
  <2>3. batch'[w] = b /\ \A v \in Worker \ {w} : batch'[v] = batch[v]
    BY <2>2 DEF WorkerType
  <2>4. b \subseteq Id
    BY DEF Claimable, Recoverable
  <2>5. \A v \in Worker : \A i \in batch[v] : i \in Recoverable \cup b => i \in stolen'
    <3> SUFFICES ASSUME NEW v \in Worker, NEW i \in batch[v], i \in Recoverable \cup b,
                        i \notin stolen
                 PROVE  i \in stolen'
      BY <1>5 DEF Claim, TakeBack
    <3>1. status[i] = "processing"
      BY DEF Owned
    <3>2. i \in Recoverable
      BY <3>1 DEF Claimable, ClaimableStatus, Recoverable
    <3> QED BY <1>2, <1>5, <3>1, <3>2 DEF Claim, TakeBack
  <2>6. stolen \subseteq stolen'
    BY <1>5 DEF Claim, TakeBack
  <2> SUFFICES ASSUME NEW v \in Worker, NEW i \in batch'[v], i \notin stolen'
               PROVE  /\ status'[i] = "processing"
                      /\ \A u \in Worker : i \in batch'[u] => u = v
    BY DEF Owned
  <2>7. CASE v = w
    BY <2>2, <2>3, <2>4, <2>5, <2>7
  <2>8. CASE v # w
    <3>1. i \in batch[v] /\ i \in Id /\ i \notin Recoverable \cup b /\ i \notin stolen
      BY <1>2, <2>3, <2>5, <2>6, <2>8
    <3> QED BY <2>2, <2>3, <3>1 DEF Owned
  <2> QED BY <2>7, <2>8
<1>6. ASSUME NEW w \in Worker, NextRow(w) \/ Die(w)
      PROVE  \A v \in Worker : batch'[v] \subseteq batch[v]
  BY <1>6 DEF NextRow, Die, WorkerType
<1>7. ASSUME NEW w \in Worker, MarkLoad(w) \/ Crash(w) PROVE Owned'
  <2>1. \A v \in Worker : batch'[v] \subseteq batch[v]
    BY <1>6, <1>7 DEF MarkLoad, Crash
  <2> QED BY <1>1, <1>7, <2>1 DEF MarkLoad, Crash, dbVars, histVars
\* The marked row leaves the batch; if another worker has it, it is stolen.
<1>8. ASSUME NEW w \in Worker, MarkCommit(w) PROVE Owned'
  <2>1. \A v \in Worker : batch'[v] \subseteq batch[v]
    BY <1>6, <1>8 DEF MarkCommit
  <2>2. cur[w] \in batch[w]
    BY <1>8 DEF MarkCommit, RowInHand
  <2>3. stolen' = stolen
    BY <1>8 DEF MarkCommit, histVars
  <2>4. CASE status[cur[w]] = Absent
    BY <1>1, <1>8, <2>1, <2>3, <2>4 DEF MarkCommit
  <2>5. CASE status[cur[w]] # Absent
    <3>1. batch'[w] = batch[w] \ {cur[w]}
      BY <1>8, <2>5 DEF MarkCommit, NextRow, WorkerType
    <3>2. \A i \in Id : i # cur[w] => status'[i] = status[i]
      BY <1>8, <2>5 DEF MarkCommit, DbType
    <3>3. \A v \in Worker : \A i \in batch'[v] : i \in stolen' \/ status'[i] = status[i]
      BY <1>2, <2>1, <2>2, <2>3, <3>1, <3>2 DEF Owned
    <3> QED BY <1>1, <2>1, <2>3, <3>3
  <2> QED BY <2>4, <2>5
<1>9. CASE RedriveWrite
  <2>1. CASE opIds \subseteq Rows
    BY <1>3, <1>9, <2>1 DEF RedriveWrite, workerVars
  <2>2. CASE ~(opIds \subseteq Rows)
    BY <1>1, <1>9, <2>2 DEF RedriveWrite, workerVars, histVars
  <2> QED BY <2>1, <2>2
<1>10. CASE DeleteRows \/ ClearLog
  <2>1. ASSUME NEW S, RemoveRows(S), UNCHANGED batch PROVE Owned'
    BY <1>1, <1>2, <2>1 DEF RemoveRows
  <2> QED BY <1>10, <2>1 DEF DeleteRows, ClearLog, workerVars
<1>11. CASE SeedMark
  BY <1>3, <1>11 DEF SeedMark, workerVars
<1>12. CASE MarkOpenDead
  BY <1>3, <1>12 DEF MarkOpenDead, workerVars
<1>13. CASE UNCHANGED <<status, batch, stolen>>
  BY <1>1, <1>13
<1> QED
  BY <1>4, <1>5, <1>7, <1>8, <1>9, <1>10, <1>11, <1>12, <1>13
  DEF Next, Operator, WorkerStep, vars, dbVars, workerVars, histVars, BackoffElapsed,
      ClaimExpires, Check, Send, LogDispatch, Restart, RedriveSelect, ClearOutbox

\* Exclusive claims, as the property states them: by key, across rows.
LEMMA HoldersAgree == Basic /\ UniqueKeys /\ Owned => OneHolder
<1> SUFFICES ASSUME Basic, UniqueKeys, Owned, NEW v \in Worker, NEW w \in Worker,
                    NEW i \in batch[v], NEW j \in batch[w], keyOf[i] = keyOf[j],
                    i \notin stolen, j \notin stolen
             PROVE  v = w
  BY DEF OneHolder
<1>1. i \in Rows /\ j \in Rows
  BY HeldRows DEF Owned, Rows, Absent, Basic, TypeOK
<1>2. i = j
  BY <1>1 DEF UniqueKeys
<1> QED BY <1>2 DEF Owned

-----------------------------------------------------------------------------
(* A row marked sent was delivered and audited *)

Audited == audit \subseteq received /\ Confirmed /\ SentIsAudited

\* The only step that gives a row the status "sent" is the commit of a mark
\* whose dispatch, or whose idempotency check, succeeded.
LEMMA SentFrame ==
  ASSUME Basic, [Next]_vars, NEW i \in Id, status'[i] = "sent"
  PROVE  \/ status[i] = "sent"
         \/ \E w \in Worker : /\ MarkCommit(w) /\ outcome[w]
                              /\ i = cur[w] /\ status[i] # Absent
<1> USE DEF Basic, TypeOK, DbType, Absent
<1>1. ASSUME NEW w \in Worker, MarkCommit(w)
      PROVE  status[i] = "sent" \/ (outcome[w] /\ i = cur[w] /\ status[i] # Absent)
  BY <1>1 DEF MarkCommit, MarkedStatus, Flush
<1>2. CASE \E k \in Key : Enqueue(k) \/ SeedInsert(k)
  BY <1>2 DEF Enqueue, SeedInsert, InsertRow
<1>3. CASE \E w \in Worker : Claim(w)
  BY <1>3 DEF Claim
<1>4. CASE Operator
  BY <1>4 DEF Operator, RedriveSelect, RedriveWrite, DeleteRows, ClearOutbox, ClearLog, RemoveRows,
     SeedMark, MarkOpenDead, dbVars
<1>5. CASE UNCHANGED status
  BY <1>5
<1> QED
  BY <1>1, <1>2, <1>3, <1>4, <1>5
  DEF Next, WorkerStep, vars, dbVars, BackoffElapsed, ClaimExpires, Check, Send,
      LogDispatch, MarkLoad, Crash, Restart

\* The log only grows, except that a demo reset wipes it; the rows that the
\* reset leaves behind are then remembered as unlogged.
LEMMA AuditFrame ==
  ASSUME Basic, [Next]_vars
  PROVE  /\ received \subseteq received' /\ unlogged \subseteq unlogged'
         /\ \/ audit' = audit
            \/ \E w \in Worker : LogDispatch(w)
            \/ ClearLog /\ audit' = {} /\ \A i \in Rows' : keyOf[i] \in audit => i \in unlogged'
<1> USE DEF dbVars, chanVars, clearVars
<1>1. CASE ClearLog
  BY <1>1 DEF ClearLog, Unlogged, RemoveRows, Rows, Basic, TypeOK, DbType
<1> QED
  BY <1>1 DEF Next, Operator, WorkerStep, vars, Enqueue, SeedInsert, InsertRow, BackoffElapsed,
     ClaimExpires, Claim, Check, Send, LogDispatch, MarkLoad, MarkCommit, Crash, Restart,
     RedriveSelect, RedriveWrite, DeleteRows, ClearOutbox, SeedMark, MarkOpenDead

\* The part of Confirmed about one worker, so that steps of others are short.
ConfirmedBy(w) ==
    outcome[w] =>
        /\ pc[w] \in {"log", "load", "commit"} => keyOf[cur[w]] \in received
        /\ pc[w] \in {"load", "commit"} /\ status[cur[w]] # Absent
              => keyOf[cur[w]] \in audit \/ cur[w] \in unlogged

LEMMA NextAudited == Basic /\ Audited /\ [Next]_vars => Audited'
<1> SUFFICES ASSUME Basic, Audited, [Next]_vars PROVE Audited'
  OBVIOUS
<1>1. audit' \subseteq received'
  <2>1. ASSUME NEW w \in Worker, LogDispatch(w) PROVE audit' \subseteq received
    BY <2>1 DEF LogDispatch, Audited, Confirmed
  <2> QED BY <2>1, AuditFrame DEF Audited
<1>2. \A i \in Id : (i < nextId \/ status[i] # Absent) => keyOf'[i] = keyOf[i]
  <2>1. \A i \in Id : status[i] # Absent => i < nextId
    BY DEF Basic, FreshIds
  <2>2. nextId \in Nat
    BY OutboxAssumption DEF Basic, TypeOK, DbType
  <2>3. ASSUME NEW k \in Key, InsertRow(k)
        PROVE  \A i \in Id : i < nextId => keyOf'[i] = keyOf[i]
    BY <2>2, <2>3, IdFacts DEF InsertRow, Basic, TypeOK, DbType
  <2> QED BY <2>1, <2>3, RowsFrame DEF Enqueue, SeedInsert
\* A worker keeps its standing while it stays put: rows do not come back to
\* life, and a row that stays while the log loses its key is unlogged.
<1>3. ASSUME NEW w \in Worker, UNCHANGED <<pc[w], cur[w], outcome[w]>>
      PROVE  ConfirmedBy(w)'
  <2> SUFFICES ASSUME outcome[w], pc[w] \in {"log", "load", "commit"}
               PROVE  /\ keyOf'[cur[w]] \in received'
                      /\ pc[w] \in {"load", "commit"} /\ status'[cur[w]] # Absent
                           => keyOf'[cur[w]] \in audit' \/ cur[w] \in unlogged'
    BY <1>3 DEF ConfirmedBy
  <2>1. cur[w] \in Id /\ cur[w] < nextId
    BY HeldRows DEF Basic, TypeOK, RowInHand
  <2>2. keyOf'[cur[w]] = keyOf[cur[w]]
    BY <1>2, <2>1
  <2>3. keyOf'[cur[w]] \in received'
    BY <2>2, AuditFrame DEF Audited, Confirmed
  <2>4. status'[cur[w]] # Absent => status[cur[w]] # Absent
    <3>1. ASSUME NEW k \in Key, InsertRow(k) PROVE status'[cur[w]] = status[cur[w]]
      BY <2>1, <3>1, IdFacts DEF InsertRow, Basic, TypeOK, DbType
    <3> QED BY <2>1, <3>1, RowsFrame DEF Rows, Enqueue, SeedInsert
  <2>5. pc[w] \in {"load", "commit"} /\ status'[cur[w]] # Absent
          => keyOf'[cur[w]] \in audit' \/ cur[w] \in unlogged'
    <3>1. cur[w] \in Rows' /\ keyOf[cur[w]] \in audit
            => keyOf[cur[w]] \in audit' \/ cur[w] \in unlogged'
      BY AuditFrame DEF LogDispatch
    <3>2. unlogged \subseteq unlogged'
      BY AuditFrame
    <3> QED BY <2>1, <2>2, <2>4, <3>1, <3>2 DEF Audited, Confirmed, Rows
  <2> QED BY <2>3, <2>5
<1>4. Confirmed'
  <2> SUFFICES ASSUME NEW w \in Worker PROVE ConfirmedBy(w)'
    BY DEF Confirmed, ConfirmedBy
  <2>1. CASE UNCHANGED workerVars
    BY <1>3, <2>1 DEF workerVars
  <2>2. ASSUME NEW v \in Worker, WorkerStep(v) \/ Crash(v), v # w PROVE ConfirmedBy(w)'
    <3>1. UNCHANGED <<pc[w], cur[w], outcome[w]>>
      BY <2>2, OthersStay DEF Basic, TypeOK
    <3> QED BY <1>3, <3>1
  <2>3. CASE WorkerStep(w) \/ Crash(w)
    <3> USE DEF ConfirmedBy, Basic, TypeOK, WorkerType
    <3>1. CASE Claim(w) \/ Restart(w)
      BY <3>1 DEF Claim, Restart
    <3>2. CASE Check(w)
      BY <3>2 DEF Check, Succeeded, Audited, dbVars, chanVars
    <3>3. CASE Send(w)
      BY <3>3 DEF Send, dbVars
    <3>4. CASE LogDispatch(w)
      BY <3>4 DEF LogDispatch, Audited, Confirmed, chanVars
    <3>5. NextRow(w) \/ Die(w) => ConfirmedBy(w)'
      BY DEF NextRow, Die
    <3>6. CASE MarkLoad(w)
      BY <3>5, <3>6 DEF MarkLoad, Audited, Confirmed, dbVars, clearVars, chanVars
    <3>7. CASE MarkCommit(w) \/ Crash(w)
      BY <3>5, <3>7 DEF MarkCommit, Crash
    <3> QED BY <2>3, <3>1, <3>2, <3>3, <3>4, <3>6, <3>7 DEF WorkerStep
  <2> QED BY <2>1, <2>2, <2>3, WorkerFrame
<1>5. SentIsAudited'
  <2> SUFFICES ASSUME NEW i \in Id, status'[i] = "sent"
               PROVE  /\ keyOf'[i] \in received'
                      /\ keyOf'[i] \in audit' \/ i \in unlogged'
    BY DEF SentIsAudited
  <2>1. /\ i \in Rows' /\ status[i] # Absent /\ keyOf[i] \in received
        /\ keyOf[i] \in audit \/ i \in unlogged
    <3>1. CASE status[i] = "sent"
      BY <3>1 DEF Audited, SentIsAudited, Absent, Rows
    <3>2. ASSUME NEW w \in Worker, MarkCommit(w), outcome[w], i = cur[w], status[i] # Absent
          PROVE  keyOf[i] \in received /\ (keyOf[i] \in audit \/ i \in unlogged)
      BY <3>2 DEF MarkCommit, Audited, Confirmed
    <3> QED BY <3>1, <3>2, SentFrame DEF Rows, Absent
  <2>2. keyOf'[i] = keyOf[i]
    BY <1>2, <2>1
  <2>3. keyOf[i] \in audit' \/ i \in unlogged'
    BY <2>1, AuditFrame DEF LogDispatch
  <2> QED BY <2>1, <2>2, <2>3, AuditFrame
<1> QED BY <1>1, <1>4, <1>5 DEF Audited

-----------------------------------------------------------------------------
(* A second delivery has a cause *)

Delivery == Unsent /\ Accounted /\ DuplicatesExplained

\* Contested keys stay contested, and keys of rows in hand stay what they are.
LEMMA KeysStay ==
  ASSUME Basic, [Next]_vars
  PROVE  /\ Contested \subseteq Contested'
         /\ \A w \in Worker : \A i \in batch[w] : keyOf'[i] = keyOf[i]
<1> USE DEF Basic, TypeOK
<1>1. \A i \in stolen : i \in Id /\ i # nextId
  BY IdFacts DEF FreshIds, DbType, HistType
<1>2. \A w \in Worker : \A i \in batch[w] : i \in Id /\ i # nextId
  BY HeldRows, IdFacts DEF DbType
<1>3. stolen \subseteq stolen'
  BY DEF Next, Operator, WorkerStep, vars, histVars, Enqueue, SeedInsert, BackoffElapsed,
     ClaimExpires, Claim, Check, Send, LogDispatch, MarkLoad, MarkCommit, Crash, Restart,
     RedriveSelect, RedriveWrite, DeleteRows, ClearOutbox, ClearLog, RemoveRows, SeedMark, MarkOpenDead,
     TakeBack
<1>4. \A i \in Id : i # nextId => keyOf'[i] = keyOf[i]
  <2>1. ASSUME NEW k \in Key, InsertRow(k) PROVE \A i \in Id : i # nextId => keyOf'[i] = keyOf[i]
    BY <2>1 DEF InsertRow, DbType
  <2> QED BY <2>1, RowsFrame DEF Enqueue, SeedInsert
<1> QED BY <1>1, <1>2, <1>3, <1>4 DEF Contested

\* Two workers with one key in hand: that key is contested.
LEMMA SharedKeyContested ==
  ASSUME Basic, OneHolder, NEW v \in Worker, NEW w \in Worker, v # w,
         pc[v] \in {"send", "log", "load", "commit"},
         pc[w] \in {"send", "log", "load", "commit"},
         keyOf[cur[v]] = keyOf[cur[w]]
  PROVE  keyOf[cur[v]] \in Contested
<1>1. cur[v] \in batch[v] /\ cur[w] \in batch[w]
  BY DEF Basic, RowInHand
<1> QED BY <1>1 DEF OneHolder, Contested

\* Only a send reports to the channel, and only a crash, a send and a reset
\* add to what the log does not know.
LEMMA ChannelFrame ==
  ASSUME [Next]_vars
  PROVE  \/ UNCHANGED chanVars
         \/ \E w \in Worker : Send(w) \/ Crash(w)
         \/ ClearLog
BY DEF Next, Operator, WorkerStep, vars, Enqueue, SeedInsert, BackoffElapsed, ClaimExpires,
   Claim, Check, LogDispatch, MarkLoad, MarkCommit, Restart, RedriveSelect, RedriveWrite,
   DeleteRows, ClearOutbox, SeedMark, MarkOpenDead

LEMMA NextDelivery == Basic /\ OneHolder /\ Audited /\ Delivery /\ [Next]_vars => Delivery'
<1> SUFFICES ASSUME Basic, OneHolder, Audited, Delivery, [Next]_vars PROVE Delivery'
  OBVIOUS
<1>1. Unsent'
  <2> SUFFICES ASSUME NEW w \in Worker, pc'[w] = "send"
               PROVE  keyOf'[cur'[w]] \notin audit' \/ keyOf'[cur'[w]] \in Contested'
    BY DEF Unsent
  <2>1. CASE Check(w)
    <3>1. keyOf[cur'[w]] \notin audit
      BY <2>1 DEF Check, Succeeded, Basic, TypeOK, WorkerType
    <3> QED BY <2>1, <3>1 DEF Check, dbVars
  <2>2. CASE ~Check(w)
    <3>1. pc[w] = "send" /\ cur'[w] = cur[w]
      BY <2>2, WorkerFrame DEF WorkerStep, Claim, Check, Send, LogDispatch, MarkLoad,
         MarkCommit, Restart, Crash, NextRow, Die, Basic, TypeOK, WorkerType, workerVars
    <3>2. keyOf'[cur[w]] = keyOf[cur[w]]
      BY <3>1, KeysStay DEF Basic, RowInHand
    <3>3. ASSUME NEW v \in Worker, LogDispatch(v), keyOf[cur[w]] \in audit' \ audit
          PROVE  keyOf[cur[w]] \in Contested
      BY <3>1, <3>3, SharedKeyContested DEF LogDispatch
    <3> QED BY <3>1, <3>2, <3>3, KeysStay, AuditFrame DEF Delivery, Unsent
  <2> QED BY <2>1, <2>2
<1>2. Accounted'
  <2> SUFFICES ASSUME NEW k \in received'
               PROVE  \/ k \in audit' \cup unrecorded'
                      \/ \E w \in Worker : pc'[w] = "log" /\ outcome'[w] /\ keyOf'[cur'[w]] = k
    BY DEF Accounted
  <2>1. ASSUME NEW w \in Worker, Send(w), k \notin received
        PROVE  k \in unrecorded' \/ (pc'[w] = "log" /\ outcome'[w] /\ keyOf'[cur'[w]] = k)
    BY <2>1 DEF Send, dbVars, Basic, TypeOK, WorkerType
  <2>2. CASE k \in received
    <3>1. unrecorded \subseteq unrecorded'
      BY ChannelFrame DEF chanVars, Send, Crash, ClearOutbox, ClearLog
    <3>2. audit \subseteq audit' \cup unrecorded'
      BY AuditFrame DEF LogDispatch, ClearOutbox, ClearLog
    <3>3. CASE k \in audit \cup unrecorded
      BY <3>1, <3>2, <3>3
    <3>4. ASSUME NEW w \in Worker, pc[w] = "log", outcome[w], keyOf[cur[w]] = k
          PROVE  \/ k \in audit' \cup unrecorded'
                 \/ pc'[w] = "log" /\ outcome'[w] /\ keyOf'[cur'[w]] = k
      <4>1. CASE LogDispatch(w)
        BY <3>4, <4>1 DEF LogDispatch
      <4>2. CASE Crash(w)
        BY <3>4, <4>2 DEF Crash
      <4>3. CASE ~LogDispatch(w) /\ ~Crash(w)
        <5>1. UNCHANGED <<pc[w], cur[w], outcome[w]>>
          <6>1. ~WorkerStep(w)
            BY <3>4, <4>3 DEF WorkerStep, Claim, Check, Send, MarkLoad, MarkCommit, Restart
          <6> QED BY <4>3, <6>1, WorkerFrame, OthersStay DEF workerVars, Basic, TypeOK
        <5>2. keyOf'[cur[w]] = keyOf[cur[w]]
          BY <3>4, KeysStay DEF Basic, RowInHand
        <5> QED BY <3>4, <5>1, <5>2
      <4> QED BY <4>1, <4>2, <4>3
    <3> QED BY <2>2, <3>3, <3>4 DEF Delivery, Accounted
  <2>3. CASE k \notin received
    BY <2>1, <2>3, ChannelFrame DEF chanVars, Crash, ClearOutbox, ClearLog
  <2> QED BY <2>2, <2>3
<1>3. DuplicatesExplained'
  <2>1. ASSUME NEW w \in Worker, Send(w), NEW k \in doubled', k \notin doubled
        PROVE  k \in unrecorded' \cup Contested
    <3>1. k = keyOf[cur[w]] /\ (k \in unrecorded' \/ k \in received)
      BY <2>1 DEF Send
    <3>2. unrecorded \subseteq unrecorded'
      BY <2>1 DEF Send
    <3>3. CASE k \in audit
      BY <2>1, <3>1, <3>3 DEF Send, Delivery, Unsent
    <3>4. ASSUME NEW v \in Worker, pc[v] = "log", keyOf[cur[v]] = k PROVE k \in Contested
      BY <2>1, <3>1, <3>4, SharedKeyContested DEF Send
    <3> QED BY <3>1, <3>2, <3>3, <3>4 DEF Delivery, Accounted
  <2>2. (\A w \in Worker : ~Send(w)) => doubled' = doubled /\ unrecorded \subseteq unrecorded'
    BY ChannelFrame DEF chanVars, Crash, ClearOutbox, ClearLog
  <2>3. \A w \in Worker : Send(w) => unrecorded \subseteq unrecorded'
    BY DEF Send
  <2> QED BY <2>1, <2>2, <2>3, KeysStay DEF Delivery, DuplicatesExplained
<1> QED BY <1>1, <1>2, <1>3 DEF Delivery

-----------------------------------------------------------------------------
(* The budget of attempts *)

\* The numbers in a row's account are naturals, and a worker that may still
\* queue a row has it in its batch.
LEMMA RowAccount ==
  ASSUME Basic, NEW i \in Id
  PROVE  /\ attempts[i] \in Nat /\ returned[i] \in Nat /\ MaxAttempts \in Nat \ {0}
         /\ InWork(i) \in {0, 1} /\ Queued(i) \in {0, 1} /\ InWork(i) + Queued(i) <= 1
         /\ Retriers(i) \subseteq Holders(i)
<1>1. Retriers(i) \subseteq Holders(i)
  BY DEF Retriers, Holders, Basic, RowInHand
<1> QED
  BY <1>1, OutboxAssumption
  DEF Basic, TypeOK, DbType, HistType, InWork, Queued, ClaimableStatus

LEMMA RowAccountNext ==
  ASSUME Basic', NEW i \in Id
  PROVE  /\ attempts'[i] \in Nat /\ returned'[i] \in Nat
         /\ InWork(i)' \in {0, 1} /\ Queued(i)' \in {0, 1} /\ InWork(i)' + Queued(i)' <= 1
         /\ Retriers(i)' \subseteq Holders(i)'
<1>1. Retriers(i)' \subseteq Holders(i)'
  BY DEF Retriers, Holders, Basic, RowInHand
<1> QED
  BY <1>1 DEF Basic, TypeOK, DbType, HistType, InWork, Queued, ClaimableStatus

\* The account of one row, as HoldersCounted and AttemptsSpare state it.
Counted(i) == IsFiniteSet(Holders(i)) /\ Cardinality(Holders(i)) <= returned[i] + InWork(i)
Spare(i)   == attempts[i] + Cardinality(Retriers(i)) + Queued(i) <= MaxAttempts + returned[i]

\* Nobody gets the row: the account holds on if the row's columns change in
\* step, or if its attempts are so few that its returns pay for every retrier.
LEMMA NobodyGets ==
  ASSUME Basic, Basic', NEW i \in Id, Counted(i), Spare(i),
         Holders(i)' \subseteq Holders(i), Retriers(i)' \subseteq Retriers(i),
         returned[i] + InWork(i) <= returned'[i] + InWork(i)',
         \/ attempts'[i] + Queued(i)' + returned[i] <= attempts[i] + Queued(i) + returned'[i]
         \/ attempts'[i] + Queued(i)' <= MaxAttempts /\ InWork(i)' = 0
  PROVE  Counted(i)' /\ Spare(i)'
<1>1. IsFiniteSet(Holders(i)) /\ Cardinality(Holders(i)) \in Nat
  BY FS_CardinalityType DEF Counted
<1>2. IsFiniteSet(Holders(i)') /\ Cardinality(Holders(i)') <= Cardinality(Holders(i))
  BY <1>1, FS_Subset
<1>3. Cardinality(Holders(i)') \in Nat
  BY <1>2, FS_CardinalityType
<1>4. Retriers(i) \subseteq Holders(i) /\ Retriers(i)' \subseteq Holders(i)'
  BY RowAccount, RowAccountNext
<1>5. IsFiniteSet(Retriers(i)) /\ Cardinality(Retriers(i)) \in Nat
  BY <1>1, <1>4, FS_Subset, FS_CardinalityType
<1>6. /\ Cardinality(Retriers(i)') <= Cardinality(Retriers(i))
      /\ Cardinality(Retriers(i)') <= Cardinality(Holders(i)')
      /\ Cardinality(Retriers(i)') \in Nat
  BY <1>2, <1>4, <1>5, FS_Subset, FS_CardinalityType
<1>7. /\ attempts'[i] \in Nat /\ returned'[i] \in Nat /\ InWork(i)' \in {0, 1} /\ Queued(i)' \in {0, 1}
      /\ attempts[i] \in Nat /\ returned[i] \in Nat /\ InWork(i) \in {0, 1} /\ Queued(i) \in {0, 1}
      /\ MaxAttempts \in Nat
  BY RowAccount, RowAccountNext
<1>8. Cardinality(Holders(i))' = Cardinality(Holders(i)') /\ Cardinality(Retriers(i))' = Cardinality(Retriers(i)')
  OBVIOUS
<1>9. Counted(i)'
  BY <1>1, <1>2, <1>3, <1>7 DEF Counted
<1>10. Spare(i)'
  BY <1>3, <1>5, <1>6, <1>7, <1>9 DEF Counted, Spare
<1> QED BY <1>9, <1>10

\* One worker gets the row: it spends an attempt, and either the row was queued
\* or it was returned in the same step.
LEMMA OneGets ==
  ASSUME Basic, Basic', NEW i \in Id, Counted(i), Spare(i), NEW w,
         Holders(i)' \subseteq Holders(i) \cup {w}, Retriers(i)' \subseteq Retriers(i),
         returned[i] + InWork(i) + 1 <= returned'[i] + InWork(i)',
         attempts'[i] + Queued(i)' + returned[i] <= attempts[i] + Queued(i) + returned'[i]
  PROVE  Counted(i)' /\ Spare(i)'
<1>1. IsFiniteSet(Holders(i)) /\ Cardinality(Holders(i)) \in Nat
  BY FS_CardinalityType DEF Counted
<1>2. /\ IsFiniteSet(Holders(i) \cup {w}) /\ Cardinality(Holders(i) \cup {w}) \in Nat
      /\ Cardinality(Holders(i) \cup {w}) <= Cardinality(Holders(i)) + 1
  <2>1. /\ IsFiniteSet(Holders(i) \cup {w})
        /\ Cardinality(Holders(i) \cup {w}) \in {Cardinality(Holders(i)), Cardinality(Holders(i)) + 1}
    BY <1>1, FS_AddElement
  <2>2. Cardinality(Holders(i) \cup {w}) \in Nat
    BY <2>1, FS_CardinalityType
  <2> QED BY <1>1, <2>1, <2>2
<1>3. /\ IsFiniteSet(Holders(i)') /\ Cardinality(Holders(i)') \in Nat
      /\ Cardinality(Holders(i)') <= Cardinality(Holders(i) \cup {w})
  BY <1>2, FS_Subset, FS_CardinalityType
<1>4. IsFiniteSet(Retriers(i)) /\ Cardinality(Retriers(i)) \in Nat
  BY <1>1, RowAccount, FS_Subset, FS_CardinalityType
<1>5. Cardinality(Retriers(i)') <= Cardinality(Retriers(i)) /\ Cardinality(Retriers(i)') \in Nat
  BY <1>4, FS_Subset, FS_CardinalityType
<1>6. /\ attempts'[i] \in Nat /\ returned'[i] \in Nat /\ InWork(i)' \in {0, 1} /\ Queued(i)' \in {0, 1}
      /\ attempts[i] \in Nat /\ returned[i] \in Nat /\ InWork(i) \in {0, 1} /\ Queued(i) \in {0, 1}
      /\ MaxAttempts \in Nat
  BY RowAccount, RowAccountNext
<1>7. Counted(i)'
  BY <1>1, <1>2, <1>3, <1>6 DEF Counted
<1>8. Spare(i)'
  BY <1>4, <1>5, <1>6 DEF Spare
<1> QED BY <1>7, <1>8

\* What a worker holds and may still queue depends on its memory alone.
LEMMA MemoryStays ==
  ASSUME UNCHANGED workerVars, NEW i \in Id
  PROVE  Holders(i)' = Holders(i) /\ Retriers(i)' = Retriers(i)
BY DEF workerVars, Holders, Retriers

\* Letting go of a row, or of everything, makes nobody a holder or a retrier.
LEMMA LettingGo ==
  ASSUME WorkerType, NEW w \in Worker, NextRow(w) \/ Die(w), NEW i \in Id
  PROVE  Holders(i)' \subseteq Holders(i) /\ Retriers(i)' \subseteq Retriers(i) \ {w}
<1>1. /\ batch'[w] \subseteq batch[w] /\ pc'[w] # "commit"
      /\ \A v \in Worker \ {w} : UNCHANGED <<batch[v], pc[v], cur[v], seen[v]>>
  BY DEF NextRow, Die, WorkerType
<1> QED BY <1>1 DEF Holders, Retriers

\* The rows change in step with their returns when workers' memories do not.
LEMMA TakenBackAccount ==
  ASSUME Basic, Basic', NEW S \in SUBSET Rows, NEW kept, TakeBack(S, kept), UNCHANGED workerVars,
         NEW i \in Rows, Counted(i), Spare(i), NEW new \in {"pending", "dead"},
         status' = [j \in Id |-> IF j \in S THEN new ELSE status[j]],
         \/ attempts'[i] = attempts[i] /\ (new = "pending" /\ i \in S => i \in kept)
         \/ attempts'[i] = 0
         \/ attempts'[i] = MaxAttempts /\ i \in S /\ new = "dead"
  PROVE  Counted(i)' /\ Spare(i)'
<1>1. i \in Id
  BY DEF Rows
<1>2. /\ attempts[i] \in Nat /\ returned[i] \in Nat /\ MaxAttempts \in Nat \ {0}
      /\ InWork(i) \in {0, 1} /\ Queued(i) \in {0, 1}
  BY <1>1, RowAccount
<1>3. returned'[i] = IF (i \in S /\ status[i] = "processing") \/ i \in kept
                     THEN returned[i] + 1 ELSE returned[i]
  BY <1>1 DEF TakeBack
<1>4. status'[i] = IF i \in S THEN new ELSE status[i]
  BY <1>1
<1>5. Holders(i)' \subseteq Holders(i) /\ Retriers(i)' \subseteq Retriers(i)
  BY <1>1, MemoryStays
<1>6. returned[i] + InWork(i) <= returned'[i] + InWork(i)'
  BY <1>2, <1>3, <1>4 DEF InWork
<1>7. \/ attempts'[i] + Queued(i)' + returned[i] <= attempts[i] + Queued(i) + returned'[i]
      \/ attempts'[i] + Queued(i)' <= MaxAttempts /\ InWork(i)' = 0
  <2>1. CASE i \in S
    BY <1>2, <1>3, <1>4, <2>1 DEF InWork, Queued, ClaimableStatus
  <2>2. CASE i \notin S
    BY <1>2, <1>3, <1>4, <2>2 DEF Queued
  <2> QED BY <2>1, <2>2
<1> QED BY <1>1, <1>5, <1>6, <1>7, NobodyGets

\* A step that leaves a row's columns alone and gives it to nobody.
LEMMA RowLeftAlone ==
  ASSUME Basic, Basic', NEW i \in Rows, Counted(i), Spare(i),
         status'[i] = status[i], attempts'[i] = attempts[i], returned'[i] = returned[i],
         Holders(i)' \subseteq Holders(i), Retriers(i)' \subseteq Retriers(i)
  PROVE  Counted(i)' /\ Spare(i)'
<1>1. i \in Id
  BY DEF Rows
<1>2. InWork(i)' = InWork(i) /\ Queued(i)' = Queued(i)
  BY DEF InWork, Queued
<1>3. attempts[i] \in Nat /\ returned[i] \in Nat /\ InWork(i) \in {0, 1} /\ Queued(i) \in {0, 1}
  BY <1>1, RowAccount
<1> QED BY <1>1, <1>2, <1>3, NobodyGets

LEMMA ClaimAccount ==
  ASSUME Basic, Basic', NEW i \in Rows, Counted(i), Spare(i), NEW w \in Worker, Claim(w)
  PROVE  Counted(i)' /\ Spare(i)'
<1> USE DEF Basic, TypeOK
<1>1. i \in Id
  BY DEF Rows
<1>2. PICK b \in SUBSET Claimable :
        /\ status' = [j \in Id |-> IF j \in b THEN "processing"
                                   ELSE IF j \in Recoverable THEN "pending" ELSE status[j]]
        /\ attempts' = [j \in Id |-> IF j \in b THEN attempts[j] + 1 ELSE attempts[j]]
        /\ batch' = [batch EXCEPT ![w] = b]
  BY DEF Claim
<1>3. returned'[i] = IF i \in Recoverable THEN returned[i] + 1 ELSE returned[i]
  BY <1>1 DEF Claim, TakeBack, Recoverable
<1>4. pc[w] = "idle" /\ pc' = [pc EXCEPT ![w] = "work"] /\ UNCHANGED <<cur, seen>>
  BY DEF Claim
<1>5. Retriers(i)' \subseteq Retriers(i)
  BY <1>4 DEF Retriers, WorkerType
<1>6. batch'[w] = b /\ \A v \in Worker \ {w} : batch'[v] = batch[v]
  BY <1>2 DEF WorkerType
<1>7. /\ attempts[i] \in Nat /\ returned[i] \in Nat
      /\ InWork(i) \in {0, 1} /\ Queued(i) \in {0, 1}
  BY <1>1, RowAccount
<1>8. i \in Recoverable <=> status[i] = "processing" /\ stale[i]
  BY <1>1 DEF Recoverable
<1>9. CASE i \in b
  <2>1. Holders(i)' \subseteq Holders(i) \cup {w}
    BY <1>6 DEF Holders
  <2>2. status'[i] = "processing" /\ attempts'[i] = attempts[i] + 1
    BY <1>1, <1>2, <1>9
  <2>3. status[i] \in ClaimableStatus \/ i \in Recoverable
    BY <1>9 DEF Claimable
  <2>4. /\ returned[i] + InWork(i) + 1 <= returned'[i] + InWork(i)'
        /\ attempts'[i] + Queued(i)' + returned[i] <= attempts[i] + Queued(i) + returned'[i]
    BY <1>3, <1>7, <1>8, <2>2, <2>3 DEF InWork, Queued, ClaimableStatus
  <2> QED BY <1>1, <1>5, <2>1, <2>4, OneGets
<1>10. CASE i \notin b
  <2>1. Holders(i)' \subseteq Holders(i)
    BY <1>6, <1>10 DEF Holders
  <2>2. status'[i] = (IF i \in Recoverable THEN "pending" ELSE status[i]) /\ attempts'[i] = attempts[i]
    BY <1>1, <1>2, <1>10
  <2>3. /\ returned[i] + InWork(i) <= returned'[i] + InWork(i)'
        /\ attempts'[i] + Queued(i)' + returned[i] <= attempts[i] + Queued(i) + returned'[i]
    BY <1>3, <1>7, <1>8, <2>2 DEF InWork, Queued, ClaimableStatus
  <2> QED BY <1>1, <1>5, <2>1, <2>3, NobodyGets
<1> QED BY <1>9, <1>10

\* Loading a row whose attempts are not spent makes its worker a retrier; the
\* returns pay for every holder but the present one.
LEMMA LoadAccount ==
  ASSUME Basic, Basic', NEW i \in Rows, Counted(i), Spare(i), NEW w \in Worker, MarkLoad(w)
  PROVE  Counted(i)' /\ Spare(i)'
<1> USE DEF Basic, TypeOK
<1>1. i \in Id /\ UNCHANGED <<status, attempts, returned>>
  BY DEF Rows, MarkLoad, dbVars, histVars
<1>2. CASE status[cur[w]] = Absent
  BY <1>1, <1>2, LettingGo, RowLeftAlone DEF MarkLoad
<1>3. CASE status[cur[w]] # Absent
  <2>1. /\ pc' = [pc EXCEPT ![w] = "commit"] /\ UNCHANGED <<batch, cur>>
        /\ seen' = [seen EXCEPT ![w] = [status |-> status[cur[w]], attempts |-> attempts[cur[w]]]]
    BY <1>3 DEF MarkLoad
  <2>2. Holders(i)' = Holders(i)
    BY <2>1 DEF Holders
  <2>3. CASE i = cur[w] /\ attempts[i] < MaxAttempts
    <3>1. IsFiniteSet(Holders(i)) /\ Cardinality(Holders(i)) \in Nat
      BY FS_CardinalityType DEF Counted
    <3>2. Retriers(i)' \subseteq Holders(i)
      BY <1>1, <2>2, RowAccountNext
    <3>3. /\ Cardinality(Retriers(i)') \in Nat
          /\ Cardinality(Retriers(i)') <= Cardinality(Holders(i))
      BY <3>1, <3>2, FS_Subset, FS_CardinalityType
    <3>4. InWork(i)' = InWork(i) /\ Queued(i)' = Queued(i)
      BY <1>1 DEF InWork, Queued
    <3>5. /\ attempts[i] \in Nat /\ returned[i] \in Nat /\ MaxAttempts \in Nat
          /\ InWork(i) \in {0, 1} /\ Queued(i) \in {0, 1} /\ InWork(i) + Queued(i) <= 1
      BY <1>1, RowAccount
    <3>6. Spare(i)'
      BY <1>1, <2>3, <3>1, <3>3, <3>4, <3>5 DEF Spare, Counted
    <3> QED BY <1>1, <2>2, <3>4, <3>6 DEF Counted
  <2>4. CASE ~(i = cur[w] /\ attempts[i] < MaxAttempts)
    <3>1. seen'[w].attempts = attempts[cur[w]]
      BY <2>1 DEF WorkerType
    <3>2. \A v \in Worker \ {w} : pc'[v] = pc[v] /\ seen'[v] = seen[v]
      BY <2>1 DEF WorkerType
    <3>3. Retriers(i)' \subseteq Retriers(i)
      BY <2>1, <2>4, <3>1, <3>2 DEF Retriers
    <3> QED BY <1>1, <2>2, <3>3, RowLeftAlone
  <2> QED BY <2>3, <2>4
<1> QED BY <1>2, <1>3

\* A mark spends its worker's right to queue the row: "failed" is written only
\* by a retrier, which then is none any more and holds the row no longer.
LEMMA CommitAccount ==
  ASSUME Basic, Basic', NEW i \in Rows, i \in Rows', Counted(i), Spare(i),
         NEW w \in Worker, MarkCommit(w)
  PROVE  Counted(i)' /\ Spare(i)'
<1> USE DEF Basic, TypeOK
<1>1. i \in Id /\ UNCHANGED <<attempts, returned>> /\ pc[w] = "commit" /\ cur[w] \in batch[w]
  BY DEF Rows, MarkCommit, RowInHand, histVars
<1>2. Holders(i)' \subseteq Holders(i) /\ Retriers(i)' \subseteq Retriers(i) \ {w}
  BY <1>1, LettingGo DEF MarkCommit
<1>3. CASE status'[i] = status[i]
  BY <1>1, <1>2, <1>3, RowLeftAlone
<1>4. CASE status'[i] # status[i]
  <2>1. i = cur[w] /\ NextRow(w) /\ status'[i] = MarkedStatus(outcome[w], seen[w])
    <3>1. status[cur[w]] # Absent
      BY <1>4 DEF MarkCommit
    <3>2. /\ NextRow(w)
          /\ status' = [status EXCEPT ![cur[w]] = Flush(seen[w].status, status[cur[w]],
                                                        MarkedStatus(outcome[w], seen[w]))]
      BY <3>1 DEF MarkCommit
    <3>3. i = cur[w]
      BY <1>1, <1>4, <3>2 DEF DbType
    <3> QED BY <1>1, <1>4, <3>2, <3>3 DEF DbType, Flush
  <2>2. status'[i] \in {"sent", "dead", "failed"} /\ InWork(i)' = 0
    BY <2>1 DEF MarkedStatus, InWork
  <2>3. w \in Holders(i) /\ Holders(i)' \subseteq Holders(i) \ {w}
    BY <1>1, <1>2, <2>1 DEF Holders, NextRow, WorkerType
  <2>4. IsFiniteSet(Holders(i)) /\ Cardinality(Holders(i)) \in Nat
    BY FS_CardinalityType DEF Counted
  <2>5. /\ IsFiniteSet(Holders(i) \ {w})
        /\ Cardinality(Holders(i) \ {w}) = Cardinality(Holders(i)) - 1
    BY <2>3, <2>4, FS_RemoveElement
  <2>6. /\ IsFiniteSet(Holders(i)') /\ Cardinality(Holders(i)') \in Nat
        /\ Cardinality(Holders(i)') <= Cardinality(Holders(i)) - 1
    BY <2>3, <2>5, FS_Subset, FS_CardinalityType
  <2>7. /\ attempts[i] \in Nat /\ returned[i] \in Nat /\ MaxAttempts \in Nat
        /\ InWork(i) \in {0, 1} /\ Queued(i) \in {0, 1} /\ Queued(i)' \in {0, 1}
    BY <1>1, RowAccount, RowAccountNext
  <2>8. Counted(i)'
    BY <1>1, <2>2, <2>4, <2>6, <2>7 DEF Counted
  <2>9. IsFiniteSet(Retriers(i)) /\ Cardinality(Retriers(i)) \in Nat
    BY <1>1, <2>4, RowAccount, FS_Subset, FS_CardinalityType
  <2>10. CASE w \in Retriers(i)
    <3>1. /\ IsFiniteSet(Retriers(i) \ {w})
          /\ Cardinality(Retriers(i) \ {w}) = Cardinality(Retriers(i)) - 1
      BY <2>9, <2>10, FS_RemoveElement
    <3>2. /\ Cardinality(Retriers(i)') \in Nat
          /\ Cardinality(Retriers(i)') <= Cardinality(Retriers(i)) - 1
      BY <1>2, <3>1, FS_Subset, FS_CardinalityType
    <3>3. Spare(i)'
      BY <1>1, <2>7, <2>9, <3>2 DEF Spare
    <3> QED BY <2>8, <3>3
  <2>11. CASE w \notin Retriers(i)
    <3>1. seen[w].attempts >= MaxAttempts
      BY <1>1, <2>1, <2>7, <2>11 DEF Retriers, WorkerType, Seen
    <3>2. Queued(i)' = 0
      BY <2>1, <3>1 DEF MarkedStatus, Queued, ClaimableStatus
    <3>3. /\ Cardinality(Retriers(i)') \in Nat
          /\ Cardinality(Retriers(i)') <= Cardinality(Retriers(i))
      BY <1>2, <2>9, FS_Subset, FS_CardinalityType
    <3>4. Spare(i)'
      BY <1>1, <2>7, <2>9, <3>2, <3>3 DEF Spare
    <3> QED BY <2>8, <3>4
  <2> QED BY <2>10, <2>11
<1> QED BY <1>3, <1>4

\* A redrive pays with a return for every row it queues without resetting it.
LEMMA OperatorAccount ==
  ASSUME Basic, Basic', NEW i \in Rows, i \in Rows', Counted(i), Spare(i), Operator
  PROVE  Counted(i)' /\ Spare(i)'
<1> USE DEF Basic, TypeOK
<1>1. i \in Id
  BY DEF Rows
<1>2. CASE UNCHANGED <<workerVars, returned, attempts>> /\ status'[i] = status[i]
  BY <1>1, <1>2, MemoryStays, RowLeftAlone
<1>3. CASE RedriveSelect \/ ClearOutbox
  BY <1>2, <1>3 DEF RedriveSelect, ClearOutbox, dbVars, histVars
<1>4. CASE DeleteRows \/ ClearLog
  <2>1. ASSUME NEW S \in SUBSET Rows, RemoveRows(S) PROVE status'[i] = status[i]
    BY <1>1, <2>1 DEF RemoveRows, Rows
  <2> QED BY <1>2, <1>4, <2>1 DEF DeleteRows, ClearLog, RemoveRows
<1>5. CASE RedriveWrite
  <2>1. CASE opIds \subseteq Rows
    <3> DEFINE hit == {j \in opIds : opSeen[j].status # "pending"}
               kept == {j \in hit : attempts'[j] # 0}
    <3>1. /\ status' = [j \in Id |-> IF j \in hit THEN "pending" ELSE status[j]]
          /\ TakeBack(hit, kept)
          /\ attempts'[i] \in {attempts[i], 0}
          /\ UNCHANGED workerVars
      BY <1>1, <1>5, <2>1 DEF RedriveWrite, Flush
    <3>2. hit \in SUBSET Rows
      BY <2>1
    <3>3. \/ attempts'[i] = attempts[i] /\ (i \in hit => i \in kept)
          \/ attempts'[i] = 0
      BY <3>1
    <3> HIDE DEF hit, kept
    <3> QED BY <3>1, <3>2, <3>3, TakenBackAccount
  <2>2. CASE ~(opIds \subseteq Rows)
    BY <1>2, <1>5, <2>2 DEF RedriveWrite, histVars
  <2> QED BY <2>1, <2>2
<1>6. CASE SeedMark
  <2>1. /\ status' = [j \in Id |-> IF j \in opIds \cap Rows THEN "dead" ELSE status[j]]
        /\ TakeBack(opIds \cap Rows, {})
        /\ attempts'[i] = IF i \in opIds \cap Rows THEN MaxAttempts ELSE attempts[i]
        /\ UNCHANGED workerVars
    BY <1>1, <1>6 DEF SeedMark
  <2> QED BY <2>1, TakenBackAccount
<1>7. CASE MarkOpenDead
  <2> DEFINE open == {j \in Rows : status[j] \in OpenStatus}
  <2>1. /\ status' = [j \in Id |-> IF j \in open THEN "dead" ELSE status[j]]
        /\ TakeBack(open, {}) /\ UNCHANGED <<attempts, workerVars>>
    BY <1>7 DEF MarkOpenDead
  <2>2. open \in SUBSET Rows
    OBVIOUS
  <2> HIDE DEF open
  <2> QED BY <2>1, <2>2, TakenBackAccount
<1> QED BY <1>3, <1>4, <1>5, <1>6, <1>7 DEF Operator

\* A row that was just inserted has nobody's hands on it and nothing spent.
LEMMA NewRowAccount ==
  ASSUME Basic, Basic', FreshAttempts, NEW k \in Key, InsertRow(k), UNCHANGED <<workerVars, histVars>>,
         NEW i \in Id, i = nextId
  PROVE  Counted(i)' /\ Spare(i)'
<1> USE DEF Basic, TypeOK
<1>1. ~(i < nextId)
  BY IdFacts DEF DbType
<1>2. status'[i] = "pending" /\ attempts'[i] = 0 /\ returned'[i] = returned[i]
  BY <1>1 DEF InsertRow, DbType, FreshAttempts, histVars
<1>3. Holders(i) = {} /\ Holders(i)' = {} /\ Retriers(i)' = {}
  <2>1. Holders(i) = {}
    BY <1>1 DEF FreshIds, Holders
  <2> QED BY <1>1, <2>1, MemoryStays, RowAccount
<1>4. /\ returned[i] \in Nat /\ MaxAttempts \in Nat \ {0}
  BY <1>1, RowAccount
<1>5. Cardinality({}) = 0 /\ IsFiniteSet({})
  BY FS_EmptySet
<1>6. InWork(i)' = 0 /\ Queued(i)' = 1
  BY <1>2 DEF InWork, Queued, ClaimableStatus
<1>7. IsFiniteSet(Holders(i)') /\ Cardinality(Holders(i)') = 0 /\ Cardinality(Retriers(i)') = 0
  BY <1>3, <1>5
<1>8. IsFiniteSet(Holders(i)') /\ Cardinality(Holders(i)') <= returned'[i] + InWork(i)'
  BY <1>2, <1>4, <1>6, <1>7
<1>9. attempts'[i] + Cardinality(Retriers(i)') + Queued(i)' <= MaxAttempts + returned'[i]
  BY <1>2, <1>4, <1>6, <1>7
<1> QED BY <1>1, <1>8, <1>9 DEF Counted, Spare

\* The account of a row that stays is kept by every step.
LEMMA RowAccountKept ==
  ASSUME Basic, Basic', [Next]_vars, NEW i \in Rows, i \in Rows', Counted(i), Spare(i)
  PROVE  Counted(i)' /\ Spare(i)'
<1> USE DEF Basic, TypeOK
<1>1. i \in Id /\ i # nextId
  BY IdFacts, OutboxAssumption DEF Rows, FreshIds, DbType
<1>2. ASSUME NEW k \in Key, Enqueue(k) \/ SeedInsert(k) PROVE Counted(i)' /\ Spare(i)'
  <2>1. UNCHANGED <<workerVars, returned, attempts>> /\ status'[i] = status[i]
    BY <1>1, <1>2 DEF Enqueue, SeedInsert, InsertRow, DbType, histVars
  <2> QED BY <1>1, <2>1, MemoryStays, RowLeftAlone
<1>3. ASSUME NEW j \in Id, BackoffElapsed(j) \/ ClaimExpires(j) PROVE Counted(i)' /\ Spare(i)'
  <2>1. UNCHANGED <<workerVars, returned, attempts, status>>
    BY <1>3 DEF BackoffElapsed, ClaimExpires, histVars
  <2> QED BY <1>1, <2>1, MemoryStays, RowLeftAlone
<1>4. ASSUME NEW w \in Worker, Check(w) \/ Send(w) \/ LogDispatch(w) \/ Restart(w)
      PROVE  Counted(i)' /\ Spare(i)'
  <2>1. UNCHANGED <<batch, seen, status, attempts, returned>>
    BY <1>4 DEF Check, Send, LogDispatch, Restart, dbVars, histVars
  <2>2. /\ pc'[w] # "commit"
        /\ \A v \in Worker \ {w} : pc'[v] = pc[v] /\ cur'[v] = cur[v]
    BY <1>4 DEF Check, Send, LogDispatch, Restart, WorkerType
  <2>3. Holders(i)' \subseteq Holders(i) /\ Retriers(i)' \subseteq Retriers(i)
    BY <2>1, <2>2 DEF Holders, Retriers
  <2> QED BY <2>1, <2>3, RowLeftAlone
<1>5. ASSUME NEW w \in Worker, Crash(w) PROVE Counted(i)' /\ Spare(i)'
  <2>1. UNCHANGED <<status, attempts, returned>> /\ Die(w)
    BY <1>5 DEF Crash, dbVars, histVars
  <2> QED BY <1>1, <2>1, LettingGo, RowLeftAlone
<1>6. CASE UNCHANGED vars
  <2>1. UNCHANGED <<workerVars, returned, attempts, status>>
    BY <1>6 DEF vars, dbVars, histVars
  <2> QED BY <1>1, <2>1, MemoryStays, RowLeftAlone
<1> QED
  BY <1>2, <1>3, <1>4, <1>5, <1>6, ClaimAccount, LoadAccount, CommitAccount, OperatorAccount
  DEF Next, WorkerStep

\* Attempts are written on rows that exist, and returns are only ever added.
LEMMA AccountFrame ==
  ASSUME Basic, [Next]_vars, NEW i \in Id
  PROVE  /\ i \notin Rows \/ i \notin Rows' => attempts'[i] = attempts[i]
         /\ returned[i] <= returned'[i]
<1> USE DEF Basic, TypeOK, DbType, HistType
<1>1. ASSUME NEW S, NEW kept, TakeBack(S, kept) PROVE returned[i] <= returned'[i]
  BY <1>1 DEF TakeBack
<1>2. ASSUME NEW w \in Worker, Claim(w)
      PROVE  /\ i \notin Rows \/ i \notin Rows' => attempts'[i] = attempts[i]
             /\ returned[i] <= returned'[i]
  <2>1. PICK b \in SUBSET Claimable :
          /\ status' = [j \in Id |-> IF j \in b THEN "processing"
                                     ELSE IF j \in Recoverable THEN "pending" ELSE status[j]]
          /\ attempts' = [j \in Id |-> IF j \in b THEN attempts[j] + 1 ELSE attempts[j]]
    BY <1>2 DEF Claim
  <2>2. i \in b => i \in Rows /\ i \in Rows'
    BY <2>1 DEF Claimable, Recoverable, ClaimableStatus, Rows, Absent
  <2> QED BY <1>1, <1>2, <2>1, <2>2 DEF Claim
<1>3. CASE RedriveWrite
  <2>1. CASE opIds \subseteq Rows
    <3>1. Rows' = Rows /\ (i \notin Rows => attempts'[i] = attempts[i])
      BY <1>3, <2>1 DEF RedriveWrite, Rows, Absent
    <3> QED BY <1>1, <1>3, <2>1, <3>1 DEF RedriveWrite
  <2>2. CASE ~(opIds \subseteq Rows)
    BY <1>3, <2>2 DEF RedriveWrite, histVars
  <2> QED BY <2>1, <2>2
<1>4. CASE SeedMark
  <2>1. Rows' = Rows
    BY <1>4 DEF SeedMark, Rows, Absent
  <2> QED BY <1>1, <1>4, <2>1 DEF SeedMark
<1>5. CASE MarkOpenDead
  BY <1>1, <1>5 DEF MarkOpenDead
<1>6. CASE UNCHANGED <<attempts, returned>>
  BY <1>6
<1> QED
  BY <1>2, <1>3, <1>4, <1>5, <1>6
  DEF Next, Operator, WorkerStep, vars, dbVars, histVars, Enqueue, SeedInsert, InsertRow,
      BackoffElapsed, ClaimExpires, Check, Send, LogDispatch, MarkLoad, MarkCommit, Crash,
      Restart, RedriveSelect, DeleteRows, ClearOutbox, ClearLog, RemoveRows

LEMMA NextBudget == Basic /\ BudgetInv /\ [Next]_vars => BudgetInv'
<1> SUFFICES ASSUME Basic, BudgetInv, [Next]_vars PROVE BudgetInv'
  OBVIOUS
<1>0. Basic'
  BY NextBasic
<1>1. \A i \in Rows : i \in Id /\ Counted(i) /\ Spare(i)
  BY DEF BudgetInv, HoldersCounted, AttemptsSpare, Counted, Spare, Rows
<1>2. ASSUME NEW i \in Rows' PROVE Counted(i)' /\ Spare(i)'
  <2>1. CASE i \in Rows
    BY <1>0, <1>1, <1>2, <2>1, RowAccountKept
  <2>2. ASSUME i \notin Rows, NEW k \in Key, Enqueue(k) \/ SeedInsert(k)
        PROVE  Counted(i)' /\ Spare(i)'
    <3>1. i \in Id /\ i = nextId /\ InsertRow(k) /\ UNCHANGED <<workerVars, histVars>>
      BY <1>2, <2>2 DEF Enqueue, SeedInsert, InsertRow, Rows, Basic, TypeOK, DbType
    <3> QED BY <1>0, <3>1, NewRowAccount DEF BudgetInv
  <2> QED BY <1>2, <2>1, <2>2, RowsFrame
<1>3. HoldersCounted' /\ AttemptsSpare'
  BY <1>2 DEF HoldersCounted, AttemptsSpare, Counted, Spare
<1>4. FreshAttempts'
  <2> SUFFICES ASSUME NEW i \in Id, ~(i < nextId') PROVE attempts'[i] = 0
    BY DEF FreshAttempts
  <2>1. i \notin Rows'
    BY <1>0 DEF Basic, FreshIds, Rows
  <2>2. ~(i < nextId)
    <3>1. nextId' = nextId \/ nextId' = nextId + 1
      BY DEF Next, Operator, WorkerStep, vars, dbVars, Enqueue, SeedInsert, InsertRow,
         BackoffElapsed, ClaimExpires, Claim, Check, Send, LogDispatch, MarkLoad, MarkCommit,
         Crash, Restart, RedriveSelect, RedriveWrite, DeleteRows, ClearOutbox, ClearLog, RemoveRows,
         SeedMark, MarkOpenDead
    <3> QED BY <3>1, IdFacts, OutboxAssumption DEF Basic, TypeOK, DbType
  <2> QED BY <2>1, <2>2, AccountFrame DEF BudgetInv, FreshAttempts
<1>5. AttemptBudget'
  <2> SUFFICES ASSUME NEW i \in Id PROVE attempts'[i] <= MaxAttempts + returned'[i]
    BY DEF AttemptBudget
  <2>1. /\ attempts[i] \in Nat /\ returned[i] \in Nat /\ MaxAttempts \in Nat
        /\ attempts'[i] \in Nat /\ returned'[i] \in Nat /\ Queued(i)' \in {0, 1}
    BY <1>0, RowAccount, RowAccountNext
  <2>2. CASE i \in Rows'
    <3>1. IsFiniteSet(Holders(i)') /\ Retriers(i)' \subseteq Holders(i)'
      BY <1>0, <1>2, <2>2, RowAccountNext DEF Counted
    <3>2. Cardinality(Retriers(i)') \in Nat
      BY <3>1, FS_Subset, FS_CardinalityType
    <3> QED BY <1>2, <2>1, <2>2, <3>2 DEF Spare
  <2>3. CASE i \notin Rows'
    BY <2>1, <2>3, AccountFrame DEF BudgetInv, AttemptBudget
  <2> QED BY <2>2, <2>3
<1> QED BY <1>3, <1>4, <1>5 DEF BudgetInv

-----------------------------------------------------------------------------
(* The invariant and what follows from it *)

LEMMA InitIInv == Init => IInv
<1> SUFFICES ASSUME Init PROVE IInv
  OBVIOUS
<1> USE DEF Init
<1>1. TypeOK
  <2>1. DbType
    BY StatusFacts, OutboxAssumption DEF DbType, Absent
  <2>2. WorkerType
    BY StatusFacts DEF WorkerType, WorkerPc
  <2>3. OpType
    BY StatusFacts DEF OpType
  <2>4. HistType
    BY OutboxAssumption DEF HistType
  <2>5. ClearType
    BY DEF ClearType
  <2> QED BY <2>1, <2>2, <2>3, <2>4, <2>5 DEF TypeOK
<1>2. FreshIds
  BY IdFacts DEF FreshIds, Id
<1>3. UniqueKeys /\ SentIsAudited /\ DuplicatesExplained
  BY DEF UniqueKeys, Rows, SentIsAudited, Absent, DuplicatesExplained
<1>4. RowInHand /\ Owned /\ Confirmed /\ Unsent /\ Accounted
  BY DEF RowInHand, Owned, Confirmed, Unsent, Accounted
<1> QED BY <1>1, <1>2, <1>3, <1>4 DEF IInv

LEMMA NextIInv == IInv /\ [Next]_vars => IInv'
<1> SUFFICES ASSUME IInv, [Next]_vars PROVE IInv'
  OBVIOUS
<1>1. Basic /\ Audited /\ Delivery
  BY DEF IInv, Basic, Audited, Delivery
<1>2. Basic' /\ UniqueKeys' /\ Owned'
  BY <1>1, NextBasic, NextUniqueKeys, NextOwned DEF IInv
<1>3. Audited' /\ Delivery'
  BY <1>1, NextAudited, NextDelivery, HoldersAgree DEF IInv
<1> QED BY <1>2, <1>3 DEF IInv, Basic, Audited, Delivery

\* The inductive invariant of the outbox holds for any number of workers, rows
\* and keys, any batch size and any number of crashes and operator requests.
THEOREM OutboxInvariant == Spec => []IInv
<1> QED BY InitIInv, NextIInv, PTL DEF Spec

\* Every variable of the outbox keeps its type.
THEOREM OutboxTypes == Spec => []TypeOK
<1>1. IInv => TypeOK
  BY DEF IInv
<1> QED BY <1>1, OutboxInvariant, PTL

\* "sent" means delivered and audited (process_batch, mark_outbox_sent).
THEOREM SentMeansAudited == Spec => []SentIsAudited
<1>1. IInv => SentIsAudited
  BY DEF IInv
<1> QED BY <1>1, OutboxInvariant, PTL

\* claim_outbox_batch hands a notification to one live worker at a time unless
\* it is taken back from one.
THEOREM ExclusiveClaims == Spec => []OneHolder
<1>1. IInv => OneHolder
  BY HoldersAgree DEF IInv, Basic
<1> QED BY <1>1, OutboxInvariant, PTL

\* No second delivery without a lost record or a stolen row: the idempotency
\* check and the audit log make delivery exactly-once otherwise.
THEOREM DeliveriesExplained == Spec => []DuplicatesExplained
<1>1. IInv => DuplicatesExplained
  BY DEF IInv
<1> QED BY <1>1, OutboxInvariant, PTL

\* Nobody gets more attempts out of a row than the maximum and its returns:
\* claims, late marks, recoveries, redrives and seeded rows, in any order.
THEOREM AttemptsAreBudgeted == Spec => []AttemptBudget
<1>1. Init => BudgetInv
  BY OutboxAssumption
  DEF Init, BudgetInv, HoldersCounted, AttemptsSpare, FreshAttempts, AttemptBudget, Rows, Absent
<1>2. IInv => Basic
  BY DEF IInv, Basic
<1>3. BudgetInv => AttemptBudget
  BY DEF BudgetInv
<1> QED BY <1>1, <1>2, <1>3, NextBudget, OutboxInvariant, PTL DEF Spec

\* A sent row is reopened only by an operator or by the late result of a
\* worker it was stolen from.
THEOREM SentRowsSettle == Spec => SentSettles
<1> DEFINE Step == \A i \in Id : status[i] = "sent" /\ status'[i] # "sent"
                      => i \in stolen \/ status'[i] = Absent \/ i \in opIds
<1>1. IInv /\ [Next]_vars => [Step]_vars
  <2> SUFFICES ASSUME IInv, [Next]_vars, NEW i \in Id, status[i] = "sent", status'[i] # "sent",
                      i \notin opIds, status'[i] # Absent
               PROVE  i \in stolen
    OBVIOUS
  <2> USE DEF IInv, TypeOK, DbType
  <2>1. CASE \E k \in Key : Enqueue(k) \/ SeedInsert(k)
    BY <2>1 DEF Enqueue, SeedInsert, InsertRow, FreshIds, Absent
  <2>2. CASE \E w \in Worker : Claim(w)
    BY <2>2 DEF Claim, Claimable, ClaimableStatus, Recoverable
  <2>3. ASSUME NEW w \in Worker, MarkCommit(w) PROVE i \in stolen
    <3>1. i = cur[w] /\ cur[w] \in batch[w]
      BY <2>3 DEF MarkCommit, RowInHand
    <3> QED BY <3>1 DEF Owned
  <2>4. CASE Operator
    BY <2>4 DEF Operator, RedriveSelect, RedriveWrite, DeleteRows, ClearOutbox, ClearLog, RemoveRows,
       SeedMark, MarkOpenDead, OpenStatus, dbVars
  <2>5. CASE UNCHANGED status
    BY <2>5
  <2> QED
    BY <2>1, <2>2, <2>3, <2>4, <2>5
    DEF Next, WorkerStep, vars, dbVars, BackoffElapsed, ClaimExpires, Check, Send,
        LogDispatch, MarkLoad, Crash, Restart
<1> QED BY <1>1, OutboxInvariant, PTL DEF Spec, SentSettles

-----------------------------------------------------------------------------
(* The promise: Outbox implements Notifications, for every number of workers, *)
(* keys, rows, crashes and operator requests.  Every step of the outbox is a  *)
(* step of the promise, or none.                                              *)

\* The variables of the promise, as the outbox sees them.
Tickets == [i \in Id |-> Phase(i)]
promised == <<Tickets, keyOf, received, stolen, opKind>>

LEMMA PhaseTable ==
  ASSUME NEW used, NEW s \in RowStatus
  PROVE  /\ PhaseOf(s, used) = "unused" <=> s = Absent /\ ~used
         /\ PhaseOf(s, used) = "gone" <=> s = Absent /\ used
         /\ PhaseOf(s, used) = "open" <=> s \in OpenStatus
         /\ PhaseOf(s, used) = "sent" <=> s = "sent"
         /\ PhaseOf(s, used) = "dead" <=> s = "dead"
         /\ PhaseOf(s, used) \in Promised!Live <=> s # Absent
<1>1. CASE s = Absent
  BY <1>1 DEF PhaseOf, OpenStatus, Absent, Promised!Live
<1>2. CASE s \in OpenStatus
  BY <1>2 DEF PhaseOf, OpenStatus, Absent, Promised!Live
<1>3. CASE s \in {"sent", "dead"}
  BY <1>3 DEF PhaseOf, OpenStatus, Absent, Promised!Live
<1> QED BY <1>1, <1>2, <1>3 DEF RowStatus, OutboxStatus, OpenStatus

\* The table, for the rows of a state.
LEMMA PhaseNow ==
  ASSUME DbType, NEW i \in Id
  PROVE  /\ Phase(i) = "unused" <=> status[i] = Absent /\ ~(i < nextId)
         /\ Phase(i) = "open" <=> status[i] \in OpenStatus
         /\ Phase(i) \in Promised!Live <=> status[i] # Absent
BY PhaseTable DEF Phase, DbType

\* A step in which the rows of S take a status of phase p, and no other row
\* changes its phase, moves the tickets of S.
LEMMA Moved ==
  ASSUME NEW S, NEW p,
         \A i \in Id : Phase(i)' = IF i \in S THEN p ELSE Phase(i)
  PROVE  Promised!MoveTo(S, p)
BY DEF Promised!MoveTo

\* Without an insert a row's phase follows from its status alone.
LEMMA PhaseKept ==
  ASSUME UNCHANGED nextId, NEW i \in Id,
         status'[i] = status[i] \/ {status[i], status'[i]} \subseteq OpenStatus
  PROVE  Phase(i)' = Phase(i)
BY DEF Phase, PhaseOf, OpenStatus, Absent

\* Only a row in somebody's hands, and so an open ticket, is ever stolen.
LEMMA HeldIsOpen ==
  ASSUME DbType, Owned, NEW i \in Id, Held(i), i \notin stolen
  PROVE  i \in Promised!Open
<1>1. status[i] \in OpenStatus
  BY DEF Held, Owned, OpenStatus
<1> QED BY <1>1, PhaseNow DEF Promised!Open

LEMMA Disputes ==
  ASSUME DbType, Owned, NEW S \in SUBSET Id, stolen' = stolen \cup {i \in S : Held(i)}
  PROVE  Promised!MayDispute
BY HeldIsOpen DEF Promised!MayDispute

LEMMA TakenBack ==
  ASSUME DbType, Owned, NEW S \in SUBSET Id, NEW kept, TakeBack(S, kept)
  PROVE  Promised!MayDispute
<1> DEFINE lost == {i \in S : status[i] = "processing"}
<1>1. stolen' = stolen \cup {i \in lost : Held(i)}
  BY DEF TakeBack
<1> QED BY <1>1, Disputes

LEMMA LiveRows == ASSUME DbType PROVE Promised!LiveOnes = Rows
BY PhaseNow DEF Promised!LiveOnes, Rows

-----------------------------------------------------------------------------
(* One lemma for each way the rows change. *)

LEMMA InsertIssues ==
  ASSUME Basic, NEW k \in Key, InsertRow(k), UNCHANGED <<chanVars, histVars>>
  PROVE  nextId \in Id /\ Promised!Issue(nextId, k)
<1> USE DEF Basic, TypeOK
<1>1. nextId \in Id /\ nextId \in Nat
  BY IdFacts, OutboxAssumption DEF InsertRow, DbType
<1>2. status[nextId] = Absent /\ Phase(nextId) = "unused"
  BY <1>1, PhaseNow DEF FreshIds
<1>3. \A j \in Rows : keyOf[j] # k
  BY DEF InsertRow, Present
<1>4. \A i \in Id : Phase(i)' = IF i \in {nextId} THEN "open" ELSE Phase(i)
  <2> SUFFICES ASSUME NEW i \in Id
               PROVE  Phase(i)' = IF i = nextId THEN "open" ELSE Phase(i)
    OBVIOUS
  <2>1. CASE i = nextId
    BY <1>1, <2>1 DEF InsertRow, DbType, Phase, PhaseOf, OpenStatus, Absent
  <2>2. CASE i # nextId
    <3>1. i < nextId' <=> i < nextId
      BY <1>1, <2>2, IdFacts DEF InsertRow
    <3>2. status'[i] = status[i]
      BY <2>2 DEF InsertRow, DbType
    <3> QED BY <2>2, <3>1, <3>2 DEF Phase, PhaseOf
  <2> QED BY <2>1, <2>2
<1>5. Promised!MoveTo({nextId}, "open")
  BY <1>4, Moved
<1> QED
  BY <1>1, <1>2, <1>3, <1>5, LiveRows DEF Promised!Issue, InsertRow, chanVars, histVars

LEMMA ClaimRecovers ==
  ASSUME Basic, Owned, NEW w \in Worker, Claim(w)
  PROVE  Promised!Recover
<1> USE DEF Basic, TypeOK
<1>1. Promised!MayDispute
  BY TakenBack DEF Claim, Recoverable
<1>2. ASSUME NEW i \in Id PROVE Phase(i)' = Phase(i)
  <2>1. status'[i] = status[i] \/ {status[i], status'[i]} \subseteq OpenStatus
    BY DEF Claim, Claimable, Recoverable, ClaimableStatus, OpenStatus
  <2> QED BY <2>1, PhaseKept DEF Claim
<1> QED BY <1>1, <1>2 DEF Promised!Recover, Claim, chanVars, opVars

LEMMA SendDelivers ==
  ASSUME Basic, NEW w \in Worker, Send(w)
  PROVE  promised' = promised \/ \E i \in Id : Promised!Deliver(i)
<1> USE DEF Basic, TypeOK
<1>1. cur[w] \in Id /\ cur[w] < nextId
  BY HeldRows DEF Send, RowInHand
<1>2. Tickets' = Tickets
  BY DEF Send, dbVars, Tickets, Phase
<1>3. received' = received \/ received' = received \cup {keyOf[cur[w]]}
  BY DEF Send
<1>4. Phase(cur[w]) # "unused"
  BY <1>1, PhaseNow
<1> QED
  BY <1>1, <1>2, <1>3, <1>4
  DEF Promised!Deliver, promised, Tickets, Send, dbVars, opVars, histVars

LEMMA MarkReports ==
  ASSUME IInv, NEW w \in Worker, MarkCommit(w)
  PROVE  promised' = promised \/ \E i \in Id, p \in Promised!Live : Promised!Report(i, p)
<1> USE DEF IInv, TypeOK
<1> DEFINE new == MarkedStatus(outcome[w], seen[w])
<1>0. cur[w] \in Id
  BY HeldRows DEF MarkCommit, RowInHand
<1> PICK i \in Id : i = cur[w]
  BY <1>0
<1>1. i \in batch[w] /\ i \in Id
  BY DEF MarkCommit, RowInHand
<1>2. UNCHANGED <<keyOf, received, stolen, opKind, nextId>>
  BY DEF MarkCommit, chanVars, histVars, opVars
<1>3. CASE status[i] = Absent
  BY <1>2, <1>3 DEF MarkCommit, promised, Tickets, Phase
<1>4. CASE status[i] # Absent
  <2>1. status'[i] \in {status[i], new} /\ \A j \in Id : j # i => status'[j] = status[j]
    BY <1>1, <1>4 DEF MarkCommit, Flush, DbType
  <2>2. new \in {"sent", "dead", "failed"} /\ (new = "sent" => outcome[w])
    BY DEF MarkedStatus
  <2>3. status'[i] \in RowStatus /\ status'[i] # Absent /\ (status'[i] = "sent" => keyOf[i] \in received)
    <3>1. outcome[w] => keyOf[i] \in received
      BY DEF MarkCommit, Confirmed
    <3> QED
      BY <1>1, <1>4, <2>1, <2>2, <3>1, StatusFacts DEF DbType, Absent, SentIsAudited
  <2>4. Phase(i) = "open" \/ (i \in stolen /\ Phase(i) \in Promised!Live)
    BY <1>1, <1>4, PhaseNow DEF Owned, OpenStatus
  <2>5. Phase(i)' = PhaseOf(status'[i], i < nextId)
    BY <1>2 DEF Phase
  <2>6. Phase(i)' \in Promised!Live /\ (Phase(i)' = "sent" => keyOf[i] \in received)
    BY <2>3, <2>5, PhaseTable
  <2>7. \A j \in Id : Phase(j)' = IF j \in {i} THEN Phase(i)' ELSE Phase(j)
    <3>1. \A j \in Id : j # i => Phase(j)' = Phase(j)
      BY <1>2, <2>1 DEF Phase
    <3> QED BY <3>1
  <2>8. Promised!MoveTo({i}, Phase(i)')
    BY <2>7 DEF Promised!MoveTo
  <2> QED BY <1>1, <1>2, <2>4, <2>6, <2>8 DEF Promised!Report
<1> QED BY <1>3, <1>4

LEMMA RedriveReopens ==
  ASSUME Basic, Owned, RedriveWrite
  PROVE  \E S \in SUBSET Id : Promised!Redrive(S)
<1> USE DEF Basic, TypeOK
<1>1. opKind = "redrive" /\ opKind' = "none" /\ UNCHANGED <<keyOf, received, nextId>>
  BY DEF RedriveWrite, OpEnd, chanVars
<1>2. CASE opIds \subseteq Rows
  <2> DEFINE S == {i \in opIds : opSeen[i].status # "pending"}
  <2>1. S \in SUBSET Id /\ S \subseteq Rows
    BY <1>2 DEF OpType
  <2>2. status' = [i \in Id |-> IF i \in S THEN "pending" ELSE status[i]]
         /\ TakeBack(S, {i \in S : attempts'[i] # 0})
    BY <1>2 DEF RedriveWrite
  <2>3. Promised!MayDispute
    BY <2>1, <2>2, TakenBack
  <2>4. \A i \in Id : Phase(i)' = IF i \in S THEN "open" ELSE Phase(i)
    BY <1>1, <2>2 DEF Phase, PhaseOf, OpenStatus, Absent
  <2> QED BY <1>1, <2>1, <2>3, <2>4, Moved, LiveRows DEF Promised!Redrive
<1>3. CASE ~(opIds \subseteq Rows)
  <2>1. UNCHANGED <<status, stolen>>
    BY <1>3 DEF RedriveWrite, histVars
  <2>2. \A i \in Id : Phase(i)' = Phase(i)
    BY <1>1, <2>1 DEF Phase
  <2>3. Promised!MoveTo({}, "open")
    BY <2>2, Moved
  <2> QED BY <1>1, <2>1, <2>3 DEF Promised!Redrive, Promised!MayDispute
<1> QED BY <1>2, <1>3

LEMMA OperatorsBury ==
  ASSUME Basic, Owned, SeedMark \/ MarkOpenDead
  PROVE  \E S \in SUBSET Id : Promised!Bury(S)
<1> USE DEF Basic, TypeOK
<1>1. ASSUME NEW S \in SUBSET Rows, NEW kept, TakeBack(S, kept), UNCHANGED <<keyOf, received, nextId>>,
             status' = [i \in Id |-> IF i \in S THEN "dead" ELSE status[i]],
             \/ opKind = "seed" /\ opKind' \in {"none", "markopen"}
             \/ opKind = "markopen" /\ opKind' = "none"
      PROVE  Promised!Bury(S)
  <2>1. S \subseteq Id
    BY DEF Rows
  <2>2. Promised!MayDispute
    BY <1>1, <2>1, TakenBack
  <2>3. \A i \in Id : Phase(i)' = IF i \in S THEN "dead" ELSE Phase(i)
    BY <1>1 DEF Phase, PhaseOf, OpenStatus, Absent
  <2> QED BY <1>1, <2>2, <2>3, Moved, LiveRows DEF Promised!Bury
<1>2. CASE SeedMark
  BY <1>1, <1>2 DEF SeedMark, OpEnd, chanVars, Rows
<1>3. CASE MarkOpenDead
  BY <1>1, <1>3 DEF MarkOpenDead, OpEnd, chanVars, Rows
<1> QED BY <1>2, <1>3

LEMMA DeletesRemove ==
  ASSUME Basic, Owned, DeleteRows \/ ClearLog
  PROVE  \E S \in SUBSET Id : Promised!Remove(S)
<1> USE DEF Basic, TypeOK
<1>1. ASSUME NEW S \in SUBSET Rows, RemoveRows(S), UNCHANGED <<received, opKind>>
      PROVE  Promised!Remove(S)
  <2>1. S \subseteq Id /\ \A i \in S : i < nextId
    BY DEF Rows, FreshIds
  <2>2. Promised!MayDispute
    BY <1>1, <2>1, Disputes DEF RemoveRows
  <2>3. \A i \in Id : Phase(i)' = IF i \in S THEN "gone" ELSE Phase(i)
    <3> SUFFICES ASSUME NEW i \in Id
                 PROVE  Phase(i)' = IF i \in S THEN "gone" ELSE Phase(i)
      OBVIOUS
    <3>1. nextId' = nextId /\ status'[i] = IF i \in S THEN Absent ELSE status[i]
      BY <1>1 DEF RemoveRows
    <3>2. CASE i \in S
      BY <2>1, <3>1, <3>2 DEF Phase, PhaseOf, OpenStatus, Absent
    <3>3. CASE i \notin S
      BY <3>1, <3>3 DEF Phase
    <3> QED BY <3>2, <3>3
  <2>4. Promised!MoveTo(S, "gone")
    BY <2>3, Moved
  <2>5. keyOf' = keyOf
    BY <1>1 DEF RemoveRows
  <2> QED BY <1>1, <2>2, <2>4, <2>5, LiveRows DEF Promised!Remove
<1>2. CASE DeleteRows
  <2>1. PICK S \in SUBSET Rows : RemoveRows(S)
    BY <1>2 DEF DeleteRows
  <2>2. UNCHANGED <<received, opKind>> /\ S \in SUBSET Id
    BY <1>2 DEF DeleteRows, chanVars, opVars, Rows
  <2> QED BY <1>1, <2>1, <2>2
<1>3. CASE ClearLog
  <2> DEFINE S == clearIds \cap Rows
  <2>1. RemoveRows(S) /\ UNCHANGED <<received, opKind>> /\ S \in SUBSET Rows /\ S \in SUBSET Id
    BY <1>3 DEF ClearLog, opVars, Rows
  <2> QED BY <1>1, <2>1
<1> QED BY <1>2, <1>3

-----------------------------------------------------------------------------
LEMMA InitPromised == Init => Promised!Init
<1> SUFFICES ASSUME Init PROVE Promised!Init
  OBVIOUS
<1>1. ASSUME NEW i \in Id PROVE Phase(i) = "unused"
  <2>1. status[i] = Absent /\ ~(i < nextId)
    BY IdFacts DEF Init, Id
  <2> QED BY <2>1 DEF Phase, PhaseOf, OpenStatus, Absent
<1> QED BY <1>1 DEF Init, Promised!Init

\* A step of the outbox is a step of the promise or leaves the tickets alone.
LEMMA NextPromised == IInv /\ [Next]_vars => [Promised!Next]_(Promised!vars)
<1> SUFFICES ASSUME IInv, [Next]_vars
             PROVE  Promised!Next \/ promised' = promised
  BY DEF promised, Tickets, Promised!vars
<1>0. Basic /\ Owned /\ DbType
  BY DEF IInv, Basic, TypeOK
<1>1. ASSUME NEW k \in Key, Enqueue(k) PROVE Promised!Next
  <2>1. nextId \in Id /\ Promised!Issue(nextId, k)
    BY <1>0, <1>1, InsertIssues DEF Enqueue
  <2> QED BY <1>1, <2>1 DEF Enqueue, opVars, Promised!Next, Promised!Want
<1>2. ASSUME NEW k \in Key, SeedInsert(k) PROVE Promised!Next
  <2>1. nextId \in Id /\ Promised!Issue(nextId, k)
    BY <1>0, <1>2, InsertIssues DEF SeedInsert
  <2> QED BY <1>2, <2>1 DEF SeedInsert, Promised!Next, Promised!Seed
<1>3. ASSUME NEW w \in Worker, Claim(w) \/ Send(w) \/ MarkCommit(w)
      PROVE  Promised!Next \/ promised' = promised
  BY <1>0, <1>3, ClaimRecovers, SendDelivers, MarkReports DEF Promised!Next
<1>4. CASE RedriveSelect
  <2>1. Tickets' = Tickets
    BY <1>4 DEF RedriveSelect, dbVars, Tickets, Phase
  <2>2. Promised!Ask
    BY <1>4, <2>1 DEF RedriveSelect, dbVars, chanVars, histVars, Tickets, Promised!Ask
  <2> QED BY <2>2 DEF Promised!Next
<1>5. CASE RedriveWrite \/ SeedMark \/ MarkOpenDead \/ DeleteRows \/ ClearLog
  BY <1>0, <1>5, RedriveReopens, OperatorsBury, DeletesRemove DEF Promised!Next
<1>6. CASE UNCHANGED <<status, nextId, keyOf, received, stolen, opKind>>
  BY <1>6 DEF promised, Tickets, Phase
<1> QED
  BY <1>1, <1>2, <1>3, <1>4, <1>5, <1>6
  DEF Next, Operator, WorkerStep, vars, dbVars, opVars, chanVars, histVars, BackoffElapsed,
      ClaimExpires, Check, LogDispatch, MarkLoad, Crash, Restart, ClearOutbox

\* The outbox keeps its promise (KeepsPromise): rows, claims, crashes, stale
\* recoveries and operator requests implement tickets that are issued once,
\* settled only after delivery and changed afterwards by operators, unless a
\* row was taken from a live worker.
THEOREM OutboxKeepsPromise == Spec => KeepsPromise
<1> QED BY InitPromised, NextPromised, OutboxInvariant, PTL DEF Spec, KeepsPromise, Promised!Spec
=============================================================================
