------------------------------- MODULE Outbox -------------------------------
(***************************************************************************)
(* The dispatch outbox: rows that the emit path inserts, the dispatch      *)
(* workers that claim and drain them (outbox_worker.process_batch), the    *)
(* dispatch log they audit successes in, and the operator requests of the  *)
(* UI (redrive, clear, demo reset, demo seed-dead) that write the same     *)
(* rows.  Every repository call is one database transaction and so one     *)
(* step, except where the code loads rows and writes them back at commit   *)
(* without a lock (mark_outbox_*, redrive_outbox), or deletes in several   *)
(* statements that each see what is committed then (clear_all): two steps. *)
(*                                                                         *)
(* Clock values are abstracted to what the queries compare:                *)
(*   due[i]     next_attempt_at <= now                                     *)
(*   stale[i]   updated_at < now - stale_processing_seconds                *)
(***************************************************************************)
EXTENDS Naturals, FiniteSets

CONSTANTS
    Worker,       \* dispatch worker processes
    Key,          \* idempotency keys  alert_id:channel:occurrence_count
    NoKey,        \* key of a row id not handed out yet
    Malformed,    \* keys whose payload_json the worker cannot validate
    Unroutable,   \* keys whose channel the worker has no dispatcher for
    MaxAttempts,  \* dispatch_outbox_max_attempts
    BatchSize,    \* dispatch_outbox_batch_size
    MaxRows,      \* bound: outbox rows ever inserted
    MaxCrashes,   \* bound: worker crashes
    MaxSlow,      \* bound: claims that outlive stale_processing_seconds
    MaxOps        \* bound: operator requests

ASSUME OutboxAssumption ==
    /\ NoKey \notin Key
    /\ Malformed \subseteq Key /\ Unroutable \subseteq Key
    /\ MaxAttempts \in Nat \ {0} /\ BatchSize \in Nat \ {0}
    /\ MaxRows \in Nat /\ MaxCrashes \in Nat /\ MaxSlow \in Nat /\ MaxOps \in Nat

VARIABLES
    \* dispatch_outbox and dispatch_log, shared by every process
    status, keyOf, attempts, due, stale, nextId, audit,
    \* per worker: place in process_batch, rows still to do, the row in hand,
    \* what its dispatch reported, what the mark transaction loaded
    pc, batch, cur, outcome, seen,
    \* the operator request between its SELECT and its COMMIT
    opKind, opIds, opSeen,
    \* clear_all under way, the rows its first DELETE saw, and history: rows it
    \* did not see although its second DELETE wiped their entry in the log
    clearing, clearIds, unlogged,
    \* what the channels accepted, and history the properties refer to
    received, doubled, unrecorded, stolen, returned,
    \* budgets
    crashes, slow, ops

dbVars     == <<status, keyOf, attempts, due, stale, nextId, audit>>
workerVars == <<pc, batch, cur, outcome, seen>>
opVars     == <<opKind, opIds, opSeen>>
clearVars  == <<clearing, clearIds, unlogged>>
chanVars   == <<received, doubled, unrecorded>>
histVars   == <<stolen, returned>>
budgets    == <<crashes, slow, ops>>
vars       == <<dbVars, workerVars, opVars, clearVars, chanVars, histVars, budgets>>

-----------------------------------------------------------------------------
Id          == 1..MaxRows
OutboxStatus == {"pending", "processing", "sent", "failed", "dead"}
OpenStatus      == {"pending", "processing", "failed"}
\* Mutant (a wrong version of the definition that follows it, which the
\* checks must be able to tell from it): claim whatever is open.
ClaimOpenStatus == {"pending", "failed", "processing"}
ClaimableStatus == {"pending", "failed"}
RedriveStatus   == {"dead", "failed"}
Absent      == "absent"                        \* no row has this id (any more)
RowStatus   == OutboxStatus \cup {Absent}
NoRow       == 0
Seen        == [status : RowStatus, attempts : Nat]
NoSeen      == [status |-> Absent, attempts |-> 0]

Rows        == {i \in Id : status[i] # Absent}
Present(k)  == \E i \in Rows : keyOf[i] = k
Held(i)     == \E w \in Worker : i \in batch[w]

\* A session writes only the columns whose value differs from what it loaded.
Flush(loaded, current, new) == IF loaded = new THEN current ELSE new

\* Rows of S in status "processing" are taken back from whoever works on them;
\* the rows in kept are queued again with the attempts they have spent.
TakeBack(S, kept) ==
    LET lost == {i \in S : status[i] = "processing"} IN
    /\ stolen' = stolen \cup {i \in lost : Held(i)}
    /\ returned' = [i \in Id |-> IF i \in lost \cup kept THEN returned[i] + 1 ELSE returned[i]]

-----------------------------------------------------------------------------
Init ==
    /\ status = [i \in Id |-> Absent]
    /\ keyOf = [i \in Id |-> NoKey]
    /\ attempts = [i \in Id |-> 0]
    /\ due = [i \in Id |-> FALSE]
    /\ stale = [i \in Id |-> FALSE]
    /\ nextId = 1
    /\ audit = {}
    /\ pc = [w \in Worker |-> "idle"]
    /\ batch = [w \in Worker |-> {}]
    /\ cur = [w \in Worker |-> NoRow]
    /\ outcome = [w \in Worker |-> FALSE]
    /\ seen = [w \in Worker |-> NoSeen]
    /\ opKind = "none" /\ opIds = {} /\ opSeen = [i \in Id |-> NoSeen]
    /\ clearing = FALSE /\ clearIds = {} /\ unlogged = {}
    /\ received = {} /\ doubled = {} /\ unrecorded = {}
    /\ stolen = {} /\ returned = [i \in Id |-> 0]
    /\ crashes = 0 /\ slow = 0 /\ ops = 0

\* The insert of one row; the unique index on the key makes a second one a no-op.
InsertRow(k) ==
    /\ nextId <= MaxRows
    /\ ~Present(k)
    /\ status' = [status EXCEPT ![nextId] = "pending"]
    /\ keyOf' = [keyOf EXCEPT ![nextId] = k]
    /\ due' = [due EXCEPT ![nextId] = TRUE]
    /\ nextId' = nextId + 1
    /\ UNCHANGED <<attempts, stale, audit>>

\* The emit path commits an outbox row together with its incident.
Enqueue(k) ==
    /\ InsertRow(k)
    /\ UNCHANGED <<workerVars, opVars, clearVars, chanVars, histVars, budgets>>

-----------------------------------------------------------------------------
(* Time. *)

\* next_attempt_at of a row arrives.
BackoffElapsed(i) ==
    /\ status[i] \in ClaimableStatus /\ ~due[i]
    /\ due' = [due EXCEPT ![i] = TRUE]
    /\ UNCHANGED <<status, keyOf, attempts, stale, nextId, audit,
                   workerVars, opVars, clearVars, chanVars, histVars, budgets>>

\* stale_processing_seconds pass since a row was claimed.  A worker that is
\* alive may be that slow: a batch is sent serially and never heart-beats.
ClaimExpires(i) ==
    /\ status[i] = "processing" /\ ~stale[i]
    /\ IF Held(i) THEN slow < MaxSlow /\ slow' = slow + 1 ELSE UNCHANGED slow
    /\ stale' = [stale EXCEPT ![i] = TRUE]
    /\ UNCHANGED <<status, keyOf, attempts, due, nextId, audit,
                   workerVars, opVars, clearVars, chanVars, histVars, crashes, ops>>

-----------------------------------------------------------------------------
(* process_batch *)

\* Mutant: no stale recovery.
RecoverNothing == {}
Recoverable == {i \in Id : status[i] = "processing" /\ stale[i]}
Claimable   == {i \in Id : status[i] \in ClaimableStatus /\ due[i]} \cup Recoverable

\* claim_outbox_batch: stale rows return to pending, then up to BatchSize due
\* rows become this worker's.  Which ones is open: SKIP LOCKED passes over
\* rows another transaction holds at that moment.
Claim(w) ==
    /\ pc[w] = "idle"
    /\ \E b \in SUBSET Claimable :
          /\ b # {} /\ Cardinality(b) <= BatchSize
          /\ status' = [i \in Id |-> IF i \in b THEN "processing"
                                     ELSE IF i \in Recoverable THEN "pending"
                                     ELSE status[i]]
          /\ attempts' = [i \in Id |-> IF i \in b THEN attempts[i] + 1 ELSE attempts[i]]
          /\ batch' = [batch EXCEPT ![w] = b]
    /\ due' = [i \in Id |-> due[i] \/ i \in Recoverable]
    /\ stale' = [i \in Id |-> stale[i] /\ i \notin Recoverable]
    /\ pc' = [pc EXCEPT ![w] = "work"]
    /\ TakeBack(Recoverable, {})
    /\ UNCHANGED <<keyOf, nextId, audit, cur, outcome, seen, opVars, clearVars, chanVars, budgets>>

\* dispatch_idempotency_succeeded.  Mutant: the check is left out.
NeverSucceeded(k) == FALSE
Succeeded(k) == k \in audit

\* Take a row of the batch: an unreadable payload fails it, a key that the
\* audit log already shows delivered is marked sent without sending.
Check(w) ==
    /\ pc[w] = "work"
    /\ \E i \in batch[w] :
          LET k == keyOf[i] IN
          /\ cur' = [cur EXCEPT ![w] = i]
          /\ outcome' = [outcome EXCEPT ![w] = k \notin Malformed /\ Succeeded(k)]
          /\ pc' = [pc EXCEPT ![w] = IF k \in Malformed \/ Succeeded(k)
                                  THEN "load" ELSE "send"]
    /\ UNCHANGED <<dbVars, batch, seen, opVars, clearVars, chanVars, histVars, budgets>>

\* dispatch_one up to the HTTP result.  The dispatcher posts up to three
\* times; a post may be accepted although the caller sees an error, so the
\* channel may accept the notification none, one or several times.
Send(w) ==
    LET k == keyOf[cur[w]] IN
    /\ pc[w] = "send"
    /\ \E accepted \in 0..2, ok \in BOOLEAN :
          /\ ok => accepted > 0
          /\ accepted > 0 => k \notin Unroutable
          /\ outcome' = [outcome EXCEPT ![w] = ok]
          /\ received' = IF accepted > 0 THEN received \cup {k} ELSE received
          /\ doubled' = IF accepted = 2 \/ (accepted = 1 /\ k \in received)
                        THEN doubled \cup {k} ELSE doubled
          /\ unrecorded' = IF accepted = 2 \/ (accepted = 1 /\ ~ok)
                           THEN unrecorded \cup {k} ELSE unrecorded
    /\ pc' = [pc EXCEPT ![w] = "log"]
    /\ UNCHANGED <<dbVars, batch, cur, seen, opVars, clearVars, histVars, budgets>>

\* log_dispatch, in a transaction of its own.
LogDispatch(w) ==
    /\ pc[w] = "log"
    /\ audit' = IF outcome[w] THEN audit \cup {keyOf[cur[w]]} ELSE audit
    /\ pc' = [pc EXCEPT ![w] = "load"]
    /\ UNCHANGED <<status, keyOf, attempts, due, stale, nextId,
                   batch, cur, outcome, seen, opVars, clearVars, chanVars, histVars, budgets>>

\* The row in hand is done with; the next one, or the next poll.
NextRow(w) ==
    LET rest == batch[w] \ {cur[w]} IN
    /\ batch' = [batch EXCEPT ![w] = rest]
    /\ pc' = [pc EXCEPT ![w] = IF rest = {} THEN "idle" ELSE "work"]
    /\ cur' = [cur EXCEPT ![w] = NoRow]
    /\ outcome' = [outcome EXCEPT ![w] = FALSE]
    /\ seen' = [seen EXCEPT ![w] = NoSeen]

\* The process is gone with everything it had in memory.
Die(w) ==
    /\ batch' = [batch EXCEPT ![w] = {}]
    /\ pc' = [pc EXCEPT ![w] = "down"]
    /\ cur' = [cur EXCEPT ![w] = NoRow]
    /\ outcome' = [outcome EXCEPT ![w] = FALSE]
    /\ seen' = [seen EXCEPT ![w] = NoSeen]

\* mark_outbox_sent / mark_outbox_result load the row by primary key ...
MarkLoad(w) ==
    LET i == cur[w] IN
    /\ pc[w] = "load"
    /\ IF status[i] = Absent
       THEN NextRow(w)
       ELSE /\ seen' = [seen EXCEPT ![w] = [status |-> status[i], attempts |-> attempts[i]]]
            /\ pc' = [pc EXCEPT ![w] = "commit"]
            /\ UNCHANGED <<batch, cur, outcome>>
    /\ UNCHANGED <<dbVars, opVars, clearVars, chanVars, histVars, budgets>>

\* The status a mark writes, decided on what it loaded.  Mutants: one attempt
\* too many; rows out of attempts closed as sent; the enum's name, not its value.
MarkedOffByOne(ok, loaded) ==
    IF ok THEN "sent" ELSE IF loaded.attempts > MaxAttempts THEN "dead" ELSE "failed"
MarkedClosed(ok, loaded) ==
    IF ok \/ loaded.attempts >= MaxAttempts THEN "sent" ELSE "failed"
MarkedStatus(ok, loaded) ==
    IF ok THEN "sent" ELSE IF loaded.attempts >= MaxAttempts THEN "dead" ELSE "failed"

\* ... and write it back unconditionally.  An update that matches no row
\* raises, and nothing in the worker catches it.
MarkCommit(w) ==
    LET i == cur[w]
        new == MarkedStatus(outcome[w], seen[w])
    IN
    /\ pc[w] = "commit"
    /\ IF status[i] = Absent
       THEN Die(w) /\ UNCHANGED <<status, due, stale>>
       ELSE /\ status' = [status EXCEPT ![i] = Flush(seen[w].status, status[i], new)]
            /\ due' = [due EXCEPT ![i] = due[i] /\ new # "failed"]
            /\ stale' = [stale EXCEPT ![i] = FALSE]
            /\ NextRow(w)
    /\ UNCHANGED <<keyOf, attempts, nextId, audit, opVars, clearVars, chanVars, histVars, budgets>>

\* kill -9, an exception of the database or the driver, a deploy.
Crash(w) ==
    /\ pc[w] # "down" /\ crashes < MaxCrashes
    /\ Die(w)
    /\ crashes' = crashes + 1
    /\ unrecorded' = IF pc[w] = "log" /\ outcome[w]
                     THEN unrecorded \cup {keyOf[cur[w]]} ELSE unrecorded
    /\ UNCHANGED <<dbVars, opVars, clearVars, received, doubled, histVars, slow, ops>>

\* docker compose restarts the worker (restart: unless-stopped).
Restart(w) ==
    /\ pc[w] = "down"
    /\ pc' = [pc EXCEPT ![w] = "idle"]
    /\ UNCHANGED <<dbVars, batch, cur, outcome, seen, opVars, clearVars, chanVars, histVars, budgets>>

-----------------------------------------------------------------------------
(* Operator requests *)

OpStart == ops < MaxOps /\ ops' = ops + 1 /\ UNCHANGED <<crashes, slow>>

\* The rows redrive_outbox may select: ids among the dead and failed ones, or
\* every row of one status.
RedriveSets == (SUBSET {i \in Rows : status[i] \in RedriveStatus})
                  \cup {{i \in Rows : status[i] = s} : s \in OutboxStatus}

RedriveSelect ==
    /\ opKind = "none" /\ OpStart
    /\ opKind' = "redrive"
    /\ opIds' \in RedriveSets \ {{}}
    /\ opSeen' = [i \in Id |-> IF i \in opIds'
                               THEN [status |-> status[i], attempts |-> attempts[i]]
                               ELSE NoSeen]
    /\ UNCHANGED <<dbVars, workerVars, clearVars, chanVars, histVars>>

OpEnd == opKind' = "none" /\ opIds' = {} /\ opSeen' = [i \in Id |-> NoSeen]

\* The commit of a redrive; it fails as a whole if a row has gone meanwhile.
RedriveWrite ==
    /\ opKind = "redrive"
    /\ IF opIds \subseteq Rows
       THEN LET hit == {i \in opIds : opSeen[i].status # "pending"} IN
            /\ status' = [i \in Id |-> IF i \in hit THEN "pending" ELSE status[i]]
            /\ attempts' = [i \in Id |-> IF i \in opIds
                                         THEN Flush(opSeen[i].attempts, attempts[i], 0)
                                         ELSE attempts[i]]
            /\ due' = [i \in Id |-> due[i] \/ i \in opIds]
            /\ stale' = [i \in Id |-> stale[i] /\ i \notin opIds]
            /\ TakeBack(hit, {i \in hit : attempts'[i] # 0})
       ELSE UNCHANGED <<status, attempts, due, stale, histVars>>
    /\ OpEnd
    /\ UNCHANGED <<keyOf, nextId, audit, workerVars, clearVars, chanVars, budgets>>

\* Rows disappear, from under a worker if one holds them.
RemoveRows(S) ==
    /\ status' = [i \in Id |-> IF i \in S THEN Absent ELSE status[i]]
    /\ due' = [i \in Id |-> due[i] /\ i \notin S]
    /\ stale' = [i \in Id |-> stale[i] /\ i \notin S]
    /\ stolen' = stolen \cup {i \in S : Held(i)}
    /\ UNCHANGED <<keyOf, attempts, nextId, returned>>

\* delete_outbox by ids (of any status) or by status.
DeleteRows ==
    /\ OpStart
    /\ \E S \in SUBSET Rows : S # {} /\ RemoveRows(S)
    /\ UNCHANGED <<audit, workerVars, opVars, clearVars, chanVars>>

\* clear_all deletes the outbox rows it can see ...
ClearOutbox ==
    /\ ~clearing /\ OpStart
    /\ clearing' = TRUE /\ clearIds' = Rows
    /\ UNCHANGED <<dbVars, workerVars, opVars, unlogged, chanVars, histVars>>

\* The rows that stay although their entry in the log goes.
Unlogged == {i \in Rows \ clearIds : keyOf[i] \in audit}

\* ... and in a later statement of the same transaction the whole dispatch
\* log; a row inserted between the two stays, its entry in the log does not.
ClearLog ==
    /\ clearing /\ clearing' = FALSE /\ clearIds' = {}
    /\ RemoveRows(clearIds \cap Rows)
    /\ audit' = {}
    /\ unrecorded' = unrecorded \cup audit
    /\ unlogged' = unlogged \cup Unlogged
    /\ UNCHANGED <<workerVars, opVars, received, doubled, budgets>>

\* demo_seed_dead_outbox: insert a row for a fresh alert id ...
SeedInsert(k) ==
    /\ opKind = "none" /\ OpStart
    /\ \A i \in Id : keyOf[i] # k
    /\ InsertRow(k)
    /\ opKind' = "seed" /\ opIds' = {nextId} /\ UNCHANGED opSeen
    /\ UNCHANGED <<workerVars, clearVars, chanVars, histVars>>

\* ... mark that row dead (it may have been claimed meanwhile) ...
SeedMark ==
    LET hit == opIds \cap Rows IN
    /\ opKind = "seed"
    /\ status' = [i \in Id |-> IF i \in hit THEN "dead" ELSE status[i]]
    /\ attempts' = [i \in Id |-> IF i \in hit THEN MaxAttempts ELSE attempts[i]]
    /\ stale' = [i \in Id |-> stale[i] /\ i \notin hit]
    /\ TakeBack(hit, {})
    /\ \/ OpEnd
       \/ opKind' = "markopen" /\ opIds' = {} /\ UNCHANGED opSeen
    /\ UNCHANGED <<keyOf, due, nextId, audit, workerVars, clearVars, chanVars, budgets>>

\* ... and, unless told otherwise, every open row as well.
MarkOpenDead ==
    LET open == {i \in Rows : status[i] \in OpenStatus} IN
    /\ opKind = "markopen"
    /\ status' = [i \in Id |-> IF i \in open THEN "dead" ELSE status[i]]
    /\ stale' = [i \in Id |-> stale[i] /\ i \notin open]
    /\ TakeBack(open, {})
    /\ OpEnd
    /\ UNCHANGED <<keyOf, attempts, due, nextId, audit, workerVars, clearVars, chanVars, budgets>>

-----------------------------------------------------------------------------
WorkerStep(w) ==
    Claim(w) \/ Check(w) \/ Send(w) \/ LogDispatch(w) \/ MarkLoad(w) \/ MarkCommit(w) \/ Restart(w)

Operator ==
    RedriveSelect \/ RedriveWrite \/ DeleteRows \/ ClearOutbox \/ ClearLog \/ SeedMark \/ MarkOpenDead

Next ==
    \/ \E k \in Key : Enqueue(k) \/ SeedInsert(k)
    \/ \E i \in Id : BackoffElapsed(i) \/ ClaimExpires(i)
    \/ \E w \in Worker : WorkerStep(w) \/ Crash(w)
    \/ Operator

Spec == Init /\ [][Next]_vars

\* A worker process keeps running and is restarted when it dies; posts time
\* out, so a send ends; time passes for rows in backoff and for rows that a
\* dead worker left in processing.  No fairness for the emit path, for
\* operators, for crashes, nor for a live worker being slow.
FairSpec ==
    /\ Spec
    /\ \A w \in Worker : WF_vars(WorkerStep(w))
    /\ \A i \in Id : WF_vars(BackoffElapsed(i)) /\ WF_vars(~Held(i) /\ ClaimExpires(i))
-----------------------------------------------------------------------------
(* Properties *)

DbType ==
    /\ status \in [Id -> RowStatus] /\ keyOf \in [Id -> Key \cup {NoKey}]
    /\ attempts \in [Id -> Nat] /\ due \in [Id -> BOOLEAN] /\ stale \in [Id -> BOOLEAN]
    /\ nextId \in 1..(MaxRows + 1) /\ audit \subseteq Key

WorkerPc == {"idle", "work", "send", "log", "load", "commit", "down"}

WorkerType ==
    /\ pc \in [Worker -> WorkerPc] /\ batch \in [Worker -> SUBSET Id]
    /\ cur \in [Worker -> Id \cup {NoRow}] /\ outcome \in [Worker -> BOOLEAN]
    /\ seen \in [Worker -> Seen]

OpType ==
    /\ opKind \in {"none", "redrive", "seed", "markopen"}
    /\ opIds \in SUBSET Id /\ opSeen \in [Id -> Seen]

ClearType == clearing \in BOOLEAN /\ clearIds \in SUBSET Id /\ unlogged \in SUBSET Id

HistType ==
    /\ received \subseteq Key /\ doubled \subseteq Key /\ unrecorded \subseteq Key
    /\ stolen \subseteq Id /\ returned \in [Id -> Nat]
    /\ crashes \in 0..MaxCrashes /\ slow \in 0..MaxSlow /\ ops \in 0..MaxOps

TypeOK == DbType /\ WorkerType /\ OpType /\ ClearType /\ HistType

\* A row reads "sent" only if its notification was accepted by the channel and
\* the dispatch log says so, whichever worker marked it, after whatever
\* crashes, stale recoveries, redrives and deletions (process_batch marks a
\* row sent only after log_dispatch committed or the log already had the key).
\* One window: a row that came too late for the first DELETE of clear_all, but
\* whose key was in the log by the second, stays and loses its entry.
SentIsAudited ==
    \A i \in Id : status[i] = "sent" =>
        keyOf[i] \in received /\ (keyOf[i] \in audit \/ i \in unlogged)

\* Two workers have the same notification in their batches only if the row was
\* taken back from a live worker: by stale recovery of a slow claim, or by an
\* operator request.  claim_outbox_batch alone never hands a row out twice.
OneHolder ==
    \A v, w \in Worker : \A i \in batch[v], j \in batch[w] :
        keyOf[i] = keyOf[j] => v = w \/ i \in stolen \/ j \in stolen

\* The notifications whose row was taken from a live worker.
Contested == {keyOf[i] : i \in stolen}

\* A channel accepts a notification twice only through a named window: it
\* accepted a post that was never recorded as a success (an error reported for
\* an accepted post, a crash between send and log_dispatch, a wiped log), or
\* its row was taken from a live worker.  Otherwise the idempotency check of
\* process_batch makes delivery exactly-once.
DuplicatesExplained == doubled \subseteq unrecorded \cup Contested

\* The attempts of a row exceed dispatch_outbox_max_attempts only by the number
\* of times it was returned to the queue by others than its holder: taken back
\* from processing, or redriven by a request that loaded attempts = 0 and so
\* does not write the column, whatever has been spent since.  Every claim spends
\* an attempt, and a row with none left is marked dead; a late mark decides on
\* the attempts it loaded, yet never buys a row more than its return did.
AttemptBudget == \A i \in Id : attempts[i] <= MaxAttempts + returned[i]

\* A row that reads "sent" keeps reading so, unless an operator redrives or
\* removes it or a worker it was taken from writes its own late result.
SentSettles ==
    [][\A i \in Id : status[i] = "sent" /\ status'[i] # "sent"
          => i \in stolen \/ status'[i] = Absent \/ i \in opIds]_vars

\* No notification is forgotten: every open row ends up sent or dead, or an
\* operator removes it, although workers crash in the middle of a batch.
EveryRowSettles ==
    \A i \in Id : status[i] \in OpenStatus ~> status[i] \in {"sent", "dead", Absent}

\* What the outbox promises (module Notifications), read off its rows: a ticket
\* is a row id, and a row that is pending, in somebody's hands or in backoff is
\* an open ticket.
PhaseOf(s, used) ==
    CASE s = Absent       -> IF used THEN "gone" ELSE "unused"
      [] s \in OpenStatus -> "open"
      [] OTHER            -> s
Phase(i) == PhaseOf(status[i], i < nextId)

Promised == INSTANCE Notifications
            WITH Ticket <- Id, phase <- [i \in Id |-> Phase(i)], subject <- keyOf,
                 delivered <- received, disputed <- stolen, request <- opKind

\* The queries, locks, batches, crashes and races of the outbox implement the
\* promise: tickets are issued once, settled only after delivery, and, unless
\* taken from a worker, changed afterwards by operators alone.
KeepsPromise == Promised!Spec
-----------------------------------------------------------------------------
(* The strengthening that makes the safety invariants inductive. *)

\* Ids are handed out in order and never again; an unused one is nowhere.
FreshIds ==
    \A i \in Id : IF i < nextId
                  THEN keyOf[i] \in Key
                  ELSE /\ status[i] = Absent /\ i \notin opIds \cup stolen
                       /\ \A w \in Worker : i \notin batch[w]

UniqueKeys == \A i, j \in Rows : keyOf[i] = keyOf[j] => i = j

\* The row in hand is one of the batch; between batches there is none.
RowInHand ==
    \A w \in Worker :
        /\ pc[w] \in {"idle", "down"} => batch[w] = {}
        /\ pc[w] \in {"send", "log", "load", "commit"} => cur[w] \in batch[w]

\* A worker about to mark a row sent has a success behind it.
Confirmed ==
    \A w \in Worker : outcome[w] =>
        /\ pc[w] \in {"log", "load", "commit"} => keyOf[cur[w]] \in received
        /\ pc[w] \in {"load", "commit"} /\ status[cur[w]] # Absent
              => keyOf[cur[w]] \in audit \/ cur[w] \in unlogged

\* A row still belongs to its holder, and to no other, until it is stolen.
Owned ==
    \A w \in Worker : \A i \in batch[w] :
        \/ i \in stolen
        \/ status[i] = "processing" /\ \A v \in Worker : i \in batch[v] => v = w

\* Past the idempotency check, an audited key is a contested one.
Unsent ==
    \A w \in Worker : pc[w] = "send" => keyOf[cur[w]] \notin audit \/ keyOf[cur[w]] \in Contested

\* What a channel accepted is in the log, about to be, or lost to it.
Accounted ==
    \A k \in received :
        \/ k \in audit \cup unrecorded
        \/ \E w \in Worker : pc[w] = "log" /\ outcome[w] /\ keyOf[cur[w]] = k

\* Every worker that has a row, but its present holder, lost it by a return.
Holders(i) == {w \in Worker : i \in batch[w]}
InWork(i)  == IF status[i] = "processing" THEN 1 ELSE 0
HoldersCounted ==
    \A i \in Rows : /\ IsFiniteSet(Holders(i))
                   /\ Cardinality(Holders(i)) <= returned[i] + InWork(i)

\* The workers that may still write "failed", which queues the row once more.
Retriers(i) == {w \in Worker : pc[w] = "commit" /\ cur[w] = i /\ seen[w].attempts < MaxAttempts}
Queued(i)   == IF status[i] \in ClaimableStatus THEN 1 ELSE 0

\* There is an attempt left for every claim that can still happen.
AttemptsSpare ==
    \A i \in Rows : attempts[i] + Cardinality(Retriers(i)) + Queued(i) <= MaxAttempts + returned[i]

FreshAttempts == \A i \in Id : ~(i < nextId) => attempts[i] = 0

BudgetInv == HoldersCounted /\ AttemptsSpare /\ FreshAttempts /\ AttemptBudget

IInv ==
    /\ TypeOK /\ FreshIds /\ UniqueKeys /\ RowInHand /\ Owned
    /\ audit \subseteq received /\ Confirmed /\ SentIsAudited
    /\ Unsent /\ Accounted /\ DuplicatesExplained
=============================================================================
