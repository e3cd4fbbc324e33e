------------------------------ MODULE ReadCache ------------------------------
(***************************************************************************)
(* The read cache of the operator UI (cache/alert_cache.py): request       *)
(* threads of several UI instances share a snapshot of the incidents in    *)
(* Redis, rebuilt under a SET NX lock; writers of the UI invalidate and    *)
(* rebuild it, the pipeline deletes it with the lock.                      *)
(*                                                                         *)
(* The database is the number of committed writes, a snapshot the number   *)
(* it was loaded at.  TTLs, deadlines and early expiry are choices that    *)
(* may fall at any time, so every relation of their lengths is covered.    *)
(* Each step is one Redis command, one database read or one access to the  *)
(* process's own snapshot under its lock.                                  *)
(***************************************************************************)
EXTENDS Naturals, FiniteSets

CONSTANTS
    Instance,      \* UI processes; an instance is its lock token
    Thread,        \* request threads
    Home,          \* the instance of each thread
    MaxReads,      \* bound: read requests
    MaxWrites,     \* bound: committed writes
    MaxOutages     \* bound: outages of Redis

ASSUME CacheAssumption ==
    /\ Home \in [Thread -> Instance]
    /\ MaxReads \in Nat /\ MaxWrites \in Nat /\ MaxOutages \in Nat

VARIABLES
    db,          \* committed writes
    redis,       \* the snapshot key
    lock,        \* the lock key: the token, and (history) the thread that set it
    up,          \* Redis answers
    conn,        \* instances that have not given Redis up
    local,       \* the snapshot each instance keeps
    req,         \* the request of each thread
    pipe,        \* the pipeline has committed and not yet invalidated
    \* history: the last write that was invalidated, threads whose lock went
    \* other than by their release, invalidated writes a read missed unraced
    dropped, lost, missed,
    reads, outages

redisVars == <<redis, lock, up>>
procVars  == <<conn, local>>
histVars  == <<dropped, lost, missed>>
budgets   == <<reads, outages>>
vars == <<db, redisVars, procVars, req, pipe, histVars, budgets>>

-----------------------------------------------------------------------------
\* raced: the snapshot was in a request's hands, loaded or read from Redis and
\* not yet stored, when another was invalidated.
Snapshot == [ver : Nat, soft : BOOLEAN, raced : BOOLEAN]
NoSnap   == [ver |-> 0, soft |-> FALSE, raced |-> FALSE]
NoLock   == {}
Places == {"idle", "drop", "clear", "get", "check", "acquire", "wait", "recheck", "load",
           "keep", "set", "release", "spin", "again", "own"}
Plans  == {"check", "force", "failed"}
Nexts  == {"set", "release", "return", "answer"}

\* Where a request is, how it rebuilds, the snapshot in its hands and what
\* follows when that is kept, the write it made (0 for a read), and (history)
\* the write invalidated when it began.
Request == [pc : Places, plan : Plans, snap : Snapshot, next : Nexts, wrote : Nat, need : Nat]
NoRequest == [pc |-> "idle", plan |-> "force", snap |-> NoSnap, next |-> "set",
              wrote |-> 0, need |-> 0]

Bigger(a, b) == IF a > b THEN a ELSE b
At(t, p)     == req[t].pc = p
Move(t, p)   == req' = [req EXCEPT ![t].pc = p]
Go(t, p, q)  == req' = [req EXCEPT ![t].pc = p, ![t].plan = q]
Done(t)      == req' = [req EXCEPT ![t] = NoRequest]
Hold(t, s, n)   == req' = [req EXCEPT ![t].pc = "keep", ![t].snap = s, ![t].next = n]
LoadThen(t, n)  == req' = [req EXCEPT ![t].pc = "load", ![t].next = n]
PutDown(t, p)   == req' = [req EXCEPT ![t].pc = p, ![t].snap = NoSnap, ![t].next = "set"]

Init ==
    /\ db = 1 /\ redis = NoSnap /\ lock = NoLock /\ up = TRUE
    /\ conn = Instance /\ local = [i \in Instance |-> NoSnap]
    /\ req = [t \in Thread |-> NoRequest]
    /\ pipe = FALSE /\ dropped = 0 /\ lost = {} /\ missed = {}
    /\ reads = 0 /\ outages = 0

-----------------------------------------------------------------------------
(* Redis commands of instance i *)

Reached(i) == i \in conn /\ up
\* _redis_error: the first failing command makes the process give Redis up.
Degrade(i) == conn' = IF up THEN conn ELSE conn \ {i}
\* _read_redis_snapshot.
Seen(i)    == IF Reached(i) THEN redis ELSE NoSnap
Holders    == {k[2] : k \in lock}
FreeLock   == lock' = NoLock /\ lost' = lost \cup Holders

-----------------------------------------------------------------------------
(* Requests *)

StartRead(t) ==
    /\ At(t, "idle") /\ reads < MaxReads /\ reads' = reads + 1
    /\ req' = [req EXCEPT ![t].pc = "get", ![t].need = dropped]
    /\ UNCHANGED <<db, redisVars, procVars, pipe, histVars, outages>>

\* A write request commits and calls _touch_cache.
StartWrite(t) ==
    /\ At(t, "idle") /\ db <= MaxWrites /\ db' = db + 1
    /\ req' = [req EXCEPT ![t].pc = "drop", ![t].wrote = db + 1]
    /\ UNCHANGED <<redisVars, procVars, pipe, histVars, budgets>>

\* What requests have in their hands is older than the invalidation.
Race(requests) ==
    [t \in Thread |-> IF At(t, "keep") \/ At(t, "set")
                      THEN [requests[t] EXCEPT !.snap.raced = TRUE] ELSE requests[t]]

\* Mutant: the snapshot is left for the rebuild to replace.
KeyKept(current) == current
KeyDeleted(current) == NoSnap

\* invalidate, the first half of _touch_cache: DELETE the key ...
Drop(t) ==
    LET moved == [req EXCEPT ![t].pc = "clear"] IN
    /\ At(t, "drop") /\ Degrade(Home[t])
    /\ IF Reached(Home[t])
       THEN /\ redis' = KeyDeleted(redis) /\ req' = Race(moved)
            /\ dropped' = Bigger(dropped, req[t].wrote)
       ELSE req' = moved /\ UNCHANGED <<redis, dropped>>
    /\ UNCHANGED <<db, lock, up, local, pipe, lost, missed, budgets>>

\* ... and empty the process's own snapshot; the rebuild follows.
Clear(t) ==
    /\ At(t, "clear") /\ Move(t, "acquire")
    /\ local' = [local EXCEPT ![Home[t]] = NoSnap]
    /\ UNCHANGED <<db, redisVars, conn, pipe, histVars, budgets>>

\* A read answers with s.
Answer(t, s) ==
    /\ missed' = IF ~s.raced /\ s.ver < req[t].need THEN missed \cup {req[t].need} ELSE missed
    /\ Done(t)

\* _ensure_fresh: a snapshot that has not expired is served, unless the early
\* expiry draws it; without one the rebuild is forced.
Get(t) ==
    LET s == Seen(Home[t]) IN
    /\ At(t, "get") /\ Degrade(Home[t])
    /\ \/ s # NoSnap /\ ~s.soft /\ Hold(t, s, "answer")
       \/ s = NoSnap /\ Go(t, "acquire", "force")
       \/ s # NoSnap /\ Go(t, "check", "check")
    /\ UNCHANGED <<db, redisVars, local, pipe, histVars, budgets>>

\* refresh(force=False) looks again before it takes the lock, and once more
\* when it has it.
Look(t, next, otherwise) ==
    LET s == Seen(Home[t]) IN
    /\ Degrade(Home[t])
    /\ \/ s # NoSnap /\ ~s.soft /\ Hold(t, s, next)
       \/ Move(t, otherwise)
    /\ UNCHANGED <<db, redisVars, local, pipe, histVars, budgets>>

Check(t)   == At(t, "check") /\ Look(t, "return", "acquire")
Recheck(t) == At(t, "recheck") /\ Look(t, "release", "load")

\* _acquire_lock: SET NX; without Redis every caller gets it.  Mutant: no NX.
AlwaysFree(k) == TRUE
LockFree(k) == k = NoLock

Acquire(t) ==
    LET i == Home[t]
        next == IF req[t].plan = "force" THEN "load" ELSE "recheck"
    IN
    /\ At(t, "acquire") /\ Degrade(i)
    /\ \/ /\ Reached(i) /\ ~LockFree(lock)
          /\ Move(t, "wait") /\ UNCHANGED <<lock, lost>>
       \/ /\ Reached(i) /\ LockFree(lock)
          /\ Move(t, next) /\ lock' = {<<i, t>>} /\ lost' = lost \ {t}
       \/ /\ ~Reached(i)
          /\ Move(t, next) /\ lost' = lost \cup {t} /\ UNCHANGED lock
    /\ UNCHANGED <<db, redis, up, local, pipe, dropped, missed, budgets>>

\* refresh is over: a read looks at Redis again; a write is done, or reads the
\* incident back (_apply_status).
Returned(t) ==
    \/ req[t].plan = "failed" /\ Done(t)
    \/ req[t].plan # "failed" /\ req[t].wrote = 0 /\ PutDown(t, "again")
    \/ /\ req[t].plan # "failed" /\ req[t].wrote # 0
       /\ \/ Done(t)
          \/ req' = [req EXCEPT ![t] = [NoRequest EXCEPT !.pc = "get", !.need = dropped]]

\* Somebody else rebuilds: poll for a snapshot, whatever its age ...
Wait(t) ==
    LET s == Seen(Home[t]) IN
    /\ At(t, "wait") /\ Degrade(Home[t])
    /\ \/ s # NoSnap /\ Hold(t, s, "return")
       \/ s = NoSnap /\ UNCHANGED req
    /\ UNCHANGED <<db, redisVars, local, pipe, histVars, budgets>>

\* ... until the deadline, then load without the lock.  Mutant: no deadline.
NeverDue(t) == FALSE
DeadlinePassed(t) == At(t, "wait")

WaitTimeout(t) ==
    /\ DeadlinePassed(t) /\ LoadThen(t, "return")
    /\ UNCHANGED <<db, redisVars, procVars, pipe, histVars, budgets>>

\* _load_from_db.
Load(t) ==
    /\ At(t, "load")
    /\ Hold(t, [ver |-> db, soft |-> FALSE, raced |-> FALSE], req[t].next)
    /\ UNCHANGED <<db, redisVars, procVars, pipe, histVars, budgets>>

\* The database raises: the lock is released and the request answers 500.
LoadFails(t) ==
    /\ At(t, "load")
    /\ IF req[t].next = "set" THEN Go(t, "release", "failed") ELSE Done(t)
    /\ UNCHANGED <<db, redisVars, procVars, pipe, histVars, budgets>>

\* The process's own snapshot is replaced by the one in hand, however long ago
\* that was read or loaded.
Keep(t) ==
    /\ At(t, "keep")
    /\ local' = [local EXCEPT ![Home[t]] = req[t].snap]
    /\ \/ req[t].next = "answer" /\ Answer(t, req[t].snap)
       \/ req[t].next = "return" /\ Returned(t) /\ UNCHANGED missed
       \/ req[t].next = "release" /\ PutDown(t, "release") /\ UNCHANGED missed
       \/ req[t].next = "set" /\ Move(t, "set") /\ UNCHANGED missed
    /\ UNCHANGED <<db, redisVars, conn, pipe, dropped, lost, budgets>>

\* _write_redis_snapshot.
Set(t) ==
    /\ At(t, "set") /\ Degrade(Home[t])
    /\ redis' = IF Reached(Home[t]) THEN req[t].snap ELSE redis
    /\ PutDown(t, "release")
    /\ UNCHANGED <<db, lock, up, local, pipe, histVars, budgets>>

\* The lock is deleted if it holds the token of the instance.
Owned(i) == \E k \in lock : k[1] = i
Unlock(t) ==
    /\ lock' = IF Owned(Home[t]) THEN NoLock ELSE lock
    /\ lost' = IF Owned(Home[t]) THEN (lost \cup Holders) \ {t} ELSE lost \ {t}
    /\ Returned(t)

\* _release_lock: every error of its commands is answered with "continue", so
\* a thread that meets an outage here goes round until Redis is back.
Release(t) ==
    /\ At(t, "release")
    /\ \/ Home[t] \notin conn /\ Returned(t) /\ UNCHANGED <<lock, lost>>
       \/ Reached(Home[t]) /\ Unlock(t)
       \/ Home[t] \in conn /\ ~up /\ Move(t, "spin") /\ UNCHANGED <<lock, lost>>
    /\ UNCHANGED <<db, redis, up, procVars, pipe, dropped, missed, budgets>>

Spin(t) ==
    /\ At(t, "spin") /\ up /\ Unlock(t)
    /\ UNCHANGED <<db, redis, up, procVars, pipe, dropped, missed, budgets>>

\* _ensure_fresh after the rebuild: Redis ...
Again(t) ==
    LET s == Seen(Home[t]) IN
    /\ At(t, "again") /\ Degrade(Home[t])
    /\ \/ s # NoSnap /\ Hold(t, s, "answer")
       \/ s = NoSnap /\ Move(t, "own")
    /\ UNCHANGED <<db, redisVars, local, pipe, histVars, budgets>>

\* ... else the process's own snapshot, whoever left it there, else one more load.
Own(t) ==
    LET s == local[Home[t]] IN
    /\ At(t, "own")
    /\ \/ s # NoSnap /\ Answer(t, s)
       \/ s = NoSnap /\ LoadThen(t, "answer") /\ UNCHANGED missed
    /\ UNCHANGED <<db, redisVars, procVars, pipe, dropped, lost, budgets>>

-----------------------------------------------------------------------------
(* The pipeline: emit_alert commits, then invalidate_ui_snapshot, best effort. *)

PipeCommit ==
    /\ ~pipe /\ db <= MaxWrites /\ db' = db + 1 /\ pipe' = TRUE
    /\ UNCHANGED <<redisVars, procVars, req, histVars, budgets>>

PipeDrop ==
    /\ pipe /\ pipe' = FALSE
    /\ IF up
       THEN /\ redis' = KeyDeleted(redis) /\ FreeLock
            /\ req' = Race(req) /\ dropped' = db
       ELSE UNCHANGED <<redis, lock, req, dropped, lost>>
    /\ UNCHANGED <<db, up, procVars, missed, budgets>>

(* Time and Redis *)

SoftExpire ==
    /\ redis # NoSnap /\ ~redis.soft /\ redis' = [redis EXCEPT !.soft = TRUE]
    /\ UNCHANGED <<db, lock, up, procVars, req, pipe, histVars, budgets>>

HardExpire ==
    /\ redis # NoSnap /\ redis.soft /\ redis' = NoSnap
    /\ UNCHANGED <<db, lock, up, procVars, req, pipe, histVars, budgets>>

LockExpire ==
    /\ lock # NoLock /\ FreeLock
    /\ UNCHANGED <<db, redis, up, procVars, req, pipe, dropped, missed, budgets>>

RedisFails ==
    /\ up /\ outages < MaxOutages /\ outages' = outages + 1 /\ up' = FALSE
    /\ UNCHANGED <<db, redis, lock, procVars, req, pipe, histVars, reads>>

\* It was restarted, without persistence, or only unreachable.
RedisReturns ==
    /\ ~up /\ up' = TRUE
    /\ \/ redis' = NoSnap /\ FreeLock
       \/ UNCHANGED <<redis, lock, lost>>
    /\ UNCHANGED <<db, procVars, req, pipe, dropped, missed, budgets>>

-----------------------------------------------------------------------------
Step(t) ==
    \/ Drop(t) \/ Clear(t) \/ Get(t) \/ Check(t) \/ Recheck(t) \/ Acquire(t) \/ Wait(t)
    \/ WaitTimeout(t) \/ Load(t) \/ LoadFails(t) \/ Keep(t) \/ Set(t) \/ Release(t) \/ Spin(t)
    \/ Again(t) \/ Own(t)

Next ==
    \/ \E t \in Thread : StartRead(t) \/ StartWrite(t) \/ Step(t)
    \/ PipeCommit \/ PipeDrop
    \/ SoftExpire \/ HardExpire \/ LockExpire \/ RedisFails \/ RedisReturns

Spec == Init /\ [][Next]_vars

\* The thread pool runs every request on, and the database answers.
ThreadsRun == \A t \in Thread : WF_vars(Step(t))
FairSpec   == Spec /\ ThreadsRun /\ WF_vars(RedisReturns)
-----------------------------------------------------------------------------
(* Properties *)

TypeOK ==
    /\ db \in Nat /\ redis \in Snapshot /\ lock \subseteq Instance \X Thread /\ up \in BOOLEAN
    /\ conn \subseteq Instance /\ local \in [Instance -> Snapshot] /\ req \in [Thread -> Request]
    /\ pipe \in BOOLEAN /\ dropped \in Nat /\ lost \subseteq Thread /\ missed \subseteq Nat
    /\ reads \in Nat /\ outages \in Nat

\* A read that began after a write was invalidated misses the write only if
\* the snapshot it answers with was in the hands of a request when an
\* invalidation deleted the key: loaded before it and put into Redis after it,
\* or, in a process's own copy, also read from Redis before it and assigned
\* after it, over whatever was there.  Whatever expires or fails, stale data
\* come from that race alone; in Redis, from a load alone.
OnlyRacedIsStale ==
    /\ redis # NoSnap /\ ~redis.raced => redis.ver >= dropped
    /\ missed = {}

\* Two requests rebuild under the lock at once only if one of them lost the
\* lock while it held it, or had given Redis up.
Rebuilding == 
    {t \in Thread : req[t].next = "set" /\ req[t].pc \in {"load", "keep", "set"}}
OneRebuilds == \A t, u \in Rebuilding : t # u => t \in lost \/ u \in lost

\* Every request is answered, outages of Redis that end included.
RequestsEnd == \A t \in Thread : ~At(t, "idle") ~> At(t, "idle")

-----------------------------------------------------------------------------
(* The strengthening that makes both safety invariants inductive. *)

Current(s) == s.raced \/ s.ver >= dropped

\* What is invalidated was committed, and a request knows no later write.
Committed ==
    /\ dropped <= db
    /\ \A t \in Thread : req[t].wrote <= db /\ req[t].need <= dropped

\* The key holds one lock; who works under it has it, or it was lost.
LockKept ==
    /\ \A k, l \in lock : k = l
    /\ \A t \in Thread : At(t, "recheck") \/ t \in Rebuilding => t \in lost \cup Holders

\* What a request is about to store is not older than the last invalidation, or
\* it is marked.
InHand == \A t \in Thread : At(t, "keep") \/ At(t, "set") => Current(req[t].snap)

\* What a request finds in its process after a rebuild that did not fail is
\* new enough for it.
Rebuilt(t) ==
    At(t, "set") \/ At(t, "again") \/ At(t, "own") \/ (req[t].pc \in {"release", "spin"} /\ req[t].plan # "failed")
Enough(t, s) == s = NoSnap \/ s.raced \/ s.ver >= req[t].need
OwnCopy == \A t \in Thread : Rebuilt(t) => Enough(t, local[Home[t]])

IInv == TypeOK /\ Committed /\ LockKept /\ InHand /\ OwnCopy /\ OnlyRacedIsStale
=============================================================================
