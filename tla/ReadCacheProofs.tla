--------------------------- MODULE ReadCacheProofs ---------------------------
(* Theorems about ReadCache, for every number of instances, threads, requests *)
(* and outages.                                                               *)
EXTENDS ReadCache, TLAPS

-----------------------------------------------------------------------------
(* Types *)

LEMMA SnapFacts ==
  /\ NoSnap \in Snapshot
  /\ \A n \in Nat : [ver |-> n, soft |-> FALSE, raced |-> FALSE] \in Snapshot
  /\ \A s \in Snapshot : /\ s.ver \in Nat /\ s.raced \in BOOLEAN
                         /\ [s EXCEPT !.soft = TRUE] \in Snapshot
                         /\ [s EXCEPT !.raced = TRUE] \in Snapshot
BY DEF Snapshot, NoSnap

LEMMA RequestFacts ==
  /\ NoRequest \in Request
  /\ \A n \in Nat : [NoRequest EXCEPT !.pc = "get", !.need = n] \in Request
  /\ \A r \in Request : /\ r.pc \in Places /\ r.plan \in Plans /\ r.snap \in Snapshot
                        /\ r.next \in Nexts /\ r.wrote \in Nat /\ r.need \in Nat
BY SnapFacts DEF NoRequest, Request, Places, Plans, Nexts

\* What a step may do to its own request.
LEMMA RequestMoves ==
  ASSUME req \in [Thread -> Request], NEW t \in Thread
  PROVE  /\ \A p \in Places : Move(t, p) => req' \in [Thread -> Request]
         /\ \A p \in Places, q \in Plans : Go(t, p, q) => req' \in [Thread -> Request]
         /\ \A s \in Snapshot, n \in Nexts : Hold(t, s, n) => req' \in [Thread -> Request]
         /\ \A n \in Nexts : LoadThen(t, n) => req' \in [Thread -> Request]
         /\ \A p \in Places : PutDown(t, p) => req' \in [Thread -> Request]
         /\ Done(t) => req' \in [Thread -> Request]
         /\ dropped \in Nat /\ Returned(t) => req' \in [Thread -> Request]
<1>1. ASSUME NEW p \in Places, Move(t, p) PROVE req' \in [Thread -> Request]
  BY <1>1 DEF Move, Request
<1>2. ASSUME NEW p \in Places, NEW q \in Plans, Go(t, p, q) PROVE req' \in [Thread -> Request]
  BY <1>2 DEF Go, Request
<1>3. ASSUME Done(t) PROVE req' \in [Thread -> Request]
  BY <1>3, RequestFacts DEF Done
<1>4. ASSUME NEW s \in Snapshot, NEW n \in Nexts, Hold(t, s, n) PROVE req' \in [Thread -> Request]
  <2>1. \A r \in Request : [r EXCEPT !.pc = "keep", !.snap = s, !.next = n] \in Request
    BY DEF Request, Places
  <2>2. req' = [req EXCEPT ![t] = [req[t] EXCEPT !.pc = "keep", !.snap = s, !.next = n]]
    BY <1>4 DEF Hold
  <2> QED BY <2>1, <2>2
<1>5. ASSUME NEW n \in Nexts, LoadThen(t, n) PROVE req' \in [Thread -> Request]
  BY <1>5 DEF LoadThen, Request, Places
<1>6. ASSUME NEW p \in Places, PutDown(t, p) PROVE req' \in [Thread -> Request]
  BY <1>6, SnapFacts DEF PutDown, Request, Nexts
<1>7. ASSUME dropped \in Nat, Returned(t) PROVE req' \in [Thread -> Request]
  <2>1. "again" \in Places
    BY DEF Places
  <2> QED BY <1>3, <1>6, <1>7, <2>1, RequestFacts DEF Returned
<1> QED BY <1>1, <1>2, <1>3, <1>4, <1>5, <1>6, <1>7

LEMMA RaceType ==
  ASSUME NEW r \in [Thread -> Request]
  PROVE  Race(r) \in [Thread -> Request]
BY SnapFacts DEF Race, Request

-----------------------------------------------------------------------------
LEMMA SeenType ==
  ASSUME redis \in Snapshot, NEW i \in Instance
  PROVE  Seen(i) \in Snapshot /\ (Seen(i) = NoSnap \/ Seen(i) = redis)
BY SnapFacts DEF Seen

LEMMA AnswerType ==
  ASSUME TypeOK, NEW t \in Thread, NEW s \in Snapshot, Answer(t, s)
  PROVE  missed' \subseteq Nat /\ req' \in [Thread -> Request]
BY RequestMoves, RequestFacts DEF Answer, TypeOK

LEMMA LookType ==
  ASSUME TypeOK, NEW t \in Thread, NEW n \in Nexts, NEW p \in Places, Look(t, n, p)
  PROVE  TypeOK'
<1> USE DEF TypeOK, Look
<1>1. Home[t] \in Instance
  BY CacheAssumption
<1>2. Seen(Home[t]) \in Snapshot
  BY <1>1, SeenType
<1>3. req' \in [Thread -> Request]
  BY <1>2, RequestMoves
<1> QED BY <1>3 DEF redisVars, histVars, budgets, Degrade

LEMMA UnlockType ==
  ASSUME TypeOK, NEW t \in Thread, Unlock(t)
  PROVE  lock' \subseteq Instance \X Thread /\ lost' \subseteq Thread /\ req' \in [Thread -> Request]
BY RequestMoves DEF Unlock, TypeOK, NoLock, Holders

LEMMA StepType ==
  ASSUME TypeOK, NEW t \in Thread, StartRead(t) \/ StartWrite(t) \/ Step(t)
  PROVE  TypeOK'
<1> USE DEF TypeOK
<1>1. Home[t] \in Instance /\ Seen(Home[t]) \in Snapshot
  BY CacheAssumption, SeenType
<1>2. /\ "acquire" \in Places /\ "check" \in Places /\ "again" \in Places /\ "load" \in Places
      /\ "release" \in Places /\ "recheck" \in Places /\ "wait" \in Places /\ "set" \in Places
      /\ "spin" \in Places /\ "get" \in Places /\ "drop" \in Places /\ "clear" \in Places
      /\ "keep" \in Places /\ "own" \in Places
      /\ "check" \in Plans /\ "force" \in Plans /\ "failed" \in Plans
      /\ "set" \in Nexts /\ "release" \in Nexts /\ "return" \in Nexts /\ "answer" \in Nexts
  BY DEF Places, Plans, Nexts
<1> USE DEF redisVars, procVars, histVars, budgets, Degrade
<1>3. CASE StartRead(t)
  <2>1. req' \in [Thread -> Request]
    BY <1>2, <1>3 DEF StartRead, Request
  <2> QED BY <1>3, <2>1 DEF StartRead
<1>4. CASE StartWrite(t)
  <2>1. db + 1 \in Nat
    OBVIOUS
  <2>2. req' \in [Thread -> Request]
    BY <1>2, <1>4, <2>1 DEF StartWrite, Request
  <2> QED BY <1>4, <2>2 DEF StartWrite
<1>5. CASE Drop(t)
  <2>1. [req EXCEPT ![t].pc = "clear"] \in [Thread -> Request]
    BY <1>2 DEF Request
  <2>2. req' \in [Thread -> Request]
    BY <1>5, <2>1, RaceType DEF Drop
  <2>3. redis' \in Snapshot
    BY <1>5, SnapFacts DEF Drop, KeyDeleted
  <2>4. dropped' \in Nat
    BY <1>5, RequestFacts DEF Drop, Bigger
  <2> QED BY <1>5, <2>2, <2>3, <2>4 DEF Drop
<1>6. CASE Get(t)
  <2>1. req' \in [Thread -> Request]
    BY <1>1, <1>2, <1>6, RequestMoves DEF Get
  <2> QED BY <1>6, <2>1 DEF Get
<1>7. CASE Check(t) \/ Recheck(t)
  BY <1>2, <1>7, LookType DEF Check, Recheck
<1>8. CASE Acquire(t)
  <2>1. req' \in [Thread -> Request]
    BY <1>2, <1>8, RequestMoves DEF Acquire
  <2>2. lock' \subseteq Instance \X Thread /\ lost' \subseteq Thread
    BY <1>1, <1>8 DEF Acquire
  <2> QED BY <1>8, <2>1, <2>2 DEF Acquire
<1>9. CASE Wait(t)
  <2>1. req' \in [Thread -> Request]
    BY <1>1, <1>2, <1>9, RequestMoves DEF Wait
  <2> QED BY <1>9, <2>1 DEF Wait
<1>10. CASE WaitTimeout(t)
  BY <1>2, <1>10, RequestMoves DEF WaitTimeout
<1>11. CASE Load(t)
  <2>1. [ver |-> db, soft |-> FALSE, raced |-> FALSE] \in Snapshot
    BY SnapFacts
  <2>2. req' \in [Thread -> Request]
    BY <1>11, <2>1, RequestMoves, RequestFacts DEF Load
  <2> QED BY <1>11, <2>2 DEF Load
<1>12. CASE LoadFails(t)
  BY <1>2, <1>12, RequestMoves DEF LoadFails
<1>13. CASE Keep(t)
  <2>1. req[t].snap \in Snapshot
    BY RequestFacts
  <2>2. missed' \subseteq Nat /\ req' \in [Thread -> Request]
    BY <1>2, <1>13, <2>1, AnswerType, RequestMoves DEF Keep
  <2>3. local' \in [Instance -> Snapshot]
    BY <1>1, <1>13, <2>1 DEF Keep
  <2> QED BY <1>13, <2>2, <2>3 DEF Keep
<1>14. CASE Set(t)
  <2>1. req' \in [Thread -> Request]
    BY <1>2, <1>14, RequestMoves DEF Set
  <2>2. redis' \in Snapshot
    BY <1>14, RequestFacts DEF Set
  <2> QED BY <1>14, <2>1, <2>2 DEF Set
<1>15. CASE Release(t)
  <2>1. lock' \subseteq Instance \X Thread /\ lost' \subseteq Thread /\ req' \in [Thread -> Request]
    BY <1>2, <1>15, UnlockType, RequestMoves DEF Release
  <2> QED BY <1>15, <2>1 DEF Release
<1>16. CASE Spin(t)
  BY <1>16, UnlockType DEF Spin
<1>17. CASE Again(t)
  <2>1. req' \in [Thread -> Request]
    BY <1>1, <1>2, <1>17, RequestMoves DEF Again
  <2> QED BY <1>17, <2>1 DEF Again
<1>18. CASE Own(t)
  <2>1. local[Home[t]] \in Snapshot
    BY <1>1
  <2>2. missed' \subseteq Nat /\ req' \in [Thread -> Request]
    BY <1>2, <1>18, <2>1, AnswerType, RequestMoves DEF Own
  <2> QED BY <1>18, <2>2 DEF Own
<1>19. CASE Clear(t)
  <2>1. req' \in [Thread -> Request] /\ local' \in [Instance -> Snapshot]
    BY <1>2, <1>19, SnapFacts, RequestMoves DEF Clear
  <2> QED BY <1>19, <2>1 DEF Clear
<1> QED
  BY <1>3, <1>4, <1>5, <1>6, <1>7, <1>8, <1>9, <1>10, <1>11, <1>12, <1>13, <1>14, <1>15,
     <1>16, <1>17, <1>18, <1>19 DEF Step

LEMMA NextType == TypeOK /\ [Next]_vars => TypeOK'
<1> SUFFICES ASSUME TypeOK, [Next]_vars PROVE TypeOK'
  OBVIOUS
<1>1. CASE UNCHANGED vars
  BY <1>1 DEF vars, redisVars, procVars, histVars, budgets, TypeOK
<1>2. CASE \E t \in Thread : StartRead(t) \/ StartWrite(t) \/ Step(t)
  BY <1>2, StepType
<1> USE DEF TypeOK, redisVars, procVars, histVars, budgets
<1>3. CASE PipeCommit
  BY <1>3 DEF PipeCommit
<1>4. CASE PipeDrop
  <2>1. req' \in [Thread -> Request]
    BY <1>4, RaceType DEF PipeDrop
  <2>2. redis' \in Snapshot
    BY <1>4, SnapFacts DEF PipeDrop, KeyDeleted
  <2>3. lost' \subseteq Thread
    BY <1>4 DEF PipeDrop, FreeLock, Holders
  <2> QED BY <1>4, <2>1, <2>2, <2>3 DEF PipeDrop, FreeLock, NoLock
<1>5. CASE SoftExpire \/ HardExpire
  BY <1>5, SnapFacts DEF SoftExpire, HardExpire
<1>6. CASE LockExpire
  BY <1>6 DEF LockExpire, FreeLock, NoLock, Holders
<1>7. CASE RedisFails
  <2>1. up' \in BOOLEAN
    BY <1>7, Zenon DEF RedisFails
  <2>2. outages' \in Nat
    BY <1>7 DEF RedisFails
  <2> QED BY <1>7, <2>1, <2>2 DEF RedisFails
<1>8. CASE RedisReturns
  <2>1. lost' \subseteq Thread
    BY <1>8 DEF RedisReturns, FreeLock, Holders
  <2> QED BY <1>8, <2>1, SnapFacts DEF RedisReturns, FreeLock, NoLock
<1> QED BY <1>1, <1>2, <1>3, <1>4, <1>5, <1>6, <1>7, <1>8 DEF Next

-----------------------------------------------------------------------------
(* Frames *)

\* A race marks snapshots and touches nothing else.
LEMMA RaceFacts ==
  ASSUME NEW r \in [Thread -> Request], NEW u \in Thread
  PROVE  /\ Race(r)[u].pc = r[u].pc /\ Race(r)[u].plan = r[u].plan /\ Race(r)[u].next = r[u].next
         /\ Race(r)[u].wrote = r[u].wrote /\ Race(r)[u].need = r[u].need
         /\ At(u, "keep") \/ At(u, "set") => Race(r)[u].snap.raced
         /\ ~(At(u, "keep") \/ At(u, "set")) => Race(r)[u] = r[u]
BY DEF Race, Request, Snapshot

\* A step leaves its thread's notes alone, or ends or begins a request.
SameNotes(t) == req'[t].wrote = req[t].wrote /\ req'[t].need = req[t].need
Ended(t)     == req'[t].pc = "idle" /\ req'[t].wrote = 0 /\ req'[t].need = 0
ReadsBack(t) == req'[t].pc = "get" /\ req'[t].wrote = 0 /\ req'[t].need = dropped

\* What a step may do to its own request, field by field.
LEMMA OwnMoves ==
  ASSUME TypeOK, NEW t \in Thread
  PROVE  /\ \A p : Move(t, p) => /\ req'[t].pc = p /\ SameNotes(t) /\ req'[t].plan = req[t].plan
                                /\ req'[t].snap = req[t].snap /\ req'[t].next = req[t].next
         /\ \A p, q : Go(t, p, q) => /\ req'[t].pc = p /\ req'[t].plan = q /\ SameNotes(t)
                                    /\ req'[t].snap = req[t].snap /\ req'[t].next = req[t].next
         /\ \A s, n : Hold(t, s, n) => /\ req'[t].pc = "keep" /\ req'[t].plan = req[t].plan
                                      /\ SameNotes(t) /\ req'[t].snap = s /\ req'[t].next = n
         /\ \A n : LoadThen(t, n) => /\ req'[t].pc = "load" /\ req'[t].plan = req[t].plan
                                    /\ SameNotes(t) /\ req'[t].snap = req[t].snap /\ req'[t].next = n
         /\ \A p : PutDown(t, p) => /\ req'[t].pc = p /\ req'[t].plan = req[t].plan
                                   /\ SameNotes(t) /\ req'[t].next = "set"
         /\ Done(t) => Ended(t)
         /\ Returned(t) => \/ /\ req'[t].pc = "again" /\ req'[t].plan = req[t].plan
                               /\ req[t].plan # "failed" /\ SameNotes(t)
                            \/ Ended(t)
                            \/ ReadsBack(t)
<1> USE DEF TypeOK, Request, SameNotes, Ended, ReadsBack
<1>1. \A p : Move(t, p) => /\ req'[t].pc = p /\ SameNotes(t) /\ req'[t].plan = req[t].plan
                          /\ req'[t].snap = req[t].snap /\ req'[t].next = req[t].next
  BY DEF Move
<1>2. \A p, q : Go(t, p, q) => /\ req'[t].pc = p /\ req'[t].plan = q /\ SameNotes(t)
                              /\ req'[t].snap = req[t].snap /\ req'[t].next = req[t].next
  BY DEF Go
<1>3. \A s, n : Hold(t, s, n) => /\ req'[t].pc = "keep" /\ req'[t].plan = req[t].plan
                                /\ SameNotes(t) /\ req'[t].snap = s /\ req'[t].next = n
  BY DEF Hold
<1>4. \A n : LoadThen(t, n) => /\ req'[t].pc = "load" /\ req'[t].plan = req[t].plan
                              /\ SameNotes(t) /\ req'[t].snap = req[t].snap /\ req'[t].next = n
  BY DEF LoadThen
<1>5. \A p : PutDown(t, p) => /\ req'[t].pc = p /\ req'[t].plan = req[t].plan
                             /\ SameNotes(t) /\ req'[t].next = "set"
  BY DEF PutDown
<1>6. Done(t) => Ended(t)
  BY DEF Done, NoRequest
<1>7. Returned(t) => \/ /\ req'[t].pc = "again" /\ req'[t].plan = req[t].plan
                        /\ req[t].plan # "failed" /\ SameNotes(t)
                     \/ Ended(t)
                     \/ ReadsBack(t)
  BY <1>5, <1>6 DEF Returned, NoRequest
<1> QED BY <1>1, <1>2, <1>3, <1>4, <1>5, <1>6, <1>7

\* A thread changes the request of another only by a race.
LEMMA OthersStay ==
  ASSUME TypeOK, NEW t \in Thread, StartRead(t) \/ StartWrite(t) \/ Step(t),
         NEW u \in Thread, u # t
  PROVE  /\ req'[u].pc = req[u].pc /\ req'[u].plan = req[u].plan /\ req'[u].next = req[u].next
         /\ req'[u].wrote = req[u].wrote /\ req'[u].need = req[u].need
         /\ At(u, "keep") \/ At(u, "set") =>
               req'[u].snap.raced \/ (req'[u] = req[u] /\ dropped' = dropped)
<1> USE DEF TypeOK
<1>1. CASE Drop(t) /\ Reached(Home[t])
  <2> DEFINE moved == [req EXCEPT ![t].pc = "clear"]
  <2>1. moved \in [Thread -> Request] /\ moved[u] = req[u]
    BY DEF Request, Places
  <2>2. req' = Race(moved)
    BY <1>1 DEF Drop
  <2> QED BY <2>1, <2>2, RaceFacts
<1>2. CASE ~(Drop(t) /\ Reached(Home[t]))
  <2>1. req'[u] = req[u]
    BY <1>2 DEF StartRead, StartWrite, Step, Drop, Clear, Get, Check, Recheck, Look, Acquire, Wait, WaitTimeout,
       Load, LoadFails, Keep, Set, Release, Spin, Unlock, Again, Own, Answer, Returned, Done, Move, Go, Hold,
       LoadThen, PutDown
  <2>2. dropped' = dropped
    BY <1>2 DEF StartRead, StartWrite, Step, Drop, Clear, Get, Check, Recheck, Look, Acquire, Wait, WaitTimeout,
       Load, LoadFails, Keep, Set, Release, Spin, Again, Own, histVars
  <2> QED BY <2>1, <2>2
<1> QED BY <1>1, <1>2

-----------------------------------------------------------------------------
(* Committed *)

LEMMA DropOrder ==
  TypeOK /\ Committed /\ [Next]_vars => dropped <= dropped' /\ dropped' <= db' /\ db <= db'
<1> SUFFICES ASSUME TypeOK, Committed, [Next]_vars
             PROVE  dropped <= dropped' /\ dropped' <= db' /\ db <= db'
  OBVIOUS
<1> USE DEF TypeOK, Committed
<1>1. ASSUME NEW t \in Thread, StartWrite(t)
      PROVE  dropped <= dropped' /\ dropped' <= db' /\ db <= db'
  BY <1>1 DEF StartWrite, histVars
<1>2. ASSUME NEW t \in Thread, Drop(t)
      PROVE  dropped <= dropped' /\ dropped' <= db' /\ db <= db'
  <2>1. req[t].wrote \in Nat
    BY RequestFacts
  <2> QED BY <1>2, <2>1 DEF Drop, Bigger
<1>3. CASE PipeCommit \/ PipeDrop
  BY <1>3 DEF PipeCommit, PipeDrop, histVars
<1>4. CASE UNCHANGED <<db, dropped>>
  BY <1>4
<1> QED
  BY <1>1, <1>2, <1>3, <1>4
  DEF Next, vars, histVars, Step, StartRead, Clear, Get, Check, Recheck, Look, Acquire, Wait, WaitTimeout, Load,
      LoadFails, Keep, Set, Release, Spin, Again, Own, SoftExpire, HardExpire, LockExpire,
      RedisFails, RedisReturns

\* A step leaves its own thread's notes alone, or begins or ends a request.
LEMMA OwnNotes ==
  ASSUME TypeOK, Committed, NEW t \in Thread, StartRead(t) \/ StartWrite(t) \/ Step(t)
  PROVE  /\ req'[t].wrote \in {req[t].wrote, 0} \/ (StartWrite(t) /\ req'[t].wrote = db + 1)
         /\ req'[t].need \in {req[t].need, 0, dropped}
<1> USE DEF TypeOK, Request, NoRequest
<1>1. CASE Drop(t)
  <2> DEFINE moved == [req EXCEPT ![t].pc = "clear"]
  <2>1. moved \in [Thread -> Request] /\ moved[t].wrote = req[t].wrote /\ moved[t].need = req[t].need
    BY DEF Places
  <2>2. req' = Race(moved) \/ req' = moved
    BY <1>1 DEF Drop
  <2> QED BY <2>1, <2>2, RaceFacts
<1>2. CASE StartRead(t) \/ StartWrite(t)
  BY <1>2 DEF StartRead, StartWrite
<1>3. CASE Keep(t) \/ Own(t)
  BY <1>3, OwnMoves DEF Keep, Own, Answer, SameNotes, Ended, ReadsBack
<1>4. CASE Clear(t) \/ Get(t) \/ Check(t) \/ Recheck(t) \/ Acquire(t) \/ Wait(t) \/ WaitTimeout(t) \/ Again(t)
  BY <1>4, OwnMoves DEF Clear, Get, Check, Recheck, Look, Acquire, Wait, WaitTimeout, Again, SameNotes
<1>5. CASE Load(t) \/ LoadFails(t) \/ Set(t)
  BY <1>5, OwnMoves DEF Load, LoadFails, Set, SameNotes, Ended
<1>6. CASE Release(t) \/ Spin(t)
  BY <1>6, OwnMoves DEF Release, Spin, Unlock, SameNotes, Ended, ReadsBack
<1> QED BY <1>1, <1>2, <1>3, <1>4, <1>5, <1>6 DEF Step

LEMMA NextCommitted == TypeOK /\ Committed /\ [Next]_vars => Committed'
<1> SUFFICES ASSUME TypeOK, Committed, [Next]_vars PROVE Committed'
  OBVIOUS
<1>1. dropped <= dropped' /\ dropped' <= db' /\ db <= db' /\ TypeOK'
  BY DropOrder, NextType
<1>2. ASSUME NEW u \in Thread PROVE req'[u].wrote <= db' /\ req'[u].need <= dropped'
  <2>1. /\ req[u].wrote <= db /\ req[u].need <= dropped
        /\ req[u].wrote \in Nat /\ req[u].need \in Nat /\ db \in Nat /\ dropped \in Nat
        /\ db' \in Nat /\ dropped' \in Nat
    BY <1>1, RequestFacts DEF Committed, TypeOK
  <2>2. CASE req'[u].wrote = req[u].wrote /\ req'[u].need = req[u].need
    BY <1>1, <2>1, <2>2
  <2>3. ASSUME NEW t \in Thread, StartRead(t) \/ StartWrite(t) \/ Step(t)
        PROVE  req'[u].wrote <= db' /\ req'[u].need <= dropped'
    <3>1. CASE u # t
      BY <2>2, <2>3, <3>1, OthersStay
    <3>2. CASE u = t
      <4>1. StartWrite(t) => db' = db + 1
        BY DEF StartWrite
      <4> QED BY <1>1, <2>1, <2>3, <3>2, <4>1, OwnNotes
    <3> QED BY <3>1, <3>2
  <2>4. CASE PipeDrop
    <3>1. req' = req \/ req' = Race(req)
      BY <2>4 DEF PipeDrop
    <3> QED BY <2>2, <3>1, RaceFacts DEF TypeOK
  <2>5. CASE UNCHANGED req
    BY <2>2, <2>5
  <2> QED
    BY <2>3, <2>4, <2>5
    DEF Next, vars, PipeCommit, SoftExpire, HardExpire, LockExpire, RedisFails, RedisReturns
<1> QED BY <1>1, <1>2 DEF Committed

-----------------------------------------------------------------------------
(* LockKept *)

\* t works under the lock.
Under(t) == At(t, "recheck") \/ (req[t].next = "set" /\ req[t].pc \in {"load", "keep", "set"})
Guarded(t) == t \in lost \cup Holders

\* A step leaves everybody else guarded, and the lock single.
LEMMA GuardStays ==
  ASSUME TypeOK, LockKept, NEW t \in Thread, StartRead(t) \/ StartWrite(t) \/ Step(t)
  PROVE  /\ \A k, l \in lock' : k = l
         /\ \A u \in Thread \ {t} : Guarded(u) => Guarded(u)'
<1> USE DEF LockKept, Guarded, Holders
<1>1. CASE Acquire(t)
  <2>1. CASE lock' = {<<Home[t], t>>} /\ lost' = lost \ {t} /\ lock = {}
    BY <2>1
  <2>2. CASE UNCHANGED lock /\ lost \subseteq lost'
    BY <2>2
  <2> QED BY <1>1, <2>1, <2>2 DEF Acquire, LockFree, NoLock
<1>2. CASE (Release(t) \/ Spin(t)) /\ Unlock(t)
  BY <1>2 DEF Unlock, NoLock
<1>3. CASE UNCHANGED <<lock, lost>>
  BY <1>3
<1>4. Acquire(t) \/ ((Release(t) \/ Spin(t)) /\ Unlock(t)) \/ UNCHANGED <<lock, lost>>
  BY DEF StartRead, StartWrite, Step, Drop, Clear, Get, Check, Recheck, Look, Wait, WaitTimeout,
         Load, LoadFails, Keep, Set, Release, Spin, Again, Own, redisVars, histVars
<1> QED BY <1>1, <1>2, <1>3, <1>4

\* A thread that works under the lock after its step acquired it, or did before.
LEMMA UnderFrame ==
  ASSUME TypeOK, NEW t \in Thread, StartRead(t) \/ StartWrite(t) \/ Step(t), Under(t)'
  PROVE  \/ Acquire(t) /\ req'[t].pc # "wait"
         \/ Under(t) /\ UNCHANGED <<lock, lost>>
<1> USE DEF TypeOK, Under, At
<1>1. CASE StartRead(t) \/ StartWrite(t)
  BY <1>1 DEF StartRead, StartWrite, Request
<1>2. CASE Drop(t)
  <2> DEFINE moved == [req EXCEPT ![t].pc = "clear"]
  <2>1. moved \in [Thread -> Request] /\ moved[t].pc = "clear"
    BY DEF Request, Places
  <2>2. req' = Race(moved) \/ req' = moved
    BY <1>2 DEF Drop
  <2> QED BY <2>1, <2>2, RaceFacts
<1>3. CASE Clear(t) \/ Get(t) \/ Check(t) \/ Wait(t) \/ WaitTimeout(t) \/ Again(t) \/ Own(t)
  BY <1>3, OwnMoves DEF Clear, Get, Check, Look, Wait, WaitTimeout, Again, Own, Answer, Ended
<1>4. CASE Recheck(t)
  BY <1>4, OwnMoves DEF Recheck, Look, redisVars, histVars
<1>5. CASE Acquire(t)
  BY <1>5, OwnMoves DEF Acquire
<1>6. CASE Load(t) \/ LoadFails(t) \/ Set(t)
  BY <1>6, OwnMoves DEF Load, LoadFails, Set, redisVars, histVars, Ended
<1>7. CASE Keep(t)
  BY <1>7, OwnMoves DEF Keep, Answer, redisVars, Ended, ReadsBack
<1>8. CASE Release(t) \/ Spin(t)
  BY <1>8, OwnMoves DEF Release, Spin, Unlock, Ended, ReadsBack
<1> QED BY <1>1, <1>2, <1>3, <1>4, <1>5, <1>6, <1>7, <1>8 DEF Step

LEMMA NextLockKept == TypeOK /\ LockKept /\ [Next]_vars => LockKept'
<1> SUFFICES ASSUME TypeOK, LockKept, [Next]_vars PROVE LockKept'
  OBVIOUS
<1>1. SUFFICES /\ \A k, l \in lock' : k = l
               /\ \A u \in Thread : Under(u)' => Guarded(u)'
  BY DEF LockKept, Under, Guarded, Rebuilding, At
<1>2. \A u \in Thread : Under(u) => Guarded(u)
  BY DEF LockKept, Under, Guarded, Rebuilding, At
<1>3. ASSUME NEW t \in Thread, StartRead(t) \/ StartWrite(t) \/ Step(t)
      PROVE  /\ \A k, l \in lock' : k = l
             /\ \A u \in Thread : Under(u)' => Guarded(u)'
  <2>1. \A k, l \in lock' : k = l
    BY <1>3, GuardStays
  <2>2. ASSUME NEW u \in Thread, u # t, Under(u)' PROVE Guarded(u)'
    BY <1>2, <1>3, <2>2, GuardStays, OthersStay DEF Under, At
  <2>3. ASSUME Under(t)' PROVE Guarded(t)'
    <3>1. CASE Acquire(t) /\ req'[t].pc # "wait"
      <4>1. lock' = {<<Home[t], t>>} \/ t \in lost'
        BY <3>1, OwnMoves DEF Acquire
      <4>2. <<Home[t], t>>[2] = t
        OBVIOUS
      <4> QED BY <4>1, <4>2 DEF Guarded, Holders
    <3>2. CASE Under(t) /\ UNCHANGED <<lock, lost>>
      BY <1>2, <3>2 DEF Guarded, Holders
    <3> QED BY <1>3, <2>3, <3>1, <3>2, UnderFrame
  <2> QED BY <2>1, <2>2, <2>3
<1>4. CASE PipeDrop
  <2>1. \A u \in Thread : Under(u)' => Under(u)
    BY <1>4, RaceFacts DEF PipeDrop, Under, At, TypeOK
  <2>2. (lock' = {} /\ lost' = lost \cup Holders) \/ UNCHANGED <<lock, lost>>
    BY <1>4 DEF PipeDrop, FreeLock, NoLock
  <2> QED BY <1>2, <2>1, <2>2 DEF Guarded, Holders, LockKept
<1>5. CASE UNCHANGED req /\ ((lock' = {} /\ lost' = lost \cup Holders) \/ UNCHANGED <<lock, lost>>)
  BY <1>2, <1>5 DEF Guarded, Holders, Under, At, LockKept
<1> QED
  BY <1>3, <1>4, <1>5
  DEF Next, vars, redisVars, histVars, PipeCommit, SoftExpire, HardExpire, LockExpire, FreeLock, NoLock,
      RedisFails, RedisReturns

LEMMA LockExcludes == LockKept => OneRebuilds
<1> SUFFICES ASSUME LockKept, NEW t \in Rebuilding, NEW u \in Rebuilding, t # u,
                    t \notin lost, u \notin lost
             PROVE  FALSE
  BY DEF OneRebuilds
<1>1. t \in Holders /\ u \in Holders
  BY DEF LockKept, Rebuilding
<1>2. PICK k \in lock, l \in lock : k[2] = t /\ l[2] = u
  BY <1>1 DEF Holders
<1> QED BY <1>2 DEF LockKept

-----------------------------------------------------------------------------
(* InHand, OwnCopy, OnlyRacedIsStale *)

LEMMA SeenCurrent ==
  ASSUME OnlyRacedIsStale, TypeOK, NEW i, Seen(i) # NoSnap
  PROVE  Seen(i) = redis /\ Current(Seen(i))
BY DEF OnlyRacedIsStale, Seen, Current

LEMMA NextRedis ==
  ASSUME TypeOK, InHand, OnlyRacedIsStale, [Next]_vars
  PROVE  redis' # NoSnap => Current(redis)'
<1> USE DEF OnlyRacedIsStale, Current
<1>1. ASSUME NEW t \in Thread, Set(t) PROVE redis' # NoSnap => Current(redis)'
  BY <1>1 DEF Set, InHand, histVars
<1>2. CASE redis' = NoSnap
  BY <1>2
<1>3. CASE SoftExpire
  BY <1>3 DEF SoftExpire, histVars, TypeOK, Snapshot
<1>4. CASE UNCHANGED <<redis, dropped>>
  BY <1>4
<1> QED
  BY <1>1, <1>2, <1>3, <1>4
  DEF Next, vars, redisVars, histVars, Step, StartRead, StartWrite, Drop, KeyDeleted, Clear, Get, Check, Recheck,
      Look, Acquire, Wait, WaitTimeout, Load, LoadFails, Keep, Release, Spin, Again, Own, PipeCommit, PipeDrop,
      HardExpire, LockExpire, RedisFails, RedisReturns

\* A step puts into its own hands only what is current.
LEMMA OwnHand ==
  ASSUME TypeOK, Committed, InHand, OnlyRacedIsStale, NEW t \in Thread,
         StartRead(t) \/ StartWrite(t) \/ Step(t), req'[t].pc \in {"keep", "set"}
  PROVE  Current(req[t].snap)' /\ dropped' = dropped
<1> USE DEF TypeOK, Current, At
<1>1. CASE Load(t)
  BY <1>1, OwnMoves DEF Load, Committed, histVars
<1>2. CASE Keep(t)
  BY <1>2, OwnMoves DEF Keep, Answer, InHand, Ended, ReadsBack
<1>3. CASE StartRead(t) \/ StartWrite(t)
  BY <1>3 DEF StartRead, StartWrite, Request
<1>4. CASE Drop(t)
  <2> DEFINE moved == [req EXCEPT ![t].pc = "clear"]
  <2>1. moved \in [Thread -> Request] /\ moved[t].pc = "clear"
    BY DEF Request, Places
  <2>2. req' = Race(moved) \/ req' = moved
    BY <1>4 DEF Drop
  <2> QED BY <2>1, <2>2, RaceFacts
<1>5. CASE Get(t) \/ Wait(t) \/ Again(t) \/ Check(t) \/ Recheck(t)
  BY <1>5, OwnMoves, SeenCurrent DEF Get, Wait, Again, Check, Recheck, Look, histVars
<1>6. CASE Clear(t) \/ WaitTimeout(t) \/ Acquire(t) \/ LoadFails(t) \/ Set(t) \/ Own(t)
  BY <1>6, OwnMoves DEF Clear, WaitTimeout, Acquire, LoadFails, Set, Own, Answer, Ended
<1>7. CASE Release(t) \/ Spin(t)
  BY <1>7, OwnMoves DEF Release, Spin, Unlock, Ended, ReadsBack
<1> QED BY <1>1, <1>2, <1>3, <1>4, <1>5, <1>6, <1>7 DEF Step

LEMMA NextInHand == TypeOK /\ Committed /\ InHand /\ OnlyRacedIsStale /\ [Next]_vars => InHand'
<1> SUFFICES ASSUME TypeOK, Committed, InHand, OnlyRacedIsStale, [Next]_vars,
                    NEW u \in Thread, req'[u].pc \in {"keep", "set"}
             PROVE  Current(req[u].snap)'
  BY DEF InHand, At
<1>1. ASSUME NEW t \in Thread, StartRead(t) \/ StartWrite(t) \/ Step(t)
      PROVE  Current(req[u].snap)'
  <2>1. CASE u = t
    BY <1>1, <2>1, OwnHand DEF At
  <2>2. CASE u # t
    BY <1>1, <2>2, OthersStay DEF InHand, At, Current
  <2> QED BY <2>1, <2>2
<1>2. CASE PipeDrop
  BY <1>2, RaceFacts DEF PipeDrop, InHand, At, Current, TypeOK
<1>3. CASE UNCHANGED <<req, dropped>>
  BY <1>3 DEF InHand, At, Current
<1> QED
  BY <1>1, <1>2, <1>3
  DEF Next, vars, histVars, PipeCommit, SoftExpire, HardExpire, LockExpire, RedisFails, RedisReturns

\* What a step stores in an instance is nothing, or current.
LEMMA LocalWrites ==
  ASSUME TypeOK, InHand, [Next]_vars, NEW i \in Instance
  PROVE  local'[i] \in {local[i], NoSnap} \/ (Current(local'[i]) /\ dropped' = dropped)
<1> USE DEF TypeOK, At
<1>1. ASSUME NEW t \in Thread, Clear(t)
      PROVE  local'[i] \in {local[i], NoSnap}
  BY <1>1 DEF Clear
<1>2. ASSUME NEW t \in Thread, Keep(t)
      PROVE  local'[i] = local[i] \/ (Current(local'[i]) /\ dropped' = dropped)
  BY <1>2 DEF Keep, InHand
<1>3. CASE UNCHANGED local
  BY <1>3
<1> QED
  BY <1>1, <1>2, <1>3
  DEF Next, vars, procVars, Step, StartRead, StartWrite, Drop, Get, Check, Recheck, Look, Acquire, Wait,
      WaitTimeout, Load, LoadFails, Set, Release, Spin, Again, Own, PipeCommit, PipeDrop, SoftExpire,
      HardExpire, LockExpire, RedisFails, RedisReturns

\* After its own step a rebuilt request still has a copy that is new enough.
LEMMA OwnRebuilt ==
  ASSUME TypeOK, Committed, InHand, OwnCopy, OnlyRacedIsStale,
         NEW t \in Thread, StartRead(t) \/ StartWrite(t) \/ Step(t), Rebuilt(t)'
  PROVE  Enough(t, local[Home[t]])'
<1> USE DEF TypeOK, At, Rebuilt
<1>1. ASSUME req'[t].need = req[t].need, dropped' = dropped, Current(local'[Home[t]])
      PROVE  Enough(t, local[Home[t]])'
  <2>1. Home[t] \in Instance
    BY CacheAssumption
  <2>2. req[t].need \in Nat /\ req[t].need <= dropped
    BY RequestFacts DEF Committed
  <2>3. CASE local'[Home[t]].raced
    BY <2>3 DEF Enough
  <2>4. CASE local'[Home[t]].ver >= dropped
    <3>1. local'[Home[t]] \in Snapshot
      BY <2>1, StepType
    <3>2. local'[Home[t]].ver \in Nat
      BY <3>1, SnapFacts
    <3>3. local'[Home[t]].ver >= req'[t].need
      BY <1>1, <2>2, <2>4, <3>2
    <3> QED BY <3>3 DEF Enough
  <2> QED BY <1>1, <2>3, <2>4 DEF Current
<1>2. ASSUME req'[t].need = req[t].need, UNCHANGED local, Rebuilt(t)
      PROVE  Enough(t, local[Home[t]])'
  BY <1>2 DEF OwnCopy, Enough
<1>3. CASE StartRead(t) \/ StartWrite(t)
  BY <1>3 DEF StartRead, StartWrite, Request
<1>4. CASE Drop(t)
  <2> DEFINE moved == [req EXCEPT ![t].pc = "clear"]
  <2>1. moved \in [Thread -> Request] /\ moved[t].pc = "clear"
    BY DEF Request, Places
  <2>2. req' = Race(moved) \/ req' = moved
    BY <1>4 DEF Drop
  <2> QED BY <2>1, <2>2, RaceFacts
<1>5. CASE Clear(t) \/ Get(t) \/ Acquire(t) \/ Wait(t) \/ WaitTimeout(t) \/ Load(t) \/ LoadFails(t) \/ Own(t)
  BY <1>5, OwnMoves DEF Clear, Get, Acquire, Wait, WaitTimeout, Load, LoadFails, Own, Answer, Ended
<1>6. CASE Check(t) \/ Recheck(t)
  BY <1>6, OwnMoves DEF Check, Recheck, Look
<1>7. CASE Keep(t)
  <2>1. local'[Home[t]] = req[t].snap /\ dropped' = dropped
    BY <1>7, CacheAssumption DEF Keep
  <2>2. req'[t].need = req[t].need
    BY <1>7, OwnMoves DEF Keep, Answer, SameNotes, Ended, ReadsBack
  <2> QED BY <1>1, <1>7, <2>1, <2>2 DEF Keep, InHand, Current
<1>8. CASE Set(t) \/ Again(t)
  <2>1. req'[t].need = req[t].need /\ UNCHANGED local
    BY <1>8, OwnMoves DEF Set, Again, SameNotes
  <2> QED BY <1>2, <1>8, <2>1 DEF Set, Again
<1>9. CASE Release(t) \/ Spin(t)
  <2>1. UNCHANGED local
    BY <1>9 DEF Release, Spin, procVars
  <2>2. req'[t].need = req[t].need /\ Rebuilt(t)
    BY <1>9, OwnMoves DEF Release, Spin, Unlock, SameNotes, Ended, ReadsBack
  <2> QED BY <1>2, <2>1, <2>2
<1> QED BY <1>3, <1>4, <1>5, <1>6, <1>7, <1>8, <1>9 DEF Step

\* What was enough for a request stays enough, whatever others store.
LEMMA EnoughStays ==
  ASSUME TypeOK, TypeOK', Committed, InHand, OwnCopy, OnlyRacedIsStale, [Next]_vars,
         NEW u \in Thread, Rebuilt(u), req'[u].need = req[u].need
  PROVE  Enough(u, local[Home[u]])'
<1>1. Home[u] \in Instance
  BY CacheAssumption
<1>2. CASE local'[Home[u]] \in {local[Home[u]], NoSnap}
  BY <1>2 DEF OwnCopy, Enough
<1>3. CASE Current(local'[Home[u]])
  <2>1. local'[Home[u]].ver \in Nat /\ req[u].need \in Nat /\ req[u].need <= dropped
    BY <1>1, SnapFacts, RequestFacts DEF TypeOK, Committed
  <2>2. dropped \in Nat
    BY DEF TypeOK
  <2> QED BY <1>3, <2>1, <2>2 DEF Current, Enough
<1> QED BY <1>1, <1>2, <1>3, LocalWrites

LEMMA NextOwnCopy ==
  TypeOK /\ Committed /\ InHand /\ OwnCopy /\ OnlyRacedIsStale /\ [Next]_vars => OwnCopy'
<1> SUFFICES ASSUME TypeOK, Committed, InHand, OwnCopy, OnlyRacedIsStale, [Next]_vars,
                    NEW u \in Thread, Rebuilt(u)'
             PROVE  Enough(u, local[Home[u]])'
  BY DEF OwnCopy, Enough
<1>1. TypeOK'
  BY NextType
<1>2. ASSUME NEW t \in Thread, StartRead(t) \/ StartWrite(t) \/ Step(t)
      PROVE  Enough(u, local[Home[u]])'
  <2>1. CASE u = t
    BY <1>2, <2>1, OwnRebuilt
  <2>2. CASE u # t
    <3>1. Rebuilt(u) /\ req'[u].need = req[u].need
      BY <1>2, <2>2, OthersStay DEF Rebuilt, At
    <3> QED BY <1>1, <3>1, EnoughStays
  <2> QED BY <2>1, <2>2
<1>3. CASE UNCHANGED req \/ req' = Race(req)
  <2>1. Rebuilt(u) /\ req'[u].need = req[u].need
    BY <1>3, RaceFacts DEF Rebuilt, At, TypeOK
  <2> QED BY <1>1, <2>1, EnoughStays
<1> QED
  BY <1>2, <1>3
  DEF Next, vars, PipeCommit, PipeDrop, SoftExpire, HardExpire, LockExpire, RedisFails, RedisReturns

\* No read misses a write without a race.
LEMMA NextMissed ==
  TypeOK /\ Committed /\ InHand /\ OwnCopy /\ OnlyRacedIsStale /\ [Next]_vars => missed' = {}
<1> SUFFICES ASSUME TypeOK, Committed, InHand, OwnCopy, OnlyRacedIsStale, [Next]_vars
             PROVE  missed' = {}
  OBVIOUS
<1> USE DEF OnlyRacedIsStale
<1>1. ASSUME NEW t \in Thread, NEW s \in Snapshot, Answer(t, s),
             Current(s) \/ (Enough(t, s) /\ s # NoSnap)
      PROVE  missed' = {}
  <2>1. s.ver \in Nat /\ req[t].need \in Nat /\ req[t].need <= dropped /\ dropped \in Nat
    BY SnapFacts, RequestFacts DEF TypeOK, Committed
  <2>2. s.raced \/ ~(s.ver < req[t].need)
    BY <1>1, <2>1 DEF Current, Enough
  <2> QED BY <1>1, <2>2 DEF Answer
<1>2. ASSUME NEW t \in Thread, Keep(t) PROVE missed' = {}
  <2>1. req[t].snap \in Snapshot
    BY RequestFacts DEF TypeOK
  <2>2. Current(req[t].snap)
    BY <1>2 DEF Keep, InHand
  <2> QED BY <1>1, <1>2, <2>1, <2>2 DEF Keep
<1>3. ASSUME NEW t \in Thread, Own(t) PROVE missed' = {}
  <2>1. local[Home[t]] \in Snapshot
    BY CacheAssumption DEF TypeOK
  <2>2. Enough(t, local[Home[t]])
    BY <1>3 DEF Own, OwnCopy, Rebuilt
  <2> QED BY <1>1, <1>3, <2>1, <2>2 DEF Own
<1>4. CASE UNCHANGED missed
  BY <1>4
<1> QED
  BY <1>2, <1>3, <1>4
  DEF Next, vars, histVars, Step, StartRead, StartWrite, Drop, Clear, Get, Check, Recheck, Look, Acquire, Wait,
      WaitTimeout, Load, LoadFails, Set, Release, Spin, Again, PipeCommit, PipeDrop, SoftExpire, HardExpire,
      LockExpire, RedisFails, RedisReturns

-----------------------------------------------------------------------------
LEMMA InitIInv == Init => IInv
<1> SUFFICES ASSUME Init PROVE IInv
  OBVIOUS
<1> USE DEF Init
<1>1. TypeOK
  BY SnapFacts, RequestFacts, CacheAssumption DEF TypeOK, NoLock
<1>2. Committed /\ InHand /\ OnlyRacedIsStale
  BY DEF Committed, InHand, OnlyRacedIsStale, NoRequest, At
<1>3. LockKept /\ OwnCopy
  BY DEF LockKept, OwnCopy, Rebuilt, Rebuilding, NoRequest, At, NoLock
<1> QED BY <1>1, <1>2, <1>3 DEF IInv

LEMMA NextIInv == IInv /\ [Next]_vars => IInv'
<1> SUFFICES ASSUME IInv, [Next]_vars PROVE IInv'
  OBVIOUS
<1>1. TypeOK' /\ Committed' /\ LockKept'
  BY NextType, NextCommitted, NextLockKept DEF IInv
<1>2. InHand' /\ OwnCopy'
  BY NextInHand, NextOwnCopy DEF IInv
<1>3. OnlyRacedIsStale'
  BY NextRedis, NextMissed DEF IInv, OnlyRacedIsStale, Current
<1> QED BY <1>1, <1>2, <1>3 DEF IInv

\* The inductive invariant of the read cache holds for any number of instances,
\* threads and requests, whatever expires and however often Redis fails.
THEOREM CacheInvariant == Spec => []IInv
<1> QED BY InitIInv, NextIInv, PTL DEF Spec

\* Every variable of the cache keeps its type.
THEOREM CacheTypes == Spec => []TypeOK
<1>1. IInv => TypeOK
  BY DEF IInv
<1> QED BY <1>1, CacheInvariant, PTL

\* A read that began after an invalidation is stale only through a snapshot that
\* was loaded before an invalidation and stored after it, or, in the process's
\* own copy, read from Redis before it and assigned after it (refresh,
\* _ensure_fresh, invalidate).
THEOREM StaleOnlyByRace == Spec => []OnlyRacedIsStale
<1>1. IInv => OnlyRacedIsStale
  BY DEF IInv
<1> QED BY <1>1, CacheInvariant, PTL

\* Two threads rebuild at once only after one lost the lock it had, or gave
\* Redis up (_acquire_lock, _release_lock).
THEOREM RebuildsExclude == Spec => []OneRebuilds
<1>1. IInv => OneRebuilds
  BY LockExcludes DEF IInv
<1> QED BY <1>1, CacheInvariant, PTL
=============================================================================
