---------------------------- MODULE IngressProofs ----------------------------
(* Theorems about Ingress, for every set of lines, keys and notifications,    *)
(* every limit and lookback, and any number of faults.                        *)
EXTENDS Ingress, TLAPS

-----------------------------------------------------------------------------
(* Types *)

FaultType == faults \in 0..MaxFaults

LEMMA Sets ==
  /\ Line \subseteq Item /\ Alert \subseteq Item /\ Line \cap Alert = {}
  /\ \A n \in Notification : AlertsOf[n] \subseteq Alert
  /\ MaxTime \in Nat /\ MaxFaults \in Nat /\ Lookback \in Nat
BY IngressAssumption DEF Item, Alert

LEMMA ExcuseType ==
  ASSUME why \in [Line -> SUBSET Cause], NEW S, NEW c \in Cause, Excuse(S, c)
  PROVE  /\ why' \in [Line -> SUBSET Cause]
         /\ \A l \in Line : why[l] \subseteq why'[l]
         /\ \A l \in Line \cap S : why'[l] # {}
BY DEF Excuse

LEMMA FaultStep ==
  ASSUME FaultType, Fault
  PROVE  FaultType'
BY Sets DEF FaultType, Fault

LEMMA InitTypes == Init => TypeOK
<1> SUFFICES ASSUME Init PROVE TypeOK
  OBVIOUS
<1>1. LineType
  BY Sets, IngressAssumption DEF Init, LineType, Times, Place, Never
<1>2. ItemType
  BY Sets DEF Init, ItemType
<1> QED BY <1>1, <1>2, Sets DEF TypeOK, Init

\* What a poll writes.
LEMMA LineTypeStep ==
  ASSUME TypeOK, Next
  PROVE  LineType'
<1> USE DEF Times, Place, Never
<1> LineType
  BY DEF TypeOK
<1>1. CASE Tick
  BY <1>1, Sets DEF Tick, LineType, lokiVars, pollVars, lineHist
<1>2. CASE QueryFails
  BY <1>2, Sets DEF QueryFails, LineType, CursorStays, lokiVars, lineHist
<1>3. CASE PollStart
  <2>1. why' \in [Line -> SUBSET Cause]
    BY <1>3, ExcuseType DEF PollStart, LineType, Cause
  <2>2. from' \in Int
    BY <1>3, Sets DEF PollStart, WindowStart, LineType
  <2> QED BY <1>3, <2>1, <2>2 DEF PollStart, LineType, lokiVars
<1>4. CASE QueryAnswers
  <2>1. why' \in [Line -> SUBSET Cause]
    BY <1>4, ExcuseType DEF QueryAnswers, LineType, Cause
  <2>2. page' \subseteq Line
    BY <1>4 DEF QueryAnswers, Pages, Window, Stored
  <2> QED BY <1>4, <2>1, <2>2 DEF QueryAnswers, LineType, lokiVars
<1>5. CASE PollEnd
  BY <1>5 DEF PollEnd, LineType, lokiVars, lineHist
<1>6. ASSUME NEW l \in Line, SkipLine(l) PROVE LineType'
  <2>1. why' \in [Line -> SUBSET Cause]
    BY <1>6, ExcuseType DEF SkipLine, LineType, Cause
  <2> QED BY <1>6, <2>1 DEF SkipLine, LineType, lokiVars
<1>7. ASSUME NEW l \in Line, EmitLine(l) PROVE LineType'
  <2>1. why' \in [Line -> SUBSET Cause]
    BY <1>7, ExcuseType DEF EmitLine, LineType, Cause
  <2>2. seen' \subseteq Key
    BY <1>7 DEF EmitLine, LineType, Remembered, DedupeKey
  <2>3. forgotten' \subseteq Line
    BY <1>7 DEF EmitLine, LineType
  <2> QED BY <1>7, <2>1, <2>2, <2>3 DEF EmitLine, LineType, lokiVars
<1>8. CASE Crash
  BY <1>8, Sets DEF Crash, LineType, lokiVars
<1>9. CASE Restart
  BY <1>9 DEF Restart, LineType, lokiVars, lineHist
<1>10. ASSUME NEW l \in Line, Arrive(l) PROVE LineType'
  <2>1. why' \in [Line -> SUBSET Cause]
    BY <1>10, ExcuseType DEF Arrive, LineType, Cause
  <2> QED BY <1>10, <2>1 DEF Arrive, LineType, pollVars
<1>11. ASSUME NEW n \in Notification, Post(n) \/ HookStep(n) PROVE LineType'
  BY <1>11 DEF Post, HookStep, Answer, EmitAlert, LineType, lokiVars, pollVars, lineHist
<1>12. ASSUME NEW x \in Item, Deliver(x) \/ Expire(x) PROVE LineType'
  BY <1>12 DEF Deliver, Expire, LineType, lokiVars, pollVars, lineHist
<1> QED
  BY <1>1, <1>2, <1>3, <1>4, <1>5, <1>6, <1>7, <1>8, <1>9, <1>10, <1>11, <1>12
  DEF Next, PollStep

\* What reaches the producer and Kafka.
LEMMA PublishType ==
  ASSUME ItemType, NEW x \in Item, Publish(x)
  PROVE  /\ queue' \in [Item -> Nat]
         /\ queue'[x] = queue[x] + 1
         /\ \A y \in Item : y # x => queue'[y] = queue[y]
BY DEF ItemType, Publish

LEMMA ItemTypeStep ==
  ASSUME TypeOK, Next
  PROVE  ItemType' /\ FaultType'
<1> ItemType /\ FaultType
  BY DEF TypeOK, FaultType
<1>1. CASE Tick \/ PollStart \/ QueryAnswers \/ PollEnd \/ Restart
  BY <1>1 DEF Tick, PollStart, QueryAnswers, PollEnd, Restart, ItemType, FaultType, hookVars, itemHist
<1>2. CASE QueryFails
  BY <1>2, FaultStep DEF QueryFails, ItemType, hookVars, itemHist
<1>3. ASSUME NEW l \in Line, Arrive(l) \/ SkipLine(l) PROVE ItemType' /\ FaultType'
  BY <1>3 DEF Arrive, SkipLine, ItemType, FaultType, hookVars, itemHist
<1>4. ASSUME NEW l \in Line, EmitLine(l) PROVE ItemType' /\ FaultType'
  <2>1. queue' \in [Item -> Nat]
    BY <1>4, Sets, PublishType DEF EmitLine, QueueFull, ItemType
  <2>2. FaultType'
    BY <1>4, FaultStep DEF EmitLine, QueueFull, FaultType
  <2> QED BY <1>4, <2>1, <2>2 DEF EmitLine, ItemType, hookVars, itemHist
<1>5. CASE Crash
  <2>1. /\ req' \in [Notification -> {"new", "emit", "ok", "refused"}]
        /\ todo' \in [Notification -> SUBSET Alert]
        /\ \A n \in Notification : todo'[n] \subseteq AlertsOf[n]
    BY <1>5 DEF Crash, ItemType
  <2>2. lost' \subseteq Item
    BY <1>5 DEF Crash, ItemType, Queued
  <2> QED BY <1>5, <2>1, <2>2, FaultStep DEF Crash, ItemType
<1>6. ASSUME NEW n \in Notification, Post(n) PROVE ItemType' /\ FaultType'
  <2>1. /\ req' \in [Notification -> {"new", "emit", "ok", "refused"}]
        /\ todo' \in [Notification -> SUBSET Alert]
        /\ \A m \in Notification : todo'[m] \subseteq AlertsOf[m]
    BY <1>6, Sets DEF Post, ItemType
  <2>2. again' \subseteq Alert
    BY <1>6, Sets DEF Post, ItemType
  <2> QED BY <1>6, <2>1, <2>2 DEF Post, ItemType, FaultType
<1>7. ASSUME NEW n \in Notification, NEW x \in Alert, EmitAlert(n, x) PROVE ItemType' /\ FaultType'
  <2>1. queue' \in [Item -> Nat]
    BY <1>7, Sets, PublishType DEF EmitAlert, QueueFull, ItemType
  <2>2. /\ req' \in [Notification -> {"new", "emit", "ok", "refused"}]
        /\ todo' \in [Notification -> SUBSET Alert]
        /\ \A m \in Notification : todo'[m] \subseteq AlertsOf[m]
    BY <1>7 DEF EmitAlert, ItemType
  <2>3. FaultType'
    BY <1>7, FaultStep DEF EmitAlert, QueueFull, FaultType
  <2> QED BY <1>7, <2>1, <2>2, <2>3 DEF EmitAlert, ItemType, itemHist
<1>8. ASSUME NEW n \in Notification, Answer(n) PROVE ItemType' /\ FaultType'
  <2>1. req' \in [Notification -> {"new", "emit", "ok", "refused"}]
    BY <1>8 DEF Answer, ItemType
  <2>2. unflushed' \subseteq Alert
    BY <1>8, Sets DEF Answer, ItemType
  <2>3. FaultType'
    BY <1>8, FaultStep DEF Answer, FaultType
  <2> QED BY <1>8, <2>1, <2>2, <2>3 DEF Answer, ItemType
<1>9. ASSUME NEW x \in Item, Deliver(x) PROVE ItemType' /\ FaultType'
  BY <1>9 DEF Deliver, ItemType, FaultType, hookVars, itemHist
<1>10. ASSUME NEW x \in Item, Expire(x) PROVE ItemType' /\ FaultType'
  BY <1>10, FaultStep DEF Expire, ItemType, hookVars
<1> QED
  BY <1>1, <1>2, <1>3, <1>4, <1>5, <1>6, <1>7, <1>8, <1>9, <1>10
  DEF Next, PollStep, HookStep

LEMMA TypeStep ==
  ASSUME TypeOK, [Next]_vars
  PROVE  TypeOK'
<1>1. CASE Next
  BY <1>1, LineTypeStep, ItemTypeStep DEF TypeOK, FaultType
<1>2. CASE UNCHANGED vars
  BY <1>2 DEF vars, lokiVars, pollVars, hookVars, lineHist, itemHist,
              TypeOK, LineType, ItemType
<1> QED BY <1>1, <1>2

-----------------------------------------------------------------------------
(* Where an item is *)

\* No step but a publish adds a copy; a copy that goes leaves its reason.
LEMMA CopyKept ==
  ASSUME TypeOK, Next, NEW x \in Item
  PROVE  /\ Copies(x) \in Nat /\ Copies(x)' \in Nat
         /\ topic[x] \in Nat /\ topic'[x] \in Nat /\ topic'[x] >= topic[x]
         /\ Copies(x) > 0 => Copies(x)' > 0 \/ x \in lost' \cup dropped'
         /\ lost \subseteq lost' /\ dropped \subseteq dropped'
<1> ItemType /\ ItemType'
  BY ItemTypeStep DEF TypeOK
<1>0. queue[x] \in Nat /\ topic[x] \in Nat /\ queue'[x] \in Nat /\ topic'[x] \in Nat
  BY DEF ItemType
<1> DEFINE More == /\ queue'[x] >= queue[x] /\ topic' = topic
                   /\ lost' = lost /\ dropped' = dropped
           Goal == /\ topic'[x] >= topic[x]
                   /\ Copies(x) > 0 => Copies(x)' > 0 \/ x \in lost' \cup dropped'
                   /\ lost \subseteq lost' /\ dropped \subseteq dropped'
<1>1. ASSUME UNCHANGED <<queue, topic, lost, dropped>> PROVE More
  BY <1>0, <1>1
<1>2. ASSUME NEW y \in Item, Publish(y), UNCHANGED <<topic, lost, dropped>> PROVE More
  BY <1>0, <1>2 DEF Publish, ItemType
<1>3. ASSUME Tick \/ PollStart \/ QueryFails \/ QueryAnswers \/ PollEnd \/ Restart PROVE More
  BY <1>3, <1>1 DEF Tick, PollStart, QueryFails, QueryAnswers, PollEnd, Restart, itemHist
<1>4. ASSUME NEW l \in Line, Arrive(l) \/ SkipLine(l) PROVE More
  BY <1>4, <1>1 DEF Arrive, SkipLine, itemHist
<1>5. ASSUME NEW l \in Line, EmitLine(l) PROVE More
  <2>1. UNCHANGED <<topic, lost, dropped>>
    BY <1>5 DEF EmitLine, itemHist
  <2>2. Publish(l) \/ UNCHANGED queue
    BY <1>5 DEF EmitLine, QueueFull
  <2> QED BY <2>1, <2>2, <1>1, <1>2, Sets
<1>6. ASSUME Crash PROVE Goal
  BY <1>6, <1>0 DEF Crash, Queued, Copies
<1>7. ASSUME NEW n \in Notification, Post(n) \/ Answer(n) PROVE More
  BY <1>7, <1>1 DEF Post, Answer
<1>8. ASSUME NEW n \in Notification, NEW y \in Alert, EmitAlert(n, y) PROVE More
  <2>1. UNCHANGED <<topic, lost, dropped>>
    BY <1>8 DEF EmitAlert, itemHist
  <2>2. Publish(y) \/ UNCHANGED queue
    BY <1>8 DEF EmitAlert, QueueFull
  <2> QED BY <2>1, <2>2, <1>1, <1>2, Sets
<1>9. ASSUME NEW y \in Item, Deliver(y) PROVE Goal
  <2>1. lost' = lost /\ dropped' = dropped
    BY <1>9 DEF Deliver, itemHist
  <2>2. CASE x = y
    BY <1>0, <1>9, <2>1, <2>2 DEF Deliver, ItemType, Copies
  <2>3. CASE x # y
    BY <1>0, <1>9, <2>1, <2>3 DEF Deliver, ItemType, Copies
  <2> QED BY <2>2, <2>3
<1>10. ASSUME NEW y \in Item, Expire(y) PROVE Goal
  <2>1. topic' = topic /\ lost' = lost /\ dropped' = dropped \cup {y}
    BY <1>10 DEF Expire
  <2>2. x # y => queue'[x] = queue[x]
    BY <1>10 DEF Expire, ItemType
  <2> QED BY <1>0, <2>1, <2>2 DEF Copies
<1>11. More => Goal
  BY <1>0 DEF Copies
<1> HIDE DEF More, Goal
<1>12. Goal
  BY <1>3, <1>4, <1>5, <1>6, <1>7, <1>8, <1>9, <1>10, <1>11 DEF Next, PollStep, HookStep
<1> QED BY <1>0, <1>12 DEF Goal, Copies

LEMMA WhyGrows ==
  ASSUME TypeOK, Next, NEW l \in Line
  PROVE  why[l] \subseteq why'[l]
<1> why \in [Line -> SUBSET Cause]
  BY DEF TypeOK, LineType
<1>1. ASSUME NEW S, NEW c \in Cause, Excuse(S, c) PROVE why[l] \subseteq why'[l]
  BY <1>1, ExcuseType
<1>2. ASSUME Tick \/ QueryFails \/ PollEnd \/ Crash \/ Restart PROVE why' = why
  BY <1>2 DEF Tick, QueryFails, PollEnd, Crash, Restart, lineHist
<1>3. ASSUME PollStart \/ QueryAnswers PROVE why[l] \subseteq why'[l]
  BY <1>3, <1>1 DEF PollStart, QueryAnswers, Cause
<1>4. ASSUME NEW m \in Line, Arrive(m) \/ SkipLine(m) \/ EmitLine(m) PROVE why[l] \subseteq why'[l]
  BY <1>4, <1>1 DEF Arrive, SkipLine, EmitLine, Cause
<1>5. ASSUME NEW n \in Notification, Post(n) \/ Answer(n) \/ (\E x \in Alert : EmitAlert(n, x))
      PROVE  why' = why
  BY <1>5 DEF Post, Answer, EmitAlert, lineHist
<1>6. ASSUME NEW x \in Item, Deliver(x) \/ Expire(x) PROVE why' = why
  BY <1>6 DEF Deliver, Expire, lineHist
<1> QED BY <1>2, <1>3, <1>4, <1>5, <1>6 DEF Next, PollStep, HookStep

LEMMA AccountedKept ==
  ASSUME TypeOK, Next, NEW l \in Line, Accounted(l)
  PROVE  Accounted(l)'
<1> l \in Item
  BY Sets
<1> QED BY CopyKept, WhyGrows DEF Accounted

-----------------------------------------------------------------------------
(* Lines *)

LEMMA ShapeStep ==
  ASSUME TypeOK, PollShape, Next
  PROVE  PollShape'
<1> USE DEF PollShape
<1>1. CASE Tick
  BY <1>1 DEF Tick, pollVars
<1>2. CASE PollStart
  BY <1>2 DEF PollStart, WindowStart
<1>3. CASE QueryFails \/ QueryAnswers \/ PollEnd \/ Crash \/ Restart
  BY <1>3 DEF QueryFails, QueryAnswers, PollEnd, Crash, Restart
<1>4. ASSUME NEW l \in Line, Arrive(l) \/ SkipLine(l) \/ EmitLine(l) PROVE PollShape'
  BY <1>4 DEF Arrive, SkipLine, EmitLine, pollVars
<1>5. ASSUME NEW n \in Notification, Post(n) \/ HookStep(n) PROVE PollShape'
  BY <1>5 DEF Post, HookStep, Answer, EmitAlert, pollVars
<1>6. ASSUME NEW x \in Item, Deliver(x) \/ Expire(x) PROVE PollShape'
  BY <1>6 DEF Deliver, Expire, pollVars
<1> QED BY <1>1, <1>2, <1>3, <1>4, <1>5, <1>6 DEF Next, PollStep

\* The line that a poll takes is published, or its failure is noted.
LEMMA EmitAccounts ==
  ASSUME TypeOK, NEW l \in Line, EmitLine(l)
  PROVE  Accounted(l)'
<1> ItemType /\ l \in Item /\ why \in [Line -> SUBSET Cause]
  BY Sets DEF TypeOK, LineType
<1>1. CASE Publish(l)
  BY <1>1, PublishType DEF EmitLine, Accounted, Copies, ItemType
<1>2. CASE Excuse({l}, "failed")
  BY <1>2, ExcuseType DEF Accounted, Cause
<1> QED BY <1>1, <1>2 DEF EmitLine

LEMMA TakenStep ==
  ASSUME TypeOK, TakenIsKept, Next
  PROVE  TakenIsKept'
<1>1. ASSUME NEW l \in Line, EmitLine(l) PROVE taken' = taken \cup {l} /\ Accounted(l)'
  BY <1>1, EmitAccounts DEF EmitLine
<1>2. taken' = taken \/ \E l \in Line : EmitLine(l)
  BY DEF Next, PollStep, HookStep, Tick, PollStart, QueryFails, QueryAnswers, PollEnd, Crash, Restart,
         Arrive, SkipLine, Post, Answer, EmitAlert, Deliver, Expire, lineHist
<1>3. taken \subseteq Line
  BY DEF TypeOK, LineType
<1> QED BY <1>1, <1>2, <1>3, AccountedKept DEF TakenIsKept

\* A stored line that no later window covers.
Past(l) == stamp[l] # Never /\ Behind(stamp[l])

LEMMA BehindStep ==
  ASSUME TypeOK, PollShape, TakenIsKept, BehindIsKept, Next
  PROVE  BehindIsKept'
<1> SUFFICES ASSUME NEW l \in Line, Past(l)', ~ Accounted(l)'
             PROVE  l \in page'
  BY DEF BehindIsKept, Stored, Past
<1> stamp \in [Line -> Times \cup {Never}] /\ why \in [Line -> SUBSET Cause]
  BY DEF TypeOK, LineType
<1>0. ~ Accounted(l) /\ (Past(l) => l \in page)
  BY AccountedKept DEF BehindIsKept, Stored, Past
<1> DEFINE Same == UNCHANGED <<lokiVars, pollVars>>
<1>1. ASSUME Same PROVE l \in page'
  BY <1>0, <1>1 DEF lokiVars, pollVars, Past, Behind
<1>2. CASE Tick \/ (\E n \in Notification : Post(n) \/ HookStep(n)) \/ (\E x \in Item : Deliver(x) \/ Expire(x))
  BY <1>1, <1>2 DEF Tick, Post, HookStep, Answer, EmitAlert, Deliver, Expire
<1>3. CASE PollStart
  <2>1. cursor = Never => why'[l] # {}
    BY <1>3, ExcuseType DEF PollStart, Excuse, Past, Behind, Stored, lokiVars, Cause
  <2> QED BY <1>0, <1>3, <2>1 DEF PollStart, WindowStart, Past, Behind, lokiVars, Accounted, PollShape
<1>4. CASE QueryFails
  BY <1>0, <1>4 DEF QueryFails, CursorStays, Past, Behind, lokiVars, PollShape
<1>5. CASE QueryAnswers
  <2>1. l \in Window \ page' => why'[l] # {}
    BY <1>5, ExcuseType DEF QueryAnswers, Excuse, Cause
  <2>2. stamp[l] # Never /\ stamp[l] < upto
    BY <1>5 DEF QueryAnswers, Past, Behind, lokiVars, TypeOK, LineType, Times, Never
  <2>3. CASE stamp[l] < from
    BY <1>0, <1>5, <2>3 DEF QueryAnswers, Past, Behind, lokiVars, PollShape
  <2>4. CASE ~ (stamp[l] < from)
    <3>1. l \in Window
      BY <1>5, <2>2, <2>4 DEF Window, Stored, QueryAnswers, lokiVars, TypeOK, LineType, Times, Never
    <3> QED BY <2>1, <3>1 DEF Accounted
  <2> QED BY <2>3, <2>4
<1>6. CASE PollEnd
  BY <1>0, <1>6 DEF PollEnd, Past, Behind, lokiVars
<1>7. ASSUME NEW m \in Line, SkipLine(m) PROVE l \in page'
  <2>1. m = l => l \in taken \/ why'[l] # {}
    BY <1>7, ExcuseType DEF SkipLine, Cause
  <2>2. m # l
    BY <1>0, <2>1 DEF TakenIsKept, Accounted
  <2> QED BY <1>0, <1>7, <2>2 DEF SkipLine, Past, Behind, lokiVars
<1>8. ASSUME NEW m \in Line, EmitLine(m) PROVE l \in page'
  <2>1. m # l
    BY <1>8, EmitAccounts
  <2> QED BY <1>0, <1>8, <2>1 DEF EmitLine, Past, Behind, lokiVars
<1>9. CASE Crash \/ Restart
  BY <1>9 DEF Crash, Restart, Past, Behind, PollShape
<1>10. ASSUME NEW m \in Line, Arrive(m) PROVE l \in page'
  <2>1. CASE m = l
    <3>1. PICK s \in 0..MaxTime : /\ stamp' = [stamp EXCEPT ![l] = s]
                                  /\ IF Behind(s) THEN Excuse({l}, "late") ELSE UNCHANGED why
      BY <1>10, <2>1 DEF Arrive
    <3>2. Behind(s)
      BY <1>10, <3>1 DEF Arrive, Past, Behind, pollVars
    <3> QED BY <3>1, <3>2, ExcuseType DEF Accounted, Cause
  <2>2. CASE m # l
    BY <1>0, <1>10, <2>2 DEF Arrive, Past, Behind, pollVars
  <2> QED BY <2>1, <2>2
<1> QED BY <1>2, <1>3, <1>4, <1>5, <1>6, <1>7, <1>8, <1>9, <1>10 DEF Next, PollStep

-----------------------------------------------------------------------------
(* Duplicates *)

\* Only a publish of an item adds a copy of it.
LEMMA CopyAdded ==
  ASSUME TypeOK, Next, NEW x \in Item,
         ~ (x \in Line /\ EmitLine(x) /\ Publish(x)),
         ~ (\E n \in Notification : x \in Alert /\ EmitAlert(n, x) /\ Publish(x))
  PROVE  Copies(x)' <= Copies(x)
<1> ItemType /\ ItemType'
  BY ItemTypeStep DEF TypeOK
<1>0. queue[x] \in Nat /\ topic[x] \in Nat /\ queue'[x] \in Nat /\ topic'[x] \in Nat
  BY DEF ItemType
<1> DEFINE Kept == queue'[x] = queue[x] /\ topic' = topic
           Goal == Copies(x)' <= Copies(x)
<1>1. ASSUME Tick \/ PollStep \/ QueryFails \/ Restart, \A l \in Line : ~ EmitLine(l) PROVE Kept
  BY <1>1 DEF Tick, PollStep, PollStart, QueryFails, QueryAnswers, PollEnd, Restart, SkipLine
<1>2. ASSUME NEW l \in Line, Arrive(l) PROVE Kept
  BY <1>2 DEF Arrive
<1>3. ASSUME NEW l \in Line, EmitLine(l) PROVE Kept
  <2>1. Publish(l) \/ UNCHANGED queue
    BY <1>3 DEF EmitLine, QueueFull
  <2>2. l # x /\ Publish(l) => queue'[x] = queue[x]
    BY PublishType, Sets
  <2> QED BY <1>3, <2>1, <2>2 DEF EmitLine
<1>4. ASSUME Crash PROVE Goal
  BY <1>0, <1>4 DEF Crash, Copies
<1>5. ASSUME NEW n \in Notification, Post(n) \/ Answer(n) PROVE Kept
  BY <1>5 DEF Post, Answer
<1>6. ASSUME NEW n \in Notification, NEW y \in Alert, EmitAlert(n, y) PROVE Kept
  <2>1. Publish(y) \/ UNCHANGED queue
    BY <1>6 DEF EmitAlert, QueueFull
  <2>2. y # x /\ Publish(y) => queue'[x] = queue[x]
    BY PublishType, Sets
  <2> QED BY <1>6, <2>1, <2>2 DEF EmitAlert
<1>7. ASSUME NEW y \in Item, Deliver(y) PROVE Goal
  <2>1. CASE x = y
    BY <1>0, <1>7, <2>1 DEF Deliver, ItemType, Copies
  <2>2. CASE x # y
    BY <1>0, <1>7, <2>2 DEF Deliver, ItemType, Copies
  <2> QED BY <2>1, <2>2
<1>8. ASSUME NEW y \in Item, Expire(y) PROVE Goal
  <2>1. topic' = topic /\ queue'[x] <= queue[x]
    BY <1>0, <1>8 DEF Expire, ItemType
  <2> QED BY <1>0, <2>1 DEF Copies
<1>9. Kept => Goal
  BY <1>0 DEF Copies
<1> HIDE DEF Kept, Goal
<1>10. Goal
  BY <1>1, <1>2, <1>3, <1>4, <1>5, <1>6, <1>7, <1>8, <1>9 DEF Next, PollStep, HookStep
<1> QED BY <1>10 DEF Goal

LEMMA SeenStep ==
  ASSUME TypeOK, SeenOnce, Next
  PROVE  SeenOnce'
<1> SUFFICES ASSUME NEW l \in Line
             PROVE  /\ l \in taken' => DedupeKey(l)' \in seen' \/ l \in forgotten'
                    /\ Copies(l)' > 0 => l \in taken'
                    /\ Copies(l)' > 1 => l \in forgotten'
  BY DEF SeenOnce
<1> l \in Item /\ Copies(l) \in Nat /\ Copies(l)' \in Nat /\ taken \subseteq Line
  BY Sets, CopyKept DEF TypeOK, LineType
<1>0. /\ l \in taken => DedupeKey(l) \in seen \/ l \in forgotten
      /\ Copies(l) > 0 => l \in taken
      /\ Copies(l) > 1 => l \in forgotten
  BY DEF SeenOnce
<1>1. CASE EmitLine(l)
  <2>1. /\ l \in taken' /\ DedupeKey(l) \notin seen
        /\ forgotten \subseteq forgotten' /\ key' = key
    BY <1>1 DEF EmitLine, lokiVars
  <2>2. DedupeKey(l) \in seen' \/ l \in forgotten'
    BY <1>1 DEF EmitLine, Remembered
  <2>3. Copies(l)' <= Copies(l) + 1
    <3>1. topic' = topic /\ (Publish(l) \/ queue' = queue)
      BY <1>1 DEF EmitLine, QueueFull
    <3>2. queue'[l] <= queue[l] + 1 /\ queue[l] \in Nat /\ queue'[l] \in Nat /\ topic[l] \in Nat
      BY <3>1, PublishType, ItemTypeStep DEF TypeOK, ItemType
    <3> QED BY <3>1, <3>2 DEF Copies
  <2>4. Copies(l)' > 1 => l \in forgotten
    BY <1>0, <2>1, <2>3
  <2> QED BY <2>1, <2>2, <2>4 DEF DedupeKey
<1>2. CASE ~ EmitLine(l)
  <2>1. Copies(l)' <= Copies(l)
    BY <1>2, CopyAdded, Sets
  <2>2. /\ l \in taken' <=> l \in taken
        /\ forgotten \subseteq forgotten' /\ key' = key
        /\ DedupeKey(l) \in seen /\ l \in taken => DedupeKey(l) \in seen' \/ l \in forgotten'
    <3>1. ASSUME NEW m \in Line, EmitLine(m), m # l
          PROVE  /\ taken' = taken \cup {m} /\ key' = key /\ forgotten \subseteq forgotten'
                 /\ DedupeKey(l) \in seen /\ l \in taken => DedupeKey(l) \in seen' \/ l \in forgotten'
      BY <3>1 DEF EmitLine, Remembered, lokiVars
    <3>2. ASSUME Crash
          PROVE  taken' = taken /\ key' = key /\ forgotten' = forgotten \cup taken
      BY <3>2 DEF Crash, lokiVars
    <3>3. ASSUME \A m \in Line : ~ EmitLine(m), ~ Crash
          PROVE  taken' = taken /\ forgotten' = forgotten /\ key' = key /\ seen' = seen
      BY <3>3 DEF Next, PollStep, HookStep, Tick, PollStart, QueryFails, QueryAnswers, PollEnd, Restart,
         Arrive, SkipLine, Post, Answer, EmitAlert, Deliver, Expire, lineHist, lokiVars, pollVars
    <3>4. CASE Crash
      BY <3>2, <3>4
    <3>5. CASE \E m \in Line : EmitLine(m)
      BY <1>2, <3>1, <3>5
    <3> QED BY <3>3, <3>4, <3>5
  <2> QED BY <1>0, <2>1, <2>2 DEF DedupeKey
<1> QED BY <1>1, <1>2

LEMMA AlertStep ==
  ASSUME TypeOK, AlertOnce, Next
  PROVE  AlertOnce'
<1> SUFFICES ASSUME NEW n \in Notification, NEW x \in AlertsOf[n]
             PROVE  /\ req'[n] = "new" \/ x \in todo'[n] => Copies(x)' = 0 \/ x \in again'
                    /\ Copies(x)' > 1 => x \in again'
                    /\ req'[n] = "emit" => x \in todo'[n] \/ Copies(x)' > 0 \/ x \in dropped'
  BY DEF AlertOnce
<1> x \in Item /\ x \in Alert /\ Copies(x) \in Nat /\ Copies(x)' \in Nat /\ ItemType
  BY Sets, CopyKept DEF TypeOK
<1>0. /\ req[n] = "new" \/ x \in todo[n] => Copies(x) = 0 \/ x \in again
      /\ Copies(x) > 1 => x \in again
      /\ req[n] = "emit" => x \in todo[n] \/ Copies(x) > 0 \/ x \in dropped
  BY DEF AlertOnce
<1>1. CASE Crash
  <2>1. req'[n] # "emit" /\ (req'[n] = "new" => req[n] = "new") /\ todo'[n] = {} /\ again' = again
    BY <1>1 DEF Crash, ItemType
  <2>2. Copies(x)' <= Copies(x)
    <3>1. queue'[x] = 0 /\ topic' = topic /\ queue[x] \in Nat /\ topic[x] \in Nat
      BY <1>1 DEF Crash, ItemType
    <3> QED BY <3>1 DEF Copies
  <2> QED BY <1>0, <2>1, <2>2
<1>2. CASE \E m \in Notification, y \in Alert : EmitAlert(m, y)
  <2>1. PICK m \in Notification, y \in Alert : EmitAlert(m, y)
    BY <1>2
  <2>2. y \in AlertsOf[m] /\ y \in todo[m] /\ req[m] = "emit" /\ again' = again /\ dropped' = dropped /\ topic' = topic
    BY <2>1 DEF EmitAlert, ItemType, itemHist
  <2>3. CASE m = n
    <3>1. CASE Publish(y) /\ todo' = [todo EXCEPT ![m] = @ \ {y}] /\ UNCHANGED req
      <4>1. todo'[n] = todo[n] \ {y} /\ req' = req
        BY <2>3, <3>1 DEF ItemType
      <4>2. CASE x = y
        <5>1. Copies(x)' = Copies(x) + 1
          BY <2>2, <3>1, <4>2, PublishType DEF Copies, ItemType
        <5> QED BY <1>0, <2>2, <2>3, <4>1, <4>2, <5>1
      <4>3. CASE x # y
        <5>1. Copies(x)' = Copies(x)
          BY <2>2, <3>1, <4>3, PublishType, Sets DEF Copies
        <5> QED BY <1>0, <2>2, <4>1, <4>3, <5>1
      <4> QED BY <4>2, <4>3
    <3>2. CASE queue' = queue /\ todo' = [todo EXCEPT ![m] = {}] /\ req' = [req EXCEPT ![m] = "refused"]
      <4>1. Copies(x)' = Copies(x)
        BY <2>2, <3>2 DEF Copies
      <4> QED BY <1>0, <2>2, <2>3, <3>2, <4>1 DEF ItemType
    <3> QED BY <2>1, <3>1, <3>2 DEF EmitAlert, QueueFull
  <2>4. CASE m # n
    <3>1. x # y
      BY <2>2, <2>4, IngressAssumption
    <3>2. queue'[x] = queue[x]
      BY <2>1, <3>1, PublishType, Sets DEF EmitAlert, QueueFull
    <3>3. Copies(x)' = Copies(x)
      BY <2>2, <3>2 DEF Copies
    <3>4. req'[n] = req[n] /\ todo'[n] = todo[n]
      BY <2>1, <2>4 DEF EmitAlert, ItemType
    <3> QED BY <1>0, <2>2, <3>3, <3>4
  <2> QED BY <2>3, <2>4
<1>3. CASE \E m \in Notification : Post(m)
  <2>1. PICK m \in Notification : Post(m)
    BY <1>3
  <2>2. Copies(x)' = Copies(x) /\ dropped' = dropped /\ again \subseteq again'
    BY <2>1 DEF Post, Copies
  <2>3. CASE m = n
    <3>1. req'[n] = "emit" /\ x \in todo'[n] /\ (req[n] = "new" \/ x \in again')
      BY <2>1, <2>3 DEF Post, ItemType
    <3> QED BY <1>0, <2>2, <3>1
  <2>4. CASE m # n
    <3>1. req'[n] = req[n] /\ todo'[n] = todo[n]
      BY <2>1, <2>4 DEF Post, ItemType
    <3> QED BY <1>0, <2>2, <3>1
  <2> QED BY <2>3, <2>4
<1>4. CASE \E m \in Notification : Answer(m)
  <2>1. PICK m \in Notification : Answer(m)
    BY <1>4
  <2>2. Copies(x)' = Copies(x) /\ dropped' = dropped /\ again' = again /\ todo' = todo
    BY <2>1 DEF Answer, Copies
  <2>3. req'[n] = req[n] \/ req'[n] = "ok"
    BY <2>1 DEF Answer, ItemType
  <2> QED BY <1>0, <2>2, <2>3
<1>5. CASE \E y \in Item : Deliver(y) \/ Expire(y)
  <2>1. PICK y \in Item : Deliver(y) \/ Expire(y)
    BY <1>5
  <2>2. Copies(x)' <= Copies(x)
    <3>1. ~ (x \in Line) /\ \A m \in Notification : ~ (EmitAlert(m, x) /\ Publish(x))
      BY <2>1, Sets DEF EmitAlert, Publish, Deliver, Expire, ItemType
    <3> QED BY <3>1, CopyAdded
  <2>3. Copies(x) > 0 => Copies(x)' > 0 \/ x \in dropped'
    <3>1. lost' = lost /\ dropped \subseteq dropped'
      BY <2>1 DEF Deliver, Expire, itemHist
    <3>2. CASE Deliver(y)
      BY <3>2 DEF Deliver, Copies, ItemType
    <3>3. CASE Expire(y)
      BY <3>3 DEF Expire, Copies, ItemType
    <3> QED BY <2>1, <3>2, <3>3
  <2>4. req' = req /\ todo' = todo /\ again' = again /\ dropped \subseteq dropped'
    BY <2>1 DEF Deliver, Expire, hookVars, itemHist
  <2> QED BY <1>0, <2>2, <2>3, <2>4
<1>6. CASE ~ Crash /\ ~ (\E m \in Notification : Post(m) \/ HookStep(m)) /\ ~ (\E y \in Item : Deliver(y) \/ Expire(y))
  <2>1. UNCHANGED <<hookVars, itemHist, topic>>
    BY <1>6 DEF Next, PollStep, Tick, PollStart, QueryFails, QueryAnswers, PollEnd, Restart, Arrive, SkipLine, EmitLine
  <2>2. queue'[x] = queue[x]
    <3>1. ASSUME NEW l \in Line, EmitLine(l) PROVE queue'[x] = queue[x]
      BY <3>1, PublishType, Sets DEF EmitLine, QueueFull
    <3>2. ASSUME \A l \in Line : ~ EmitLine(l) PROVE queue' = queue
      BY <1>6, <3>2 DEF Next, PollStep, Tick, PollStart, QueryFails, QueryAnswers, PollEnd, Restart, Arrive, SkipLine
    <3> QED BY <3>1, <3>2
  <2> QED BY <1>0, <2>1, <2>2 DEF Copies, hookVars, itemHist
<1> QED BY <1>1, <1>2, <1>3, <1>4, <1>5, <1>6 DEF HookStep

-----------------------------------------------------------------------------
(* Answers *)

LEMMA AnsweredStep ==
  ASSUME TypeOK, AlertOnce, AnsweredIsKept, Next
  PROVE  AnsweredIsKept'
<1> SUFFICES ASSUME NEW n \in Notification, req'[n] = "ok", NEW x \in AlertsOf[n]
             PROVE  topic'[x] > 0 \/ x \in unflushed' \cup dropped'
  BY DEF AnsweredIsKept
<1> x \in Item /\ ItemType
  BY Sets DEF TypeOK
<1>1. /\ topic[x] \in Nat /\ topic'[x] \in Nat /\ topic'[x] >= topic[x]
      /\ dropped \subseteq dropped' /\ unflushed \subseteq unflushed'
  <2>1. unflushed \subseteq unflushed'
    BY DEF Next, PollStep, HookStep, Tick, PollStart, QueryFails, QueryAnswers, PollEnd, Crash, Restart,
       Arrive, SkipLine, EmitLine, Post, EmitAlert, Answer, Deliver, Expire, itemHist
  <2> QED BY <2>1, CopyKept
<1>2. CASE req[n] = "ok"
  BY <1>1, <1>2 DEF AnsweredIsKept
<1>3. CASE req[n] # "ok"
  <2>1. Answer(n)
    <3>1. ASSUME NEW m \in Notification, Post(m) \/ \E y \in Alert : EmitAlert(m, y)
          PROVE  req'[n] # "ok"
      BY <1>3, <3>1 DEF Post, EmitAlert, ItemType
    <3>2. ASSUME NEW m \in Notification, Answer(m), m # n
          PROVE  req'[n] = req[n]
      BY <3>2 DEF Answer, ItemType
    <3>3. ~ Crash
      BY <1>3 DEF Crash, ItemType
    <3>4. CASE ~ (\E m \in Notification : Post(m) \/ HookStep(m))
      BY <1>3, <3>3, <3>4 DEF Next, PollStep, Tick, PollStart, QueryFails, QueryAnswers, PollEnd, Restart,
         Arrive, SkipLine, EmitLine, Deliver, Expire, hookVars
    <3> QED BY <1>3, <3>1, <3>2, <3>4 DEF HookStep
  <2>2. /\ req[n] = "emit" /\ todo[n] = {} /\ topic' = topic /\ dropped' = dropped
        /\ Queued = {} \/ unflushed' = unflushed \cup (AlertsOf[n] \cap Queued)
    BY <2>1 DEF Answer, Flushed
  <2>3. x \in Queued \/ topic[x] > 0 \/ x \in dropped
    <3>1. Copies(x) > 0 \/ x \in dropped
      BY <2>2 DEF AlertOnce
    <3> QED BY <3>1 DEF Copies, Queued, ItemType
  <2> QED BY <2>2, <2>3
<1> QED BY <1>2, <1>3

-----------------------------------------------------------------------------
(* Theorems *)

LEMMA InitInvariant == Init => IInv
<1> SUFFICES ASSUME Init PROVE IInv
  OBVIOUS
<1>1. PollShape /\ BehindIsKept /\ TakenIsKept
  BY DEF Init, PollShape, BehindIsKept, TakenIsKept, Stored
<1>2. \A x \in Item : Copies(x) = 0
  BY DEF Init, Copies
<1>3. SeenOnce
  BY <1>2, Sets DEF Init, SeenOnce
<1>4. AlertOnce /\ AnsweredIsKept
  BY <1>2, Sets DEF Init, AlertOnce, AnsweredIsKept
<1> QED BY <1>1, <1>3, <1>4, InitTypes DEF IInv

LEMMA InvariantStep ==
  ASSUME IInv, [Next]_vars
  PROVE  IInv'
<1> USE DEF IInv
<1>1. CASE Next
  BY <1>1, TypeStep, ShapeStep, BehindStep, TakenStep, SeenStep, AlertStep, AnsweredStep
<1>2. CASE UNCHANGED vars
  <2> USE <1>2 DEF vars, lokiVars, pollVars, hookVars, lineHist, itemHist
  <2>1. TypeOK'
    BY TypeStep
  <2>2. PollShape' /\ TakenIsKept' /\ BehindIsKept'
    BY DEF PollShape, TakenIsKept, BehindIsKept, Accounted, Copies, Behind, Stored
  <2>3. SeenOnce' /\ AlertOnce' /\ AnsweredIsKept'
    BY DEF SeenOnce, AlertOnce, AnsweredIsKept, Copies, DedupeKey
  <2> QED BY <2>1, <2>2, <2>3
<1> QED BY <1>1, <1>2

\* Every reachable state satisfies the inductive invariant.
THEOREM IngressInvariant == Spec => []IInv
BY InitInvariant, InvariantStep, PTL DEF Spec

\* Type correctness.
THEOREM IngressTypes == Spec => []TypeOK
<1>1. IInv => TypeOK
  BY DEF IInv
<1> QED BY <1>1, IngressInvariant, PTL

\* No line that a window covered, or that came while a query ran, goes missing
\* without one of the named reasons; a failed query is none of them.
THEOREM NoSilentLoss == Spec => []MissedExplained
<1>1. IInv => MissedExplained
  BY DEF IInv, MissedExplained, BehindIsKept, Behind, PollShape
<1> QED BY <1>1, IngressInvariant, PTL

\* Overlapping windows publish nothing twice as long as keys are remembered and
\* Grafana is answered.
THEOREM NoSilentDuplicate == Spec => []DuplicatesExplained
<1>1. IInv => DuplicatesExplained
  BY Sets DEF IInv, DuplicatesExplained, SeenOnce, AlertOnce, Item, Alert
<1> QED BY <1>1, IngressInvariant, PTL

\* 200 means that the alerts are in Kafka, timed-out flushes and records the
\* producer gave up apart.
THEOREM AnswersHold == Spec => []AnsweredIsKept
<1>1. IInv => AnsweredIsKept
  BY DEF IInv
<1> QED BY <1>1, IngressInvariant, PTL
=============================================================================
