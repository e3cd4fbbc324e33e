------------------------------- MODULE Ingress -------------------------------
(***************************************************************************)
(* The grafana-source process: LokiSource polls Loki, GrafanaWebhookSource *)
(* takes Alerting notifications in threads of its own, and both hand what  *)
(* they normalised to one KafkaLogSink, whose producer queues records and  *)
(* delivers them in the background.  Cursor, seen keys and queue are in    *)
(* memory only.                                                            *)
(*                                                                         *)
(* A step is one call that another thread, Loki, Kafka or a crash can come *)
(* between: the query, each publish, the flush.  Time is in seconds, the   *)
(* unit of the overlap.  A line has the time Loki stores it under; lines   *)
(* arrive at Loki in any order, so also behind the cursor.                 *)
(***************************************************************************)
EXTENDS Integers, FiniteSets

CONSTANTS
    Line,          \* log lines
    Key,           \* values of _event_dedupe_key
    Keyings,       \* the ways lines may get their keys
    Notification,  \* notifications of Grafana Alerting
    AlertsOf,      \* the alerts of each
    Limit,         \* grafana_loki_limit
    Lookback,      \* grafana_loki_lookback_seconds
    MaxTime,       \* bound: the clock
    MaxFaults      \* bound: failed queries, full queues, trims of the seen keys,
                   \* flushes that time out, records the producer gives up, and deaths of the process

Alert == UNION {AlertsOf[n] : n \in Notification}
Item  == Line \cup Alert
Never == -1                                \* no time: not stored, no cursor

ASSUME IngressAssumption ==
    /\ IsFiniteSet(Line) /\ Line \cap Alert = {}
    /\ Keyings \subseteq [Line -> Key]
    \* An alert is the alert of one notification.
    /\ \A n, m \in Notification : n # m => AlertsOf[n] \cap AlertsOf[m] = {}
    /\ Limit \in Nat \ {0} /\ Lookback \in Nat
    /\ MaxTime \in Nat /\ MaxFaults \in Nat

VARIABLES
    now,
    stamp, key,                  \* Loki: the time a line is stored under, or Never;
                                 \* lines of two streams may have one dedupe key
    pc, cursor, seen,            \* LokiSource; "down": the process is
    from, upto, page,            \* the poll in progress
    req, todo,                   \* webhook requests and their alerts to publish
    queue, topic,                \* records of an item in the producer and in Kafka
    \* history: why a line may stay behind, lines that were remembered in their
    \* own name, lines whose key was forgotten again; items a crash lost, and
    \* items the producer gave up; alerts posted again, or answered 200 in the queue
    why, taken, forgotten, lost, dropped, again, unflushed,
    faults

lokiVars == <<stamp, key>>
pollVars == <<pc, cursor, seen, from, upto, page>>
hookVars == <<req, todo>>
lineHist == <<why, taken, forgotten>>
itemHist == <<lost, dropped, again, unflushed>>
vars == <<now, lokiVars, pollVars, hookVars, queue, topic, lineHist, itemHist, faults>>

-----------------------------------------------------------------------------
Up       == pc # "down"
Stored   == {l \in Line : stamp[l] # Never}
Queued   == {x \in Item : queue[x] > 0}
Copies(x) == queue[x] + topic[x]

\* The time a line is stored under is part of its dedupe key, its stream is not.
DedupeKey(l) == key[l]

Fault == faults < MaxFaults /\ faults' = faults + 1

\* Lines of S get excuse c.
Excuse(S, c) == why' = [l \in Line |-> IF l \in S THEN why[l] \cup {c} ELSE why[l]]

Init ==
    /\ now = 0 /\ stamp = [l \in Line |-> Never] /\ key \in Keyings
    /\ pc = "sleep" /\ cursor = Never /\ seen = {}
    /\ from = Never /\ upto = Never /\ page = {}
    /\ req = [n \in Notification |-> "new"] /\ todo = [n \in Notification |-> {}]
    /\ queue = [x \in Item |-> 0] /\ topic = [x \in Item |-> 0]
    /\ why = [l \in Line |-> {}] /\ taken = {} /\ forgotten = {}
    /\ lost = {} /\ dropped = {} /\ again = {} /\ unflushed = {}
    /\ faults = 0

Tick ==
    /\ now < MaxTime /\ now' = now + 1
    /\ UNCHANGED <<lokiVars, pollVars, hookVars, queue, topic, lineHist, itemHist, faults>>

-----------------------------------------------------------------------------
(* KafkaLogSink *)

\* publish() queues the record; produce() raises BufferError when the queue is
\* full, which may be whenever something is waiting in it.
Publish(x) == queue' = [queue EXCEPT ![x] = @ + 1]
QueueFull  == Queued # {} /\ Fault /\ UNCHANGED queue

Deliver(x) ==
    /\ Up /\ queue[x] > 0
    /\ queue' = [queue EXCEPT ![x] = @ - 1]
    /\ topic' = [topic EXCEPT ![x] = @ + 1]
    /\ UNCHANGED <<now, lokiVars, pollVars, hookVars, lineHist, itemHist, faults>>

\* message.timeout.ms: there is no delivery callback, the record just goes.
Expire(x) ==
    /\ Up /\ queue[x] > 0 /\ Fault
    /\ queue' = [queue EXCEPT ![x] = @ - 1]
    /\ dropped' = dropped \cup {x}
    /\ UNCHANGED <<now, lokiVars, pollVars, hookVars, topic, lineHist,
                   lost, again, unflushed>>

-----------------------------------------------------------------------------
(* LokiSource.poll_once *)

\* Mutants: no overlap; the cursor is where the next window starts, and ends.
NoOverlap(c, t) == IF c = Never THEN t - Lookback ELSE c
WindowStart(c, t) == IF c = Never THEN t - Lookback ELSE c - 1

\* A line that is stored now, under a time no later window will cover.
Behind(s) ==
    \/ pc = "query" /\ s < from
    \/ pc = "emit" /\ s < upto - 1
    \/ pc = "sleep" /\ cursor # Never /\ s < cursor - 1

Arrive(l) ==
    /\ stamp[l] = Never
    /\ \E s \in 0..MaxTime :
          /\ \A m \in Stored : DedupeKey(m) = DedupeKey(l) => stamp[m] = s
          /\ stamp' = [stamp EXCEPT ![l] = s]
          /\ IF Behind(s) THEN Excuse({l}, "late") ELSE UNCHANGED why
    /\ UNCHANGED <<now, key, pollVars, hookVars, queue, topic, taken, forgotten, itemHist, faults>>

\* The window is fixed before the request is sent.
PollStart ==
    /\ pc = "sleep" /\ pc' = "query"
    /\ from' = WindowStart(cursor, now) /\ upto' = now
    /\ Excuse({l \in Stored : cursor = Never /\ stamp[l] < from'}, "before")
    /\ UNCHANGED <<now, lokiVars, cursor, seen, page, hookVars, queue, topic,
                   taken, forgotten, itemHist, faults>>

\* Mutant: a failed query moves the cursor as well.
CursorMoves(c, t) == t
CursorStays(c, t) == c

QueryFails ==
    /\ pc = "query" /\ pc' = "sleep"
    /\ Fault
    /\ cursor' = CursorStays(cursor, upto)
    /\ from' = Never /\ upto' = Never
    /\ UNCHANGED <<now, lokiVars, seen, page, hookVars, queue, topic, lineHist, itemHist>>

\* query_range, forward: the first Limit lines of the window [from, upto).
Window == {l \in Stored : from <= stamp[l] /\ stamp[l] < upto}
Pages  == {P \in SUBSET Window :
             \/ P = Window /\ Cardinality(P) <= Limit
             \/ Cardinality(P) = Limit /\ \A p \in P, q \in Window \ P : stamp[p] <= stamp[q]}

QueryAnswers ==
    /\ pc = "query" /\ pc' = "emit"
    /\ page' \in Pages
    /\ Excuse(Window \ page', "cut")
    /\ UNCHANGED <<now, lokiVars, cursor, seen, from, upto, hookVars, queue, topic,
                   taken, forgotten, itemHist, faults>>

\* _remember.  Mutant: nothing is remembered.
ForgetAtOnce(k) == seen
Remembered(k) == seen \cup {k}

\* The next line of the page; the sort by the line's own timestamp may put any
\* first.  Its key is remembered before it is published, and a publish that
\* fails is logged.
SkipLine(l) ==
    /\ pc = "emit" /\ l \in page /\ DedupeKey(l) \in seen
    /\ page' = page \ {l}
    /\ IF l \in taken THEN UNCHANGED why ELSE Excuse({l}, "twin")
    /\ UNCHANGED <<now, lokiVars, pc, cursor, seen, from, upto, hookVars, queue, topic,
                   taken, forgotten, itemHist, faults>>

EmitLine(l) ==
    LET known == Remembered(DedupeKey(l)) IN
    /\ pc = "emit" /\ l \in page /\ DedupeKey(l) \notin seen
    /\ page' = page \ {l}
    /\ taken' = taken \cup {l}
    /\ \/ Publish(l) /\ seen' = known /\ UNCHANGED <<why, forgotten, faults>>
       \/ QueueFull /\ seen' = known /\ Excuse({l}, "failed") /\ UNCHANGED forgotten
       \* At _seen_max, half of the keys go, whichever the set lists first.
       \/ /\ Publish(l) /\ Fault /\ UNCHANGED why
          /\ seen' \in SUBSET known
          /\ forgotten' = forgotten \cup {m \in taken' : DedupeKey(m) \in known \ seen'}
    /\ UNCHANGED <<now, lokiVars, pc, cursor, from, upto, hookVars, topic, itemHist>>

\* flush(5) comes back when it likes; its outcome is not looked at.
PollEnd ==
    /\ pc = "emit" /\ page = {}
    /\ pc' = "sleep" /\ cursor' = upto /\ from' = Never /\ upto' = Never
    /\ UNCHANGED <<now, lokiVars, seen, page, hookVars, queue, topic, lineHist, itemHist, faults>>

-----------------------------------------------------------------------------
(* GrafanaWebhookSource *)

\* Grafana posts, and posts again what was not answered 200.
Post(n) ==
    /\ Up /\ req[n] \in {"new", "refused"}
    /\ req' = [req EXCEPT ![n] = "emit"]
    /\ todo' = [todo EXCEPT ![n] = AlertsOf[n]]
    /\ again' = IF req[n] = "refused" THEN again \cup AlertsOf[n] ELSE again
    /\ UNCHANGED <<now, lokiVars, pollVars, queue, topic, lineHist, lost, dropped, unflushed, faults>>

\* emit_many stops at the first publish that raises, do_POST answers 500.
EmitAlert(n, x) ==
    /\ req[n] = "emit" /\ x \in todo[n]
    /\ \/ /\ Publish(x)
          /\ todo' = [todo EXCEPT ![n] = @ \ {x}]
          /\ UNCHANGED <<req, faults>>
       \/ /\ QueueFull
          /\ todo' = [todo EXCEPT ![n] = {}]
          /\ req' = [req EXCEPT ![n] = "refused"]
    /\ UNCHANGED <<now, lokiVars, pollVars, topic, lineHist, itemHist>>

\* One flush, and 200 whatever came of it.  Mutant: no flush.
Unwaited(n) == TRUE
Flushed(n) == Queued = {}

Answer(n) ==
    /\ req[n] = "emit" /\ todo[n] = {}
    /\ req' = [req EXCEPT ![n] = "ok"]
    /\ \/ Flushed(n) /\ UNCHANGED <<unflushed, faults>>
       \/ /\ Fault
          /\ unflushed' = unflushed \cup (AlertsOf[n] \cap Queued)
    /\ UNCHANGED <<now, lokiVars, pollVars, todo, queue, topic, lineHist, lost, dropped, again>>

-----------------------------------------------------------------------------
\* The process dies with cursor, seen keys, queue and requests ...
Crash ==
    /\ Up /\ Fault
    /\ pc' = "down" /\ cursor' = Never /\ seen' = {}
    /\ from' = Never /\ upto' = Never /\ page' = {}
    /\ forgotten' = forgotten \cup taken
    /\ lost' = lost \cup Queued
    /\ queue' = [x \in Item |-> 0]
    /\ req' = [n \in Notification |-> IF req[n] = "emit" THEN "refused" ELSE req[n]]
    /\ todo' = [n \in Notification |-> {}]
    /\ UNCHANGED <<now, lokiVars, topic, why, taken, dropped, again, unflushed>>

\* ... and the container is started again.
Restart ==
    /\ pc = "down" /\ pc' = "sleep"
    /\ UNCHANGED <<now, lokiVars, cursor, seen, from, upto, page, hookVars, queue, topic,
                   lineHist, itemHist, faults>>

-----------------------------------------------------------------------------
PollStep ==
    PollStart \/ QueryAnswers \/ PollEnd \/ \E l \in Line : SkipLine(l) \/ EmitLine(l)

HookStep(n) == Answer(n) \/ \E x \in Alert : EmitAlert(n, x)

Next ==
    \/ Tick \/ QueryFails \/ PollStep \/ Crash \/ Restart
    \/ \E l \in Line : Arrive(l)
    \/ \E n \in Notification : Post(n) \/ HookStep(n)
    \/ \E x \in Item : Deliver(x) \/ Expire(x)

Spec == Init /\ [][Next]_vars

\* Time passes, the poll loop runs and is restarted, Loki answers and Kafka
\* takes records.
FairSpec ==
    /\ Spec
    /\ WF_vars(Tick) /\ WF_vars(PollStep) /\ WF_vars(Restart)
    /\ WF_vars(\E x \in Item : Deliver(x)) /\ WF_vars(\E n \in Notification : HookStep(n))
-----------------------------------------------------------------------------
(* Properties *)

Place  == {"sleep", "query", "emit", "down"}
Cause  == {"late", "before", "cut", "twin", "failed"}
Times  == 0..MaxTime

LineType ==
    /\ now \in Times /\ stamp \in [Line -> Times \cup {Never}] /\ key \in [Line -> Key]
    /\ pc \in Place /\ cursor \in Times \cup {Never} /\ seen \subseteq Key
    /\ from \in Int /\ upto \in Times \cup {Never} /\ page \subseteq Line
    /\ why \in [Line -> SUBSET Cause] /\ taken \subseteq Line /\ forgotten \subseteq Line

ItemType ==
    /\ req \in [Notification -> {"new", "emit", "ok", "refused"}]
    /\ todo \in [Notification -> SUBSET Alert] /\ \A n \in Notification : todo[n] \subseteq AlertsOf[n]
    /\ queue \in [Item -> Nat] /\ topic \in [Item -> Nat]
    /\ lost \subseteq Item /\ dropped \subseteq Item /\ again \subseteq Alert /\ unflushed \subseteq Alert

TypeOK == LineType /\ ItemType /\ faults \in 0..MaxFaults

\* A line that no later window covers was published, or there is a reason: it
\* came to Loki behind the window, it is older than the first window, the page
\* was cut at its limit, a line of another stream used up its key, its publish
\* failed, or it was lost with the producer's queue.  Failed queries, lines
\* that arrive while a query runs and the seams between windows lose nothing.
Accounted(l) == Copies(l) > 0 \/ why[l] # {} \/ l \in lost \cup dropped

MissedExplained ==
    \A l \in Stored : pc = "sleep" /\ cursor # Never /\ stamp[l] < cursor - 1 => Accounted(l)

\* An item is published twice only after its key was forgotten (a trim of the
\* seen set, a restart) or Grafana had to post again: overlapping windows alone
\* publish nothing twice.
DuplicatesExplained ==
    \A x \in Item : Copies(x) > 1 => x \in forgotten \cup again

\* What Grafana was told is delivered (200) is in Kafka, unless the flush had
\* timed out: a crash loses no alert that was flushed.
AnsweredIsKept ==
    \A n \in Notification : req[n] = "ok" =>
        \A x \in AlertsOf[n] : topic[x] > 0 \/ x \in unflushed \cup dropped

\* Every line that Loki has from before the clock's end is published or has
\* its reason in the end, although polls fail and the process is restarted.
LinesSettle ==
    \A l \in Line : stamp[l] \in 0..(MaxTime - 1) ~>
        topic[l] > 0 \/ why[l] # {} \/ l \in lost \cup dropped

-----------------------------------------------------------------------------
(* The inductive invariant *)

PollShape ==
    /\ pc = "down" => cursor = Never
    /\ pc = "query" /\ cursor # Never => from = cursor - 1
    /\ pc # "emit" => page = {}

\* What no later window covers is accounted for or still in the page; what was
\* remembered in its own name is accounted for.
BehindIsKept == \A l \in Stored : Behind(stamp[l]) => Accounted(l) \/ l \in page
TakenIsKept  == \A l \in taken : Accounted(l)

\* A line that was published has its key in the seen set or forgotten.
SeenOnce ==
    \A l \in Line :
        /\ l \in taken => DedupeKey(l) \in seen \/ l \in forgotten
        /\ Copies(l) > 0 => l \in taken
        /\ Copies(l) > 1 => l \in forgotten

\* An alert that will be published was not, unless its notification came again;
\* one of a request in progress that need not be is in the producer or in Kafka.
AlertOnce ==
    \A n \in Notification : \A x \in AlertsOf[n] :
        /\ req[n] = "new" \/ x \in todo[n] => Copies(x) = 0 \/ x \in again
        /\ Copies(x) > 1 => x \in again
        /\ req[n] = "emit" => x \in todo[n] \/ Copies(x) > 0 \/ x \in dropped

\* Everything above: no step of the code leads out of it.
IInv == /\ TypeOK /\ PollShape /\ BehindIsKept /\ TakenIsKept
        /\ SeenOnce /\ AlertOnce /\ AnsweredIsKept
=============================================================================
