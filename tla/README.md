# Verification of the log alert pipeline

TLA+ specifications of the `alert_pipeline` package
(`src/src/alert_pipeline`), TLC configurations that check them on small
instances, and TLAPS proofs of central results for every instance.

Paths below are relative to the package unless they start with `src/`.

## 1. The system

Four kinds of processes share Kafka, PostgreSQL and Redis.

| Process | Entry point | What it does |
| --- | --- | --- |
| `grafana-source` (optional) | `sources/grafana/main.py` | polls Loki and takes webhooks, publishes log events to the source topic |
| `alert-pipeline` | `runtime/quix_runtime.py` | reads log events, deduplicates them in Quix keyed state, upserts incidents, enqueues notifications |
| `alert-dispatch-worker`, any number | `dispatchers/outbox_worker.py` | claims outbox rows, posts them to channels, audits, marks the rows |
| `alert-ui`, threads | `ui/app.py` | serves a Redis snapshot of the incidents, changes their status, operates on the outbox |

```
 producers, Loki ──> source topic ──> enrich ──> repartition topic ──> dedup (keyed state)
                                        │                                 │ new / update
                                        └─> DLQ                           v
                                                        emit_alert: reopen policy, upsert + outbox insert
                                                                          │ one transaction
   operators ──status, clear──> alerts table <────────────────────────────┤
   operators ──redrive, delete, seed──> dispatch_outbox <─────────────────┘
                                             │ claim            │ commit, then DEL
   dispatch workers: claim, check log, post, log, mark          v
                                                       Redis snapshot <── UI threads
```

### Components

| Component | State | Operations | Hard behaviour | What makes it correct | Module |
| --- | --- | --- | --- | --- | --- |
| Dispatch outbox and workers (`db/repository.py`, `dispatchers/`) | `dispatch_outbox`, `dispatch_log`, the batch a worker has in memory | enqueue, claim with stale recovery, idempotency check, post, audit, mark, redrive, delete, clear, seed-dead | a crash between post and audit, claims that outlive the stale limit, load-then-write marks, operators under a worker's feet | "sent" means sent; a row has one holder; a duplicate delivery has a known cause; no row is forgotten | `Outbox`, `OutboxProofs`; abstract: `Notifications` |
| Incident store and emit path (`db/repository.py`, `db/mapping.py`, `metrics.py`, `processing/handler.py`, `ui/app.py`) | `alerts`, at most one active row per fingerprint by a partial unique index | upsert with a retry, outbox insert in the same transaction, status changes, reopen policy, clear | SELECT then UPDATE without a row lock, check-then-act over sessions, several writers of one row | counts grow, operators are not overridden, each refire has its own notification key, timestamps match the status | `Incidents`, `IncidentsProofs` |
| Window / refire rules (`dedup/transition.py`) | one blob per fingerprint | new, update, suppress | events out of order, clocks ahead of ours, boundaries | an incident ends exactly after a silence; alerts are spaced | `DedupTransition` |
| Quix stream runtime (`runtime/quix_runtime.py`, `dedup/quix_state.py`) | offsets, keyed state, DLQ producer buffer | deserialize, enrich, group_by, dedup, sink, checkpoint | replay after a crash, exceptions in the sink, poison messages | no decided alert is lost; events are counted once; the offset gets past every message | `DedupStream`, `DedupStreamProofs` |
| UI read cache (`cache/alert_cache.py`, `ui_cache_invalidate.py`, `ui/app.py:_touch_cache`) | Redis snapshot, Redis lock, the snapshot of each process | read, rebuild under the lock, invalidate | stampedes, lock expiry, an old load stored after an invalidation, outages | stale answers come from one known race; one thread rebuilds; requests end | `ReadCache`, `ReadCacheProofs` |
| In-process dedup engine (`dedup/engine.py`, `dedup/store.py`) | map of incidents | process, expire, try_create | expiry of all keys by the event time of one; get and put not atomic; a second decision for the loser of try_create | the same decisions as the stream, except where calls overlapped | `DedupEngine`, `DedupEngineProofs` |
| Grafana ingress (`sources/`) | Loki cursor and seen set, producer queue, requests in progress | poll, webhook, emit, flush, deliver | loss between fetch and produce, cut pages, late lines, a full queue in the middle of a notification | every line fetched is published or its loss has a cause; 200 means kept | `Ingress`, `IngressProofs` |
| Fingerprint and alert configuration (`dedup/fingerprint.py`, `alert_config.py`, `sources/grafana/normalize.py`) | `alerts.yaml` | normalize an alert, resolve settings, gate by level, compute the key | repeats carry the start of their episode; coarse keys; layered overrides; severities outside the list | a repeat is no new incident, a suppression follows an announcement | `GrafanaAlerts`, `GrafanaAlertsProofs` |
| Label widgets (`ui/app.py`, `db/repository.py`) | `dashboard_widgets` | POST, PUT, DELETE, list | a PUT in two transactions; column-wise write-back | a widget shows its last save; deleted stays deleted | `Widgets`, `WidgetsProofs` |
| Rate limiter, formatters, metrics, queries, browser code, migrations, wiring | hit lists; otherwise none | conversions, reads | | | not modelled (section 7) |

The database is modelled at PostgreSQL's READ COMMITTED: a SELECT sees what is
committed, an UPDATE takes the row lock, re-evaluates its WHERE clause on the
current row and holds the lock to the commit. A SQLAlchemy session
writes back at flush only those columns whose value differs from what it
loaded; the operator `Flush(loaded, current, new)` is that rule, and it is the
source of several of the races below. An UPDATE by primary key that matches no
row raises `StaleDataError`.

## 2. Modules

### Outbox

One action per repository call; a worker is between two calls at every state.

| Model | Code |
| --- | --- |
| `status`, `keyOf`, `attempts`, `due`, `stale` | columns of `dispatch_outbox`; `due` says that `next_attempt_at` has passed, `stale` that `updated_at` is older than `stale_processing_seconds` |
| `audit` | keys with a success in `dispatch_log` |
| `pc`, `batch`, `cur`, `outcome`, `seen` | locals of `process_batch` and of the session in `mark_outbox_*` |
| `opKind`, `opIds`, `opSeen` | a redrive or seed request between SELECT and COMMIT |
| `clearing`, `clearIds` | a `clear_all` between its two DELETEs and the rows that the first one saw |
| `received`, `doubled`, `unrecorded`, `stolen`, `returned`, `unlogged` | history |
| `Enqueue`, `Claim`, `Check`, `Send`, `LogDispatch`, `MarkLoad`, `MarkCommit` | `enqueue`, `claim_outbox_batch` with its stale recovery, `dispatch_idempotency_succeeded`, `dispatch_one`, `log_dispatch`, `mark_outbox_sent` and `mark_outbox_result` |
| `RedriveSelect`/`RedriveWrite`, `DeleteRows`, `ClearOutbox`/`ClearLog`, `SeedInsert`/`SeedMark`/`MarkOpenDead` | operator requests of `ui/app.py` |
| `BackoffElapsed`, `ClaimExpires`, `Crash`, `Restart` | time and process failures |

A post is modelled by its results: the channel accepts it no time, once or
twice (tenacity retries inside a post), and the caller sees success or not.
Redrive and seed requests come one at a time, deletions and a `clear_all` at any moment;
more operators who interleave would add steals, which these already cause. `clear_all` is one
transaction of several DELETE statements, each with its own READ COMMITTED snapshot:
`ClearOutbox` is the moment of the first one's, `ClearLog` that of the one on `dispatch_log`
with the commit. A row inserted between the two stays, and if its key is in
the log by then, its entry goes; `unlogged` remembers those rows. `returned` counts the times
a row went back to the queue with its attempts spent: by stale recovery, and by a
redrive that leaves the column `attempts` alone. The code sets it to 0 in the session, but
a session writes only what differs from what it loaded, and a row loaded with no
attempts may have been claimed since.

### Incidents

The rows of one fingerprint: the unique index is per fingerprint and rows of
two fingerprints never meet. Emissions are records in `ev` that walk through
`policy`, `policy2`, `load` and `commit`; flush, outbox insert and commit are
one step because the UPDATE's row lock, or the unique index, makes others wait.
`StreamNew`, `StreamRefire` and `StreamSuppress` stand for what dedup decides;
when it decides which is the subject of `DedupStream`, so here any order is
possible. `Reopen` is the set of values `allow_reopen_after_resolve` may have, and each
emission of the stream reads its own: the setting is per error code and service, and
changes with the configuration. `Demo` requests are `demo_fire` of the UI, which upserts the same
rows from another process. `OpLoad`/`OpCommit` are `_apply_status`, with
`apply_status_timestamps` in `AckedAfter` and `ResolvedAfter`. Crash, an
exception in the worker and a restart are `Rewind`: offsets and keyed
state return to the last checkpoint.

### Notifications

`Notifications` says what the outbox promises, without queries, locks or workers: a ticket
per wanted notification, issued once, settled only after the channel has accepted the
notification, and changed afterwards by operators alone, except while it is
disputed (taken from a worker that is still busy with it). `Outbox`
instantiates it (`Promised`) with

| Abstract | Concrete |
| --- | --- |
| `phase` | `status`, with pending, processing and failed as "open", a removed row as "gone" |
| `subject` | `keyOf` |
| `delivered` | the keys a channel has received |
| `disputed` | `stolen` |
| `request` | the operator request under way |

and states `KeepsPromise`: every behaviour of `Outbox` is one of `Notifications`; `OutboxProofs`
proves it.
A claim, a post that fails, a recovery are stutters or moves within "open".

### DedupTransition and DedupStream

`DedupTransition` has `apply_dedup_transition`, `window_expired` and
`event_clock` as operators with no state, in the order of the code's
early returns. `DedupStream` applies them to the messages of one fingerprint:
the source topic, the repartition topic that `group_by` writes, the keyed state,
the emission on its way to the sink, and the checkpoint which commits offsets
and state together. `emit_alert` is one step here; its inside is `Incidents`.
A message has a kind (well-formed, without timestamp, below
`min_level`, no JSON object, with a timestamp that is no date), a time and a
level rank. Garbage goes to the DLQ's producer. Its `produce` may raise, which `_publish_dlq` logs
and passes over, and it may give a buffered record up, which no delivery callback
reports (`refused`); a process that ends takes along what is in the buffer while the committed
offset stays (`lost`).

### DedupEngine

Threads that call `process` on one engine. A step is one call of the store under its
lock: `expire_stale`, `get`, `try_create`, `get` of the winner, `put`; the decision
in between is `DedupTransition`'s. `keyed` runs the same events through the
stream's keyed state, so that a run compares the two adapters event by event.

### Ingress

`LokiSource` polls while requests of Grafana's contact point run in threads of
their own; both publish through one producer. `PollStart`, `QueryAnswers` or
`QueryFails`, `SkipLine`/`EmitLine` for each line of the page, `PollEnd`;
`Post`, `EmitAlert`, `Answer` for the webhook; `Deliver` and `Expire` for the producer;
`Crash` and `Restart`. Lines come to Loki in any order (`Arrive`), also
behind the cursor; a line's dedupe key may be another line's. History: `why` has the
reasons for which a line was left out, `taken`, `forgotten`, `again`, `lost`, `dropped`,
`unflushed` the rest of what may happen to an item.

### GrafanaAlerts

The alerts of Grafana Alerting from the contact point to the decision of the
stream: `normalize_grafana_alert` (`Normalized`), `resolve_for` (`ResolveFor`, three layers),
the level gate, `compute_fingerprint` (`Fingerprint`, the configured fields with their
values), and the window rules, an instance of `DedupTransition` per window and refire
interval. The refire interval is this event's; the window is the one that the fingerprint's last
event left in the state blob (`windows`, `WindowOf`), and this event's only if there is no
blob. The two differ when alerts with different settings share a fingerprint. `Start`, `Resolve` and `Tick` are the
world, `Post` is one notification: Grafana repeats it at will. `log` is the history of
verdicts. The contents of `alerts.yaml` are a constant, so an instance checks several
at once.

### Widgets

One action per transaction: `Create`, `Update` (the lookup), `UpsertLoad`,
`UpsertCommit` with the column-wise `Flush`, `Delete` (the load), `DeleteCommit`.
History records for each request what committed on its widget meanwhile.

### ReadCache

The database is the number of committed writes, a snapshot is the number it was
loaded at; `soft` says that the snapshot's own expiry has passed while Redis
still has the key. There is no clock: the TTLs of the key and of the
lock, the waiters' deadline and the probabilistic early expiry may each happen
at any time, which covers every choice of their lengths. Each step is one Redis
command, one database read or one access to the process's own snapshot under `_local_lock`.
What a GET or a load returned is in the request's hands (`snap`, at `keep`) until `Keep` assigns it to
the process's snapshot, over whatever another thread has put there meanwhile; `next` is what
the request does then. Likewise `Drop` deletes the key and `Clear` empties the
process's snapshot, and `Again` asks Redis before `Own` falls back to the process's snapshot. `conn` has the instances that still use Redis: the first failing
command outside `_release_lock` makes a process give it up for good
(`_redis_error`).

## 3. Hazards and properties

`PROJECT.json` lists every hazard at its line with its properties. The
properties in words:

**Outbox.** `SentIsAudited`: a row that reads sent was accepted by its channel and
is in the dispatch log, unless a `clear_all` wiped its entry and came too early for the
row. `OneHolder`: two workers have one notification in
their batches only if its row was taken from a live worker (a slow claim, an
operator). `DuplicatesExplained`: a channel accepts a notification twice only
through a success that was never recorded or a row so taken. `SentSettles`: a
sent row is changed only by an operator or by a worker it was taken from (proved).
`KeepsPromise`: the outbox implements `Notifications`.
`AttemptBudget`: attempts exceed the maximum only by the returns to the queue, whoever still
holds the row.
`EveryRowSettles` (liveness): every open row becomes sent or dead, or is removed.

**Incidents.** `CountsGrow`, `OperatorKept`, `PolicyKept`, `AckSilences`: what
writers may override, each with the one window the code leaves, named
in the property. `RefiresNotify`: a wanted notification finds its key taken only
after a stale upsert set the count back or a clear left keys behind.
`RetrySuffices`: one retry resolves every race between emissions.
`ResolvedStamped` (proved), `ResolveAcks`: what two stale status requests do to the
timestamps that TTA and TTR are computed from.

**DedupStream.** `CountsEveryEvent`, `SeverityIsWorst` (proved): the keyed state
summarises exactly the messages since the incident was opened, after every
replay. `RefireSpacing`, `SplitsOnSilence`: the window and refire rules against
their meaning, the second one for events in any order of time. `ReplayStable`: a replay
decides as before, except from an event on that was so far ahead that the wall clock judged
it. `CommittedMeansSunk`: no decided alert is lost; only an alert that a replay decides
otherwise, behind such an event, may be. `GarbageKept`: a garbled message that was read is in the DLQ or
on its way, unless the producer refused its record or gave it up, or its offset was committed
before the process ended; what a restart reads again is written again. `EveryMessagePasses` (liveness): the committed offset gets
past every message.

**ReadCache.** `OnlyRacedIsStale`: a read that began after an invalidation misses
the write only if the snapshot it answers with was in a request's hands when the key was
deleted: loaded before and stored to Redis after, or, for the copy a process keeps, also read from
Redis before and assigned after. `OneRebuilds`: two threads rebuild at
once only if one lost its lock or had given Redis up. `RequestsEnd` (liveness):
every request is answered, if outages end.

**DedupEngine.** `CountedUnlessRaced`, `AnnouncedUnlessRaced`, `DroppedExplained`,
`AlertsSpaced`: what a lost race between threads can do to counts, announcements and
spacing, and which overlap it takes. `ParityInOrder`: "Memory DedupEngine and
Quix-state adapter must agree on emit decisions", and they do if calls do not overlap and
the times of all fingerprints together do not go back.

**Ingress.** `MissedExplained`: a line that no later window covers was published or has
one of six reasons; failed queries and the seams between windows are none of them.
`DuplicatesExplained`: overlapping windows alone publish nothing twice. `AnsweredIsKept`: an
alert answered with 200 is in Kafka unless its flush timed out or the producer gave it up.
`LinesSettle` (liveness): every line is published or has its reason in the end.

**GrafanaAlerts.** `RepeatsStayQuiet`: repeats of one episode are announced again, or counted
elsewhere, only after their fingerprint saw a post of another start, or under a shorter refire
interval, whatever windows its alerts have. `SuppressedExplained`: a suppressed post follows an announcement
of its incident, less than a refire interval older, and joins the last post of its fingerprint within the
window that that post's settings stored. `ResolvedJoins`: when a resolved post joins the incident of
its firing. `DropsAreMild`: which firing alerts the level gate can swallow.

**Widgets.** `RowIsLastSave`, `StaysDeleted`, `BlankKeepsTitle`, `ErrorsRaced` (proved): mixed
saves, revived widgets, reverted titles and failing requests each need one named overlap.

## 4. Runs

| Run | Instance | Question |
| --- | --- | --- |
| `outbox_contention` | 2 workers, 1 key, 2 rows, batch 1, 1 crash, 1 slow claim, 2 operator requests | safety under contention, the attempt budget, the refinement of `Notifications` |
| `outbox_liveness` | 2 workers, 2 keys (one payload unreadable), batch 2, 2 crashes, under fairness | settling |
| `incidents_race` | the stream with 2 messages and a crash, each with and without reopening; a demo request, two status requests or a clear; 2 ids | emissions against each other and against operators, policy, acknowledgement, stamps |
| `dedup_replay` | all sequences of 3 messages, times 0..3, 2 levels, a crash; window 2, refire 2 | the window and refire rules, crashes |
| `dedup_skew` | 2 messages, wall clock 0..2, no skew allowed, undated, quiet and garbled messages, a crash, under fairness | clamping and replay, the DLQ, progress |
| `dedup_poison_doc` | one message | violation: finding 1 |
| `cache_requests` | one instance with two threads, one read in all (and the reads that a write request ends with), a write of the UI or the pipeline, an outage that ends, under fairness | staleness, the lock, termination |
| `ingress_polls` | 2 lines with one key or two, a notification of one alert, page limit 1, lookback 1, clock 0..2, one fault, under fairness | losses, duplicates, answers, settling |
| `ingress_docstring` | 2 lines, no fault | violation: finding 2 |
| `engine_threads` | 2 threads, 2 fingerprints, 4 events with times 0..3; window 1, refire 1 | races of the memory store, parity with the stream |
| `widgets_races` | 4 requests on one id, 2 titles, 2 boards | races of widget requests |
| `grafana_repeats` | 2 alerts of one rule in two services, 3 severities, 2 readings, clock 0..2, 4 posts; 3 configurations, in one of which the alerts share a fingerprint under windows 2 and 1 and refire intervals 3 and 1 | repeats, resolved posts, the level gate |

*Why the bounds are enough.* Every safety property relates at most two
actors and one row or snapshot, and each bound is the smallest at which the
window named in the property opens: two workers and one row for a steal
followed by both sending; a second row for one key after a delete; a second operator
request for a redrive of a row seeded dead; two ids for an incident that is
resolved, reopened under a fresh id and cleared; three events for an
incident that opens, is suppressed, and refires or splits; times up to
`Window + 1`, so that both sides of each strict comparison are reached; a page limit of one
line, so that a second line is cut off; four events for two threads that collide
over an entry which a third call expires; four widget requests for a deletion between the
transactions of a PUT whose title came from an earlier save; four posts for two
alerts that move each other's window. Each
property has a mutant, a plausible mistake in one mapped definition, that TLC finds
under the run's own bounds, so each window is really exercised. Where a theorem
exists (section 6) the bounds do not matter.

*What runs do not repeat.* The type invariants and inductive invariants (`TypeOK`, `IInv`) of the
modules with proofs, and the safety properties `SentSettles`, `ResolvedStamped`,
`SeverityIsWorst` and `ErrorsRaced`, hold for every instance by the theorems of
section 6; each was checked with TLC on the instances above before it was proved, and no run is
kept for it. `engine_threads` checks `TypeOK` of `DedupEngine` as well: what `process` may return is
part of it.

*Symmetry* is used where actors or values are interchangeable (workers, operators,
threads and fingerprints of the engine, widget requests, readings), never in
runs with liveness properties.

*Deadlock* is not checked: all runs end when their budgets are used up, and
a system without input is idle. "Nobody waits for ever" is the liveness
properties' question.

*Fairness.* `Outbox`: a worker runs on and is restarted
(`restart: unless-stopped`), posts have timeouts, and time passes for a row in
backoff and for a claim whose holder is dead; nothing is assumed of
operators, producers, crashes or of a live worker's speed. `DedupStream`: a running
application polls, is restarted when it stops, the database answers, and
commits happen in intervals; neither producers nor the DLQ delivery are fair.
`ReadCache`: the thread pool runs every request on and the database answers
or raises; `RequestsEnd` also assumes that outages end (a thread that releases its
lock retries for ever during one). Expiry is never assumed. `Ingress`: the poll loop
catches every exception and goes on, the process is restarted, the clock runs, and the
producer delivers what it has queued, and requests in progress run on; nothing is assumed of
lines or of Grafana's posts, and faults are bounded.

## 5. Findings

Two runs end in a violation of something the repository says of itself:

1. `dedup_poison_doc`: a JSON object whose timestamp is no date raises in
   `enrich` outside any `try`; the application stops, and again after every restart, at
   the same offset. "Malformed Kafka message: route to DLQ" (`src/docs/HLD.md:491`).
2. `ingress_docstring`: a poll moves the Loki cursor to the end of its window also when the
   page was cut at `grafana_loki_limit` (`sources/grafana/loki.py:176`): the lines behind
   are in no later window. "Overlap of one second avoids edge-gaps"
   (`sources/grafana/loki.py:88-90`).

Further divergences were met while modelling. No run is kept for them; where a property
names the window that explains one, it is given:

- The docstring of `claim_outbox_batch` (`db/repository.py:340`) promises that a row a worker
  has claimed is never processed by a second one. Stale recovery in the same function
  returns it to the queue after `stale_processing_seconds`, and a live worker may be that
  slow: a batch of 50 is sent serially and `updated_at` is not refreshed (`OneHolder`).
- `clear_all` (`db/repository.py:240-243`) deletes the outbox before the log: a row
  inserted between the two statements whose key was in the log, or is posted and logged by then,
  stays and reads sent with no entry in the log (`SentIsAudited`).
- "Occurrence count never decreases" (`db/mapping.py:49`): an upsert reads the row without
  `FOR UPDATE` and writes an absolute count (`CountsGrow`).
- `_release_lock` retries on every exception (`cache/alert_cache.py:299`), so a request that
  meets an outage there spins until Redis is back; "falls back to in-memory cache ... and
  keeps serving" (`src/README.md:168`). `RequestsEnd` needs outages to end.
- A crash after a claim spends an attempt without a mark, and only a failing mark
  compares `attempts` with the maximum, so a row may be claimed more often than
  `dispatch_outbox_max_attempts` (`src/README.md:235`). `AttemptBudget` says by
  how much.
- "Resets attempts so max_attempts applies fully again" (`redrive_outbox`,
  `db/repository.py:513`): not if a worker claimed the row after the redrive's SELECT had loaded it
  with no attempts. The assignment of 0 is then no change to the session and the column
  keeps what the claim spent. The proof attempt of `AttemptBudget` found this: with only
  recoveries counted as returns it is false with two redrives and a maximum of one.
- Redrive with `all=true` and a status resets rows of every status
  (`ui/app.py:544`), rows in processing and rows sent included; seed-dead marks a row
  a worker may already hold, rows in processing included (`ui/app.py:612`).
- An acknowledgement that commits between load and commit of an incident's first
  refire is overwritten (`db/mapping.py:49-50` says it is kept); `OperatorKept`
  names that window as the only one.
- The reopen policy is checked before the upsert's transaction
  (`src/docs/HLD.md:245`); `PolicyKept` names the window.
- Emitting an event again is no no-op (`db/models.py:92`): the count grows by one.
- A timestamp beyond the allowed skew moves only the clock the event is judged
  by; `first_seen` and `last_seen` take it as it is
  (`dedup/transition.py:155,174` against `src/docs/HLD.md:342`).
- The DLQ producer's buffer is not flushed before the checkpoint that commits the
  source offsets, so a crash loses records (`src/docs/HLD.md:329`); neither an error of
  `produce` nor a failed delivery is noticed (`runtime/quix_runtime.py:232-239`, `GarbageKept`).
- The next poll of a UI client may miss its own write although `_touch_cache`
  rebuilt the snapshot (`ui/app.py:266`): `OnlyRacedIsStale` names the race. It also strikes without
  Redis: a thread that got the old snapshot from Redis may assign it to the process's copy
  after another thread's rebuild (`cache/alert_cache.py:514`), and once Redis fails that copy is served.
- The lock token is the instance's (`cache/alert_cache.py:291`), so a thread whose lock
  expired deletes the lock of another thread of its process; `OneRebuilds` allows for it.
- A line is remembered as seen before it is emitted (`sources/grafana/loki.py:153`), so one
  whose emit fails is skipped by every later poll (`MissedExplained`).
- Two streams of one service that log the same text in the same nanosecond have one dedupe
  key (`sources/grafana/loki.py:219`): the second line is dropped (`MissedExplained`).
- The memory engine and the keyed state decide differently on events out of order:
  `expire_stale` closes every window by the time of one event (`ParityInOrder` holds in
  order only).
- Every post of a Grafana episode carries its `startsAt` (`sources/grafana/normalize.py:277`).
  Repeats of one episode therefore never refire, however long it lasts; and two alerts
  with different starts that share a coarse fingerprint (service and error code) move each
  other's `last_seen` back, so that each repeat may open an incident
  (`RepeatsStayQuiet`). Where their settings differ as well, each is judged by the window the
  other stored (`dedup/transition.py:115`, `SuppressedExplained`).
- A resolved post resolves nothing. With labels or message in the key, as by default, it
  is an incident of its own (`ResolvedJoins`). So is a firing post whose annotation quotes another
  value.
- A severity `fatal` becomes ERROR in `normalize_grafana_alert` (`:262`) and CRITICAL in
  `LogLevel.normalize` (`schemas.py:34`): a CRITICAL threshold drops it (`DropsAreMild`).
- A PUT of a widget undoes a deletion between its two transactions, and writes an older
  title back (`StaysDeleted`, `BlankKeepsTitle`).
- From reading only: `_rate_limit_ok` (`ui/app.py:211`) checks, prunes and appends to a list
  that the threads of the UI share without a lock; racing demo requests may exceed the limit, or
  pop from a list another thread emptied.

## 6. Proofs

`OutboxProofs` proves, for any number of workers, keys, rows, crashes, slow
claims and operator requests:

| Theorem | States |
| --- | --- |
| `OutboxInvariant` | `Spec => []IInv` |
| `OutboxTypes` | `Spec => []TypeOK` |
| `SentMeansAudited` | `Spec => []SentIsAudited` |
| `ExclusiveClaims` | `Spec => []OneHolder` |
| `DeliveriesExplained` | `Spec => []DuplicatesExplained` |
| `AttemptsAreBudgeted` | `Spec => []AttemptBudget` |
| `SentRowsSettle` | `Spec => SentSettles` |
| `OutboxKeepsPromise` | `Spec => KeepsPromise` |

The assumptions are those on the constants in `Outbox`, which TLC evaluates in
every run. The argument: none of the three safety properties is inductive.
`SentIsAudited` (with its one window, `unlogged`) depends on what a worker about to mark a row has behind it
(`Confirmed`), which needs that the row in hand is one of its batch (`RowInHand`) and
that ids name one key for good (`FreshIds`). `OneHolder` follows from `Owned` (a row
belongs to its one holder until it is stolen) and from `UniqueKeys`, two present
rows never share a key. `DuplicatesExplained` needs two more facts: everything a channel
accepted is in the log, about to be, or lost to it (`Accounted`), and a worker
that passed the idempotency check sends a key which is not in the log, unless
its row was taken from somebody (`Unsent`). The conjunction `IInv` is
proved inductive with one lemma for each
action, split by conjunct; `SentRowsSettle` uses `IInv` on both sides of a step.

`AttemptBudget` needs more than `IInv`: a worker keeps its claim in memory after the row was taken
from it, so the attempts of a row are spent by people who do not hold it. `BudgetInv` counts
them: `HoldersCounted` (every worker that has the row in its batch, but its present holder, lost it
by a return), `AttemptsSpare` (an attempt is left for every claim that can still happen, those after
a late "failed" included) and `FreshAttempts` (an id not yet handed out has none). It has a second induction on top of
`OutboxInvariant`, `NextBudget`.

`OutboxKeepsPromise`, for every value of the constants of `Outbox`: the initial states correspond,
and each action maps to a step of `Notifications` or a stutter, with `IInv` supplying what the
abstract guards ask: a row is marked sent only with its key delivered (`Confirmed`,
`SentIsAudited`), and a late mark meets a settled ticket only if the row was taken (`Owned`).

`ReadCacheProofs` proves, for any number of instances, threads, requests, writes and
outages, whatever expires when:

| Theorem | States |
| --- | --- |
| `CacheInvariant` | `Spec => []IInv` |
| `CacheTypes` | `Spec => []TypeOK` |
| `StaleOnlyByRace` | `Spec => []OnlyRacedIsStale` |
| `RebuildsExclude` | `Spec => []OneRebuilds` |

`OneRebuilds` follows from `LockKept`: the key holds at most one lock, and a thread that
works under it is its setter or is recorded as having lost it. `OnlyRacedIsStale`
needs three facts about places where an old snapshot could hide: the database is
never behind an invalidation (`Committed`), a snapshot in a request's hands, loaded or read from
Redis, is marked or no older than the last invalidation (`InHand`), and the copy a process keeps is
marked or new enough for every request that has rebuilt and not yet answered (`OwnCopy`), although
other threads of the process overwrite it in between.

`DedupStreamProofs` proves, for any topic, any number of crashes and checkpoints and
every window, refire interval and skew:

| Theorem | States |
| --- | --- |
| `StreamInvariant` | `Spec => []IInv` |
| `StreamTypes` | `Spec => []TypeOK` |
| `EventsCountOnce` | `Spec => []CountsEveryEvent` |
| `WorstSeverity` | `Spec => []SeverityIsWorst` |
| `GarbageReachesDlq` | `Spec => []GarbageKept` |
| `StreamHistory` | `Spec => []HistoryInv` |
| `ReplaysAgree` | `Spec => []ReplayStable` |
| `SilenceSplits` | `Spec => []SplitsOnSilence` |
| `NothingLost` | `Spec => []CommittedMeansSunk` |
| `AlertsAreSpaced` | `Spec => []RefireSpacing` |

A crash replaces the state by the checkpoint's, so what is inductive is that both
summarise the messages of their incident (`Summarises`): the count is the number of
messages since it was opened, the level is their maximum. `SummaryStays` carries
that over the growth of the topic, `DedupSummary` over one message;
`TransitionResult` is the lemma about `apply_dedup_transition`. `GarbageReachesDlq` has an
invariant of its own (`GarbageInv`) that relates the DLQ, its buffer and the offsets.

The other properties compare what a message was decided with what it is decided again. The keyed
state after a prefix of the topic is no recursive function here, which could not be proved about;
instead `Remembers` says of a state what it keeps of the decisions behind it: when the last message
was, and when the last announcement was (`LastEmission`). `HistoryInv` says so of the live state
and of the checkpoint's, and that every decision follows from those two times (`Ruled`): a crash
then returns to a state which decides each message again as before. A clamped event breaks the
chain, since the wall clock at which it was judged is in no state, so everything is said of messages
before the first one (`Sure`). `DeliveryInv` adds that what was announced is in the sink or on
its way there, `SpacingInv` that alerts of one id have no opening between them and stand a
refire interval apart.

`IncidentsProofs` proves, for any number of ids, messages, demo requests, operators and
crashes, with any mixture of reopening policies and suppression on or off:

| Theorem | States |
| --- | --- |
| `IncidentsInvariant` | `Spec => []IInv` |
| `IncidentsTypes` | `Spec => []TypeOK` |
| `StampKept` | `Spec => []ResolvedStamped` |
| `OneRetryIsEnough` | `Spec => []RetrySuffices` |
| `SeenInvariant` | `Spec => []SeenInv` |
| `KeysAreFresh` | `Spec => []RefiresNotify` |
| `CountsNeverDrop` | `Spec => CountsGrow` |
| `OperatorsAreKept` | `Spec => OperatorKept` |
| `PolicyIsKept` | `Spec => PolicyKept` |
| `AcksSilence` | `Spec => AckSilences` |
| `ResolvingAcks` | `Spec => ResolveAcks` |

`ResolvedStamped` is inductive beside the types. `RetrySuffices` is not: it follows from
`OneActive`, what the partial unique index leaves, and `InSight`, what an emission still
knows while no operator has committed since it began: the row it loaded is active,
an id that was taken meanwhile was taken by an active row, and after a conflict
there is a row to load. The fresh ids of `Load` need `IdsInOrder`. `WriteKeeps` is the
lemma that carries an emission's knowledge over the writes of others (an upsert never takes a
row out of the active ones, and brings none in outside them), and `OthersKeep` applies it.

What writers may override is a question of what they had read. `SeenInv` says that it is still so
while nobody interfered: the status an emission loaded (`StatusSeen`), its count (`CountSeen`), the
reopen policy it passed (`PolicySeen`); and that no notification key is ahead of the count
of its incident (`KeysCounted`), from which a refire's key is new. The five action properties
are then one case per writer; the exceptions they name are where `SeenInv` stops.

`IngressProofs` proves, for any lines, dedupe keys, notifications, limit, lookback and number of
faults:

| Theorem | States |
| --- | --- |
| `IngressInvariant` | `Spec => []IInv` |
| `IngressTypes` | `Spec => []TypeOK` |
| `NoSilentLoss` | `Spec => []MissedExplained` |
| `NoSilentDuplicate` | `Spec => []DuplicatesExplained` |
| `AnswersHold` | `Spec => []AnsweredIsKept` |

`MissedExplained` speaks of the moments between polls; what is inductive is `BehindIsKept` (a line
behind the next window is accounted for or still in the page in hand) with `TakenIsKept`
for lines remembered as seen. `DuplicatesExplained` follows from `SeenOnce` for lines and
`AlertOnce` for alerts.

`WidgetsProofs` proves, for any number of requests, widgets, titles and boards:

| Theorem | States |
| --- | --- |
| `WidgetsInvariant` | `Spec => []IInv` |
| `LastSaveShows` | `Spec => []RowIsLastSave` |
| `DeletedStaysDeleted` | `Spec => []StaysDeleted` |
| `ErrorsAreRaces` | `Spec => []ErrorsRaced` |
| `TitlesKept` | `Spec => BlankKeepsTitle` |

The invariant adds `FreshIds` (a row, or a request in progress, only has ids that were
handed out) and `Uncrossed`: what a request found and loaded is still so unless something
committed on its widget since.

`GrafanaAlertsProofs` proves, for any alerts, rules, readings and contents of `alerts.yaml` that
`RefireSettings` accepts:

| Theorem | States |
| --- | --- |
| `GrafanaInvariant` | `Spec => []IInv` |
| `GrafanaTypes` | `Spec => []TypeOK` |
| `EpisodesStayQuiet` | `Spec => []RepeatsStayQuiet` |
| `SuppressionsExplained` | `Spec => []SuppressedExplained` |

The log and the keyed state are tied by `StateInv` (a fingerprint that saw only one start
since a post still has that post's incident and an announcement within its
refire interval), `EmittedInv` (what a blob calls its last announcement is one
in the log) and `LatestInv` (its last event and its window are those of the fingerprint's last post);
`PostResult` is the lemma about one decision.

`ResolvedJoins` and `DropsAreMild` speak of the posts in the log, so their invariant is about the
log: `PostedInv`, each logged post was an event of its alert (`Event`), dropped by its level or
keyed by its fields under the settings logged with it. The fingerprint is a sequence of
named values, so two posts with one key agree on every configured field.

| Theorem | States |
| --- | --- |
| `PostsRecorded` | `Spec => []PostedInv` |
| `ResolvedAlertsJoin` | `Spec => []ResolvedJoins` |
| `DropsMild` | `Spec => []DropsAreMild` |

`DedupEngineProofs` proves, for any threads, fingerprints, events, window and refire interval, with
calls interleaved between any two locked calls of the store:

| Theorem | States |
| --- | --- |
| `EngineInvariant` | `Spec => []IInv` |
| `EngineTypes` | `Spec => []TypeOK` |
| `CountsKept` | `Spec => []CountedUnlessRaced` |
| `AlertsAnnounced` | `Spec => []AnnouncedUnlessRaced` |
| `DropsExplained` | `Spec => []DroppedExplained` |
| `EngineAlertsSpaced` | `Spec => []AlertsSpaced` |
| `ParityWhenOrdered` | `Spec => []ParityInOrder` |

The properties excuse what a rival did, a call for the same fingerprint that overlapped, and only
results are in them; the invariant says it of calls that still run. `Numbered`: calls that
overlap have met. `IdsKnown`: an id in the store, in a thread's hands or in an alert is that of a
call which has returned, and was announced or is excused. `Beaten`: a thread's own `expire_stale`
leaves no entry its event could close, so one that does, or that beats its `try_create`, was
written by a rival; if it is gone again, a third call expired it. `ReadersCount` and `ReadersSpace`:
what a call without rivals has counted or announced is in the hands of every thread about to
write, because none of them read before. `InStep`: with one call at a time and in order of time the
store is the stream's keyed state but for entries that a begun event has expired, which the stream
would find expired as well; `SameDecision` is the lemma that the two then decide alike.
`Moves` reduces the actions to what the properties see of them: a thread reads, writes an
entry that opens or continues an incident, or gives up.

Checked by TLC only: the four liveness properties (`EveryRowSettles`, `EveryMessagePasses`,
`RequestsEnd`, `LinesSettle`), since fairness and ENABLED are beyond the prover. Every
safety and action property of a passing run is stated by a theorem. Each inductive invariant was
checked with TLC on the instance of its run before it was proved.

## 7. Abstractions and what is not modelled

- One fingerprint in `Incidents` and `DedupStream`: keyed state, rows, the unique
  index and group_by's partitioning are all per fingerprint.
- Payloads, channels and their formatters are not modelled; a key stands for alert
  id, count and channel. `Malformed` and `Unroutable` keys stand for payloads that do
  not parse and for channels that are gone.
- The cache holds a version, not a content; `_load_from_db` reads in
  several statements and is one step here. In memory mode the cache holds nothing
  across requests and there is nothing to check.
- The producer of the repartition topic is flushed by the checkpoint and is not
  modelled as a buffer. The DLQ is enabled and its producer library is there, the sink is the upsert.
- `Ingress`: which fields a line is normalised to is data; a line's identity is its dedupe key.
  The flush after a poll is a delivery that may happen at any time.
- `DedupEngine`: one window for all events and no skew; `DedupStream` has the clamp,
  `GrafanaAlerts` the settings per event and the window a blob stores.
- `GrafanaAlerts`: a post is judged when it is sent (how it travels is `Ingress` and
  `DedupStream`), `startsAt` is always there, the severity label is the rule's. Tokens stripped
  from messages, single-label and unknown fields of `dedup_fields` are not modelled, nor the
  search for the file.
- `Widgets`: labels, status filter and sort order change together (a board).

Not modelled:

- The demo rate limiter: a guard of the demo endpoints (section 5 has what reading it shows).
- Channel formatters and HTTP clients: conversions of data; `Outbox` has a post's outcomes.
- Queries, pages, metric summaries and counters: they only read.
- The browser client: it renders and polls and keeps no state the server relies on.
- Migrations, containers, the sample producer and start-up: wiring.
- That one snapshot is read in several statements (`cache/alert_cache.py:339`): its lists
  and statistics may be of different moments, and nothing in the code claims otherwise.

## 8. What is left

1. The composition of `DedupStream` with `Incidents` through `emit_alert`: the ids and
   counts of replayed decisions against the rows. Today each has the other as one step.
2. Proofs: every safety property has its theorem; the composition of point 1 would need its own,
   and so would a promise for the stream (each incident announced, counted and
   spaced) that `DedupStream` and `DedupEngine` both implement.
3. The rate limiter as a small module: admitted requests within a window against the limit plus
   the requests that raced.
4. A snapshot of several reads in `ReadCache`.
