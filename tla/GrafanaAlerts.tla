--------------------------- MODULE GrafanaAlerts ---------------------------
(***************************************************************************)
(* What becomes of the alerts of Grafana's contact point: each post is     *)
(* normalized to a log event (normalize_grafana_alert), configured         *)
(* (resolve_for), gated by its level, keyed by its fingerprint             *)
(* (compute_fingerprint) and judged by the window and refire rules of      *)
(* DedupTransition.  Grafana repeats the post of an alert that is firing,  *)
(* retries one that failed, and posts again when it has resolved; every    *)
(* post of one episode carries the start of the episode.                   *)
(*                                                                         *)
(* How a post travels to the stream is the matter of Ingress and           *)
(* DedupStream; here it is judged when it is sent.  Of labels, annotations *)
(* and messages only what sets two posts apart is kept: the alert, its     *)
(* severity label, its status and the reading its annotations quote.       *)
(***************************************************************************)
EXTENDS Integers, Sequences

CONSTANTS
    Alert,         \* alert instances; each runs on a host of its own
    Rule(_),       \* alertname of an alert, its error code
    Service(_),    \* its service label
    Severities,    \* values of the severity label; "none" if there is none
    Reading,       \* measured values that annotations quote
    Configs,       \* contents of alerts.yaml
    Skew,          \* MAX_FUTURE_SKEW_SECONDS
    MaxWall,       \* bound: the clock
    MaxPosts       \* bound: posts

(* alert_config.py: the error code's settings win over the service's, and   *)
(* those over the defaults.                                                *)
Overlay(settings, layers, name) ==
    IF name \in DOMAIN layers
    THEN [k \in DOMAIN settings |->
            IF k \in DOMAIN layers[name] THEN layers[name][k] ELSE settings[k]]
    ELSE settings

ResolveFor(c, a) ==
    Overlay(Overlay(c.defaults, c.services, Service(a)), c.error_codes, Rule(a))

\* What RefireSettings accepts.
Valid(settings) ==
    /\ settings.window \in Nat \ {0} /\ settings.refire \in Nat \ {0}
    /\ settings.min_level \in {10, 20, 30, 40, 50}

ASSUME GrafanaAssumption ==
    /\ Skew \in Nat /\ MaxWall \in Nat /\ MaxPosts \in Nat
    /\ \A c \in Configs, a \in Alert : Valid(ResolveFor(c, a))

VARIABLES
    config, severity,  \* alerts.yaml and the rules' severity labels: fixed
    wall,
    episode,           \* of each alert: its status and since when
    keyed,             \* the stream's state of each fingerprint seen, and the
    windows,           \* window that the last event of the fingerprint left in it
    log                \* history: each post and what became of it

vars == <<config, severity, wall, episode, keyed, windows, log>>

Dedup(window, refire) == INSTANCE DedupTransition WITH Window <- window, Refire <- refire
Judge == INSTANCE DedupTransition WITH Window <- 1, Refire <- 0

Room  == Len(log) < MaxPosts
Rules == {Rule(a) : a \in Alert}

Init ==
    /\ config \in Configs /\ severity \in [Rules -> Severities]
    /\ wall = 0
    /\ episode = [a \in Alert |-> [status |-> "quiet", since |-> 0]]
    /\ keyed = [fp \in {} |-> Judge!NoState] /\ windows = [fp \in {} |-> 1] /\ log = <<>>

-----------------------------------------------------------------------------
(* normalize_grafana_alert *)

\* LEVEL_RANK of the severity labels that keep their meaning.
KnownLevel == [debug |-> 10, info |-> 20, warn |-> 30, warning |-> 30,
               error |-> 40, high |-> 40, critical |-> 50]

\* Any other label counts as an error while the alert fires.  Mutant: the
\* defaults do not look at the status.
FiringLevel(label, status) ==
    IF label \in DOMAIN KnownLevel THEN KnownLevel[label]
    ELSE KnownLevel[IF label = "none" THEN "critical" ELSE "error"]
Level(label, status) ==
    IF label \in DOMAIN KnownLevel THEN KnownLevel[label]
    ELSE IF status = "resolved" THEN KnownLevel["info"]
    ELSE KnownLevel[IF label = "none" THEN "critical" ELSE "error"]

\* Summary and annotations quote the reading; a resolved alert's message
\* begins with [resolved].
Message(a, status, reading) == <<Rule(a), status, reading>>
Labels(a, status, reading) == <<a, severity[Rule(a)], status, reading>>

\* startsAt, which all alerts but hand-made test posts carry.  Mutant: every
\* post is stamped when it is sent.
SentAt(a) == wall
Timestamp(a) == episode[a].since

Event(a, status, ts, reading) ==
    [service |-> Service(a), host |-> a, error_code |-> Rule(a), ts |-> ts,
     level |-> Level(severity[Rule(a)], status), message |-> Message(a, status, reading),
     labels |-> Labels(a, status, reading)]

Normalized(a, reading) == Event(a, episode[a].status, Timestamp(a), reading)

-----------------------------------------------------------------------------
(* fingerprint.py *)

\* The values of the configured fields, in their order.
Fingerprint(e, fields) == [i \in DOMAIN fields |-> <<fields[i], e[fields[i]]>>]

-----------------------------------------------------------------------------
(* enrich and dedup_stateful *)

\* Mutant: the threshold itself does not pass.
AboveMinLevel(e, settings) == e.level > settings.min_level
AtMinLevel(e, settings) == e.level >= settings.min_level

StateOf(fp) == IF fp \in DOMAIN keyed THEN keyed[fp] ELSE Judge!NoState

\* window_expired goes by the window that the fingerprint's last event stored,
\* which other settings than e's may have set.  Mutant: by the event's own.
OwnWindow(fp, settings) == settings.window
WindowOf(fp, settings) == IF fp \in DOMAIN windows THEN windows[fp] ELSE settings.window

\* What enrich and process_enriched_with_state make of a post, and the keyed
\* state of their verdict.
Verdict(e, settings) ==
    LET fp     == Fingerprint(e, settings.dedup_fields)
        clock  == Judge!EventClock(e.ts, wall)
        judged == Dedup(WindowOf(fp, settings), settings.refire)!
                      Transition(StateOf(fp), e, clock, Len(log) + 1)
    IN IF AtMinLevel(e, settings)
       THEN [action |-> judged.action, fp |-> fp, state |-> judged.state]
       ELSE [action |-> "drop", fp |-> <<>>, state |-> Judge!NoState]

\* The state of a fingerprint is stored whatever the verdict on its event, and
\* the event's window with it; what enrich drops has none.
Put(f, fp, x) == [g \in DOMAIN f \cup {fp} |-> IF g = fp THEN x ELSE f[g]]
Store(v, settings) ==
    IF v.action = "drop" THEN UNCHANGED <<keyed, windows>>
    ELSE keyed' = Put(keyed, v.fp, v.state) /\ windows' = Put(windows, v.fp, settings.window)

\* A post of a firing or a resolved alert: sent first, repeated or retried.
Post(a) ==
    /\ Room /\ episode[a].status # "quiet"
    /\ \E reading \in Reading :
       LET e == Normalized(a, reading)
           settings == ResolveFor(config, a)
           v == Verdict(e, settings)
       IN /\ Store(v, settings)
          /\ log' = Append(log, [alert |-> a, status |-> episode[a].status, ts |-> e.ts,
                                 action |-> v.action, fp |-> v.fp, id |-> v.state.id,
                                 settings |-> settings])
    /\ UNCHANGED <<config, severity, wall, episode>>

-----------------------------------------------------------------------------
(* Grafana's alerts *)

Start(a) ==
    /\ Room /\ episode[a].status # "firing"
    /\ episode' = [episode EXCEPT ![a] = [status |-> "firing", since |-> wall]]
    /\ UNCHANGED <<config, severity, wall, keyed, windows, log>>

Resolve(a) ==
    /\ Room /\ episode[a].status = "firing"
    /\ episode' = [episode EXCEPT ![a].status = "resolved"]
    /\ UNCHANGED <<config, severity, wall, keyed, windows, log>>

Tick ==
    /\ Room /\ wall < MaxWall /\ wall' = wall + 1
    /\ UNCHANGED <<config, severity, episode, keyed, windows, log>>

\* Nothing of interest happens after the last post.
Full == ~Room /\ UNCHANGED vars

Next == Tick \/ Full \/ \E a \in Alert : Start(a) \/ Resolve(a) \/ Post(a)

Spec == Init /\ [][Next]_vars

-----------------------------------------------------------------------------
Announced(i) == log[i].action \in {"new", "update"}
SameKey(i, j) == log[i].action # "drop" /\ log[j].action # "drop" /\ log[i].fp = log[j].fp

\* Type correctness: every state blob is one of the rules', under an id that
\* a logged post opened.
TypeOK ==
    /\ config \in Configs /\ severity \in [Rules -> Severities] /\ wall \in 0..MaxWall
    /\ episode \in [Alert -> [status : {"quiet", "firing", "resolved"}, since : 0..wall]]
    /\ \A fp \in DOMAIN keyed :
          /\ keyed[fp] \in Judge!State
          /\ \E i \in DOMAIN log : log[i].action = "new" /\ log[i].id = keyed[fp].id /\ log[i].fp = fp
    /\ windows \in [DOMAIN keyed -> Nat \ {0}]
    /\ \A i \in DOMAIN log : log[i].action \in Judge!Action \cup {"drop"} /\ log[i].ts <= wall

\* Repeats of an episode are quiet, however long it lasts and whatever windows
\* its alerts are given: a post is announced a second time, or counted in
\* another incident, only if in between the same fingerprint saw a post of
\* another start, or a shorter refire interval judges the later one.  Grafana's
\* repeat interval must not turn one episode into many incidents; two alerts
\* that share a fingerprint do that to each other.
RepeatsStayQuiet ==
    \A i, j \in DOMAIN log :
        /\ i < j /\ SameKey(i, j) /\ log[i].ts = log[j].ts
        /\ log[i].settings.refire <= log[j].settings.refire
        /\ Announced(j) \/ log[i].id # log[j].id
        => \E k \in i + 1 .. j - 1 : SameKey(i, k) /\ log[k].ts # log[i].ts

\* Nobody is kept in the dark: a suppressed post follows an announcement of
\* its incident that is less than its own refire interval older by event time,
\* and joins the last post of its fingerprint within the window that one's
\* settings promised, whatever the order of the posts and the settings of
\* either.
Last(i, j) == SameKey(i, j) /\ \A k \in i + 1 .. j - 1 : ~SameKey(k, j)
SuppressedExplained ==
    \A j \in DOMAIN log : log[j].action = "suppress" =>
        /\ \E i \in 1 .. j - 1 :
              /\ SameKey(i, j) /\ Announced(i) /\ log[i].id = log[j].id
              /\ log[j].ts - log[i].ts < log[j].settings.refire
        /\ \E i \in 1 .. j - 1 :
              /\ Last(i, j) /\ log[i].id = log[j].id
              /\ log[j].ts - log[i].ts <= log[i].settings.window

\* A fingerprint whose posts since the i-th all carry the i-th's start keeps
\* that post's incident, and was announced within its refire interval.
Undisturbed(i) == \A k \in DOMAIN log : k > i /\ SameKey(i, k) => log[k].ts = log[i].ts
StateInv ==
    \A i \in DOMAIN log : log[i].action # "drop" =>
        /\ log[i].fp \in DOMAIN keyed
        /\ Undisturbed(i) =>
              LET st == keyed[log[i].fp] IN
              st.last = log[i].ts /\ st.id = log[i].id /\ log[i].ts - st.emitted < log[i].settings.refire

\* What a state blob calls its last announcement is one, ...
EmittedInv ==
    \A fp \in DOMAIN keyed : \E i \in DOMAIN log :
        /\ Announced(i) /\ log[i].fp = fp
        /\ log[i].id = keyed[fp].id /\ log[i].ts = keyed[fp].emitted

\* ... and its last event and window are those of the last post.
LatestInv ==
    \A fp \in DOMAIN keyed : \E i \in DOMAIN log :
        /\ log[i].action # "drop" /\ log[i].fp = fp
        /\ \A k \in DOMAIN log : k > i => log[k].action = "drop" \/ log[k].fp # fp
        /\ log[i].id = keyed[fp].id /\ log[i].ts = keyed[fp].last
        /\ log[i].settings.window = windows[fp]

LogInv ==
    /\ log \in Seq({log[i] : i \in DOMAIN log})
    /\ \A i \in DOMAIN log :
          /\ log[i].ts \in Nat /\ log[i].id \in Nat
          /\ log[i].action # "drop" => log[i].id # 0
          /\ log[i].alert \in Alert /\ Valid(log[i].settings)

\* A logged post was an event of its alert's rule, judged by its level and keyed
\* by its fields, under the settings logged with it.
PostedInv ==
    \A i \in DOMAIN log : \E reading \in Reading :
        LET e == Event(log[i].alert, log[i].status, log[i].ts, reading) IN
        IF AtMinLevel(e, log[i].settings)
        THEN log[i].action # "drop" /\ log[i].fp = Fingerprint(e, log[i].settings.dedup_fields)
        ELSE log[i].action = "drop"

\* The inductive invariant of the keyed state.
IInv ==
    /\ TypeOK /\ LogInv /\ StateInv /\ EmittedInv /\ LatestInv
    /\ RepeatsStayQuiet /\ SuppressedExplained

\* A resolved alert joins the incident of its firing only if the configured
\* fields name neither labels nor message, nor the level of an alert without
\* a known severity: with the default fields it is an incident of its own.
FieldsOf(i) == {log[i].settings.dedup_fields[n] : n \in DOMAIN log[i].settings.dedup_fields}
ResolvedJoins ==
    \A i, j \in DOMAIN log :
        /\ SameKey(i, j) /\ log[i].alert = log[j].alert
        /\ log[i].status = "firing" /\ log[j].status = "resolved"
        => /\ FieldsOf(i) \cap {"labels", "message"} = {}
           /\ "level" \in FieldsOf(i) => severity[Rule(log[i].alert)] \in DOMAIN KnownLevel

\* LogLevel.normalize reads the same labels for the other sources; what it
\* does not know is information.
SchemaLevel(label) ==
    CASE label = "debug" -> 10
      [] label \in {"warn", "warning"} -> 30
      [] label = "error" -> 40
      [] label \in {"critical", "fatal"} -> 50
      [] OTHER -> 20

\* No alert that matters is dropped: a firing alert is below the threshold
\* only if its label is for every other source, or if it is fatal, the one
\* label that normalize_grafana_alert ranks lower than LogLevel.normalize.
DropsAreMild ==
    \A i \in DOMAIN log : log[i].action = "drop" /\ log[i].status = "firing" =>
        \/ severity[Rule(log[i].alert)] = "fatal"
        \/ /\ severity[Rule(log[i].alert)] # "none"
           /\ SchemaLevel(severity[Rule(log[i].alert)]) < log[i].settings.min_level
=============================================================================
