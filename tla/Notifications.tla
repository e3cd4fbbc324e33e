---------------------------- MODULE Notifications ----------------------------
(***************************************************************************)
(* What the dispatch outbox promises, without queries, locks, batches or   *)
(* workers.  Every notification the system decides to send gets a ticket.  *)
(* A ticket stays open until it is settled (the channel accepted the       *)
(* notification) or given up; only an operator reopens, buries or removes  *)
(* a ticket, and a late result can disturb only a disputed one: a ticket   *)
(* that was taken from a worker still busy with it.                        *)
(***************************************************************************)
EXTENDS Naturals

CONSTANTS Ticket, Key, NoKey

VARIABLES
    phase,       \* where each ticket stands
    subject,     \* the notification a ticket is for
    delivered,   \* notifications the channels accepted
    disputed,    \* tickets that were taken from a worker
    request      \* the operator request under way

vars == <<phase, subject, delivered, disputed, request>>

Live     == {"open", "sent", "dead"}
Open     == {i \in Ticket : phase[i] = "open"}
LiveOnes == {i \in Ticket : phase[i] \in Live}

Init ==
    /\ phase = [i \in Ticket |-> "unused"]
    /\ subject = [i \in Ticket |-> NoKey]
    /\ delivered = {} /\ disputed = {} /\ request = "none"

MoveTo(S, p) == phase' = [i \in Ticket |-> IF i \in S THEN p ELSE phase[i]]

\* Only an open ticket has a worker it can be taken from.
MayDispute == disputed \subseteq disputed' /\ disputed' \subseteq disputed \cup Open

\* A fresh ticket for a notification that has no live one.
Issue(i, k) ==
    /\ phase[i] = "unused"
    /\ \A j \in LiveOnes : subject[j] # k
    /\ MoveTo({i}, "open")
    /\ subject' = [subject EXCEPT ![i] = k]
    /\ UNCHANGED <<delivered, disputed>>

Want(i, k) == Issue(i, k) /\ UNCHANGED request

\* The channel accepts a notification some ticket asked for.
Deliver(i) ==
    /\ phase[i] # "unused"
    /\ delivered' = delivered \cup {subject[i]}
    /\ UNCHANGED <<phase, subject, disputed, request>>

\* A worker reports on its ticket, once; on a disputed one, perhaps late.
Report(i, p) ==
    /\ phase[i] = "open" \/ (i \in disputed /\ phase[i] \in Live)
    /\ p \in Live
    /\ p = "sent" => subject[i] \in delivered
    /\ MoveTo({i}, p)
    /\ UNCHANGED <<subject, delivered, disputed, request>>

\* A ticket is taken from a worker that seems to have died.
Recover ==
    /\ MayDispute
    /\ UNCHANGED <<phase, subject, delivered, request>>

(* Operators *)
Ask == request = "none" /\ request' = "redrive" /\ UNCHANGED <<phase, subject, delivered, disputed>>

Redrive(S) ==
    /\ request = "redrive" /\ request' = "none"
    /\ S \subseteq LiveOnes /\ MoveTo(S, "open")
    /\ MayDispute
    /\ UNCHANGED <<subject, delivered>>

Seed(i, k) == request = "none" /\ request' = "seed" /\ Issue(i, k)

Bury(S) ==
    /\ \/ request = "seed" /\ request' \in {"none", "markopen"}
       \/ request = "markopen" /\ request' = "none"
    /\ S \subseteq LiveOnes /\ MoveTo(S, "dead")
    /\ MayDispute
    /\ UNCHANGED <<subject, delivered>>

Remove(S) ==
    /\ S \subseteq LiveOnes /\ MoveTo(S, "gone")
    /\ MayDispute
    /\ UNCHANGED <<subject, delivered, request>>

Next ==
    \/ \E i \in Ticket, k \in Key : Want(i, k) \/ Seed(i, k)
    \/ \E i \in Ticket : Deliver(i) \/ \E p \in Live : Report(i, p)
    \/ Recover \/ Ask
    \/ \E S \in SUBSET Ticket : Redrive(S) \/ Bury(S) \/ Remove(S)

Spec == Init /\ [][Next]_vars
=============================================================================
