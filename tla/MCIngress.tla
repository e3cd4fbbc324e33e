----------------------------- MODULE MCIngress -----------------------------
(* Lines, keys and notifications for checking Ingress with TLC, and the claim *)
(* of a docstring that one run refutes.                                       *)
EXTENDS Ingress, TLC

CONSTANTS l1, l2, k1, k2, n1, a1, a2

OneAlert   == n1 :> {a1}

\* Two streams have a line each: different ones, or the same service and text.
OwnKeys   == {l1 :> k1 @@ l2 :> k2}
OwnOrTwin == OwnKeys \cup {l1 :> k1 @@ l2 :> k1}

-----------------------------------------------------------------------------
\* LokiSource: "Cursor advances by wall-clock end time of each successful poll
\* so the same window is not re-queried. Overlap of one second avoids edge-gaps
\* at poll boundaries; Kafka/pipeline must tolerate at-least-once duplicates."
\* A page that was cut at the limit moves the cursor past what it left out.
AtLeastOnce ==
    \A l \in Stored : pc = "sleep" /\ cursor # Never /\ stamp[l] < cursor - 1 =>
        Copies(l) > 0 \/ "late" \in why[l] \/ "before" \in why[l]
=============================================================================
