--------------------------- MODULE MCDedupStream ---------------------------
(* Claims of documents and docstrings that the runs of DedupStream refute.   *)
EXTENDS DedupStream

\* _SafeJsonDeserializer "never raises", from_kafka_value: "Best-effort parse".
\* A timestamp that is no date raises in enrich, before the offset is committed.
NeverStuckOnMessage == EveryMessagePasses
=============================================================================
