-------------------------- MODULE MCGrafanaAlerts --------------------------
(* Two alerts of one rule for two services, under three contents of          *)
(* alerts.yaml.                                                              *)
EXTENDS GrafanaAlerts, TLC

CONSTANTS a1, a2, r1, r2

MCRule(a) == "rule"
MCService(a) == IF a = a1 THEN "web" ELSE "db"

NoLayers == [name \in {} |-> <<>>]
Defaults == [min_level |-> 40, window |-> 1, refire |-> 1,
             dedup_fields |-> <<"service", "level", "labels", "message">>]

\* The default fields; a coarse key that an error code's layer sets over a
\* service's, whose other settings stay: the two alerts share a fingerprint
\* under different windows and refire intervals; a high threshold with the
\* level in a key that they share under the same settings.
MCConfigs ==
    {[defaults |-> Defaults, services |-> NoLayers, error_codes |-> NoLayers],
     [defaults |-> Defaults,
      services |-> [web |-> [dedup_fields |-> <<"host">>, window |-> 2, refire |-> 3]],
      error_codes |-> [rule |-> [dedup_fields |-> <<"error_code">>]]],
     [defaults |-> [Defaults EXCEPT !.min_level = 50, !.dedup_fields = <<"error_code", "level">>],
      services |-> NoLayers, error_codes |-> NoLayers]}

Symmetry == Permutations({r1, r2})
=============================================================================
