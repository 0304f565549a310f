--------------------------- MODULE MCAlertPipeline ---------------------------
(* The pipeline for TLC: a reachability key that is always critical, and a *)
(* key outside transitions that is serious or worse.                       *)
EXTENDS AlertPipeline, TLC

Holds == [llama |-> 2, gpu |-> 0]

LevelsOfKeys == [llama |-> {"critical"}, gpu |-> {"serious", "critical"}]

==============================================================================
