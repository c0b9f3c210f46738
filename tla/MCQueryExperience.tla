-------------------------- MODULE MCQueryExperience --------------------------
(* Instances of QueryExperience for TLC. *)
EXTENDS QueryExperience, TLC

CONSTANTS c1, w1, w2

OneRecorder == {c1}
TwoWorkers == {w1, w2}
==============================================================================
