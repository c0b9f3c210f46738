-------------------------- MODULE MCValueIndexSync --------------------------
EXTENDS ValueIndexSync, TLC

CONSTANTS w1, w2, v1

TwoWorkers == {w1, w2}
OneValue == {v1}
RunPool == 1..3
GenerationPool == 1..4
SwitchAndEdit == {"toggle", "edit"}
=============================================================================
