---------------------- MODULE MCConversationLifecycle ----------------------
EXTENDS ConversationLifecycle, TLC

CONSTANTS p1, p2, w1, w2

TwoApis == {p1, p2}
TwoWorkers == {w1, w2}
=============================================================================
