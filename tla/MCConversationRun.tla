-------------------------- MODULE MCConversationRun --------------------------
(* Instances of ConversationRun for TLC. *)
EXTENDS ConversationRun, TLC

CONSTANTS r1, r2, s1, s2, m1, none

TwoRuns == {r1, r2}
TwoSubs == {s1, s2}
OneMessage == {m1}

\* Runs, subscriptions and messages are interchangeable; used for safety only.
Symmetric == Permutations(TwoRuns) \cup Permutations(Subs)
                \cup Permutations(MessageIds)
==============================================================================
