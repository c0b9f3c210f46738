------------------------- MODULE ConversationPromise -------------------------
(***************************************************************************)
(* What a Conversation promises, however its row, its tombstone, its locks *)
(* and the caches of its processes bring it about: it is worked on by one  *)
(* turn at a time, a deletion waits for the turn and lets no other begin,  *)
(* and the Conversation goes when nothing hangs on it any more, for good.  *)
(***************************************************************************)
CONSTANTS Runners, Things       \* processes that run turns; what may hang on it

VARIABLES
    phase,      \* open, closed to turns, or gone
    runner,     \* the process that runs a turn, if any
    things      \* what hangs on the Conversation

vars == <<phase, runner, things>>

Init == phase = "open" /\ runner = {} /\ things = {}

Run(p) ==
    /\ phase = "open" /\ runner = {}
    /\ runner' = {p}
    /\ UNCHANGED <<phase, things>>

Stop ==
    /\ runner' = {}
    /\ UNCHANGED <<phase, things>>

Add(x) ==
    /\ phase # "gone"
    /\ things' = things \cup {x}
    /\ UNCHANGED <<phase, runner>>

Close ==
    /\ phase = "open" /\ runner = {}
    /\ phase' = "closed"
    /\ UNCHANGED <<runner, things>>

Remove(x) ==
    /\ phase = "closed"
    /\ things' = things \ {x}
    /\ UNCHANGED <<phase, runner>>

Vanish ==
    /\ phase = "closed" /\ things = {}
    /\ phase' = "gone"
    /\ UNCHANGED <<runner, things>>

Next ==
    \/ \E p \in Runners : Run(p)
    \/ \E x \in Things : Add(x) \/ Remove(x)
    \/ Stop \/ Close \/ Vanish

Spec == Init /\ [][Next]_vars
==============================================================================
