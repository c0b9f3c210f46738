------------------------ MODULE MCSandboxOwnership ------------------------
EXTENDS SandboxOwnership, TLC

CONSTANTS t1, t2, t3, u1, u2, c1, c2

ThreeThreads == {t1, t2, t3}
TwoUsers == {u1, u2}
OneEach == {c1, c2}
OwnerOfEach == c1 :> u1 @@ c2 :> u2

\* threads may be exchanged, and users together with their Conversations
Alike == Permutations(Threads)
    \cup {u1 :> u2 @@ u2 :> u1 @@ c1 :> c2 @@ c2 :> c1}
=============================================================================
