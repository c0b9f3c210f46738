------------------------ MODULE MCSpecialistSessions ------------------------
(* Instances of SpecialistSessions for TLC. *)
EXTENDS SpecialistSessions, TLC

CONSTANTS p1, p2, s1, s2, d1, d2, d3

TwoProcesses == {p1, p2}
TwoSessions == {s1, s2}
ThreeDelegations == {d1, d2, d3}

\* two delegations share a Session
SharedTarget == d1 :> s1 @@ d2 :> s1 @@ d3 :> s2

ProcessesAreAlike == Permutations(Processes)
=============================================================================
