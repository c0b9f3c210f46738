--------------------------- MODULE MCUserDeletion ---------------------------
(* Two accounts, both possibly administrators, and two workers.            *)
EXTENDS UserDeletion
=============================================================================
