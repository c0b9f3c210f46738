---------------------------- MODULE MCDorisRoles ----------------------------
(* One administrator, two roles that may be exchanged for each other, one  *)
(* whole table and one column of another, and one query at a time.         *)
EXTENDS DorisRoles
Exchangeable == Permutations(Roles)
=============================================================================
