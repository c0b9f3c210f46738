------------------------------ MODULE Accounts ------------------------------
(***************************************************************************)
(* Accounts of the platform and their tokens: src/app/identity.            *)
(*                                                                         *)
(* An account is one row of "users".  Refresh tokens form families: each   *)
(* login founds one, each refresh replaces its token by the next one, and  *)
(* a token that is presented a second time brings down its whole family.   *)
(*                                                                         *)
(* Every handler is one transaction at READ COMMITTED.  One that reads the *)
(* account FOR UPDATE is a single action.  Two are not: an update by an    *)
(* administrator reads the account without a lock and writes absolute      *)
(* values later (UpdateRead, UpdateWrite), and a logout finds the tokens   *)
(* of its family in a snapshot before it changes them (LogoutStart,        *)
(* LogoutEnd).  "tx" is the holder of the advisory lock of                 *)
(* lock_security_mutation.  Passwords are left out: whoever presents one   *)
(* may know it.                                                            *)
(***************************************************************************)
EXTENDS Naturals, Sequences, FiniteSets

CONSTANTS Users,       \* identities of accounts, each given away once
          Members,     \* accounts whose tokens, requests and clean-up are followed
          Founder,     \* the account made by bootstrap_admin at the start
          MaxVersion,  \* bound on the changes of one account
          MaxTokens    \* bound on the refresh tokens ever issued

ASSUME AccountsAssumption ==
  /\ IsFiniteSet(Users) /\ Founder \in Users
  /\ Members \subseteq Users
  /\ MaxVersion \in Nat
  /\ MaxTokens \in Nat

VARIABLES row,     \* the account of each identity
          refresh, \* all refresh tokens in the order of their issue
          access,  \* access tokens that have been signed, by user and version
          tx,      \* the update that holds the security lock
          sweep    \* the tokens a logout under way has found

avars == <<row, refresh, access, tx, sweep>>

\* "closed" is an account whose deletion has been requested.
Account == [status : {"unborn", "active", "closed", "gone"},
            admin : BOOLEAN, version : 0..MaxVersion]
NewAccount(status, admin) == [status |-> status, admin |-> admin, version |-> 0]

RefreshToken ==
  [user : Users, family : 1..MaxTokens, live : BOOLEAN]
AccessToken == Users \X (0..MaxVersion)
Update ==
  [user : Users, seen : 0..MaxVersion, admin : BOOLEAN, revokes : BOOLEAN]

Exists(u) == row[u].status \in {"active", "closed"}
Active(u) == row[u].status = "active"
Admins == {u \in Users : Active(u) /\ row[u].admin}
LiveOf(u) == {i \in DOMAIN refresh : refresh[i].user = u /\ refresh[i].live}
FamilyOf(f) == {i \in DOMAIN refresh : refresh[i].family = f /\ refresh[i].live}

\* The list of tokens once those of the set have been withdrawn.
Revoked(set) == [i \in DOMAIN refresh |->
                   IF i \in set THEN [refresh[i] EXCEPT !.live = FALSE] ELSE refresh[i]]

AccountsInit ==
  /\ row = [u \in Users |-> IF u = Founder THEN NewAccount("active", TRUE)
                            ELSE NewAccount("unborn", FALSE)]
  /\ refresh = <<>>
  /\ access = {}
  /\ tx = {}
  /\ sweep = {}

-----------------------------------------------------------------------------
CreateUser(u, admin) ==
  /\ tx = {}
  /\ row[u].status = "unborn"
  /\ row' = [row EXCEPT ![u] = NewAccount("active", admin)]
  /\ UNCHANGED <<refresh, access, tx, sweep>>

\* The pair of tokens of one login or one refresh.
IssueTo(u, family, list) ==
  /\ Len(list) < MaxTokens
  /\ refresh' = Append(list, [user |-> u, family |-> family, live |-> TRUE])
  /\ access' = access \cup {<<u, row[u].version>>}

Login(u) ==
  /\ Active(u)
  /\ IssueTo(u, Len(refresh) + 1, refresh)
  /\ UNCHANGED <<row, tx, sweep>>

Rotate_Any(i) ==
  /\ Active(refresh[i].user)
  /\ IssueTo(refresh[i].user, refresh[i].family, Revoked({i}))

\* A live token is replaced; one that was replaced or revoked before takes
\* the family down with it.
Rotate(i) ==
  /\ refresh[i].live
  /\ Active(refresh[i].user)
  /\ IssueTo(refresh[i].user, refresh[i].family, Revoked({i}))

Reuse(i) ==
  /\ ~refresh[i].live
  /\ refresh' = Revoked(FamilyOf(refresh[i].family))
  /\ UNCHANGED access

Refresh(i) ==
  /\ Exists(refresh[i].user)
  /\ Rotate(i) \/ Reuse(i)
  /\ UNCHANGED <<row, tx, sweep>>

\* A token of any age ends its family.  The statement that revokes it works
\* on the tokens its snapshot shows.
LogoutStart(i) ==
  /\ sweep = {}
  /\ Exists(refresh[i].user)
  /\ sweep' = FamilyOf(refresh[i].family)
  /\ UNCHANGED <<row, refresh, access, tx>>

LogoutEnd ==
  /\ sweep # {}
  /\ refresh' = Revoked(sweep)
  /\ sweep' = {}
  /\ UNCHANGED <<row, access, tx>>

ChangePassword(u) ==
  /\ Active(u)
  /\ row[u].version < MaxVersion
  /\ row' = [row EXCEPT ![u].version = @ + 1]
  /\ refresh' = Revoked(LiveOf(u))
  /\ UNCHANGED <<access, tx, sweep>>

\* An administrator changes an account.  The account is read under the
\* security lock but without a lock of its row.
UpdateRead(u, admin) ==
  /\ tx = {}
  /\ Exists(u)
  /\ row[u].version < MaxVersion
  /\ row[u].admin /\ ~admin => Cardinality(Admins) > 1
  /\ tx' = {[user |-> u, seen |-> row[u].version, admin |-> admin, revokes |-> TRUE]}
  /\ UNCHANGED <<row, refresh, access, sweep>>

\* bootstrap_admin with the credentials of an existing account.
BootstrapRead(u) ==
  /\ tx = {}
  /\ Active(u)
  /\ ~row[u].admin
  /\ row[u].version < MaxVersion
  /\ tx' = {[user |-> u, seen |-> row[u].version, admin |-> TRUE, revokes |-> FALSE]}
  /\ UNCHANGED <<row, refresh, access, sweep>>

\* auth_version is written as the value read plus one.  An update revokes
\* the refresh tokens, bootstrap_admin leaves them.
UpdateWrite ==
  \E t \in tx :
    /\ row' = [row EXCEPT ![t.user].version = t.seen + 1,
                          ![t.user].admin = t.admin]
    /\ refresh' = IF t.revokes THEN Revoked(LiveOf(t.user)) ELSE refresh
    /\ tx' = {}
    /\ UNCHANGED <<access, sweep>>

\* A transaction that fails or whose process ends leaves nothing behind.
Rollback ==
  /\ tx # {}
  /\ tx' = {}
  /\ UNCHANGED <<row, refresh, access, sweep>>

AccountStep ==
  \/ \E u \in Users :
       \/ u \in Members /\ Login(u)
       \/ ChangePassword(u)
       \/ BootstrapRead(u)
       \/ \E admin \in BOOLEAN : CreateUser(u, admin) \/ UpdateRead(u, admin)
  \/ \E i \in DOMAIN refresh : Refresh(i) \/ LogoutStart(i)
  \/ LogoutEnd
  \/ UpdateWrite
  \/ Rollback

CloseAccount_Unlocked(u) ==
  /\ Exists(u)
  /\ u \in Admins => Cardinality(Admins) > 1
  /\ row' = [row EXCEPT ![u].status = "closed"]
  /\ refresh' = Revoked(LiveOf(u))
  /\ UNCHANGED <<access, tx, sweep>>

\* What the deletion of a user does to the account: it is closed at once,
\* and removed, with its tokens, when everything else is.
CloseAccount(u) ==
  /\ tx = {}
  /\ Exists(u)
  /\ u \in Admins => Cardinality(Admins) > 1
  /\ row' = [row EXCEPT ![u].status = "closed"]
  /\ refresh' = Revoked(LiveOf(u))
  /\ UNCHANGED <<access, tx, sweep>>

RemoveAccount(u) ==
  /\ tx = {}
  /\ row' = [row EXCEPT ![u].status = "gone"]
  /\ refresh' = Revoked(LiveOf(u))
  /\ UNCHANGED <<access, tx, sweep>>

Authenticates_Version(token) ==
  /\ token \in access
  /\ Exists(token[1])
  /\ row[token[1]].version = token[2]

\* The access token is checked against the account as it is now.
Authenticates(token) ==
  /\ token \in access
  /\ Active(token[1])
  /\ row[token[1]].version = token[2]

-----------------------------------------------------------------------------
AccountsTypeOK ==
  /\ row \in [Users -> Account]
  /\ refresh \in Seq(RefreshToken)
  /\ Len(refresh) <= MaxTokens
  /\ access \subseteq AccessToken
  /\ tx \subseteq Update
  /\ Cardinality(tx) <= 1
  /\ sweep \subseteq 1..MaxTokens

(* Whatever administrators do to each other and to themselves at the same  *)
(* time, one of them remains active: update_user and the deletion of a     *)
(* user count the administrators under the security lock.                  *)
AdministratorRemains == Admins # {}

(* A family that has lost its last live token, by reuse, by a new password,*)
(* by an update or a deletion of its user, never gets another one.         *)
Dead(f) == /\ \E i \in DOMAIN refresh : refresh[i].family = f
           /\ FamilyOf(f) = {}
DeadFamiliesStayDead ==
  [][\A f \in 1..MaxTokens : Dead(f) => Dead(f)']_refresh
=============================================================================
