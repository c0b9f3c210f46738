---------------------------- MODULE AccessProofs ----------------------------
(***************************************************************************)
(* Who may do what: the accounts with their tokens and deletions, and the  *)
(* SQL guard, for any constants.                                           *)
(*                                                                         *)
(* Accounts.  The security lock keeps what an update has counted (Others); *)
(* the task of a deletion and the account go together whichever worker     *)
(* comes last (Agreed); an account that is closed takes no request, so     *)
(* that what has been removed stays away (Quieted, Emptied).               *)
(*                                                                         *)
(* SQL guard.  What is found is a function of the two readings of the      *)
(* catalogue (GuardInv).  Each reference that is completed names a column  *)
(* of the narrowed catalogue or a table of which it knows none             *)
(* (ReadIsKnown); that catalogue completes a sound query as the whole one  *)
(* does (ReferencesSame).                                                  *)
(* A condition is recursive: its least part that breaks what is claimed    *)
(* has no parts that do (LinksBind, TermsBind).                            *)
(***************************************************************************)
EXTENDS UserDeletion, SqlGuard, FiniteSetTheorems, SequenceTheorems,
        WellFoundedInduction, TLAPS

Row == [status : {"unborn", "active", "closed", "gone"}, admin : BOOLEAN, version : Nat]

\* what the arguments below need of the types
Typed ==
  /\ row \in [Users -> Row]
  /\ refresh \in Seq(RefreshToken)
  /\ tx \subseteq [user : Users, seen : Nat, admin : BOOLEAN, revokes : BOOLEAN]
  /\ task \in [Users -> {"none", "pending", "completed"}]
  /\ queue \in [Users -> Nat]
  /\ worker \in [Workers -> [user : Users, at : Stages \cup {"idle"}]]

\* an update under way leaves an administrator
Others == \A t \in tx : ~t.admin => \E v \in Admins : v # t.user

\* the task, the account, and who works for it
Agreed ==
  /\ CompletedMeansGone
  /\ \A u \in Users : queue[u] > 0 => task[u] # "none"
  /\ \A w \in Workers : worker[w].at # "idle" => task[worker[w].user] # "none"

\* a family bears the number of a token that exists
Founded == \A i \in DOMAIN refresh : refresh[i].family <= Len(refresh)

\* a user whose deletion began without a request has none later
Quieted == quiet \subseteq Users /\ \A u \in quiet : task[u] # "none" /\ u \notin requests

\* what a worker has removed for such a user stays removed
Emptied ==
  \A u \in quiet :
    /\ \A w \in Workers : worker[w].user = u =>
         /\ worker[w].at \in {"sandbox", "account"} => u \notin chats
         /\ worker[w].at = "account" => u \notin boxes
    /\ task[u] = "completed" => u \notin chats \cup boxes

IInv == Typed /\ AdministratorRemains /\ Others /\ Agreed /\ Founded /\ Quieted /\ Emptied

-----------------------------------------------------------------------------
\* More than one administrator: one besides any.
LEMMA AnotherAdmin ==
  ASSUME NEW u \in Users, Cardinality(Admins) > 1
  PROVE  \E v \in Admins : v # u
<1>1. IsFiniteSet(Admins)
  BY AccountsAssumption, FS_Subset DEF Admins
<1>2. Cardinality({}) = 0 /\ Cardinality({u}) = 1
  BY FS_EmptySet, FS_Singleton
<1>3. Admins # {} /\ Admins # {u}
  BY <1>2
<1> QED BY <1>3

\* Withdrawing tokens changes neither their number nor whose they are.
LEMMA RevokedTyped ==
  ASSUME refresh \in Seq(RefreshToken), NEW set
  PROVE  /\ Revoked(set) \in Seq(RefreshToken)
         /\ Len(Revoked(set)) = Len(refresh)
         /\ \A i \in DOMAIN refresh : Revoked(set)[i].family = refresh[i].family
         /\ \A i \in DOMAIN refresh : Revoked(set)[i].live <=> refresh[i].live /\ i \notin set
<1>1. DOMAIN refresh = 1..Len(refresh) /\ Len(refresh) \in Nat
  OBVIOUS
<1>2. \A i \in 1..Len(refresh) : refresh[i] \in RefreshToken
  OBVIOUS
<1>3. \A i \in 1..Len(refresh) : Revoked(set)[i] \in RefreshToken
  BY <1>1, <1>2 DEF Revoked, RefreshToken
<1>4. Revoked(set) \in [1..Len(refresh) -> RefreshToken]
  BY <1>1, <1>3 DEF Revoked
<1>5. Revoked(set) \in Seq(RefreshToken) /\ Len(Revoked(set)) = Len(refresh)
  BY <1>1, <1>4, IsASeq, LenProperties
<1>6. \A i \in DOMAIN refresh : /\ Revoked(set)[i].family = refresh[i].family
                                /\ Revoked(set)[i].live <=> refresh[i].live /\ i \notin set
  BY <1>1, <1>2 DEF Revoked, RefreshToken
<1> QED BY <1>5, <1>6

-----------------------------------------------------------------------------
(* The steps on the accounts.                                              *)

\* The part of the invariant that speaks of accounts.
AInv == Typed /\ AdministratorRemains /\ Others /\ CompletedMeansGone /\ Founded

\* Withdrawing tokens keeps the families.
LEMMA RevokedFounded ==
  ASSUME Typed, Founded, NEW set, refresh' = Revoked(set)
  PROVE  refresh' \in Seq(RefreshToken) /\ Founded'
<1> DEFINE new == Revoked(set)
<1>1. /\ new \in Seq(RefreshToken) /\ Len(new) = Len(refresh)
      /\ \A i \in DOMAIN refresh : new[i].family = refresh[i].family
  BY RevokedTyped DEF Typed
<1>2. DOMAIN new = DOMAIN refresh
  BY <1>1 DEF Typed
<1> QED BY <1>1, <1>2 DEF Founded

\* A new token is the last one of its family.
LEMMA IssuedFounded ==
  ASSUME Typed, Founded, NEW u \in Users, NEW family \in 1..(Len(refresh) + 1),
         NEW list \in Seq(RefreshToken), Len(list) = Len(refresh),
         \A i \in DOMAIN refresh : list[i].family = refresh[i].family,
         IssueTo(u, family, list)
  PROVE  refresh' \in Seq(RefreshToken) /\ Founded'
<1> DEFINE token == [user |-> u, family |-> family, live |-> TRUE]
<1>1. Len(refresh) \in Nat /\ Len(refresh) + 1 <= MaxTokens /\ MaxTokens \in Nat
  BY AccountsAssumption DEF Typed, IssueTo
<1>2. token \in RefreshToken
  <2>1. family \in 1..MaxTokens
    BY <1>1
  <2> QED BY <2>1 DEF RefreshToken
<1>3. /\ refresh' = Append(list, token)
      /\ refresh' \in Seq(RefreshToken) /\ Len(refresh') = Len(refresh) + 1
  BY <1>2 DEF IssueTo
<1>4. \A i \in 1..Len(refresh) : refresh'[i].family <= Len(refresh')
  <2> TAKE i \in 1..Len(refresh)
  <2>1. refresh[i].family <= Len(refresh) /\ refresh[i] \in RefreshToken
    BY DEF Founded, Typed
  <2>2. refresh'[i] = list[i]
    BY <1>3
  <2>3. list[i].family = refresh[i].family
    <3>1. i \in DOMAIN refresh
      BY DEF Typed
    <3> QED BY <3>1
  <2>4. refresh[i].family \in Nat
    BY <2>1 DEF RefreshToken
  <2> QED BY <1>1, <1>3, <2>1, <2>2, <2>3, <2>4
<1>5. refresh'[Len(refresh')].family <= Len(refresh')
  <2>1. refresh'[Len(refresh')] = token
    BY <1>3
  <2> QED BY <2>1, <1>3, <1>1
<1> QED BY <1>1, <1>3, <1>4, <1>5 DEF Founded

\* A refresh replaces a token or ends its family.
LEMMA RefreshFounded ==
  ASSUME Typed, Founded, NEW i \in DOMAIN refresh, Refresh(i)
  PROVE  refresh' \in Seq(RefreshToken) /\ Founded'
<1>1. CASE Reuse(i)
  BY <1>1, RevokedFounded DEF Reuse
<1>2. CASE Rotate(i)
  <2>1. refresh[i] \in RefreshToken /\ refresh[i].family <= Len(refresh) /\ Len(refresh) \in Nat
    BY DEF Typed, Founded
  <2>2. refresh[i].user \in Users /\ refresh[i].family \in 1..(Len(refresh) + 1)
    BY <2>1 DEF RefreshToken
  <2>3. IssueTo(refresh[i].user, refresh[i].family, Revoked({i}))
    BY <1>2 DEF Rotate
  <2>4. /\ Revoked({i}) \in Seq(RefreshToken) /\ Len(Revoked({i})) = Len(refresh)
        /\ \A j \in DOMAIN refresh : Revoked({i})[j].family = refresh[j].family
    BY RevokedTyped DEF Typed
  <2> QED BY <2>2, <2>3, <2>4, IssuedFounded
<1> QED BY <1>1, <1>2 DEF Refresh

\* Accounts and updates that are not touched keep all that is said of them.
LEMMA TokenStep ==
  ASSUME AInv, UNCHANGED <<row, tx, task, queue, worker>>,
         refresh' \in Seq(RefreshToken), Founded'
  PROVE  AInv'
BY DEF AInv, Typed, AdministratorRemains, Admins, Active, Others, CompletedMeansGone

\* Every step on the accounts keeps an administrator.
LEMMA AccountsKept ==
  ASSUME AInv, AccountStep, UNCHANGED dvars
  PROVE  AInv'
<1> USE DEF AInv
<1>0. UNCHANGED <<task, queue, worker>>
  BY DEF dvars
<1>1. ASSUME NEW u \in Users, Login(u) PROVE AInv'
  <2>1. Len(refresh) \in Nat /\ Len(refresh) + 1 \in 1..(Len(refresh) + 1)
    BY DEF Typed
  <2>2. refresh' \in Seq(RefreshToken) /\ Founded'
    BY <1>1, <2>1, IssuedFounded DEF Login, Typed
  <2> QED BY <1>0, <1>1, <2>2, TokenStep DEF Login
<1>2. ASSUME NEW u \in Users, ChangePassword(u) PROVE AInv'
  <2>1. refresh' \in Seq(RefreshToken) /\ Founded'
    BY <1>2, RevokedFounded DEF ChangePassword
  <2>2. Typed'
    <3>1. row[u] \in Row /\ row[u].version + 1 \in Nat
      BY DEF Typed, Row
    <3>2. [row[u] EXCEPT !.version = row[u].version + 1] \in Row
      BY <3>1 DEF Row
    <3>3. row' = [row EXCEPT ![u] = [row[u] EXCEPT !.version = row[u].version + 1]]
      BY <1>2 DEF ChangePassword
    <3>4. row' \in [Users -> Row]
      BY <3>2, <3>3 DEF Typed
    <3> QED BY <1>0, <1>2, <2>1, <3>4 DEF ChangePassword, Typed
  <2>3. \A v \in Users : row'[v].status = row[v].status /\ row'[v].admin = row[v].admin
    BY <1>2 DEF ChangePassword, Typed
  <2>4. Admins' = Admins
    BY <2>3 DEF Admins, Active
  <2> QED BY <1>0, <1>2, <2>1, <2>2, <2>3, <2>4
       DEF ChangePassword, AdministratorRemains, Others, CompletedMeansGone
<1>3. ASSUME NEW u \in Users, BootstrapRead(u) PROVE AInv'
  <2>1. row[u].version \in Nat
    BY DEF Typed, Row
  <2>2. Typed' /\ Others'
    BY <1>0, <1>3, <2>1 DEF BootstrapRead, Typed, Others
  <2> QED BY <1>0, <1>3, <2>2 DEF BootstrapRead, AdministratorRemains, Admins, Active,
       CompletedMeansGone, Founded
<1>4. ASSUME NEW u \in Users, NEW admin \in BOOLEAN, CreateUser(u, admin) PROVE AInv'
  <2>1. Typed' /\ Founded'
    BY <1>0, <1>4, AccountsAssumption DEF CreateUser, NewAccount, Typed, Row, Founded
  <2>2. Admins \subseteq Admins'
    BY <1>4 DEF CreateUser, Admins, Active, Typed
  <2>3. CompletedMeansGone'
    BY <1>0, <1>4 DEF CreateUser, NewAccount, CompletedMeansGone, Typed
  <2> QED BY <1>4, <2>1, <2>2, <2>3 DEF CreateUser, AdministratorRemains, Others
<1>5. ASSUME NEW u \in Users, NEW admin \in BOOLEAN, UpdateRead(u, admin) PROVE AInv'
  <2>0. row[u].version \in Nat
    BY DEF Typed, Row
  <2>1. Typed' /\ Founded' /\ AdministratorRemains' /\ CompletedMeansGone'
    BY <1>0, <1>5, <2>0 DEF UpdateRead, Typed, Founded, AdministratorRemains, Admins, Active,
         CompletedMeansGone
  <2>2. Admins' = Admins
    BY <1>5 DEF UpdateRead, Admins, Active
  <2>3. ~admin => \E v \in Admins : v # u
    <3>1. CASE row[u].admin
      BY <1>5, <3>1, AnotherAdmin DEF UpdateRead
    <3>2. CASE ~row[u].admin
      BY <3>2 DEF AdministratorRemains, Admins
    <3> QED BY <3>1, <3>2
  <2> QED BY <1>5, <2>1, <2>2, <2>3 DEF UpdateRead, Others
<1>6. CASE UpdateWrite
  <2>1. PICK t \in tx :
          /\ row' = [row EXCEPT ![t.user].version = t.seen + 1, ![t.user].admin = t.admin]
          /\ refresh' = IF t.revokes THEN Revoked(LiveOf(t.user)) ELSE refresh
          /\ tx' = {}
    BY <1>6 DEF UpdateWrite
  <2>2. refresh' \in Seq(RefreshToken) /\ Founded'
    <3>1. CASE t.revokes
      BY <2>1, <3>1, RevokedFounded
    <3>2. CASE ~t.revokes
      BY <2>1, <3>2 DEF Typed, Founded
    <3> QED BY <3>1, <3>2
  <2>3. t.user \in Users /\ t.seen \in Nat /\ t.admin \in BOOLEAN
    BY DEF Typed
  <2>4. Typed'
    <3>1. row[t.user] \in Row /\ t.seen + 1 \in Nat
      BY <2>3 DEF Typed
    <3>2. [row[t.user] EXCEPT !.version = t.seen + 1, !.admin = t.admin] \in Row
      BY <2>3, <3>1 DEF Row
    <3>3. row' = [row EXCEPT ![t.user] =
                    [row[t.user] EXCEPT !.version = t.seen + 1, !.admin = t.admin]]
      BY <2>1, <2>3 DEF Typed
    <3>4. row' \in [Users -> Row]
      BY <2>3, <3>2, <3>3 DEF Typed
    <3>5. tx' \subseteq [user : Users, seen : Nat, admin : BOOLEAN, revokes : BOOLEAN]
      BY <2>1
    <3> QED BY <1>0, <2>2, <3>4, <3>5 DEF Typed
  <2>5. \A v \in Users : /\ row'[v].status = row[v].status
                         /\ v # t.user => row'[v].admin = row[v].admin
                         /\ v = t.user => row'[v].admin = t.admin
    BY <2>1, <2>3 DEF Typed
  <2>6. Admins' # {}
    <3>1. CASE t.admin
      <4>1. PICK v \in Users : v \in Admins
        BY DEF AdministratorRemains, Admins
      <4>2. v \in Admins'
        BY <2>5, <3>1, <4>1 DEF Admins, Active
      <4> QED BY <4>2
    <3>2. CASE ~t.admin
      <4>1. PICK v \in Admins : v # t.user
        BY <3>2 DEF Others
      <4>2. v \in Admins'
        BY <2>5, <4>1 DEF Admins, Active
      <4> QED BY <4>2
    <3> QED BY <3>1, <3>2
  <2>7. CompletedMeansGone'
    BY <1>0, <2>5 DEF CompletedMeansGone
  <2> QED BY <2>1, <2>2, <2>4, <2>6, <2>7 DEF AdministratorRemains, Others
<1>7. CASE Rollback
  BY <1>0, <1>7 DEF Rollback, Typed, AdministratorRemains, Admins, Active, Others,
       CompletedMeansGone, Founded
<1>8. ASSUME NEW i \in DOMAIN refresh, Refresh(i) PROVE AInv'
  BY <1>0, <1>8, RefreshFounded, TokenStep DEF Refresh
<1>9. ASSUME NEW i \in DOMAIN refresh, LogoutStart(i) PROVE AInv'
  BY <1>0, <1>9, TokenStep DEF LogoutStart, Typed, Founded
<1>10. CASE LogoutEnd
  BY <1>0, <1>10, RevokedFounded, TokenStep DEF LogoutEnd
<1> QED BY <1>1, <1>2, <1>3, <1>4, <1>5, <1>6, <1>7, <1>8, <1>9, <1>10 DEF AccountStep

-----------------------------------------------------------------------------
(* The steps of the deletion.                                              *)

LEMMA InvInit == Init => IInv
<1> SUFFICES ASSUME Init PROVE IInv
  OBVIOUS
<1> USE DEF Init, AccountsInit
<1>1. Typed
  BY AccountsAssumption DEF Typed, Row, NewAccount, Idle
<1>2. AdministratorRemains
  BY AccountsAssumption DEF AdministratorRemains, Admins, Active, NewAccount
<1>3. Agreed
  BY DEF Agreed, CompletedMeansGone, NewAccount, Idle
<1>4. Others /\ Founded /\ Quieted /\ Emptied
  BY DEF Others, Founded, Quieted, Emptied
<1> QED BY <1>1, <1>2, <1>3, <1>4 DEF IInv

\* Who touches no account keeps what is said of the accounts.
LEMMA AccountsUntouched ==
  ASSUME IInv, UNCHANGED <<avars, task>>,
         queue' \in [Users -> Nat],
         worker' \in [Workers -> [user : Users, at : Stages \cup {"idle"}]]
  PROVE  Typed' /\ AdministratorRemains' /\ Others' /\ CompletedMeansGone' /\ Founded'
BY DEF IInv, avars, Typed, AdministratorRemains, Admins, Active, Others, Agreed,
     CompletedMeansGone, Founded

\* A step on the accounts leaves the deletions as they are.
LEMMA AccountStepKept ==
  ASSUME IInv, AccountStep, UNCHANGED dvars
  PROVE  IInv'
<1>1. AInv'
  BY AccountsKept DEF IInv, AInv, Agreed
<1>2. Agreed' /\ Quieted' /\ Emptied'
  BY <1>1 DEF AInv, IInv, Agreed, Quieted, Emptied, dvars
<1> QED BY <1>1, <1>2 DEF AInv, IInv

\* An account that is closed authenticates nobody.
LEMMA AuthenticateKept ==
  ASSUME IInv, NEW token \in access, Authenticate(token)
  PROVE  IInv'
<1> USE DEF IInv, Authenticate
<1>1. Typed' /\ AdministratorRemains' /\ Others' /\ CompletedMeansGone' /\ Founded'
  BY AccountsUntouched DEF Typed
<1>2. token[1] \notin quiet
  BY DEF Authenticates, Active, Agreed, CompletedMeansGone, Quieted, Typed
<1>3. Agreed' /\ Quieted' /\ Emptied'
  BY <1>1, <1>2 DEF Agreed, Quieted, Emptied
<1> QED BY <1>1, <1>3

\* A user who is quiet has no request that could bring anything back.
LEMMA CarryKept ==
  ASSUME IInv, NEW u \in Users, Carry(u)
  PROVE  IInv'
<1> USE DEF IInv, Carry
<1>1. Typed' /\ AdministratorRemains' /\ Others' /\ CompletedMeansGone' /\ Founded'
  BY AccountsUntouched DEF Typed
<1>2. u \notin quiet
  BY DEF Quieted
<1>3. Agreed' /\ Quieted' /\ Emptied'
  BY <1>1, <1>2 DEF Agreed, Quieted, Emptied
<1> QED BY <1>1, <1>3

\* The request closes an account that is not the last administrator's.
LEMMA RequestKept ==
  ASSUME IInv, NEW u \in Users, RequestDeletion(u)
  PROVE  IInv'
<1> USE DEF IInv, RequestDeletion
<1>1. row' = [row EXCEPT ![u].status = "closed"] /\ tx = {} /\ tx' = {} /\ Exists(u)
  BY DEF CloseAccount
<1>2. task[u] # "completed"
  BY <1>1 DEF Agreed, CompletedMeansGone, Exists
<1>3. refresh' \in Seq(RefreshToken) /\ Founded'
  BY RevokedFounded DEF CloseAccount
<1>4. \A v \in Users : /\ row'[v].admin = row[v].admin
                       /\ v # u => row'[v].status = row[v].status
                       /\ v = u => row'[v].status = "closed"
  BY <1>1 DEF Typed
<1>5. Typed'
  <2>1. [row[u] EXCEPT !.status = "closed"] \in Row
    <3>1. row[u] \in Row
      BY DEF Typed
    <3> QED BY <3>1 DEF Row
  <2>2. row' \in [Users -> Row]
    BY <1>1, <2>1 DEF Typed
  <2> QED BY <1>1, <1>3, <2>2 DEF Typed
<1>6. AdministratorRemains'
  <2>1. \E v \in Admins : v # u
    BY AnotherAdmin DEF CloseAccount, AdministratorRemains
  <2>2. PICK v \in Users : v \in Admins /\ v # u
    BY <2>1 DEF Admins
  <2>3. v \in Admins'
    BY <1>4, <2>2 DEF Admins, Active
  <2> QED BY <2>3 DEF AdministratorRemains
<1>7. Others'
  BY <1>1 DEF Others
<1>8. Agreed'
  <2>1. \A v \in Users : task'[v] = IF v = u THEN "pending" ELSE task[v]
    BY DEF Typed
  <2>2. CompletedMeansGone'
    BY <1>4, <2>1 DEF Agreed, CompletedMeansGone
  <2>3. \A w \in Workers : worker[w].user \in Users
    BY DEF Typed
  <2> QED BY <2>1, <2>2, <2>3 DEF Agreed
<1>9. Quieted' /\ Emptied'
  <2>1. \A v \in Users : task'[v] = IF v = u THEN "pending" ELSE task[v]
    BY DEF Typed
  <2>2. task[u] = "none" => \A w \in Workers : worker[w].user = u => worker[w].at = "idle"
    BY DEF Agreed
  <2>3. Quieted'
    BY <2>1 DEF Quieted
  <2>4. Emptied'
    BY <2>1, <2>2 DEF Emptied, Quieted
  <2> QED BY <2>3, <2>4
<1> QED BY <1>3, <1>5, <1>6, <1>7, <1>8, <1>9

\* The clock and the periodic job queue only what has a task.
LEMMA ScheduleKept ==
  ASSUME IInv, NEW u \in Users, Elapse(u) \/ Dispatch(u)
  PROVE  IInv'
<1> USE DEF IInv, Elapse, Dispatch
<1>1. queue' \in [Users -> Nat] /\ \A v \in Users : queue'[v] > 0 => task[v] # "none"
  <2>1. task[u] # "none" /\ queue \in [Users -> Nat]
    BY DEF Typed
  <2>2. \/ queue' = queue
        \/ queue' = [queue EXCEPT ![u] = @ + 1]
    OBVIOUS
  <2>3. \A v \in Users : queue[v] > 0 => task[v] # "none"
    BY DEF Agreed
  <2> QED BY ONLY <2>1, <2>2, <2>3, u \in Users
<1>2. Typed' /\ AdministratorRemains' /\ Others' /\ CompletedMeansGone' /\ Founded'
  BY <1>1, AccountsUntouched DEF Typed
<1>3. Agreed' /\ Quieted' /\ Emptied'
  BY <1>1, <1>2 DEF Agreed, Quieted, Emptied
<1> QED BY <1>2, <1>3

\* A worker that begins has nothing removed yet.
LEMMA StartKept ==
  ASSUME IInv, NEW w \in Workers, NEW u \in Users, Start(w, u)
  PROVE  IInv'
<1> USE DEF IInv, Start
<1>1. queue' \in [Users -> Nat] /\ \A v \in Users : queue'[v] > 0 => queue[v] > 0
  BY DEF Typed
<1>2. /\ worker' \in [Workers -> [user : Users, at : Stages \cup {"idle"}]]
      /\ \A x \in Workers : \/ worker'[x] = worker[x]
                            \/ worker'[x].user = u /\ worker'[x].at = "chats"
  BY DEF Typed, Stages
<1>3. Typed' /\ AdministratorRemains' /\ Others' /\ CompletedMeansGone' /\ Founded'
  BY <1>1, <1>2, AccountsUntouched
<1>4. Agreed' /\ Quieted' /\ Emptied'
  BY <1>1, <1>2, <1>3 DEF Agreed, Quieted, Emptied
<1> QED BY <1>3, <1>4

\* Conversations and sandbox are removed one after the other.
LEMMA RemovalKept ==
  ASSUME IInv, NEW w \in Workers, DeleteChats(w) \/ DeleteSandbox(w)
  PROVE  IInv'
<1> USE DEF IInv, DeleteChats, DeleteSandbox, Move
<1>1. /\ worker' \in [Workers -> [user : Users, at : Stages \cup {"idle"}]]
      /\ \A x \in Workers : worker'[x].user = worker[x].user
      /\ \A x \in Workers \ {w} : worker'[x].at = worker[x].at
      /\ worker[w].at # "idle"
  <2>1. worker[w].at # "idle"
    OBVIOUS
  <2>2. PICK stage \in Stages : worker' = [worker EXCEPT ![w].at = stage]
    BY DEF Stages
  <2> QED BY <2>1, <2>2 DEF Typed
<1>2. Typed' /\ AdministratorRemains' /\ Others' /\ CompletedMeansGone' /\ Founded'
  BY <1>1, AccountsUntouched DEF Typed
<1>3. Agreed' /\ Quieted'
  BY <1>1, <1>2 DEF Agreed, Quieted
<1>4. Emptied'
  <2>1. CASE DeleteChats(w)
    <3>1. \/ worker'[w].at = "chats"
          \/ worker'[w].at = "sandbox" /\ worker[w].user \notin chats
      BY <2>1 DEF Typed
    <3> QED BY <1>1, <2>1, <3>1 DEF Emptied
  <2>2. CASE DeleteSandbox(w)
    <3>1. worker[w].at = "sandbox" /\ worker'[w].at = "account"
      BY <2>2 DEF Typed
    <3> QED BY <1>1, <2>2, <3>1 DEF Emptied
  <2> QED BY <2>1, <2>2
<1> QED BY <1>2, <1>3, <1>4

\* The account of a task goes last, and no administrator with it.
LEMMA CompleteKept ==
  ASSUME IInv, NEW w \in Workers, Complete(w)
  PROVE  IInv'
<1> USE DEF IInv, Complete
<1> DEFINE u == worker[w].user
<1>1. u \in Users /\ task[u] # "none" /\ worker[w].at = "account"
  BY DEF Typed, Agreed
<1>2. row' = [row EXCEPT ![u].status = "gone"] /\ tx' = {}
  BY DEF RemoveAccount
<1>3. refresh' \in Seq(RefreshToken) /\ Founded'
  BY RevokedFounded DEF RemoveAccount
<1>4. \A v \in Users : /\ row'[v].admin = row[v].admin
                       /\ v # u => row'[v].status = row[v].status
                       /\ v = u => row'[v].status = "gone"
  BY <1>1, <1>2 DEF Typed
<1>5. /\ worker' \in [Workers -> [user : Users, at : Stages \cup {"idle"}]]
      /\ \A x \in Workers : worker'[x].at = worker[x].at \/ worker'[x].at = "idle"
      /\ \A x \in Workers : worker'[x].user = worker[x].user
  BY DEF Move, Typed
<1>6. Typed'
  <2>1. [row[u] EXCEPT !.status = "gone"] \in Row
    <3>1. row[u] \in Row
      BY <1>1 DEF Typed
    <3> QED BY <3>1 DEF Row
  <2>2. row' \in [Users -> Row]
    BY <1>1, <1>2, <2>1 DEF Typed
  <2>3. task' \in [Users -> {"none", "pending", "completed"}]
    BY DEF Typed
  <2> QED BY <1>2, <1>3, <1>5, <2>2, <2>3 DEF Typed
<1>7. AdministratorRemains'
  <2>1. ~Active(u)
    BY <1>1 DEF Agreed, CompletedMeansGone, Active, Typed
  <2>2. Admins \subseteq Admins'
    BY <1>4, <2>1 DEF Admins, Active
  <2> QED BY <2>2 DEF AdministratorRemains
<1>8. \A v \in Users : task'[v] = IF v = u THEN "completed" ELSE task[v]
  BY DEF Typed
<1>9. Others' /\ Agreed'
  <2>1. CompletedMeansGone'
    BY <1>4, <1>8 DEF Agreed, CompletedMeansGone
  <2>2. \A x \in Workers : worker[x].user \in Users
    BY DEF Typed
  <2> QED BY <1>2, <1>5, <1>8, <2>1, <2>2 DEF Others, Agreed
<1>10. Quieted'
  BY <1>8 DEF Quieted
<1>11. Emptied'
  <2>1. u \in quiet => u \notin chats \cup boxes
    BY <1>1 DEF Emptied
  <2> QED BY <1>5, <1>8, <2>1 DEF Emptied, Quieted
<1> QED BY <1>3, <1>6, <1>7, <1>9, <1>10, <1>11

\* A worker that fails or is lost has removed what it has removed, and its
\* message stands for a task.
LEMMA FailureKept ==
  ASSUME IInv, NEW w \in Workers, Fail(w) \/ RecordFailure(w) \/ Lose(w)
  PROVE  IInv'
<1> USE DEF IInv, Fail, RecordFailure, Lose
<1>1. worker[w].user \in Users /\ task[worker[w].user] # "none"
  BY DEF Typed, Agreed, Stages
<1>2. queue' \in [Users -> Nat] /\ \A v \in Users : queue'[v] > 0 => task[v] # "none"
  <2>1. queue \in [Users -> Nat] /\ \A v \in Users : queue[v] > 0 => task[v] # "none"
    BY DEF Typed, Agreed
  <2>2. \/ queue' = queue
        \/ queue' = [queue EXCEPT ![worker[w].user] = @ + 1]
    OBVIOUS
  <2> QED BY ONLY <1>1, <2>1, <2>2
<1>3. /\ worker' \in [Workers -> [user : Users, at : Stages \cup {"idle"}]]
      /\ \A x \in Workers \ {w} : worker'[x] = worker[x]
      /\ \/ worker'[w].at = "failed" /\ worker'[w].user = worker[w].user
         \/ worker'[w].at = "idle"
  <2>1. /\ worker \in [Workers -> [user : Users, at : Stages \cup {"idle"}]]
        /\ "failed" \in Stages /\ Founder \in Users
    BY AccountsAssumption DEF Typed, Stages
  <2>2. \/ worker' = [worker EXCEPT ![w].at = "failed"]
        \/ worker' = [worker EXCEPT ![w] = [user |-> Founder, at |-> "idle"]]
    BY DEF Move, Idle
  <2> QED BY ONLY <2>1, <2>2
<1>4. UNCHANGED <<avars, task, requests, chats, boxes, quiet>>
  OBVIOUS
<1>5. Typed' /\ AdministratorRemains' /\ Others' /\ CompletedMeansGone' /\ Founded'
  BY <1>2, <1>3, <1>4, AccountsUntouched
<1>6. Agreed' /\ Quieted' /\ Emptied'
  BY <1>1, <1>2, <1>3, <1>4, <1>5 DEF Agreed, Quieted, Emptied
<1> QED BY <1>5, <1>6

LEMMA InvStep ==
  ASSUME IInv, [Next]_vars
  PROVE  IInv'
<1>1. CASE UNCHANGED vars
  BY <1>1 DEF vars, avars, dvars, IInv, Typed, AdministratorRemains, Admins, Active, Others,
       Agreed, CompletedMeansGone, Founded, Quieted, Emptied
<1>2. CASE AccountStep /\ UNCHANGED dvars
  BY <1>2, AccountStepKept
<1>3. ASSUME NEW token \in access, Authenticate(token) PROVE IInv'
  BY <1>3, AuthenticateKept
<1>4. ASSUME NEW u \in Users, RequestDeletion(u) PROVE IInv'
  BY <1>4, RequestKept
<1>5. ASSUME NEW u \in Members, Carry(u) \/ Elapse(u) \/ Dispatch(u) PROVE IInv'
  BY <1>5, AccountsAssumption, CarryKept, ScheduleKept
<1>6. ASSUME NEW w \in Workers, NEW u \in Members, Start(w, u) PROVE IInv'
  BY <1>6, AccountsAssumption, StartKept
<1>7. ASSUME NEW w \in Workers, Work(w) \/ Fail(w) \/ Lose(w) PROVE IInv'
  BY <1>7, RemovalKept, CompleteKept, FailureKept DEF Work
<1> QED BY <1>1, <1>2, <1>3, <1>4, <1>5, <1>6, <1>7 DEF Next

THEOREM Invariance == Spec => []IInv
<1>1. Init => IInv
  BY InvInit
<1>2. IInv /\ [Next]_vars => IInv'
  BY InvStep
<1> QED BY <1>1, <1>2, PTL DEF Spec

-----------------------------------------------------------------------------
(* Whatever administrators do to each other and to themselves, by updates, *)
(* by bootstrap and by deletions, one of them remains active.              *)
THEOREM OneAdministrator == Spec => []AdministratorRemains
<1>1. IInv => AdministratorRemains
  BY DEF IInv
<1> QED BY <1>1, Invariance, PTL

(* The account and the task of its deletion agree, however many workers    *)
(* carry the deletion out and however often they fail or are lost.         *)
THEOREM AccountAndTask == Spec => []CompletedMeansGone
<1>1. IInv => CompletedMeansGone
  BY DEF IInv, Agreed
<1> QED BY <1>1, Invariance, PTL

(* A completed deletion that found no request of the user under way leaves *)
(* no Conversation, no sandbox and no request.                             *)
THEOREM NothingRemains == Spec => []CompletedLeavesNothing
<1>1. IInv => CompletedLeavesNothing
  BY DEF IInv, Quieted, Emptied, CompletedLeavesNothing
<1> QED BY <1>1, Invariance, PTL

-----------------------------------------------------------------------------
(* A family without a live token.                                          *)

\* Withdrawing tokens brings none back.
LEMMA DeadWhenRevoked ==
  ASSUME Typed, NEW f, Dead(f), NEW set, refresh' = Revoked(set)
  PROVE  Dead(f)'
<1> DEFINE new == Revoked(set)
<1>1. /\ new \in Seq(RefreshToken) /\ Len(new) = Len(refresh)
      /\ \A i \in DOMAIN refresh : new[i].family = refresh[i].family
      /\ \A i \in DOMAIN refresh : new[i].live => refresh[i].live
  BY RevokedTyped DEF Typed
<1>2. DOMAIN new = DOMAIN refresh
  BY <1>1 DEF Typed
<1> QED BY <1>1, <1>2 DEF Dead, FamilyOf

\* A token of another family changes nothing.
LEMMA DeadWhenIssued ==
  ASSUME Typed, NEW f, Dead(f), NEW u, NEW family, family # f,
         NEW list \in Seq(RefreshToken), Len(list) = Len(refresh),
         \A i \in DOMAIN refresh : list[i].family = refresh[i].family,
         \A i \in DOMAIN refresh : list[i].live => refresh[i].live,
         IssueTo(u, family, list)
  PROVE  Dead(f)'
<1>1. DOMAIN refresh = 1..Len(refresh) /\ Len(refresh) \in Nat
  BY DEF Typed
<1>2. /\ DOMAIN refresh' = 1..(Len(refresh) + 1)
      /\ \A i \in DOMAIN refresh : refresh'[i] = list[i]
      /\ refresh'[Len(refresh) + 1].family = family
  BY <1>1 DEF IssueTo
<1>3. DOMAIN refresh' = DOMAIN refresh \cup {Len(refresh) + 1}
  BY <1>1, <1>2
<1> QED BY <1>2, <1>3 DEF Dead, FamilyOf

LEMMA DeadKept ==
  ASSUME IInv, [Next]_vars, NEW f, Dead(f)
  PROVE  Dead(f)'
<1>0. Typed /\ Founded
  BY DEF IInv
<1>1. CASE UNCHANGED refresh
  BY <1>1 DEF Dead, FamilyOf
<1>2. ASSUME NEW set, refresh' = Revoked(set) PROVE Dead(f)'
  BY <1>0, <1>2, DeadWhenRevoked
<1>3. ASSUME NEW u \in Users, Login(u) PROVE Dead(f)'
  <2>1. PICK i \in DOMAIN refresh : refresh[i].family = f
    BY DEF Dead
  <2>2. f <= Len(refresh) /\ f \in Nat /\ Len(refresh) \in Nat
    <3>1. f <= Len(refresh) /\ refresh[i] \in RefreshToken /\ Len(refresh) \in Nat
      BY <1>0, <2>1 DEF Typed, Founded
    <3> QED BY <2>1, <3>1 DEF RefreshToken
  <2>3. Len(refresh) + 1 # f
    BY <2>2
  <2> QED BY <1>0, <1>3, <2>3, DeadWhenIssued DEF Login, Typed
<1>4. ASSUME NEW i \in DOMAIN refresh, Rotate(i) PROVE Dead(f)'
  <2>1. refresh[i].family # f
    BY <1>4 DEF Rotate, Dead, FamilyOf
  <2>2. /\ Revoked({i}) \in Seq(RefreshToken) /\ Len(Revoked({i})) = Len(refresh)
        /\ \A j \in DOMAIN refresh : Revoked({i})[j].family = refresh[j].family
        /\ \A j \in DOMAIN refresh : Revoked({i})[j].live => refresh[j].live
    BY <1>0, RevokedTyped DEF Typed
  <2>3. IssueTo(refresh[i].user, refresh[i].family, Revoked({i}))
    BY <1>4 DEF Rotate
  <2> QED BY <1>0, <2>1, <2>2, <2>3, DeadWhenIssued
<1>5. CASE AccountStep
  <2>1. ASSUME NEW i \in DOMAIN refresh, Refresh(i) PROVE Dead(f)'
    BY <1>2, <1>4, <2>1 DEF Refresh, Reuse
  <2>2. ASSUME NEW u \in Users, ChangePassword(u) PROVE Dead(f)'
    BY <1>2, <2>2 DEF ChangePassword
  <2>3. CASE UpdateWrite
    BY <1>1, <1>2, <2>3 DEF UpdateWrite
  <2>4. CASE LogoutEnd
    BY <1>2, <2>4 DEF LogoutEnd
  <2> QED BY <1>1, <1>3, <1>5, <2>1, <2>2, <2>3, <2>4
       DEF AccountStep, BootstrapRead, CreateUser, UpdateRead, LogoutStart, Rollback
<1>6. ASSUME NEW u \in Users, RequestDeletion(u) PROVE Dead(f)'
  BY <1>2, <1>6 DEF RequestDeletion, CloseAccount
<1>7. ASSUME NEW w \in Workers, Complete(w) PROVE Dead(f)'
  BY <1>2, <1>7 DEF Complete, RemoveAccount
<1> QED BY <1>1, <1>5, <1>6, <1>7
     DEF Next, vars, avars, Authenticate, Carry, Elapse, Dispatch, Start, Work, DeleteChats,
         DeleteSandbox, RecordFailure, Fail, Lose

(* A family of tokens that has lost its last live one never gets another,  *)
(* whatever refreshes, logouts, updates and deletions run beside it.       *)
THEOREM DeadFamilies == Spec => DeadFamiliesStayDead
<1>1. IInv /\ [Next]_vars => [\A f \in 1..MaxTokens : Dead(f) => Dead(f)']_refresh
  BY DeadKept
<1> QED BY <1>1, Invariance, PTL DEF Spec, DeadFamiliesStayDead

-----------------------------------------------------------------------------
(* Types: what the bounds of the model add to Typed.                       *)

Bounds == TypeOK /\ \A t \in tx : t.seen < MaxVersion

LEMMA BoundsInit == Init => Bounds
<1> SUFFICES ASSUME Init PROVE Bounds
  OBVIOUS
<1>1. row \in [Users -> Account] /\ refresh \in Seq(RefreshToken) /\ Len(refresh) = 0
  BY AccountsAssumption DEF Init, AccountsInit, Account, NewAccount
<1>2. tx = {} /\ Cardinality(tx) = 0 /\ access = {} /\ sweep = {}
  BY FS_EmptySet DEF Init, AccountsInit
<1>3. worker \in [Workers -> [user : Users, at : Stages \cup {"idle"}]]
  BY AccountsAssumption DEF Init, Idle
<1> QED BY <1>1, <1>2, <1>3, AccountsAssumption, DeletionAssumption
        DEF Init, Bounds, TypeOK, AccountsTypeOK

\* Withdrawing tokens changes their number as little as it finds new ones.
LEMMA RevokedBounds ==
  ASSUME Bounds, NEW set, refresh' = Revoked(set)
  PROVE  refresh' \in Seq(RefreshToken) /\ Len(refresh') <= MaxTokens
BY RevokedTyped DEF Bounds, TypeOK, AccountsTypeOK

\* One more token, for which there is room.
LEMMA IssuedBounds ==
  ASSUME Bounds, Typed', NEW u \in Users, NEW family,
         NEW list \in Seq(RefreshToken), IssueTo(u, family, list)
  PROVE  /\ refresh' \in Seq(RefreshToken) /\ Len(refresh') <= MaxTokens
         /\ access' \subseteq AccessToken
<1>1. refresh' \in Seq(RefreshToken)
  BY DEF Typed
<1>2. Len(refresh') = Len(list) + 1 /\ Len(list) < MaxTokens /\ Len(list) \in Nat
  BY DEF IssueTo
<1>3. Len(refresh') <= MaxTokens
  BY <1>2, AccountsAssumption
<1>4. <<u, row[u].version>> \in AccessToken
  BY DEF Bounds, TypeOK, AccountsTypeOK, Account, AccessToken
<1>5. access' \subseteq AccessToken
  BY <1>4 DEF IssueTo, Bounds, TypeOK, AccountsTypeOK
<1> QED BY <1>1, <1>3, <1>5

\* A step on the accounts that leaves updates alone.
LEMMA RowBounds ==
  ASSUME Bounds, UNCHANGED <<tx, dvars>>, row' \in [Users -> Account],
         refresh' \in Seq(RefreshToken), Len(refresh') <= MaxTokens,
         access' \subseteq AccessToken, sweep' \subseteq 1..MaxTokens
  PROVE  Bounds'
BY DEF Bounds, TypeOK, AccountsTypeOK, dvars

\* An update begins or ends.
LEMMA UpdateBounds ==
  ASSUME Bounds, Typed', UNCHANGED <<access, sweep, dvars>>,
         row' \in [Users -> Account],
         refresh' \in Seq(RefreshToken), Len(refresh') <= MaxTokens,
         \/ tx' = {}
         \/ \E t \in Update : tx' = {t} /\ t.seen < MaxVersion
  PROVE  Bounds'
<1>1. Cardinality(tx') <= 1 /\ tx' \subseteq Update /\ \A t \in tx' : t.seen < MaxVersion
  <2>1. CASE tx' = {}
    BY <2>1, FS_EmptySet
  <2>2. ASSUME NEW t \in Update, tx' = {t}, t.seen < MaxVersion
        PROVE  Cardinality(tx') <= 1 /\ tx' \subseteq Update /\ \A x \in tx' : x.seen < MaxVersion
    <3>1. Cardinality({t}) = 1
      BY FS_Singleton
    <3> QED BY <2>2, <3>1
  <2> QED BY <2>1, <2>2
<1> QED BY <1>1 DEF Bounds, TypeOK, AccountsTypeOK, dvars

LEMMA AccountBounds ==
  ASSUME Bounds, Typed', AccountStep, UNCHANGED dvars
  PROVE  Bounds'
<1>1. /\ row \in [Users -> Account] /\ refresh \in Seq(RefreshToken) /\ Len(refresh) <= MaxTokens
      /\ access \subseteq AccessToken /\ sweep \subseteq 1..MaxTokens /\ MaxVersion \in Nat
  BY AccountsAssumption DEF Bounds, TypeOK, AccountsTypeOK
<1>2. ASSUME NEW u \in Users, Login(u) PROVE Bounds'
  <2>1. IssueTo(u, Len(refresh) + 1, refresh)
    BY <1>2 DEF Login
  <2> QED BY <1>1, <1>2, <2>1, IssuedBounds, RowBounds DEF Login
<1>3. ASSUME NEW u \in Users, ChangePassword(u) PROVE Bounds'
  <2>1. row' \in [Users -> Account]
    <3> DEFINE r == [row[u] EXCEPT !.version = @ + 1]
    <3>1. row[u] \in Account /\ row[u].version < MaxVersion
      BY <1>1, <1>3 DEF ChangePassword
    <3>2. r \in Account
      BY <1>1, <3>1 DEF Account
    <3>3. row' = [row EXCEPT ![u] = r]
      BY <1>3 DEF ChangePassword
    <3> HIDE DEF r
    <3> QED BY <1>1, <3>2, <3>3
  <2>2. refresh' = Revoked(LiveOf(u)) /\ UNCHANGED <<access, tx, sweep>>
    BY <1>3 DEF ChangePassword
  <2> QED BY <1>1, <2>1, <2>2, RevokedBounds, RowBounds
<1>4. ASSUME NEW u \in Users, NEW admin \in BOOLEAN, CreateUser(u, admin) PROVE Bounds'
  <2>1. NewAccount("active", admin) \in Account
    BY <1>1 DEF NewAccount, Account
  <2>2. row' \in [Users -> Account]
    BY <1>1, <1>4, <2>1 DEF CreateUser
  <2> QED BY <1>1, <1>4, <2>2, RowBounds DEF CreateUser
<1>5. ASSUME NEW u \in Users, NEW admin \in BOOLEAN,
             UpdateRead(u, admin) \/ BootstrapRead(u)
      PROVE  Bounds'
  <2>1. row[u].version \in 0..MaxVersion /\ row[u].version < MaxVersion
    BY <1>1, <1>5 DEF Account, UpdateRead, BootstrapRead
  <2>2. \E t \in Update : tx' = {t} /\ t.seen < MaxVersion
    <3> DEFINE t(to, revokes) ==
          [user |-> u, seen |-> row[u].version, admin |-> to, revokes |-> revokes]
    <3>1. \A to, revokes \in BOOLEAN : t(to, revokes) \in Update /\ t(to, revokes).seen < MaxVersion
      BY <2>1 DEF Update
    <3>2. tx' = {t(admin, TRUE)} \/ tx' = {t(TRUE, FALSE)}
      BY <1>5 DEF UpdateRead, BootstrapRead
    <3> HIDE DEF t
    <3> QED BY <3>1, <3>2
  <2> QED BY <1>1, <1>5, <2>2, UpdateBounds DEF UpdateRead, BootstrapRead
<1>6. CASE UpdateWrite
  <2> PICK t \in tx :
        /\ row' = [row EXCEPT ![t.user].version = t.seen + 1, ![t.user].admin = t.admin]
        /\ refresh' = IF t.revokes THEN Revoked(LiveOf(t.user)) ELSE refresh
        /\ tx' = {} /\ UNCHANGED <<access, sweep>>
    BY <1>6 DEF UpdateWrite
  <2>1. t \in Update /\ t.seen < MaxVersion
    BY DEF Bounds, TypeOK, AccountsTypeOK
  <2>2. t.user \in Users /\ t.seen + 1 \in 0..MaxVersion /\ t.admin \in BOOLEAN
    BY <1>1, <2>1 DEF Update
  <2>3. row' \in [Users -> Account]
    BY <1>1, <2>2 DEF Account
  <2>4. refresh' \in Seq(RefreshToken) /\ Len(refresh') <= MaxTokens
    BY <1>1, RevokedBounds
  <2> QED BY <2>3, <2>4, UpdateBounds
<1>7. ASSUME NEW i \in DOMAIN refresh, Refresh(i) PROVE Bounds'
  <2>1. refresh[i].user \in Users
    <3>1. refresh[i] \in RefreshToken
      BY <1>1
    <3> QED BY <3>1 DEF RefreshToken
  <2>2. CASE Rotate(i)
    <3>1. Revoked({i}) \in Seq(RefreshToken)
      BY <1>1, RevokedTyped
    <3> QED BY <1>1, <1>7, <2>1, <2>2, <3>1, IssuedBounds, RowBounds DEF Refresh, Rotate
  <2>3. CASE Reuse(i)
    BY <1>1, <1>7, <2>3, RevokedBounds, RowBounds DEF Refresh, Reuse
  <2> QED BY <1>7, <2>2, <2>3 DEF Refresh
<1>8. ASSUME NEW i \in DOMAIN refresh, LogoutStart(i) PROVE Bounds'
  <2>1. FamilyOf(refresh[i].family) \subseteq 1..MaxTokens
    BY <1>1, AccountsAssumption DEF FamilyOf
  <2> QED BY <1>1, <1>8, <2>1, RowBounds DEF LogoutStart
<1>9. CASE LogoutEnd
  BY <1>1, <1>9, RevokedBounds, RowBounds DEF LogoutEnd
<1>10. CASE Rollback
  BY <1>1, <1>10, UpdateBounds DEF Rollback
<1> QED BY <1>2, <1>3, <1>4, <1>5, <1>6, <1>7, <1>8, <1>9, <1>10, AccountsAssumption DEF AccountStep

\* A deletion closes an account, or removes it.
LEMMA ClosedBounds ==
  ASSUME Bounds, NEW u \in Users, CloseAccount(u) \/ RemoveAccount(u)
  PROVE  AccountsTypeOK' /\ \A t \in tx' : t.seen < MaxVersion
<1>1. row' \in [Users -> Account]
  <2> DEFINE r(status) == [row[u] EXCEPT !.status = status]
  <2>1. row \in [Users -> Account] /\ row[u] \in Account
    BY DEF Bounds, TypeOK, AccountsTypeOK
  <2>2. r("closed") \in Account /\ r("gone") \in Account
    BY <2>1 DEF Account
  <2>3. row' = [row EXCEPT ![u] = r("closed")] \/ row' = [row EXCEPT ![u] = r("gone")]
    BY DEF CloseAccount, RemoveAccount
  <2> HIDE DEF r
  <2> QED BY <2>1, <2>2, <2>3
<1>2. refresh' = Revoked(LiveOf(u)) /\ UNCHANGED <<access, tx, sweep>>
  BY DEF CloseAccount, RemoveAccount
<1> QED BY <1>1, <1>2, RevokedBounds DEF Bounds, TypeOK, AccountsTypeOK

LEMMA DeletionBounds ==
  ASSUME Bounds, Typed', [Next]_vars
  PROVE  Bounds'
<1> DEFINE Same == UNCHANGED avars
<1>1. Same => AccountsTypeOK' /\ \A t \in tx' : t.seen < MaxVersion
  BY DEF avars, Bounds, TypeOK, AccountsTypeOK
<1>2. /\ task' \in [Users -> {"none", "pending", "completed"}]
      /\ worker' \in [Workers -> [user : Users, at : Stages \cup {"idle"}]]
      /\ queue' \in [Users -> Nat]
  BY DEF Typed
<1>3. /\ due \subseteq Users /\ requests \subseteq Users /\ chats \subseteq Users
      /\ boxes \subseteq Users /\ quiet \subseteq Users /\ faults \in 0..MaxFaults
      /\ queue \in [Users -> 0..MaxMessages] /\ MaxMessages \in Nat /\ MaxFaults \in Nat
      /\ \A w \in Workers : worker[w].user \in Users
  BY DeletionAssumption DEF Bounds, TypeOK
<1>4. ASSUME AccountsTypeOK', \A t \in tx' : t.seen < MaxVersion,
             due' \subseteq Users, requests' \subseteq Users, chats' \subseteq Users,
             boxes' \subseteq Users, quiet' \subseteq Users, faults' \in 0..MaxFaults,
             queue' \in [Users -> 0..MaxMessages]
      PROVE  Bounds'
  BY <1>2, <1>4 DEF Bounds, TypeOK
<1>5. CASE AccountStep /\ UNCHANGED dvars
  BY <1>5, AccountBounds
<1>6. ASSUME NEW token \in access, Authenticate(token) PROVE Bounds'
  <2>1. token[1] \in Users
    BY DEF Bounds, TypeOK, AccountsTypeOK, AccessToken
  <2> QED BY <1>1, <1>3, <1>4, <1>6, <2>1 DEF Authenticate
<1>7. ASSUME NEW u \in Users, RequestDeletion(u) PROVE Bounds'
  <2>1. AccountsTypeOK' /\ \A t \in tx' : t.seen < MaxVersion
    BY <1>7, ClosedBounds DEF RequestDeletion
  <2> QED BY <1>3, <1>4, <1>7, <2>1 DEF RequestDeletion
<1>8. ASSUME NEW u \in Users, Carry(u) \/ Elapse(u) PROVE Bounds'
  BY <1>1, <1>3, <1>4, <1>8 DEF Carry, Elapse
<1>9. ASSUME NEW u \in Users, Dispatch(u) PROVE Bounds'
  <2>1. queue' \in [Users -> 0..MaxMessages] /\ faults' \in 0..MaxFaults
    BY <1>3, <1>9 DEF Dispatch
  <2> QED BY <1>1, <1>3, <1>4, <1>9, <2>1 DEF Dispatch
<1>10. ASSUME NEW w \in Workers, NEW u \in Users, Start(w, u) PROVE Bounds'
  <2>1. queue' \in [Users -> 0..MaxMessages]
    BY <1>3, <1>10 DEF Start
  <2> QED BY <1>1, <1>3, <1>4, <1>10, <2>1 DEF Start
<1>11. ASSUME NEW w \in Workers, DeleteChats(w) \/ DeleteSandbox(w) PROVE Bounds'
  BY <1>1, <1>3, <1>4, <1>11 DEF DeleteChats, DeleteSandbox
<1>12. ASSUME NEW w \in Workers, Complete(w) PROVE Bounds'
  <2>1. AccountsTypeOK' /\ \A t \in tx' : t.seen < MaxVersion
    BY <1>3, <1>12, ClosedBounds DEF Complete
  <2> QED BY <1>3, <1>4, <1>12, <2>1 DEF Complete
<1>13. ASSUME NEW w \in Workers, RecordFailure(w) \/ Fail(w) \/ Lose(w) PROVE Bounds'
  <2>1. queue' \in [Users -> 0..MaxMessages]
    BY <1>3, <1>13 DEF RecordFailure, Fail, Lose
  <2>2. faults' \in 0..MaxFaults
    BY <1>3, <1>13 DEF RecordFailure, Fail, Lose
  <2>3. UNCHANGED <<avars, requests, chats, boxes, quiet>> /\ due' \subseteq Users
    BY <1>3, <1>13 DEF RecordFailure, Fail, Lose
  <2> QED BY <1>1, <1>3, <1>4, <2>1, <2>2, <2>3
<1>14. CASE UNCHANGED vars
  BY <1>1, <1>3, <1>4, <1>14 DEF vars, dvars
<1> QED BY <1>5, <1>6, <1>7, <1>8, <1>9, <1>10, <1>11, <1>12, <1>13, <1>14, AccountsAssumption
        DEF Next, Work

(* Accounts, tokens, updates, tasks, messages and workers have the types   *)
(* TypeOK gives them: no version and no number of tokens exceeds its bound.*)
THEOREM TypeCorrect == Spec => []TypeOK
<1>1. IInv => Typed
  BY DEF IInv
<1>2. Bounds /\ Typed' /\ [Next]_vars => Bounds'
  BY DeletionBounds
<1>3. Bounds => TypeOK
  BY DEF Bounds
<1> QED BY <1>1, <1>2, <1>3, BoundsInit, Invariance, PTL DEF Spec

-----------------------------------------------------------------------------
\* A set of numbers has a least one.
LEMMA LeastNumber ==
  ASSUME NEW T \in SUBSET Nat, T # {}
  PROVE  \E k \in T : \A j \in T : k <= j
<1> DEFINE R == OpToRel(<, Nat)
<1>1. IsWellFoundedOn(R, Nat)
  BY NatLessThanWellFounded
<1>2. \A j, i \in Nat : j < i => <<j, i>> \in R
  BY DEF R, OpToRel
<1> HIDE DEF R
<1>3. PICK k \in T : \A j \in T : ~ (<<j, k>> \in R)
  BY <1>1, WFMin
<1>4. ASSUME NEW j \in T PROVE k <= j
  <2>1. j \in Nat /\ k \in Nat
    OBVIOUS
  <2>2. ~ (j < k)
    BY <1>2, <1>3, <2>1
  <2> QED BY <2>1, <2>2
<1> QED BY <1>4

\* What a function on 1..n is before i.
Before(f, i) == [j \in 1..(i - 1) |-> f[j]]

\* G gives a value at i from those before i, and f is made of these.
Steps(n, B, G) == \A i \in 1..n : \A h \in [1..(i - 1) -> B] : G[i][h] \in B
Follows(f, n, G) == \A i \in 1..n : f[i] = G[i][Before(f, i)]

\* There is a function that is made so: each value is given by the values before it.
LEMMA RecursionExists ==
  ASSUME NEW n \in Nat, NEW B, NEW G, Steps(n, B, G)
  PROVE  \E f \in [1..n -> B] : Follows(f, n, G)
<1> DEFINE Good(m) == \E f \in [1..m -> B] : Follows(f, m, G)
           bad == {m \in 0..n : ~Good(m)}
<1>1. Good(0)
  <2> DEFINE f == [i \in 1..0 |-> G[i]]
  <2>1. 1..0 = {}
    OBVIOUS
  <2>2. f \in [1..0 -> B]
    BY <2>1
  <2>3. \A i \in 1..0 : f[i] = G[i][Before(f, i)]
    BY <2>1
  <2> HIDE DEF f
  <2> QED BY <2>2, <2>3 DEF Follows
<1>2. ASSUME NEW m \in 0..n, m # 0, Good(m - 1) PROVE Good(m)
  <2>1. PICK f \in [1..(m - 1) -> B] :
          \A i \in 1..(m - 1) : f[i] = G[i][Before(f, i)]
    BY <1>2 DEF Follows
  <2> DEFINE last == G[m][Before(f, m)]
             g == [i \in 1..m |-> IF i = m THEN last ELSE f[i]]
  <2>2. last \in B
    <3>1. Before(f, m) \in [1..(m - 1) -> B] /\ m \in 1..n
      BY <1>2 DEF Before
    <3> QED BY <3>1 DEF Steps
  <2> HIDE DEF last
  <2>3. g \in [1..m -> B]
    BY <2>2, <1>2
  <2>4. ASSUME NEW i \in 1..m PROVE g[i] = G[i][Before(g, i)]
    <3>1. Before(g, i) = Before(f, i)
      <4>1. \A j \in 1..(i - 1) : j \in 1..m /\ j # m
        BY <1>2
      <4> QED BY <4>1 DEF Before
    <3>2. CASE i = m
      BY <3>1, <3>2 DEF last
    <3>3. CASE i # m
      <4>1. i \in 1..(m - 1)
        BY <3>3, <1>2
      <4>2. g[i] = f[i]
        BY <3>3
      <4> HIDE DEF g
      <4> QED BY <2>1, <3>1, <4>1, <4>2
    <3> QED BY <3>2, <3>3
  <2> HIDE DEF g
  <2> QED BY <2>3, <2>4 DEF Follows
<1> HIDE DEF Good
<1>3. bad = {}
  <2> SUFFICES ASSUME bad # {} PROVE FALSE
    OBVIOUS
  <2>1. bad \in SUBSET Nat
    OBVIOUS
  <2>2. PICK m \in bad : \A j \in bad : m <= j
    BY <2>1, LeastNumber
  <2>3. m \in 0..n /\ ~Good(m) /\ m # 0
    BY <1>1
  <2>4. m - 1 \in 0..n /\ ~(m <= m - 1)
    BY <2>3
  <2>5. Good(m - 1)
    BY <2>2, <2>4
  <2> QED BY <1>2, <2>3, <2>5
<1>4. Good(n)
  BY <1>3
<1> QED BY <1>4 DEF Good

\* Both give truth values to a part, whatever its parts have.
LEMMA LinksBoolean ==
  ASSUME NEW part, NEW links, NEW left, NEW right
  PROVE  LinksPart(part, links, left, right) \in BOOLEAN
BY DEF LinksPart, Linking, IsComparison

LEMMA HoldsBoolean ==
  ASSUME NEW part, NEW holds, NEW true
  PROVE  HoldsPart(part, holds, true) \in BOOLEAN
<1>1. CASE part.op = "and"
  BY <1>1 DEF HoldsPart
<1>2. CASE part.op = "or"
  BY <1>2 DEF HoldsPart
<1>3. CASE part.op = "xor"
  BY <1>3 DEF HoldsPart
<1>4. CASE part.op = "not"
  BY <1>4 DEF HoldsPart
<1>5. CASE part.op \notin {"and", "or", "xor", "not"}
  <2>1. CASE part \in true
    BY <1>5, <2>1 DEF HoldsPart
  <2>2. CASE part \notin true
    <3>1. HoldsPart(part, holds, true) = FALSE
      BY <1>5, <2>2 DEF HoldsPart
    <3> QED BY <3>1
  <2> QED BY <2>1, <2>2
<1> QED BY <1>1, <1>2, <1>3, <1>4, <1>5

\* Which parts of a condition link.
LinkedParts(f, c, left, right) ==
  /\ f \in [DOMAIN c -> BOOLEAN] /\ Links(c, left, right) = f[Len(c)]
  /\ \A i \in DOMAIN c : f[i] = LinksPart(c[i], f, left, right)

\* Links is the value of a function on the parts that satisfies its own definition.
LEMMA LinksIs ==
  ASSUME NEW c, IsCondition(c), NEW left, NEW right
  PROVE  \E f : LinkedParts(f, c, left, right)
<1> DEFINE n == Len(c)
           V == BOOLEAN
           G == [i \in 1..n |-> [h \in [1..(i - 1) -> V] |-> LinksPart(c[i], h, left, right)]]
           whole[i \in DOMAIN c] == LinksPart(c[i], whole, left, right)
<1>1. n \in Nat /\ DOMAIN c = 1..n /\ \A i \in 1..n : c[i].of \subseteq 1..(i - 1)
  BY DEF IsCondition
<1>2. Steps(n, V, G)
  BY <1>1, LinksBoolean DEF Steps
<1> HIDE DEF G, n, V
<1>3. PICK f \in [1..n -> V] : Follows(f, n, G)
  BY <1>1, <1>2, RecursionExists
<1>4. ASSUME NEW i \in 1..n PROVE f[i] = LinksPart(c[i], f, left, right)
  <2>1. Before(f, i) \in [1..(i - 1) -> V]
    BY <1>1 DEF Before
  <2>2. \A child \in c[i].of : Before(f, i)[child] = f[child]
    BY <1>1 DEF Before
  <2>3. f[i] = G[i][Before(f, i)]
    BY <1>3 DEF Follows
  <2>4. f[i] = LinksPart(c[i], Before(f, i), left, right)
    BY <2>1, <2>3 DEF G
  <2> QED BY <2>2, <2>4 DEF LinksPart
<1>5. f = [i \in DOMAIN c |-> LinksPart(c[i], f, left, right)]
  BY <1>1, <1>4
<1>6. whole = [i \in DOMAIN c |-> LinksPart(c[i], whole, left, right)]
  BY <1>5
<1>7. Links(c, left, right) = whole[n]
  BY DEF Links, n
<1> HIDE DEF whole
<1>8. \A i \in DOMAIN c : whole[i] = LinksPart(c[i], whole, left, right)
  BY <1>6
<1>9. whole \in [DOMAIN c -> BOOLEAN]
  BY <1>6, LinksBoolean
<1> QED BY <1>7, <1>8, <1>9 DEF n, LinkedParts

\* So is Terms ...
LEMMA TermsAre ==
  ASSUME NEW c, IsCondition(c)
  PROVE  \E f :
           Terms(c) = f[Len(c)] /\ \A i \in DOMAIN c : f[i] = TermsOf(c[i], f)
<1> DEFINE n == Len(c)
           V == SUBSET ToSet(c)
           G == [i \in 1..n |-> [h \in [1..(i - 1) -> V] |-> TermsOf(c[i], h)]]
           whole[i \in DOMAIN c] == TermsOf(c[i], whole)
<1>1. n \in Nat /\ DOMAIN c = 1..n /\ \A i \in 1..n : c[i].of \subseteq 1..(i - 1)
  BY DEF IsCondition
<1>2. Steps(n, V, G)
  BY <1>1 DEF Steps, TermsOf, ToSet
<1> HIDE DEF G, n, V
<1>3. PICK f \in [1..n -> V] : Follows(f, n, G)
  BY <1>1, <1>2, RecursionExists
<1>4. ASSUME NEW i \in 1..n PROVE f[i] = TermsOf(c[i], f)
  <2>1. Before(f, i) \in [1..(i - 1) -> V]
    BY <1>1 DEF Before
  <2>2. \A child \in c[i].of : Before(f, i)[child] = f[child]
    BY <1>1 DEF Before
  <2>3. f[i] = G[i][Before(f, i)]
    BY <1>3 DEF Follows
  <2>4. f[i] = TermsOf(c[i], Before(f, i))
    BY <2>1, <2>3 DEF G
  <2> QED BY <2>2, <2>4 DEF TermsOf
<1>5. f = [i \in DOMAIN c |-> TermsOf(c[i], f)]
  BY <1>1, <1>4
<1>6. whole = [i \in DOMAIN c |-> TermsOf(c[i], whole)]
  BY <1>5
<1>7. Terms(c) = whole[n]
  BY DEF Terms, n
<1> HIDE DEF whole
<1>8. \A i \in DOMAIN c : whole[i] = TermsOf(c[i], whole)
  BY <1>6
<1> QED BY <1>7, <1>8 DEF n

\* ... and Holds, for each set of true comparisons.
LEMMA HoldsIs ==
  ASSUME NEW c, IsCondition(c), NEW true
  PROVE  \E f \in [DOMAIN c -> BOOLEAN] :
           Holds(c, true) = f[Len(c)] /\ \A i \in DOMAIN c : f[i] = HoldsPart(c[i], f, true)
<1> DEFINE n == Len(c)
           V == BOOLEAN
           G == [i \in 1..n |-> [h \in [1..(i - 1) -> V] |-> HoldsPart(c[i], h, true)]]
           whole[i \in DOMAIN c] == HoldsPart(c[i], whole, true)
<1>1. n \in Nat /\ DOMAIN c = 1..n /\ \A i \in 1..n : c[i].of \subseteq 1..(i - 1)
  BY DEF IsCondition
<1>2. Steps(n, V, G)
  BY <1>1, HoldsBoolean DEF Steps
<1> HIDE DEF G, n, V
<1>3. PICK f \in [1..n -> V] : Follows(f, n, G)
  BY <1>1, <1>2, RecursionExists
<1>4. ASSUME NEW i \in 1..n PROVE f[i] = HoldsPart(c[i], f, true)
  <2>1. Before(f, i) \in [1..(i - 1) -> V]
    BY <1>1 DEF Before
  <2>2. \A child \in c[i].of : Before(f, i)[child] = f[child]
    BY <1>1 DEF Before
  <2>3. f[i] = G[i][Before(f, i)]
    BY <1>3 DEF Follows
  <2>4. f[i] = HoldsPart(c[i], Before(f, i), true)
    BY <2>1, <2>3 DEF G
  <2> QED BY <2>2, <2>4 DEF HoldsPart
<1>5. f = [i \in DOMAIN c |-> HoldsPart(c[i], f, true)]
  BY <1>1, <1>4
<1>6. whole = [i \in DOMAIN c |-> HoldsPart(c[i], whole, true)]
  BY <1>5
<1>7. Holds(c, true) = whole[n]
  BY DEF Holds, n
<1> HIDE DEF whole
<1>8. \A i \in DOMAIN c : whole[i] = HoldsPart(c[i], whole, true)
  BY <1>6
<1>9. whole \in [DOMAIN c -> BOOLEAN]
  BY <1>6, HoldsBoolean
<1> QED BY <1>7, <1>8, <1>9 DEF n

\* A condition that links cannot hold without a comparison of both sides: the least
\* part that links and holds nevertheless has no part that does.
LEMMA LinksBind ==
  ASSUME NEW c, IsCondition(c), IsPositive(c), NEW left, NEW right, NEW true,
         Links(c, left, right), Holds(c, true)
  PROVE  \E atom \in true : Linking(atom, left, right)
<1> SUFFICES ASSUME \A atom \in true : ~Linking(atom, left, right)
             PROVE  FALSE
  OBVIOUS
<1>1. PICK l : LinkedParts(l, c, left, right)
  BY LinksIs
<1>2. /\ l \in [DOMAIN c -> BOOLEAN] /\ l[Len(c)]
      /\ \A i \in DOMAIN c : l[i] = LinksPart(c[i], l, left, right)
  BY <1>1 DEF LinkedParts
<1>3. PICK h \in [DOMAIN c -> BOOLEAN] :
        Holds(c, true) = h[Len(c)] /\ \A i \in DOMAIN c : h[i] = HoldsPart(c[i], h, true)
  BY HoldsIs
<1> DEFINE T == {i \in DOMAIN c : l[i] /\ h[i]}
<1>4. Len(c) \in DOMAIN c /\ T \in SUBSET Nat
  BY DEF IsCondition
<1>5. Len(c) \in T
  <2>1. l[Len(c)] = TRUE /\ h[Len(c)] = TRUE
    BY <1>2, <1>3, <1>4
  <2> QED BY <1>4, <2>1
<1>6. PICK k \in T : \A j \in T : k <= j
  BY <1>4, <1>5, LeastNumber
<1>7. \A child \in c[k].of : child \in DOMAIN c /\ child < k
  BY <1>6 DEF IsCondition
<1>8. \A child \in c[k].of : ~(l[child] /\ h[child])
  <2>1. \A child \in c[k].of : child \notin T
    BY <1>4, <1>6, <1>7
  <2> QED BY <1>7, <2>1
<1>9. LinksPart(c[k], l, left, right) /\ HoldsPart(c[k], h, true)
  BY <1>2, <1>3, <1>6
<1>10. CASE c[k].of = {}
  <2>1. Linking(c[k], left, right) /\ c[k].op = "compare"
    BY <1>9, <1>10 DEF LinksPart, Linking, IsComparison
  <2>2. c[k] \in true
    BY <1>9, <2>1 DEF HoldsPart
  <2> QED BY <2>1, <2>2
<1>11. CASE c[k].of # {}
  <2>1. c[k].op \in {"and", "or", "xor"}
    BY <1>6, <1>11 DEF IsPositive
  <2>2. CASE c[k].op = "and"
    <3>1. \E child \in c[k].of : l[child]
      BY <1>9, <1>11, <2>2 DEF LinksPart, Branches
    <3>2. \A child \in c[k].of : h[child]
      BY <1>9, <2>2 DEF HoldsPart
    <3> QED BY <1>8, <3>1, <3>2
  <2>3. CASE c[k].op = "or"
    <3>1. \A child \in c[k].of : l[child]
      BY <1>9, <1>11, <2>3 DEF LinksPart, Branches
    <3>2. \E child \in c[k].of : h[child]
      BY <1>9, <2>3 DEF HoldsPart
    <3> QED BY <1>8, <3>1, <3>2
  <2>4. CASE c[k].op = "xor"
    <3>1. \A child \in c[k].of : l[child]
      BY <1>9, <1>11, <2>4 DEF LinksPart, Branches
    <3>2. \E one, other \in c[k].of : h[one] # h[other]
      BY <1>9, <2>4 DEF HoldsPart
    <3>3. \E child \in c[k].of : h[child]
      BY <1>3, <1>7, <3>2
    <3> QED BY <1>8, <3>1, <3>3
  <2> QED BY <2>1, <2>2, <2>3, <2>4
<1> QED BY <1>10, <1>11

\* A term of a condition that holds is true, by the least part that has it and holds.
LEMMA TermsBind ==
  ASSUME NEW c, IsCondition(c), NEW true, Holds(c, true),
         NEW term \in Terms(c), term.op = "schema"
  PROVE  term \in true
<1> SUFFICES ASSUME term \notin true PROVE FALSE
  OBVIOUS
<1>1. PICK t : Terms(c) = t[Len(c)] /\ \A i \in DOMAIN c : t[i] = TermsOf(c[i], t)
  BY TermsAre
<1>2. PICK h \in [DOMAIN c -> BOOLEAN] :
        Holds(c, true) = h[Len(c)] /\ \A i \in DOMAIN c : h[i] = HoldsPart(c[i], h, true)
  BY HoldsIs
<1> DEFINE T == {i \in DOMAIN c : h[i] /\ term \in t[i]}
<1>3. Len(c) \in DOMAIN c /\ T \in SUBSET Nat
  BY DEF IsCondition
<1>4. Len(c) \in T
  BY <1>1, <1>2, <1>3
<1>5. PICK k \in T : \A j \in T : k <= j
  BY <1>3, <1>4, LeastNumber
<1>6. \A child \in c[k].of : child \in DOMAIN c /\ child < k
  BY <1>5 DEF IsCondition
<1>7. \A child \in c[k].of : ~(h[child] /\ term \in t[child])
  <2>1. \A child \in c[k].of : child \notin T
    BY <1>3, <1>5, <1>6
  <2> QED BY <1>6, <2>1
<1>8. term \in TermsOf(c[k], t) /\ HoldsPart(c[k], h, true)
  BY <1>1, <1>2, <1>5
<1>9. CASE c[k].op = "and"
  <2>1. PICK child \in c[k].of : term \in t[child]
    BY <1>8, <1>9 DEF TermsOf, Splits
  <2>2. h[child]
    BY <1>8, <1>9 DEF HoldsPart
  <2> QED BY <1>7, <2>1, <2>2
<1>10. CASE c[k].op # "and"
  <2>1. term = c[k]
    BY <1>8, <1>10 DEF TermsOf, Splits
  <2>2. c[k] \in true
    BY <1>8, <2>1 DEF HoldsPart
  <2> QED BY <2>1, <2>2
<1> QED BY <1>9, <1>10

\* Completing the references of a condition changes none of its structure.
LEMMA CompletedIsCondition ==
  ASSUME NEW cat, NEW out, NEW scope, NEW c, IsCondition(c)
  PROVE  /\ IsCondition(CompletedCondition(cat, out, scope, c))
         /\ IsPositive(c) => IsPositive(CompletedCondition(cat, out, scope, c))
<1> DEFINE d == CompletedCondition(cat, out, scope, c)
<1>1. /\ Len(c) \in Nat \ {0} /\ DOMAIN c = 1..Len(c)
      /\ \A i \in DOMAIN c : DOMAIN c[i] = {"op", "of", "left", "right"}
                             /\ c[i].of \subseteq 1..(i - 1)
  BY DEF IsCondition
<1>2. DOMAIN d = 1..Len(c) /\ Len(d) = Len(c)
  BY <1>1 DEF CompletedCondition
<1>3. ASSUME NEW i \in DOMAIN c
      PROVE  DOMAIN d[i] = DOMAIN c[i] /\ d[i].of = c[i].of /\ d[i].op = c[i].op
  BY <1>1 DEF CompletedCondition
<1> HIDE DEF d
<1>4. IsCondition(d)
  BY <1>1, <1>2, <1>3 DEF IsCondition
<1>5. IsPositive(c) => IsPositive(d)
  BY <1>1, <1>2, <1>3 DEF IsPositive
<1> QED BY <1>4, <1>5 DEF d

-----------------------------------------------------------------------------
\* Issues of one code are none exactly when there is nothing to report.
LEMMA NoneOf ==
  ASSUME NEW k, NEW S
  PROVE  [code : {k}, of : S] = {} <=> S = {}
<1>1. ASSUME NEW x \in S PROVE [code : {k}, of : S] # {}
  <2>1. [code |-> k, of |-> x] \in [code : {k}, of : S]
    OBVIOUS
  <2> QED BY <2>1
<1>2. S = {} => [code : {k}, of : S] = {}
  OBVIOUS
<1> QED BY <1>1, <1>2

\* What is found when nothing is found.
LEMMA NoIssues ==
  ASSUME NEW p, NEW q, NEW cat
  PROVE  QueryIssues(p, q, cat) = {} <=>
           /\ TableIssues(q, cat) = {}
           /\ \A scope \in ToSet(q.scopes) : Qualifies(cat, Outputs(q, cat), scope)
           /\ JoinIssues(q, cat) = {} /\ DuplicateIssues(q, cat) = {}
           /\ PolicyIssues(p, q, cat) = {}
<1>1. [code : {"unknown_column"}, of : {Whole}] # {}
  BY NoneOf
<1> QED BY <1>1 DEF QueryIssues

\* Which statements pass the check of tables,
LEMMA TablesFine ==
  ASSUME NEW q, NEW cat
  PROVE  TableIssues(q, cat) = {} <=>
           PhysicalTables(q) \subseteq cat.tables /\ StarTables(q) \cap cat.restricted = {}
<1>1. [code : {"unknown_table"}, of : PhysicalTables(q) \ cat.tables] = {}
        <=> PhysicalTables(q) \ cat.tables = {}
  BY NoneOf
<1>2. [code : {"column_access_denied"}, of : StarTables(q) \cap cat.restricted] = {}
        <=> StarTables(q) \cap cat.restricted = {}
  BY NoneOf
<1> QED BY <1>1, <1>2 DEF TableIssues

\* and which the check of the policy.
LEMMA PolicyFine ==
  ASSUME NEW p, NEW q, NEW cat
  PROVE  PolicyIssues(p, q, cat) = {} <=>
           /\ \A t \in PhysicalTables(q) :
                NeedsTable(q, PhysicalColumns(q, cat) \cap cat.columns, t)
                  => Allows(p, TableAsset(t))
           /\ \A x \in PhysicalColumns(q, cat) \cap cat.columns :
                x.table \notin StarTables(q) => Allows(p, x)
<1> DEFINE cols == PhysicalColumns(q, cat) \cap cat.columns
           denied == {t \in PhysicalTables(q) : NeedsTable(q, cols, t) /\ ~Allows(p, TableAsset(t))}
           hidden == {x \in cols : x.table \notin StarTables(q) /\ ~Allows(p, x)}
<1>1. PolicyIssues(p, q, cat) = [code : {"table_access_denied"}, of : denied]
                                  \cup [code : {"column_access_denied"}, of : hidden]
  BY DEF PolicyIssues
<1>2. PolicyIssues(p, q, cat) = {} <=> denied = {} /\ hidden = {}
  <2> HIDE DEF denied, hidden
  <2>1. [code : {"table_access_denied"}, of : denied] = {} <=> denied = {}
    BY NoneOf
  <2>2. [code : {"column_access_denied"}, of : hidden] = {} <=> hidden = {}
    BY NoneOf
  <2> QED BY <1>1, <2>1, <2>2
<1> HIDE DEF cols
<1>3. denied = {} <=> \A t \in PhysicalTables(q) :
                        NeedsTable(q, cols, t) => Allows(p, TableAsset(t))
  OBVIOUS
<1>4. hidden = {} <=> \A x \in cols : x.table \notin StarTables(q) => Allows(p, x)
  OBVIOUS
<1> QED BY <1>2, <1>3, <1>4 DEF cols

-----------------------------------------------------------------------------
\* A table stands for all its columns.
LEMMA TableCovers ==
  ASSUME NEW p, NEW x, Allows(p, TableAsset(x.table))
  PROVE  Allows(p, x)
BY DEF Allows, Encompasses, TableAsset

\* The narrowed catalogue has allowed columns only.
LEMMA CatalogAllowed ==
  ASSUME NEW p, NEW known, NEW cols, NEW x \in Catalog(p, known, cols).columns
  PROVE  x \in cols /\ Allows(p, x)
BY DEF Catalog, AllowedColumns

\* A physical source has the columns of its table.
LEMMA PhysicalNames ==
  ASSUME NEW cat, NEW out, NEW s, OfTable(s)
  PROVE  NamesOf(cat, out, s) =
           {x.column : x \in {y \in cat.columns : y.table = s.of.table}}
BY DEF NamesOf

\* A column of a USING may be one of the source it is taken from.
LEMMA UsingMayHave ==
  ASSUME NEW cat, NEW out, NEW scope, UsingFound(cat, out, scope),
         Len(scope.from) \in Nat, DOMAIN scope.from = 1..Len(scope.from),
         NEW r \in UsingRefs(cat, out, scope)
  PROVE  \E s \in Sources(scope) : r.alias = s.alias /\ MayHave(cat, out, s, r.column)
<1>1. PICK k \in 2..Len(scope.from) :
        /\ r.column \in scope.from[k].using
        /\ \E j \in Compared(cat, out, scope, k, r.column) : r.alias = scope.from[j].alias
  BY DEF UsingRefs
<1>2. PICK j \in Compared(cat, out, scope, k, r.column) : r.alias = scope.from[j].alias
  BY <1>1
<1>3. j \in 1..Len(scope.from)
  BY DEF Compared
<1>4. scope.from[j] \in Sources(scope) /\ MayHave(cat, out, scope.from[j], r.column)
  BY <1>1, <1>3 DEF UsingFound, Sources, ToSet
<1> QED BY <1>2, <1>4

\* What is read of a table is a column of the catalogue, or nothing is known
\* of the table.
LEMMA ReadIsKnown ==
  ASSUME NEW q, IsStatement(q), q.kind = "query", NEW cat,
         \A y \in cat.columns : y.column # AnyName,
         \A scope \in ToSet(q.scopes) : Qualifies(cat, Outputs(q, cat), scope),
         NEW x \in PhysicalColumns(q, cat)
  PROVE  /\ x.table \in PhysicalTables(q) /\ x = [table |-> x.table, column |-> x.column]
         /\ \/ \E y \in cat.columns : y.table = x.table /\ y.column = x.column
            \/ \A y \in cat.columns : y.table # x.table
<1> DEFINE out == Outputs(q, cat)
<1>1. PICK scope \in ToSet(q.scopes) : \E s \in Physical(scope) :
        \E r \in References(cat, out, scope) :
          r.alias = s.alias /\ x = [table |-> s.of.table, column |-> r.column]
  BY DEF PhysicalColumns
<1>2. PICK s \in Physical(scope) : \E r \in References(cat, out, scope) :
        r.alias = s.alias /\ x = [table |-> s.of.table, column |-> r.column]
  BY <1>1
<1>3. PICK r \in References(cat, out, scope) :
        r.alias = s.alias /\ x = [table |-> s.of.table, column |-> r.column]
  BY <1>2
<1>4. UsingFound(cat, out, scope)
  BY <1>1 DEF Qualifies
<1> HIDE DEF out
<1>5. s \in Sources(scope) /\ OfTable(s) /\ x.table = s.of.table /\ x.column = r.column
  BY <1>3 DEF Physical
<1>6. x.table \in PhysicalTables(q)
  BY <1>3, <1>5 DEF PhysicalTables
<1> DEFINE names == {y.column : y \in {y \in cat.columns : y.table = s.of.table}}
<1>7. NamesOf(cat, out, s) = names
  BY <1>5, PhysicalNames
<1>8. \A other \in Sources(scope) : other.alias = s.alias => other = s
  BY <1>3, <1>5 DEF IsStatement, Sources, ToSet
<1>9. AnyName \notin names
  OBVIOUS
<1>10. r.column \in names \/ names = {}
  <2>1. CASE r \in StarRefs(cat, out, scope)
    <3>1. PICK other \in Sources(scope) :
            r \in {[alias |-> other.alias, column |-> n] :
                     n \in OrAnyName(NamesOf(cat, out, other))}
      BY <2>1 DEF StarRefs
    <3>2. other = s /\ r.column \in OrAnyName(NamesOf(cat, out, other))
      BY <1>3, <1>8, <3>1
    <3> QED BY <1>7, <3>2 DEF OrAnyName
  <2>2. CASE r \in UsingRefs(cat, out, scope)
    <3>1. Len(scope.from) \in Nat /\ DOMAIN scope.from = 1..Len(scope.from)
      BY <1>1 DEF IsStatement
    <3>2. PICK other \in Sources(scope) : /\ r.alias = other.alias
                                          /\ MayHave(cat, out, other, r.column)
      BY <1>4, <2>2, <3>1, UsingMayHave
    <3>3. other = s
      BY <1>3, <1>8, <3>2
    <3> HIDE DEF names
    <3> QED BY <1>7, <1>9, <3>2, <3>3 DEF MayHave
  <2>3. CASE r \notin StarRefs(cat, out, scope) /\ r \notin UsingRefs(cat, out, scope)
    <3>1. PICK w : r \in Resolved(cat, out, scope, w)
      BY <1>3, <2>3 DEF References, Completed
    <3>2. CASE w.alias # Bare
      <4>1. PICK other \in Sources(scope) :
              r = w /\ other.alias = w.alias /\ MayHave(cat, out, other, r.column)
        BY <3>1, <3>2 DEF Resolved
      <4>2. other = s
        BY <1>3, <1>8, <4>1
      <4> HIDE DEF names
      <4> QED BY <1>7, <1>9, <4>1, <4>2 DEF MayHave
    <3>3. CASE w.alias = Bare
      <4>1. PICK other \in Sources(scope) :
              r = [alias |-> other.alias, column |-> w.column]
                /\ w.column \in NamesOf(cat, out, other)
        BY <2>3, <3>1, <3>3 DEF Resolved
      <4>2. other = s /\ r.column = w.column
        BY <1>3, <1>8, <4>1
      <4> QED BY <1>7, <4>1, <4>2
    <3> QED BY <3>2, <3>3
  <2> QED BY <2>1, <2>2, <2>3
<1>11. r.column \in names => \E y \in cat.columns : y.table = x.table /\ y.column = x.column
  BY <1>5
<1>12. names = {} => \A y \in cat.columns : y.table # x.table
  BY <1>5
<1> QED BY <1>3, <1>6, <1>10, <1>11, <1>12

\* What an admitted query reads is allowed.
LEMMA AdmittedReads ==
  ASSUME NEW q, IsStatement(q), q.kind = "query", NEW p, NEW known, NEW cols,
         \A x \in cols : x.column # AnyName,
         QueryIssues(p, q, Catalog(p, known, cols)) = {},
         NEW x \in PhysicalColumns(q, Catalog(p, known, cols))
  PROVE  IF x.column = AnyName THEN Allows(p, TableAsset(x.table)) ELSE Allows(p, x)
<1> DEFINE cat == Catalog(p, known, cols)
<1>1. \A y \in cat.columns : y \in cols /\ Allows(p, y)
  BY CatalogAllowed
<1>2. /\ x.table \in PhysicalTables(q)
      /\ \/ \E y \in cat.columns : y.table = x.table /\ y.column = x.column
         \/ \A y \in cat.columns : y.table # x.table
  <2>1. \A scope \in ToSet(q.scopes) : Qualifies(cat, Outputs(q, cat), scope)
    BY NoIssues
  <2> HIDE DEF cat
  <2> QED BY <1>1, <2>1, ReadIsKnown DEF cat
<1> HIDE DEF cat
<1>3. CASE \E y \in cat.columns : y.table = x.table /\ y.column = x.column
  <2>1. x.column # AnyName
    BY <1>1, <1>3
  <2>2. Allows(p, x)
    BY <1>1, <1>3 DEF Allows, Encompasses
  <2> QED BY <2>1, <2>2
<1>4. CASE \A y \in cat.columns : y.table # x.table
  <2>1. NeedsTable(q, PhysicalColumns(q, cat) \cap cat.columns, x.table)
    BY <1>4 DEF NeedsTable
  <2>2. PolicyIssues(p, q, cat) = {}
    BY NoIssues DEF cat
  <2>3. Allows(p, TableAsset(x.table))
    BY <1>2, <2>1, <2>2, PolicyFine
  <2> QED BY <2>3, TableCovers
<1> QED BY <1>2, <1>3, <1>4

-----------------------------------------------------------------------------
\* A catalogue that has less of the tables, but all of a scope's other sources.
Narrower(cat, whole, out, scope) ==
  \A s \in Sources(scope) :
    /\ NamesOf(cat, out, s) \subseteq NamesOf(whole, out, s)
    /\ OfTable(s) => NamesOf(whole, out, s) # {} /\ AnyName \notin NamesOf(whole, out, s)
    /\ ~OfTable(s) => NamesOf(cat, out, s) = NamesOf(whole, out, s)

\* Of the columns a reference means it has all.
Has(cat, whole, out, scope, refs) ==
  \A r \in refs : \A s \in Sources(scope) :
    r.alias = s.alias /\ r.column \in NamesOf(whole, out, s) => r.column \in NamesOf(cat, out, s)

\* A reference that means the same sources in both is completed alike.
LEMMA ResolvedSame ==
  ASSUME NEW cat, NEW whole, NEW out, NEW scope, Narrower(cat, whole, out, scope), NEW w,
         Has(cat, whole, out, scope, Resolved(whole, out, scope, w)),
         UsingRefs(cat, out, scope) = UsingRefs(whole, out, scope),
         Resolved(whole, out, scope, w) # {}
  PROVE  Resolved(cat, out, scope, w) = Resolved(whole, out, scope, w)
<1> DEFINE Having(c) == {s \in Sources(scope) : w.column \in NamesOf(c, out, s)}
           Named(c) == {s \in Sources(scope) : s.alias = w.alias
                         /\ MayHave(c, out, s, w.column)}
<1>1. Having(cat) \subseteq Having(whole)
  BY DEF Narrower
<1>2. CASE w.alias # Bare
  <2>1. \A c : Resolved(c, out, scope, w) = {w : s \in Named(c)}
    BY <1>2 DEF Resolved
  <2>2. PICK s \in Named(whole) : TRUE
    BY <1>2, <2>1
  <2>3. s \in Named(cat)
    <3>1. CASE OfTable(s)
      <4>1. s \in Having(whole)
        BY <2>2, <3>1 DEF Narrower, MayHave
      <4>2. w \in Resolved(whole, out, scope, w)
        BY <2>1, <2>2
      <4>3. w.column \in NamesOf(cat, out, s)
        BY <2>2, <4>1, <4>2 DEF Has
      <4> QED BY <2>2, <4>3 DEF MayHave
    <3>2. CASE ~OfTable(s)
      BY <2>2, <3>2 DEF Narrower, MayHave
    <3> QED BY <3>1, <3>2
  <2> HIDE DEF Named
  <2>4. {w : t \in Named(cat)} = {w} /\ {w : t \in Named(whole)} = {w}
    BY <2>2, <2>3
  <2> QED BY <2>1, <2>4
<1>3. CASE w.alias = Bare /\ w.column \in UsingNames(scope)
  BY <1>3 DEF Resolved
<1>4. CASE w.alias = Bare /\ w.column \notin UsingNames(scope)
  <2> DEFINE Meant(c) == {[alias |-> s.alias, column |-> w.column] : s \in Having(c)}
  <2>1. \A c : Resolved(c, out, scope, w) =
                 IF Cardinality(Having(c)) = 1 THEN Meant(c) ELSE {}
    BY <1>4 DEF Resolved
  <2>2. Resolved(whole, out, scope, w) = Meant(whole)
    BY <2>1
  <2>3. ASSUME NEW s \in Having(whole) PROVE s \in Having(cat)
    <3>1. [alias |-> s.alias, column |-> w.column] \in Meant(whole)
      OBVIOUS
    <3>2. w.column \in NamesOf(cat, out, s)
      BY <2>2, <3>1 DEF Has
    <3> QED BY <3>2
  <2>4. Having(cat) = Having(whole)
    BY <1>1, <2>3
  <2> HIDE DEF Having
  <2> QED BY <2>1, <2>4
<1> QED BY <1>2, <1>3, <1>4

\* A USING that finds its columns on the whole catalogue compares the same
\* columns on the narrower one, and finds them.
LEMMA UsingSame ==
  ASSUME NEW cat, NEW whole, NEW out, NEW scope, Narrower(cat, whole, out, scope),
         Has(cat, whole, out, scope, UsingRefs(whole, out, scope)),
         UsingFound(whole, out, scope),
         Len(scope.from) \in Nat, DOMAIN scope.from = 1..Len(scope.from)
  PROVE  /\ UsingRefs(cat, out, scope) = UsingRefs(whole, out, scope)
         /\ UsingFound(cat, out, scope)
<1> DEFINE Names(c, j) == NamesOf(c, out, scope.from[j])
           Having(c, k, n) == {j \in 1..(k - 1) : n \in Names(c, j)}
           Earlier(c, k) == UNION {Names(c, j) : j \in 1..(k - 1)}
<1>1. \A j \in 1..Len(scope.from) : scope.from[j] \in Sources(scope)
  BY DEF Sources, ToSet
<1>2. \A j \in 1..Len(scope.from) :
        /\ Names(cat, j) \subseteq Names(whole, j)
        /\ OfTable(scope.from[j]) => Names(whole, j) # {} /\ AnyName \notin Names(whole, j)
        /\ ~OfTable(scope.from[j]) => Names(cat, j) = Names(whole, j)
  BY <1>1 DEF Narrower
<1>3. ASSUME NEW k \in 2..Len(scope.from), NEW n \in scope.from[k].using,
             NEW j \in Compared(whole, out, scope, k, n)
      PROVE  /\ j \in 1..k /\ j \in 1..Len(scope.from)
             /\ n \in Names(whole, j) => n \in Names(cat, j)
             /\ MayHave(cat, out, scope.from[j], n)
  <2>1. j \in 1..k /\ j \in 1..Len(scope.from)
    BY DEF Compared
  <2> DEFINE r == [alias |-> scope.from[j].alias, column |-> n]
  <2>2. r.alias \in Aliases(Sources(scope)) /\ r.column \in UsingNames(scope)
    BY <1>1, <2>1 DEF Aliases, UsingNames
  <2>3. r \in UsingRefs(whole, out, scope)
    BY <2>2 DEF UsingRefs
  <2>4. n \in Names(whole, j) => n \in Names(cat, j)
    BY <1>1, <2>1, <2>3 DEF Has
  <2>5. MayHave(whole, out, scope.from[j], n)
    BY DEF UsingFound
  <2>6. MayHave(cat, out, scope.from[j], n)
    BY <1>2, <2>1, <2>4, <2>5 DEF MayHave
  <2> QED BY <2>1, <2>4, <2>6
<1>4. ASSUME NEW k \in 2..Len(scope.from), NEW n \in scope.from[k].using
      PROVE  /\ Having(cat, k, n) = Having(whole, k, n)
             /\ Compared(cat, out, scope, k, n) = Compared(whole, out, scope, k, n)
  <2>1. \A c : Compared(c, out, scope, k, n)
                = {k} \cup (IF Having(c, k, n) = {} THEN {k - 1} ELSE Having(c, k, n))
    BY DEF Compared
  <2>2. ASSUME NEW j \in Having(cat, k, n) PROVE j \in Having(whole, k, n)
    <3>1. j \in 1..(k - 1) /\ j \in 1..Len(scope.from) /\ n \in Names(cat, j)
      OBVIOUS
    <3>2. Names(cat, j) \subseteq Names(whole, j)
      BY <1>2, <3>1
    <3> HIDE DEF Names
    <3> QED BY <3>1, <3>2
  <2>3. ASSUME NEW j \in Having(whole, k, n) PROVE j \in Having(cat, k, n)
    <3>1. j \in Compared(whole, out, scope, k, n)
      BY <2>1
    <3>2. n \in Names(cat, j)
      BY <1>3, <3>1
    <3> QED BY <3>2
  <2>4. Having(cat, k, n) = Having(whole, k, n)
    BY <2>2, <2>3
  <2> HIDE DEF Having
  <2> QED BY <2>1, <2>4
<1>5. UsingRefs(cat, out, scope) = UsingRefs(whole, out, scope)
  BY <1>4 DEF UsingRefs
<1>6. ASSUME NEW k \in 2..Len(scope.from), NEW n \in scope.from[k].using
      PROVE  \/ n \in Earlier(cat, k) \cap Names(cat, k)
             \/ Earlier(cat, k) = {} \/ AnyName \in Earlier(cat, k) \/ Names(cat, k) = {}
  <2>1. \/ n \in Earlier(whole, k) \cap Names(whole, k)
        \/ Earlier(whole, k) = {} \/ AnyName \in Earlier(whole, k) \/ Names(whole, k) = {}
    BY DEF UsingFound
  <2>2. CASE n \in Earlier(whole, k) \cap Names(whole, k)
    <3>1. k \in Compared(whole, out, scope, k, n)
      BY DEF Compared
    <3>2. n \in Names(cat, k)
      BY <1>3, <2>2, <3>1
    <3>3. PICK j \in 1..(k - 1) : n \in Names(whole, j)
      BY <2>2
    <3>4. j \in Having(cat, k, n)
      BY <1>4, <3>3
    <3> QED BY <3>2, <3>4
  <2>3. CASE Earlier(whole, k) = {}
    <3>1. ASSUME NEW j \in 1..(k - 1) PROVE Names(cat, j) = {}
      <4>1. j \in 1..Len(scope.from)
        OBVIOUS
      <4>2. Names(cat, j) \subseteq Names(whole, j)
        BY <1>2, <4>1
      <4> HIDE DEF Names
      <4>3. Names(whole, j) = {}
        BY <2>3
      <4> QED BY <4>2, <4>3
    <3> HIDE DEF Names
    <3> QED BY <3>1
  <2>4. CASE AnyName \in Earlier(whole, k)
    <3>1. PICK j \in 1..(k - 1) : AnyName \in Names(whole, j)
      BY <2>4
    <3>2. AnyName \in Names(cat, j)
      BY <1>2, <3>1
    <3> QED BY <3>2
  <2>5. CASE Names(whole, k) = {}
    BY <1>2, <2>5
  <2> QED BY <2>1, <2>2, <2>3, <2>4, <2>5
<1>7. \A k \in 2..Len(scope.from) : \A n \in scope.from[k].using :
        \A j \in Compared(cat, out, scope, k, n) : MayHave(cat, out, scope.from[j], n)
  BY <1>3, <1>4
<1> QED BY <1>5, <1>6, <1>7 DEF UsingFound

\* A query that is in order on the whole catalogue is completed alike on the
\* narrower one, if that has what is read.
LEMMA ReferencesSame ==
  ASSUME NEW cat, NEW whole, NEW out, NEW scope, Narrower(cat, whole, out, scope),
         Has(cat, whole, out, scope, References(whole, out, scope)),
         Qualifies(whole, out, scope),
         Len(scope.from) \in Nat, DOMAIN scope.from = 1..Len(scope.from),
         \A i \in ToSet(scope.items) : \A s \in Sources(scope) :
           i.kind = "star" /\ i.alias \in {Bare, s.alias}
             => NamesOf(cat, out, s) = NamesOf(whole, out, s)
  PROVE  /\ \A w \in Written(scope) :
              Resolved(cat, out, scope, w) = Resolved(whole, out, scope, w)
         /\ References(cat, out, scope) = References(whole, out, scope)
         /\ Qualifies(cat, out, scope)
<1>1. /\ UsingRefs(cat, out, scope) = UsingRefs(whole, out, scope)
      /\ UsingFound(cat, out, scope)
  <2>1. Has(cat, whole, out, scope, UsingRefs(whole, out, scope))
    BY DEF Has, References
  <2>2. UsingFound(whole, out, scope)
    BY DEF Qualifies
  <2> QED BY <2>1, <2>2, UsingSame
<1>2. ASSUME NEW w \in Written(scope)
      PROVE  Resolved(cat, out, scope, w) = Resolved(whole, out, scope, w)
  <2>1. Resolved(whole, out, scope, w) \subseteq References(whole, out, scope)
    BY <1>2 DEF References, Completed
  <2>2. Has(cat, whole, out, scope, Resolved(whole, out, scope, w))
    BY <2>1 DEF Has
  <2>3. Resolved(whole, out, scope, w) # {}
    BY <1>2 DEF Qualifies
  <2> QED BY <1>1, <2>2, <2>3, ResolvedSame
<1>3. StarRefs(cat, out, scope) = StarRefs(whole, out, scope)
  <2> DEFINE Each(c, s) == {[alias |-> s.alias, column |-> n] : n \in OrAnyName(NamesOf(c, out, s))}
             Meant(i) == {s \in Sources(scope) : i.alias \in {Bare, s.alias}}
             stars == {i \in ToSet(scope.items) : i.kind = "star"}
  <2>1. \A i \in stars : \A s \in Meant(i) : Each(cat, s) = Each(whole, s)
    <3> SUFFICES ASSUME NEW i \in stars, NEW s \in Meant(i) PROVE Each(cat, s) = Each(whole, s)
      OBVIOUS
    <3>1. NamesOf(cat, out, s) = NamesOf(whole, out, s)
      OBVIOUS
    <3> QED BY <3>1
  <2>2. /\ StarRefs(cat, out, scope) = UNION {UNION {Each(cat, s) : s \in Meant(i)} : i \in stars}
        /\ StarRefs(whole, out, scope)
             = UNION {UNION {Each(whole, s) : s \in Meant(i)} : i \in stars}
    BY DEF StarRefs
  <2> HIDE DEF Each, Meant, stars
  <2>3. ASSUME NEW i \in stars
        PROVE  UNION {Each(cat, s) : s \in Meant(i)} = UNION {Each(whole, s) : s \in Meant(i)}
    <3>1. {Each(cat, s) : s \in Meant(i)} = {Each(whole, s) : s \in Meant(i)}
      BY <2>1
    <3> QED BY <3>1
  <2>4. {UNION {Each(cat, s) : s \in Meant(i)} : i \in stars}
          = {UNION {Each(whole, s) : s \in Meant(i)} : i \in stars}
    BY <2>3
  <2> QED BY <2>2, <2>4
<1>4. References(cat, out, scope) = References(whole, out, scope)
  <2>1. Completed(cat, out, scope, Written(scope)) = Completed(whole, out, scope, Written(scope))
    BY <1>2 DEF Completed
  <2> QED BY <1>3, <1>1, <2>1 DEF References
<1>5. Qualifies(cat, out, scope)
  BY <1>2, <1>1 DEF Qualifies
<1> QED BY <1>2, <1>4, <1>5

\* Both catalogues give the same names to what a star stands for.
SameStars(cat, whole, out, scope) ==
  \A i \in ToSet(scope.items) : \A s \in Sources(scope) :
    i.kind = "star" /\ i.alias \in {Bare, s.alias} => NamesOf(cat, out, s) = NamesOf(whole, out, s)

\* A select item has the same names then,
LEMMA ItemNamesSame ==
  ASSUME NEW cat, NEW whole, NEW out, NEW scope, SameStars(cat, whole, out, scope),
         Len(scope.from) \in Nat, DOMAIN scope.from = 1..Len(scope.from),
         NEW i \in ToSet(scope.items), i.kind \in {"ref", "star", "count"}
  PROVE  NamesOfItem(cat, out, scope, i) = NamesOfItem(whole, out, scope, i)
<1>1. CASE i.kind = "ref" \/ i.kind = "count"
  BY <1>1 DEF NamesOfItem
<1>2. CASE i.kind = "star"
  <2> DEFINE Piece(c, k) ==
        IF i.alias = scope.from[k].alias THEN SetToSeq(OrAnyName(NamesOf(c, out, scope.from[k])))
        ELSE IF i.alias = Bare THEN SetToSeq(OrAnyName(Expanded(c, out, scope, k)))
        ELSE <<>>
  <2>1. ASSUME NEW k \in DOMAIN scope.from PROVE Piece(cat, k) = Piece(whole, k)
    <3>1. \A j \in 1..k : scope.from[j] \in Sources(scope)
      BY DEF Sources, ToSet
    <3>2. scope.from[k] \in Sources(scope)
      BY <3>1
    <3>3. CASE i.alias = scope.from[k].alias
      <4>1. NamesOf(cat, out, scope.from[k]) = NamesOf(whole, out, scope.from[k])
        BY <1>2, <3>2, <3>3 DEF SameStars
      <4> QED BY <3>3, <4>1
    <3>4. CASE i.alias # scope.from[k].alias /\ i.alias = Bare
      <4>1. \A j \in 1..k : NamesOf(cat, out, scope.from[j]) = NamesOf(whole, out, scope.from[j])
        BY <1>2, <3>1, <3>4 DEF SameStars
      <4>2. {NamesOf(cat, out, scope.from[j]) : j \in 1..(k - 1)}
              = {NamesOf(whole, out, scope.from[j]) : j \in 1..(k - 1)}
        BY <4>1
      <4>3. Expanded(cat, out, scope, k) = Expanded(whole, out, scope, k)
        BY <4>1, <4>2 DEF Expanded
      <4> QED BY <3>4, <4>3
    <3>5. CASE i.alias # scope.from[k].alias /\ i.alias # Bare
      BY <3>5
    <3> QED BY <3>3, <3>4, <3>5
  <2>2. \A c : NamesOfItem(c, out, scope, i) = FlattenSeq([k \in DOMAIN scope.from |-> Piece(c, k)])
    BY <1>2 DEF NamesOfItem
  <2> HIDE DEF Piece
  <2>3. [k \in DOMAIN scope.from |-> Piece(cat, k)] = [k \in DOMAIN scope.from |-> Piece(whole, k)]
    BY <2>1
  <2> QED BY <2>2, <2>3
<1> QED BY <1>1, <1>2

\* and so have all scopes of the query,
LEMMA OutputsSame ==
  ASSUME NEW q, IsStatement(q), q.kind = "query", NEW cat, NEW whole,
         \A out : \A scope \in ToSet(q.scopes) : SameStars(cat, whole, out, scope)
  PROVE  Outputs(q, cat) = Outputs(q, whole)
<1>1. ASSUME NEW out, NEW scope \in ToSet(q.scopes)
      PROVE  NamesOfScope(cat, out, scope) = NamesOfScope(whole, out, scope)
  <2>1. /\ Len(scope.from) \in Nat /\ DOMAIN scope.from = 1..Len(scope.from)
        /\ \A n \in DOMAIN scope.items : /\ scope.items[n] \in ToSet(scope.items)
                                        /\ scope.items[n].kind \in {"ref", "star", "count"}
    BY DEF IsStatement, ToSet
  <2>2. SameStars(cat, whole, out, scope)
    OBVIOUS
  <2>3. ASSUME NEW n \in DOMAIN scope.items
        PROVE  NamesOfItem(cat, out, scope, scope.items[n])
                 = NamesOfItem(whole, out, scope, scope.items[n])
    BY <2>1, <2>2, ItemNamesSame
  <2>4. [n \in DOMAIN scope.items |-> NamesOfItem(cat, out, scope, scope.items[n])]
          = [n \in DOMAIN scope.items |-> NamesOfItem(whole, out, scope, scope.items[n])]
    BY <2>3
  <2> QED BY <2>4 DEF NamesOfScope
<1>2. \A out : [i \in DOMAIN q.scopes |-> NamesOfScope(cat, out, q.scopes[i])]
                 = [i \in DOMAIN q.scopes |-> NamesOfScope(whole, out, q.scopes[i])]
  BY <1>1 DEF ToSet
<1> QED BY <1>2 DEF Outputs

\* whose joins are checked alike, as their conditions are completed alike.
LEMMA JoinsSame ==
  ASSUME NEW q, NEW cat, NEW whole, Outputs(q, cat) = Outputs(q, whole),
         \A scope \in ToSet(q.scopes) : \A w \in Written(scope) :
           Resolved(cat, Outputs(q, whole), scope, w)
             = Resolved(whole, Outputs(q, whole), scope, w),
         \A scope \in ToSet(q.scopes) : DOMAIN scope.from = 1..Len(scope.from)
                                        /\ Len(scope.from) \in Nat
  PROVE  JoinIssues(q, cat) = JoinIssues(q, whole)
<1> DEFINE out == Outputs(q, whole)
<1>1. ASSUME NEW scope \in ToSet(q.scopes), NEW k \in 2..Len(scope.from)
      PROVE  IsJoined(cat, out, scope, k) = IsJoined(whole, out, scope, k)
  <2> DEFINE s == scope.from[k]
  <2>1. s \in Sources(scope)
    BY DEF Sources, ToSet
  <2>2. CASE s.join = "on"
    <3>1. ASSUME NEW i \in DOMAIN s.on
          PROVE  /\ Completed(cat, out, scope, s.on[i].left)
                      = Completed(whole, out, scope, s.on[i].left)
                 /\ Completed(cat, out, scope, s.on[i].right)
                      = Completed(whole, out, scope, s.on[i].right)
      <4>1. s.on[i].left \subseteq Written(scope) /\ s.on[i].right \subseteq Written(scope)
        BY <2>1, <2>2 DEF Written, ToSet
      <4>2. \A refs \in SUBSET Written(scope) :
              {Resolved(cat, out, scope, r) : r \in refs}
                = {Resolved(whole, out, scope, r) : r \in refs}
        OBVIOUS
      <4> QED BY <4>1, <4>2 DEF Completed
    <3>2. CompletedCondition(cat, out, scope, s.on) = CompletedCondition(whole, out, scope, s.on)
      BY <3>1 DEF CompletedCondition
    <3> QED BY <3>2 DEF IsJoined
  <2>3. CASE s.join # "on"
    BY <2>3 DEF IsJoined
  <2> QED BY <2>2, <2>3
<1> DEFINE Unjoined(c, scope) ==
      {scope.from[k].alias : k \in {k \in 2..Len(scope.from) : ~IsJoined(c, out, scope, k)}}
<1>2. \A scope \in ToSet(q.scopes) : Unjoined(cat, scope) = Unjoined(whole, scope)
  BY <1>1
<1>3. /\ JoinIssues(q, cat)
           = [code : {"join"}, of : UNION {Unjoined(cat, s) : s \in ToSet(q.scopes)}]
      /\ JoinIssues(q, whole)
           = [code : {"join"}, of : UNION {Unjoined(whole, s) : s \in ToSet(q.scopes)}]
  BY DEF JoinIssues
<1> HIDE DEF Unjoined
<1>4. {Unjoined(cat, s) : s \in ToSet(q.scopes)} = {Unjoined(whole, s) : s \in ToSet(q.scopes)}
  BY <1>2
<1> QED BY <1>3, <1>4

-----------------------------------------------------------------------------
\* A policy that allows a column shows its table.
LEMMA TableVisible ==
  ASSUME NEW p, \A own \in p : own.table = Whole => own.column = Whole,
         NEW x, Allows(p, x)
  PROVE  IsVisible(p, TableAsset(x.table))
<1>1. PICK own \in p : Encompasses(own, x)
  BY DEF Allows
<1>2. CASE own.column = Whole
  BY <1>1, <1>2 DEF IsVisible, Allows, Encompasses, TableAsset
<1>3. CASE own.column # Whole
  <2>1. own.table = x.table
    BY <1>1, <1>3 DEF Encompasses
  <2>2. Encompasses(TableAsset(x.table), own)
    BY <2>1 DEF Encompasses, TableAsset
  <2> QED BY <2>2 DEF IsVisible
<1> QED BY <1>2, <1>3

\* What the policy leaves of the catalogue is enough for a sound query.
LEMMA SoundAdmitted ==
  ASSUME NEW q, IsStatement(q), q.kind = "query", NEW p, NEW known, NEW cols,
         \A own \in p : own.table = Whole => own.column = Whole,
         \A x \in cols : x = [table |-> x.table, column |-> x.column] /\ x.column # AnyName,
         IsSound(p, q, [tables |-> known, columns |-> cols, restricted |-> {}])
  PROVE  QueryIssues(p, q, Catalog(p, known, cols)) = {}
<1> DEFINE whole == [tables |-> known, columns |-> cols, restricted |-> {}]
           cat == Catalog(p, known, cols)
           reads == PhysicalColumns(q, whole)
           out == Outputs(q, whole)
<1>1. /\ PhysicalTables(q) \subseteq known \cap {x.table : x \in cols}
      /\ \A scope \in ToSet(q.scopes) : Qualifies(whole, out, scope)
      /\ JoinIssues(q, whole) = {} /\ DuplicateIssues(q, whole) = {}
      /\ \A x \in reads : Allows(p, x)
      /\ \A t \in PhysicalTables(q) :
           t \in StarTables(q) \/ (\A x \in reads : x.table # t) => Allows(p, TableAsset(t))
  BY DEF IsSound
<1>2. /\ cat.columns = {x \in cols : Allows(p, x) /\ x.table \in cat.tables}
      /\ cat.tables = {t \in known : IsVisible(p, TableAsset(t))}
      /\ cat.restricted = {t \in cat.tables : \E x \in cols : x.table = t /\ ~Allows(p, x)}
  BY DEF Catalog, AllowedColumns, VisibleTables
<1>3. whole.columns = cols
  OBVIOUS
<1> HIDE DEF whole, cat
<1>4. ASSUME NEW x \in reads PROVE x \in cols /\ x.table \in PhysicalTables(q)
  BY <1>1, <1>3, ReadIsKnown
<1> HIDE DEF out
<1> HIDE DEF reads
<1>5. PhysicalTables(q) \subseteq cat.tables
  <2> SUFFICES ASSUME NEW t \in PhysicalTables(q) PROVE IsVisible(p, TableAsset(t))
    BY <1>1, <1>2
  <2>1. CASE \E x \in reads : x.table = t
    BY <1>1, <2>1, TableVisible
  <2>2. CASE \A x \in reads : x.table # t
    BY <1>1, <2>2 DEF IsVisible
  <2> QED BY <2>1, <2>2
<1>6. reads \subseteq cat.columns
  BY <1>1, <1>2, <1>4, <1>5
<1>7. ASSUME NEW t \in StarTables(q)
      PROVE  /\ t \in PhysicalTables(q) /\ Allows(p, TableAsset(t))
             /\ \A x \in cols : x.table = t => Allows(p, x) /\ x \in cat.columns
  <2>1. t \in PhysicalTables(q)
    BY DEF StarTables, Starred, PhysicalTables
  <2>2. Allows(p, TableAsset(t))
    BY <1>1, <2>1
  <2>3. \A x \in cols : x.table = t => Allows(p, x)
    BY <2>2, TableCovers
  <2> QED BY <1>2, <1>5, <2>1, <2>2, <2>3
<1>8. ASSUME NEW o, NEW scope \in ToSet(q.scopes) PROVE SameStars(cat, whole, o, scope)
  <2> SUFFICES ASSUME NEW i \in ToSet(scope.items), NEW s \in Sources(scope), i.kind = "star",
                      i.alias \in {Bare, s.alias}
               PROVE  NamesOf(cat, o, s) = NamesOf(whole, o, s)
    BY DEF SameStars
  <2>1. CASE OfTable(s)
    <3>1. s.of.table \in StarTables(q)
      <4>1. s \in Physical(scope)
        BY <2>1 DEF Physical
      <4>2. s.of.table \in Starred(scope)
        BY <4>1 DEF Starred
      <4> QED BY <4>2 DEF StarTables
    <3>2. \A x \in cols : x.table = s.of.table => x \in cat.columns
      BY <1>7, <3>1
    <3>3. cat.columns \subseteq cols
      BY <1>2
    <3> QED BY <1>3, <2>1, <3>2, <3>3 DEF NamesOf
  <2>2. CASE ~OfTable(s)
    BY <2>2 DEF NamesOf
  <2> QED BY <2>1, <2>2
<1>9. Outputs(q, cat) = out
  BY <1>8, OutputsSame DEF out
<1>10. ASSUME NEW scope \in ToSet(q.scopes)
       PROVE  /\ \A w \in Written(scope) :
                   Resolved(cat, out, scope, w) = Resolved(whole, out, scope, w)
              /\ References(cat, out, scope) = References(whole, out, scope)
              /\ Qualifies(cat, out, scope)
  <2>1. Narrower(cat, whole, out, scope)
    <3> SUFFICES ASSUME NEW s \in Sources(scope)
                 PROVE  /\ NamesOf(cat, out, s) \subseteq NamesOf(whole, out, s)
                        /\ OfTable(s) => NamesOf(whole, out, s) # {}
                                         /\ AnyName \notin NamesOf(whole, out, s)
                        /\ ~OfTable(s) => NamesOf(cat, out, s) = NamesOf(whole, out, s)
      BY DEF Narrower
    <3>1. CASE OfTable(s)
      <4>1. s.of.table \in PhysicalTables(q)
        BY <3>1 DEF PhysicalTables, Physical
      <4>2. PICK x \in cols : x.table = s.of.table
        BY <1>1, <4>1
      <4>3. cat.columns \subseteq cols
        BY <1>2
      <4> QED BY <1>3, <3>1, <4>2, <4>3 DEF NamesOf
    <3>2. CASE ~OfTable(s)
      BY <3>2 DEF NamesOf
    <3> QED BY <3>1, <3>2
  <2>2. Has(cat, whole, out, scope, References(whole, out, scope))
    <3> SUFFICES ASSUME NEW r \in References(whole, out, scope), NEW s \in Sources(scope),
                        r.alias = s.alias, r.column \in NamesOf(whole, out, s)
                 PROVE  r.column \in NamesOf(cat, out, s)
      BY DEF Has
    <3>1. CASE OfTable(s)
      <4>1. [table |-> s.of.table, column |-> r.column] \in reads
        BY <3>1 DEF reads, PhysicalColumns, Physical, out
      <4>2. [table |-> s.of.table, column |-> r.column] \in cat.columns
        BY <1>6, <4>1
      <4> QED BY <3>1, <4>2 DEF NamesOf
    <3>2. CASE ~OfTable(s)
      BY <3>2 DEF NamesOf
    <3> QED BY <3>1, <3>2
  <2>3. \A i \in ToSet(scope.items) : \A s \in Sources(scope) :
           i.kind = "star" /\ i.alias \in {Bare, s.alias}
             => NamesOf(cat, out, s) = NamesOf(whole, out, s)
    BY <1>8 DEF SameStars
  <2>4. Len(scope.from) \in Nat /\ DOMAIN scope.from = 1..Len(scope.from)
    BY DEF IsStatement
  <2> QED BY <1>1, <2>1, <2>2, <2>3, <2>4, ReferencesSame
<1>11. PhysicalColumns(q, cat) = reads
  BY <1>9, <1>10 DEF PhysicalColumns, reads, out
<1>12. TableIssues(q, cat) = {}
  <2>1. StarTables(q) \cap cat.restricted = {}
    BY <1>2, <1>7
  <2> QED BY <1>5, <2>1, TablesFine
<1>13. JoinIssues(q, cat) = {} /\ DuplicateIssues(q, cat) = {}
  <2>1. JoinIssues(q, cat) = JoinIssues(q, whole)
    BY <1>9, <1>10, JoinsSame DEF out, IsStatement
  <2>2. DuplicateIssues(q, cat) = DuplicateIssues(q, whole)
    BY <1>9 DEF DuplicateIssues, out
  <2> QED BY <1>1, <2>1, <2>2
<1>14. PolicyIssues(p, q, cat) = {}
  <2>1. ASSUME NEW t \in PhysicalTables(q), NeedsTable(q, reads, t) PROVE Allows(p, TableAsset(t))
    BY <1>1, <2>1 DEF NeedsTable
  <2>2. reads \cap cat.columns = reads
    BY <1>6
  <2> QED BY <1>1, <1>11, <2>1, <2>2, PolicyFine
<1> QED BY <1>9, <1>10, <1>12, <1>13, <1>14, NoIssues DEF cat, out

-----------------------------------------------------------------------------
\* what the arguments need of the types of the guard
GuardTypes ==
  /\ query \in Statements /\ policy \in Policies
  /\ columns \subseteq Columns /\ seen \subseteq Columns
  /\ at \in {"statement", "tables", "columns", "done"}

\* What there is to find in what was read.
Found ==
  IF query.kind = "query" /\ StatementIssues(query) = {}
  THEN QueryIssues(policy, query, Catalog(policy, listed, seen))
  ELSE StatementIssues(query)

\* The catalogue is read for queries in order only, and the verdict is all that is
\* to be found.
GuardInv ==
  /\ GuardTypes
  /\ at \in {"tables", "columns"} => query.kind = "query" /\ StatementIssues(query) = {}
  /\ at = "done" => issues = Found

\* The check of a statement has found exactly what its rules say of the metadata it
\* has read, whatever is edited between its two readings (QueryGuardService.check).
LEMMA GuardInvariant == GuardSpec => []GuardInv
<1>1. GuardInit => GuardInv
  BY DEF GuardInit, GuardInv, GuardTypes
<1>2. GuardInv /\ [GuardNext]_guardVars => GuardInv'
  <2> SUFFICES ASSUME GuardInv, [GuardNext]_guardVars PROVE GuardInv'
    OBVIOUS
  <2> USE DEF GuardInv, GuardTypes
  <2>1. CASE CheckStatement
    BY <2>1 DEF CheckStatement, Decide, Found
  <2>2. CASE ListTables
    BY <2>2 DEF ListTables
  <2>3. CASE CheckQuery
    BY <2>3 DEF CheckQuery, Decide, Found
  <2>4. CASE EditMetadata
    BY <2>4 DEF EditMetadata
  <2>5. CASE UNCHANGED guardVars
    BY <2>5 DEF guardVars, Found
  <2> QED BY <2>1, <2>2, <2>3, <2>4, <2>5 DEF GuardNext
<1> QED BY <1>1, <1>2, PTL DEF GuardSpec

\* Of a query only this is checked before the catalogue is read.
LEMMA ReadonlyQuery ==
  ASSUME NEW q, q.kind = "query"
  PROVE  StatementIssues(q) = {} <=> q.readonly
<1>1. /\ StatementIssues(q) = [code : {"show"}, of : {}]
           \cup [code : {"readonly"}, of : IF ~q.readonly THEN {Whole} ELSE {}]
           \cup [code : {"catalog_query_shape_not_allowed"}, of : {}]
           \cup [code : {"catalog_scope_required"}, of : {}]
           \cup [code : {"duplicate_output_column"}, of : {}]
  BY DEF StatementIssues
<1>2. \A k : [code : {k}, of : {}] = {} /\ [code : {k}, of : {Whole}] # {}
  BY NoneOf
<1> QED BY <1>1, <1>2

\* An admitted query has passed every check.
LEMMA AdmittedQuery ==
  ASSUME GuardInv, Admitted, query.kind = "query"
  PROVE  /\ IsStatement(query) /\ \A x \in seen : x.column # AnyName
         /\ QueryIssues(policy, query, Catalog(policy, listed, seen)) = {}
BY GuardAssumption DEF GuardInv, GuardTypes, Admitted, Found

\* Whatever an admitted query makes Doris read, the policy of its user allows (the
\* asset policy of _check_asset_policy on the catalogue of _load_catalog).
THEOREM ReadsAllowed == GuardSpec => []AdmittedReadsAllowed
<1>1. GuardInv => AdmittedReadsAllowed
  BY AdmittedQuery, AdmittedReads DEF AdmittedReadsAllowed
<1> QED BY <1>1, GuardInvariant, PTL

\* A query that is sound on the whole catalogue is admitted on the narrowed one: what
\* _load_catalog hides is nothing such a query needs.
THEOREM NothingHidden == GuardSpec => []NarrowingHidesNothing
<1>1. GuardInv => NarrowingHidesNothing
  <2> SUFFICES ASSUME GuardInv, at = "done", query.kind = "query", query.readonly,
                      IsSound(policy, query, [tables |-> listed, columns |-> seen,
                                              restricted |-> {}])
               PROVE  issues = {}
    BY DEF NarrowingHidesNothing
  <2>1. StatementIssues(query) = {}
    BY ReadonlyQuery
  <2>2. issues = QueryIssues(policy, query, Catalog(policy, listed, seen))
    BY <2>1 DEF GuardInv, Found
  <2>3. /\ IsStatement(query)
        /\ \A own \in policy : own.table = Whole => own.column = Whole
        /\ \A x \in seen : x = [table |-> x.table, column |-> x.column] /\ x.column # AnyName
    BY GuardAssumption DEF GuardInv, GuardTypes
  <2> QED BY <2>2, <2>3, SoundAdmitted
<1> QED BY <1>1, GuardInvariant, PTL

\* No source of a query without such issues is left unjoined.
LEMMA NoneUnjoined ==
  ASSUME NEW q, NEW cat, JoinIssues(q, cat) = {},
         NEW scope \in ToSet(q.scopes), NEW k \in 2..Len(scope.from)
  PROVE  IsJoined(cat, Outputs(q, cat), scope, k)
<1> DEFINE Unjoined(s) ==
      {s.from[j].alias : j \in {j \in 2..Len(s.from) : ~IsJoined(cat, Outputs(q, cat), s, j)}}
<1>1. JoinIssues(q, cat) = [code : {"join"}, of : UNION {Unjoined(s) : s \in ToSet(q.scopes)}]
  BY DEF JoinIssues
<1>2. UNION {Unjoined(s) : s \in ToSet(q.scopes)} = {}
  <2> HIDE DEF Unjoined
  <2> QED BY <1>1, NoneOf
<1>3. Unjoined(scope) = {}
  <2> HIDE DEF Unjoined
  <2> QED BY <1>2
<1> QED BY <1>3

\* The joins of an admitted query bind,
LEMMA AdmittedJoins == GuardInv => JoinsAreLinked
<1> DEFINE cat == Catalog(policy, listed, seen)
           out == Outputs(query, cat)
           C(scope, k) == CompletedCondition(cat, out, scope, scope.from[k].on)
           Left(scope, k) == {scope.from[j].alias : j \in 1..(k - 1)}
<1> SUFFICES ASSUME GuardInv, Admitted, query.kind = "query",
                    NEW scope \in ToSet(query.scopes), NEW k \in 2..Len(scope.from),
                    scope.from[k].join # "using"
             PROVE  /\ scope.from[k].join = "on"
                    /\ IsPositive(scope.from[k].on) =>
                         \A true \in SUBSET ToSet(C(scope, k)) : Holds(C(scope, k), true) =>
                           \E atom \in true : Linking(atom, Left(scope, k), scope.from[k].alias)
  BY DEF JoinsAreLinked
<1> DEFINE s == scope.from[k]
<1>1. IsJoined(cat, out, scope, k)
  <2>1. JoinIssues(query, cat) = {}
    BY AdmittedQuery, NoIssues
  <2> HIDE DEF cat
  <2> QED BY <2>1, NoneUnjoined
<1>2. s.join = "on" /\ Links(C(scope, k), Left(scope, k), s.alias)
  BY <1>1 DEF IsJoined
<1>3. IsCondition(s.on)
  BY AdmittedQuery DEF IsStatement, Sources, ToSet
<1> HIDE DEF cat, out
<1>4. /\ IsCondition(C(scope, k))
      /\ IsPositive(s.on) => IsPositive(C(scope, k))
  BY <1>3, CompletedIsCondition
<1> HIDE DEF C, Left
<1> QED BY <1>2, <1>4, LinksBind

\* and so does the schema of a query of the catalogue.
LEMMA AdmittedCatalog == GuardInv => CatalogIsScoped
<1> SUFFICES ASSUME GuardInv, Admitted, query.kind = "catalog",
                    NEW true \in SUBSET ToSet(query.where), Holds(query.where, true)
             PROVE  \E atom \in true : atom.op = "schema"
  BY DEF CatalogIsScoped
<1>1. IsCondition(query.where) /\ StatementIssues(query) = {}
  BY GuardAssumption DEF GuardInv, GuardTypes, Admitted, Found, IsStatement
<1>2. [code : {"catalog_scope_required"},
       of : IF ~\E c \in Terms(query.where) : c.op = "schema" THEN {Whole} ELSE {}] = {}
  BY <1>1 DEF StatementIssues
<1>3. PICK c \in Terms(query.where) : c.op = "schema"
  BY <1>2, NoneOf
<1> QED BY <1>1, <1>3, TermsBind

\* The comparisons that _check_joins and _check_information_schema_query require are
\* needed for the condition to hold, at any depth of and, or and xor.
THEOREM Binding == GuardSpec => []ConditionsBind
<1>1. GuardInv => ConditionsBind
  BY AdmittedJoins, AdmittedCatalog DEF ConditionsBind
<1> QED BY <1>1, GuardInvariant, PTL
=============================================================================
