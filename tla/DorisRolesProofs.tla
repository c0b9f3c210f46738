------------------------- MODULE DorisRolesProofs -------------------------
(***************************************************************************)
(* Proofs about DorisRoles, for any number of administrators, queries,     *)
(* roles and assets: types; that experience of the current epoch uses only *)
(* what the role may still read; and, as long as no two operations on one  *)
(* role overlap, that Doris and the projection agree at rest and that an   *)
(* operation that fails leaves the role as it found it.                    *)
(*                                                                         *)
(* The argument for the second does not need the lock.  A commit either    *)
(* only adds to the privileges of a role, or it gives the role an epoch    *)
(* that nobody has read yet, or takes its identity away; and what a query  *)
(* may use is read after the epoch it will be recorded under.  The lock is *)
(* what bounds the epochs: one operation at a time is about to rotate one. *)
(*                                                                         *)
(* The last two rest on the list of what is to be undone: at every moment  *)
(* of an operation its statements lead, one by one and each accepted by    *)
(* Doris, from what the role has come to back to what it was (Restores).   *)
(* What an operation has sent so far tells what the role has come to       *)
(* (Progress), and so what a commit writes beside it.                      *)
(***************************************************************************)
EXTENDS DorisRoles, FiniteSetTheorems, SequenceTheorems, TLAPS

\* An operation that is sent to Doris holds the lock, and has found an epoch
\* to give away if it needs one.
Locked ==
  \A a \in Admins : op[a].at = "run" =>
    /\ lock = {a}
    /\ op[a].kind \notin {"delete", "grant"} => clock < MaxEpoch

\* A grant sends grants, and takes them back when it is undone.
Gives == [verb : {"grant"}, on : SUBSET Assets]
Takes == [verb : {"revoke"}, on : SUBSET Assets]
Granting ==
  \A a \in Admins : op[a].at # "idle" /\ op[a].kind = "grant" =>
    op[a].todo \in Seq(Gives) /\ op[a].undo \in Seq(Takes)

\* Who undoes still has something to undo.
Unfinished == \A a \in Admins : op[a].at = "undo" => op[a].undo # <<>>

TInv == TypeOK /\ Locked /\ Granting /\ Unfinished

-----------------------------------------------------------------------------
\* What a statement leaves is a state of a role.
LEMMA EffectType ==
  ASSUME NEW d \in RoleState, NEW s \in Statement
  PROVE  Effect(d, s) \in RoleState
BY DEF RoleState, NoRole, Statement, Effect

\* Privileges are given and taken by statements.
LEMMA AllType ==
  ASSUME NEW verb \in {"grant", "revoke"}, NEW set \in SUBSET Assets
  PROVE  All(verb, set) \in Seq(Request)
<1> DEFINE One(part) == IF part = {} THEN <<>> ELSE <<part>>
<1>1. One(set \ Columns) \in Seq(SUBSET Assets) /\ One(set \cap Columns) \in Seq(SUBSET Assets)
  <2>1. \A part \in SUBSET Assets : One(part) \in Seq(SUBSET Assets)
    <3> TAKE part \in SUBSET Assets
    <3>1. <<>> \in Seq(SUBSET Assets) /\ <<part>> \in Seq(SUBSET Assets)
      OBVIOUS
    <3> QED BY <3>1
  <2> HIDE DEF One
  <2> QED BY <2>1
<1>2. Grouped(set) \in Seq(SUBSET Assets)
  <2> HIDE DEF One
  <2>1. One(set \ Columns) \o One(set \cap Columns) \in Seq(SUBSET Assets)
    BY <1>1
  <2> QED BY <2>1 DEF Grouped, One
<1>3. \A on \in SUBSET Assets : [verb |-> verb, on |-> on] \in Request
  BY DEF Statement, Request
<1>4. PICK n \in Nat : DOMAIN Grouped(set) = 1..n /\ Grouped(set) \in [1..n -> SUBSET Assets]
  BY <1>2
<1>5. All(verb, set) \in [1..n -> Request]
  BY <1>3, <1>4 DEF All
<1> QED BY <1>5, SeqDef

\* What is asked for is a list of statements.
LEMMA LargerType == Seq(Request) \subseteq Seq(Statement)
<1> SUFFICES ASSUME NEW s \in Seq(Request) PROVE s \in Seq(Statement)
  OBVIOUS
<1>1. s \in [1..Len(s) -> Request] /\ Len(s) \in Nat
  OBVIOUS
<1>2. s \in [1..Len(s) -> Statement]
  BY <1>1 DEF Request
<1> QED BY <1>1, <1>2, SeqDef

\* The policies of a role are restored by statements.
LEMMA PoliciesType ==
  ASSUME NEW d \in RoleState
  PROVE  PoliciesOf(d) \in Seq(Statement)
<1> DEFINE S == d.policies
           n == Cardinality(S)
<1>1. S \subseteq Policies /\ IsFiniteSet(S)
  BY DorisAssumption, FS_Subset DEF RoleState
<1>2. n \in Nat /\ ExistsBijection(1..n, S)
  BY <1>1, FS_CardinalityType
<1>3. \E f \in [1..n -> S] : IsInjective(f)
  BY <1>2 DEF ExistsBijection, Bijection, Injection, Surjection, IsInjective
<1>4. SetToSeq(S) \in [1..n -> S]
  BY <1>3 DEF SetToSeq
<1>5. \A p \in Policies : [verb |-> "add_policy", name |-> p] \in Statement
  BY DEF Statement
<1>6. PoliciesOf(d) \in [1..n -> Statement]
  <2> HIDE DEF n
  <2> QED BY <1>1, <1>4, <1>5 DEF PoliciesOf
<1> QED BY <1>2, <1>6, SeqDef

\* What is to be undone is a list of statements.
LEMMA UndoingType ==
  ASSUME NEW o \in Saga, NEW s \in Request, grants \in [Roles -> SUBSET Assets]
  PROVE  Undoing(o, s) \in Seq(Statement)
<1>1. o.undo \in Seq(Statement) /\ o.before \in RoleState /\ o.role \in Roles
  BY DEF Saga
<1>2. Restored(o.before, o.role) \in Seq(Statement)
  <2>1. All("grant", grants[o.role]) \in Seq(Statement)
    BY <1>1, AllType, LargerType
  <2> QED BY <1>1, <2>1, PoliciesType DEF Restored
<1>3. \A v \in {"create_role", "create_user", "restore_user", "drop_role", "drop_user"} :
        [verb |-> v] \in Statement
  BY DEF Statement
<1>4. /\ s.verb = "grant" => [s EXCEPT !.verb = "revoke"] \in Statement
      /\ s.verb = "revoke" => [s EXCEPT !.verb = "grant"] \in Statement
      /\ s.verb = "add_policy" => [s EXCEPT !.verb = "drop_policy"] \in Statement
      /\ s.verb = "drop_policy" => [s EXCEPT !.verb = "add_policy"] \in Statement
  BY DEF Statement, Request
<1>5. s.verb \in {"create_role", "create_user", "drop_role", "drop_user",
                  "grant", "revoke", "add_policy", "drop_policy"}
  BY DEF Statement, Request
<1>6. CASE s.verb = "create_role"
  BY <1>3, <1>6 DEF Undoing
<1>7. CASE s.verb = "create_user"
  BY <1>1, <1>3, <1>7 DEF Undoing
<1>8. CASE s.verb = "drop_user"
  BY <1>3, <1>8 DEF Undoing
<1>9. CASE s.verb = "drop_role"
  BY <1>2, <1>3, <1>9 DEF Undoing
<1>10. CASE s.verb \in {"grant", "revoke"}
  BY <1>1, <1>4, <1>10 DEF Undoing
<1>11. CASE s.verb \in {"add_policy", "drop_policy"}
  BY <1>4, <1>11 DEF Undoing
<1> QED BY <1>5, <1>6, <1>7, <1>8, <1>9, <1>10, <1>11

-----------------------------------------------------------------------------
\* At the start nothing is under way.
LEMMA StartTyped == Init => TInv
<1> SUFFICES ASSUME Init PROVE TInv
  OBVIOUS
<1>1. doris \in [Roles -> RoleState]
  <2>1. NoRole \in RoleState /\ [NoRole EXCEPT !.role = TRUE, !.user = TRUE] \in RoleState
    BY DEF RoleState, NoRole
  <2> HIDE DEF RoleState
  <2> QED BY <2>1 DEF Init
<1>2. /\ epoch \in [Roles -> 0..MaxEpoch] /\ clock \in 1..MaxEpoch /\ faults \in 0..MaxFaults
      /\ grants \in [Roles -> SUBSET Assets] /\ assigned \in Roles
  BY DorisAssumption DEF Init
<1>3. op \in [Admins -> Saga \cup {Idle}] /\ query \in [Queries -> Asked \cup {Idle}]
  BY DEF Init
<1>4. Locked /\ Granting /\ Unfinished
  BY DEF Init, Locked, Granting, Unfinished, Idle
<1> QED BY <1>1, <1>2, <1>3, <1>4 DEF Init, TInv, TypeOK

\* A saga that takes its next turn, or has come to its end.
LEMMA NextSaga ==
  ASSUME TInv, NEW a \in Admins, NEW o \in Saga \cup {Idle}, op' = [op EXCEPT ![a] = o]
  PROVE  op' \in [Admins -> Saga \cup {Idle}]
BY DEF TInv, TypeOK

LEMMA NextUndo ==
  ASSUME TInv, NEW a \in Admins, NEW o, op' = [op EXCEPT ![a] = o],
         o.at = "undo" => o.undo # <<>>
  PROVE  Unfinished'
BY DEF TInv, TypeOK, Unfinished

\* An administrator begins under a lock that was free.
LEMMA BeginTyped ==
  ASSUME TInv, NEW a \in Admins, NEW kind \in Kinds, NEW r \in Roles, NEW todo \in Seq(Request),
         kind \notin {"delete", "grant"} => clock < MaxEpoch,
         kind = "grant" => todo \in Seq(Gives),
         Begin(a, kind, r, todo)
  PROVE  TInv'
<1> DEFINE o == [kind |-> kind, role |-> r, at |-> "run", todo |-> todo,
                 undo |-> <<>>, before |-> doris[r]]
<1>1. o \in Saga
  BY DEF TInv, TypeOK, Saga
<1>2. op' = [op EXCEPT ![a] = o]
  BY DEF Begin
<1>3. op' \in [Admins -> Saga \cup {Idle}]
  BY <1>1, <1>2, NextSaga
<1>4. TypeOK'
  BY <1>3 DEF TInv, TypeOK, Begin, identity
<1>5. Locked'
  <2> SUFFICES ASSUME NEW b \in Admins, op'[b].at = "run"
               PROVE  /\ lock' = {b}
                      /\ op'[b].kind \notin {"delete", "grant"} => clock' < MaxEpoch
    BY DEF Locked
  <2>1. op[b].at # "run" \/ a = b
    BY DEF TInv, Locked, Begin
  <2> QED BY <1>2, <2>1 DEF TInv, TypeOK, Begin, identity
<1>6. /\ o.kind = "grant" => o.todo \in Seq(Gives) /\ o.undo \in Seq(Takes)
      /\ o.at # "undo"
  OBVIOUS
<1> HIDE DEF o
<1>7. Granting'
  BY <1>2, <1>6 DEF TInv, TypeOK, Granting
<1>8. Unfinished'
  BY <1>2, <1>6, NextUndo
<1> QED BY <1>4, <1>5, <1>7, <1>8 DEF TInv

\* A list of one.
LEMMA Single ==
  ASSUME NEW S, NEW x \in S
  PROVE  <<x>> \in Seq(S)
OBVIOUS

LEMMA AskTyped ==
  ASSUME TInv, NEW a \in Admins, Ask(a)
  PROVE  TInv'
<1> PICK r \in Roles :
      \/ CreateRole(a, r) \/ DeleteRole(a, r) \/ RevokeAll(a, r)
      \/ \E target \in Targets : GrantSelect(a, r, target) \/ RevokeSelect(a, r, target)
      \/ \E p \in Policies : AddPolicy(a, r, p) \/ FindPolicy(a, r, p)
  BY DEF Ask
<1> DEFINE verbs == {"create_role", "create_user", "drop_role", "drop_user"}
<1>1. \A v \in verbs : [verb |-> v] \in Request
  BY DEF Request, Statement
<1>2. \A on \in SUBSET Assets : [verb |-> "grant", on |-> on] \in Request /\ [verb |-> "revoke", on |-> on] \in Request
  BY DEF Request, Statement
<1>3. \A p \in Policies : [verb |-> "add_policy", name |-> p] \in Request /\ [verb |-> "drop_policy", name |-> p] \in Request
  BY DEF Request, Statement
<1>4. \A target \in Targets : target \in SUBSET Assets
  BY DorisAssumption DEF Targets
<1> HIDE DEF verbs
<1>5. CASE CreateRole(a, r)
  <2>1. <<[verb |-> "create_role"], [verb |-> "create_user"]>> \in Seq(Request)
    BY <1>1 DEF verbs
  <2> QED BY <1>5, <2>1, BeginTyped DEF CreateRole, Kinds
<1>6. CASE DeleteRole(a, r)
  <2>1. <<[verb |-> "drop_user"], [verb |-> "drop_role"]>> \in Seq(Request)
    BY <1>1 DEF verbs
  <2> QED BY <1>6, <2>1, BeginTyped DEF DeleteRole, Kinds
<1>7. CASE RevokeAll(a, r)
  <2>1. All("revoke", grants[r]) \in Seq(Request)
    BY AllType DEF TInv, TypeOK
  <2> QED BY <1>7, <2>1, BeginTyped DEF RevokeAll, Kinds
<1>8. ASSUME NEW target \in Targets, GrantSelect(a, r, target)
      PROVE  TInv'
  <2>1. <<[verb |-> "grant", on |-> target \ grants[r]]>> \in Seq(Request)
    BY <1>2, <1>4, Single
  <2>2. [verb |-> "grant", on |-> target \ grants[r]] \in Gives
    BY <1>4 DEF Gives
  <2>3. <<[verb |-> "grant", on |-> target \ grants[r]]>> \in Seq(Gives)
    BY <2>2, Single
  <2> QED BY <1>8, <2>1, <2>3, BeginTyped DEF GrantSelect, Kinds
<1>9. ASSUME NEW target \in Targets, RevokeSelect(a, r, target)
      PROVE  TInv'
  <2>1. <<[verb |-> "revoke", on |-> target]>> \in Seq(Request)
    BY <1>2, <1>4, Single
  <2> QED BY <1>9, <2>1, BeginTyped DEF RevokeSelect, Kinds
<1>10. ASSUME NEW p \in Policies, AddPolicy(a, r, p)
       PROVE  TInv'
  <2>1. <<[verb |-> "add_policy", name |-> p]>> \in Seq(Request)
    BY <1>3, Single
  <2> QED BY <1>10, <2>1, BeginTyped DEF AddPolicy, Kinds
<1>11. ASSUME NEW p \in Policies, FindPolicy(a, r, p)
       PROVE  TInv'
  <2> DEFINE o == [kind |-> "policy", role |-> r, at |-> "wait",
                   todo |-> <<[verb |-> "drop_policy", name |-> p]>>,
                   undo |-> <<>>, before |-> doris[r]]
  <2>1. o \in Saga
    <3>1. <<[verb |-> "drop_policy", name |-> p]>> \in Seq(Request)
      BY <1>3, Single
    <3> QED BY <3>1 DEF TInv, TypeOK, Saga, Kinds
  <2>2. op' = [op EXCEPT ![a] = o]
    BY <1>11 DEF FindPolicy
  <2>3. op' \in [Admins -> Saga \cup {Idle}]
    BY <2>1, <2>2, NextSaga
  <2>4. TypeOK'
    BY <1>11, <2>3 DEF FindPolicy, TInv, TypeOK, identity
  <2>5. Locked'
    BY <1>11, <2>2 DEF FindPolicy, TInv, TypeOK, Locked, identity
  <2>6. o.kind # "grant" /\ o.at # "undo"
    OBVIOUS
  <2> HIDE DEF o
  <2>7. Granting'
    BY <2>2, <2>6 DEF TInv, TypeOK, Granting
  <2>8. Unfinished'
    BY <2>2, <2>6, NextUndo
  <2> QED BY <2>4, <2>5, <2>7, <2>8 DEF TInv
<1> QED BY <1>5, <1>6, <1>7, <1>8, <1>9, <1>10, <1>11

\* A saga that is under way has the fields of one, and its first statement
\* and the rest of its lists are of their types.
LEMMA UnderWay ==
  ASSUME TInv, NEW a \in Admins, op[a].at # "idle"
  PROVE  /\ op[a] \in Saga
         /\ op[a].todo # <<>> => Head(op[a].todo) \in Request /\ Tail(op[a].todo) \in Seq(Request)
         /\ op[a].undo # <<>> => Head(op[a].undo) \in Statement /\ Tail(op[a].undo) \in Seq(Statement)
<1>1. op[a] \in Saga
  BY DEF TInv, TypeOK, Idle
<1>2. op[a].todo \in Seq(Request) /\ op[a].undo \in Seq(Statement)
  BY <1>1 DEF Saga
<1> QED BY <1>1, <1>2

\* A saga that has ended, or goes on within its kind.
LEMMA Within ==
  ASSUME TInv, NEW a \in Admins, NEW o \in Saga \cup {Idle}, op' = [op EXCEPT ![a] = o],
         \/ o.at = "idle"
         \/ op[a].at # "idle" /\ o.kind = op[a].kind /\ o.todo = op[a].todo
            /\ \/ o.undo = op[a].undo
               \/ op[a].undo # <<>> /\ o.undo = Tail(op[a].undo)
               \/ o.kind # "grant"
  PROVE  Granting'
<1> SUFFICES ASSUME NEW b \in Admins, op'[b].at # "idle", op'[b].kind = "grant"
             PROVE  op'[b].todo \in Seq(Gives) /\ op'[b].undo \in Seq(Takes)
  BY DEF Granting
<1>1. CASE b # a
  BY <1>1 DEF TInv, TypeOK, Granting
<1>2. CASE b = a
  <2>1. op'[b] = o
    BY <1>2 DEF TInv, TypeOK
  <2>2. /\ op[a].at # "idle" /\ op[a].kind = "grant" /\ o.todo = op[a].todo
        /\ o.undo = op[a].undo \/ (op[a].undo # <<>> /\ o.undo = Tail(op[a].undo))
    BY <2>1
  <2>3. op[a].todo \in Seq(Gives) /\ op[a].undo \in Seq(Takes)
    BY <2>2 DEF TInv, Granting
  <2>4. o.undo \in Seq(Takes)
    <3>1. op[a].undo # <<>> => Tail(op[a].undo) \in Seq(Takes)
      BY <2>3
    <3> QED BY <2>2, <2>3, <3>1
  <2> QED BY <2>1, <2>2, <2>3, <2>4
<1> QED BY <1>1, <1>2

\* What is left of the other sagas once one has ended or gone on without the
\* lock: nobody who runs has lost it.
LEMMA Others ==
  ASSUME TInv, NEW a \in Admins, NEW o \in Saga \cup {Idle},
         op' = [op EXCEPT ![a] = o], o.at # "run", clock' = clock,
         \/ lock' = lock \/ lock' = lock \ {a} \/ op[a].at = "run"
  PROVE  Locked'
<1> SUFFICES ASSUME NEW b \in Admins, op'[b].at = "run"
             PROVE  /\ lock' = {b}
                    /\ op'[b].kind \notin {"delete", "grant"} => clock' < MaxEpoch
  BY DEF Locked
<1>1. b # a /\ op'[b] = op[b]
  BY DEF TInv, TypeOK
<1>2. lock = {b} /\ (op[b].kind \notin {"delete", "grant"} => clock < MaxEpoch)
  BY <1>1 DEF TInv, Locked
<1>3. op[a].at # "run"
  BY <1>1, <1>2 DEF TInv, Locked
<1>4. lock' = {b}
  BY <1>1, <1>2, <1>3
<1> QED BY <1>1, <1>2, <1>4

\* The lock changes hands.
LEMMA DropPolicyTyped ==
  ASSUME TInv, NEW a \in Admins, DropPolicy(a)
  PROVE  TInv'
<1>1. op[a] \in Saga
  BY UnderWay DEF DropPolicy
<1>2. CASE Managed(op[a].role) /\ clock < MaxEpoch
  <2> DEFINE o == [op[a] EXCEPT !.at = "run"]
  <2>1. o \in Saga /\ o.at = "run" /\ o.kind = op[a].kind
    BY <1>1 DEF Saga
  <2>2. op' = [op EXCEPT ![a] = o] /\ lock' = {a}
    BY <1>2 DEF DropPolicy
  <2> HIDE DEF o
  <2>3. TypeOK'
    BY <2>1, <2>2, NextSaga DEF DropPolicy, TInv, TypeOK, identity
  <2>4. Locked'
    BY <1>2, <2>1, <2>2 DEF DropPolicy, TInv, TypeOK, Locked, identity
  <2>5. o.todo = op[a].todo /\ o.undo = op[a].undo /\ op[a].at # "idle"
    BY <1>1 DEF o, Saga, DropPolicy
  <2>6. Granting'
    <3>1. o \in Saga \cup {Idle}
      BY <2>1
    <3> QED BY <2>1, <2>2, <2>5, <3>1, Within
  <2>7. Unfinished'
    BY <2>1, <2>2, NextUndo
  <2> QED BY <2>3, <2>4, <2>6, <2>7 DEF TInv
<1>3. CASE ~(Managed(op[a].role) /\ clock < MaxEpoch)
  <2>1. op' = [op EXCEPT ![a] = Idle] /\ lock' = lock
    BY <1>3 DEF DropPolicy
  <2>2. Locked'
    <3>1. Idle.at # "run" /\ clock' = clock
      BY DEF Idle, DropPolicy, identity
    <3> QED BY <2>1, <3>1, Others
  <2>3. TypeOK'
    BY <2>1, NextSaga DEF DropPolicy, TInv, TypeOK, identity
  <2>4. Granting'
    BY <2>1, Within DEF Idle
  <2>5. Unfinished'
    BY <2>1, NextUndo DEF Idle
  <2> QED BY <2>2, <2>3, <2>4, <2>5 DEF TInv
<1> QED BY <1>2, <1>3

LEMMA SendTyped ==
  ASSUME TInv, NEW a \in Admins, Send(a)
  PROVE  TInv'
<1> DEFINE s == Head(op[a].todo)
           o == [op[a] EXCEPT !.todo = Tail(@), !.undo = Undoing(op[a], s)]
<1>1. op[a] \in Saga /\ s \in Request /\ Tail(op[a].todo) \in Seq(Request)
  BY UnderWay DEF Send, Running
<1>2. Undoing(op[a], s) \in Seq(Statement)
  BY <1>1, UndoingType DEF TInv, TypeOK
<1>3. op' = [op EXCEPT ![a] = o]
  BY DEF Send
<1>4. Effect(doris[op[a].role], s) \in RoleState /\ op[a].role \in Roles
  <2>1. op[a].role \in Roles /\ s \in Statement
    BY <1>1 DEF Saga, Request
  <2> QED BY <2>1, EffectType DEF TInv, TypeOK
<1>5. doris' \in [Roles -> RoleState]
  BY <1>4 DEF Send, TInv, TypeOK
<1> HIDE DEF s
<1>6. o \in Saga /\ o.at = op[a].at /\ o.kind = op[a].kind
  BY <1>1, <1>2 DEF Saga
<1>9. op[a].kind = "grant" => o.todo \in Seq(Gives) /\ o.undo \in Seq(Takes)
  <2> SUFFICES ASSUME op[a].kind = "grant" PROVE o.todo \in Seq(Gives) /\ o.undo \in Seq(Takes)
    OBVIOUS
  <2>1. op[a].todo \in Seq(Gives) /\ op[a].undo \in Seq(Takes) /\ op[a].todo # <<>>
    BY DEF TInv, Granting, Send, Running
  <2>2. s \in Gives /\ Tail(op[a].todo) \in Seq(Gives)
    BY <2>1 DEF s
  <2>3. s.verb = "grant" /\ [s EXCEPT !.verb = "revoke"] \in Takes
    BY <2>2 DEF Gives, Takes
  <2>4. <<[s EXCEPT !.verb = "revoke"]>> \o op[a].undo \in Seq(Takes)
    BY <2>1, <2>3, Single
  <2>5. Undoing(op[a], s) = <<[s EXCEPT !.verb = "revoke"]>> \o op[a].undo
    BY <2>3 DEF Undoing
  <2>6. o.todo = Tail(op[a].todo) /\ o.undo = Undoing(op[a], s)
    BY <1>1 DEF Saga
  <2> QED BY <2>2, <2>4, <2>5, <2>6
<1> HIDE DEF o
<1>10. Granting'
  BY <1>3, <1>6, <1>9 DEF TInv, TypeOK, Granting
<1>7. TypeOK'
  BY <1>3, <1>5, <1>6, NextSaga DEF Send, TInv, TypeOK, identity
<1>8. Locked'
  BY <1>3, <1>6 DEF Send, TInv, TypeOK, Locked, identity
<1>11. Unfinished'
  BY <1>3, <1>6, NextUndo DEF Send, Running
<1> QED BY <1>7, <1>8, <1>10, <1>11 DEF TInv

LEMMA CommitTyped ==
  ASSUME TInv, NEW a \in Admins, Commit(a)
  PROVE  TInv'
<1>1. op[a] \in Saga /\ op[a].at = "run"
  BY UnderWay DEF Commit, Running
<1>2. op[a].role \in Roles /\ op[a].kind \in Kinds /\ op[a].undo \in Seq(Statement)
  BY <1>1 DEF Saga
<1>3. op[a].kind \notin {"delete", "grant"} => clock < MaxEpoch
  BY <1>1 DEF TInv, Locked
<1>4. clock' \in 1..MaxEpoch /\ epoch' \in [Roles -> 0..MaxEpoch]
  BY <1>2, <1>3, DorisAssumption DEF Commit, TInv, TypeOK
<1>5. grants' \in [Roles -> SUBSET Assets]
  <2>1. op[a].kind = "grant" => \A i \in DOMAIN op[a].undo : op[a].undo[i].on \in SUBSET Assets
    <3> SUFFICES ASSUME op[a].kind = "grant", NEW i \in DOMAIN op[a].undo
                 PROVE  op[a].undo[i].on \in SUBSET Assets
      OBVIOUS
    <3>1. op[a].undo \in Seq(Takes)
      BY <1>1 DEF TInv, Granting
    <3>2. op[a].undo[i] \in Takes
      BY <3>1
    <3> QED BY <3>2 DEF Takes
  <2>2. grants[op[a].role] \subseteq Assets
    BY <1>2 DEF TInv, TypeOK
  <2>3. Written(op[a], op[a].role) \subseteq Assets
    BY <1>2, <2>1, <2>2 DEF Written, Kinds
  <2> QED BY <1>2, <2>3 DEF Commit, TInv, TypeOK
<1>6. op' = [op EXCEPT ![a] = Idle]
  BY DEF Commit
<1>7. TypeOK'
  BY <1>4, <1>5, <1>6, NextSaga DEF Commit, TInv, TypeOK
<1>8. Locked'
  <2> SUFFICES ASSUME NEW b \in Admins, op'[b].at = "run" PROVE FALSE
    BY DEF Locked
  <2>1. b # a /\ op[b].at = "run"
    BY <1>6 DEF TInv, TypeOK, Idle
  <2> QED BY <1>1, <2>1 DEF TInv, Locked
<1>9. Granting'
  BY <1>6, Within DEF Idle
<1>10. Unfinished'
  BY <1>6, NextUndo DEF Idle
<1> QED BY <1>7, <1>8, <1>9, <1>10 DEF TInv

\* What a failing transaction leaves to be undone.
LEMMA UndoTyped ==
  ASSUME TInv, NEW a \in Admins, op[a].at = "run", Undo(a),
         doris' \in [Roles -> RoleState], faults' \in 0..MaxFaults, drift' \in BOOLEAN
  PROVE  TInv'
<1> DEFINE o == IF op[a].undo = <<>> THEN Idle ELSE [op[a] EXCEPT !.at = "undo"]
<1>1. op[a] \in Saga
  BY UnderWay
<1>2. [op[a] EXCEPT !.at = "undo"] \in Saga
  BY <1>1 DEF Saga
<1>3. o \in Saga \cup {Idle} /\ o.at # "run"
  BY <1>1, <1>2 DEF Idle, Saga
<1>4. \/ o.at = "idle"
      \/ o.kind = op[a].kind /\ o.todo = op[a].todo /\ o.undo = op[a].undo /\ o.undo # <<>>
  BY <1>1 DEF Idle, Saga
<1>5. op' = [op EXCEPT ![a] = o]
  BY DEF Undo
<1> HIDE DEF o
<1>6. Granting'
  BY <1>3, <1>4, <1>5, Within
<1>7. Locked'
  BY <1>3, <1>5, Others DEF Undo, identity
<1>8. lock' \subseteq Admins
  BY DEF Undo, TInv, TypeOK
<1>9. TypeOK'
  BY <1>3, <1>5, <1>8, NextSaga DEF Undo, TInv, TypeOK, identity
<1>10. Unfinished'
  BY <1>4, <1>5, NextUndo
<1> QED BY <1>6, <1>7, <1>9, <1>10 DEF TInv

LEMMA FailTyped ==
  ASSUME TInv, NEW a \in Admins, Refuse(a) \/ Mislead(a)
  PROVE  TInv'
<1>1. op[a].at = "run" /\ Undo(a)
  BY DEF Refuse, Mislead, Running
<1>2. faults' \in 0..MaxFaults /\ drift' \in BOOLEAN
  <2>1. faults \in 0..MaxFaults /\ MaxFaults \in Nat /\ drift \in BOOLEAN
    BY DorisAssumption DEF TInv, TypeOK
  <2>2. faults' = faults \/ (faults < MaxFaults /\ faults' = faults + 1)
    BY DEF Refuse, Mislead
  <2>3. drift' = drift \/ drift' = TRUE
    BY DEF Refuse, Mislead
  <2>4. faults' \in 0..MaxFaults
    BY <2>1, <2>2
  <2>5. drift' \in BOOLEAN
    BY <2>1, <2>3
  <2> QED BY <2>4, <2>5
<1>3. doris' \in [Roles -> RoleState]
  <2>1. CASE Refuse(a)
    BY <2>1 DEF Refuse, TInv, TypeOK
  <2>2. CASE Mislead(a)
    <3>1. op[a] \in Saga /\ Head(op[a].todo) \in Request
      BY <2>2, <1>1, UnderWay DEF Mislead
    <3>2. op[a].role \in Roles /\ Head(op[a].todo) \in Statement
      BY <3>1 DEF Saga, Request
    <3>3. Effect(doris[op[a].role], Head(op[a].todo)) \in RoleState
      BY <3>2, EffectType DEF TInv, TypeOK
    <3> QED BY <2>2, <3>2, <3>3 DEF Mislead, TInv, TypeOK
  <2> QED BY <2>1, <2>2
<1> QED BY <1>1, <1>2, <1>3, UndoTyped

LEMMA CompensateTyped ==
  ASSUME TInv, NEW a \in Admins, Compensate(a)
  PROVE  TInv'
<1> DEFINE s == Head(op[a].undo)
           works == Accepts(doris[op[a].role], s)
           rest == IF works \/ op[a].kind # "delete" THEN Tail(op[a].undo)
                   ELSE IF s.verb = "create_user" THEN <<[verb |-> "drop_role"]>> ELSE <<>>
           o == IF rest = <<>> THEN Idle ELSE [op[a] EXCEPT !.undo = rest]
<1>1. op[a] \in Saga /\ op[a].at = "undo" /\ op[a].undo # <<>>
  BY UnderWay DEF Compensate, TInv, Unfinished
<1>2. s \in Statement /\ Tail(op[a].undo) \in Seq(Statement) /\ op[a].role \in Roles
  BY <1>1, UnderWay DEF Saga
<1>3. Effect(doris[op[a].role], s) \in RoleState
  BY <1>2, EffectType DEF TInv, TypeOK
<1>4. rest \in Seq(Statement) /\ (op[a].kind = "grant" => rest = Tail(op[a].undo))
  <2>1. <<[verb |-> "drop_role"]>> \in Seq(Statement)
    BY Single DEF Statement
  <2>2. op[a].kind = "grant" => rest = Tail(op[a].undo)
    OBVIOUS
  <2> HIDE DEF works, s
  <2>3. \/ rest = Tail(op[a].undo)
        \/ rest = <<[verb |-> "drop_role"]>>
        \/ rest = <<>>
    OBVIOUS
  <2>4. <<>> \in Seq(Statement)
    OBVIOUS
  <2> HIDE DEF rest
  <2> QED BY <1>2, <2>1, <2>2, <2>3, <2>4
<1>5. op' = [op EXCEPT ![a] = o] /\ (lock' = lock \/ lock' = lock \ {a}) /\ clock' = clock
  BY DEF Compensate, identity
<1>6. doris' \in [Roles -> RoleState] /\ drift' \in BOOLEAN
  BY <1>2, <1>3 DEF Compensate, TInv, TypeOK
<1> HIDE DEF rest, works, s
<1>7. /\ o \in Saga \cup {Idle} /\ o.at # "run"
      /\ o.at = "idle" \/ (/\ o.kind = op[a].kind /\ o.todo = op[a].todo
                           /\ o.undo = rest /\ rest # <<>>)
  BY <1>1, <1>4 DEF Saga, Idle
<1> HIDE DEF o
<1>8. Granting'
  BY <1>1, <1>4, <1>5, <1>7, Within
<1>9. Locked'
  BY <1>5, <1>7, Others
<1>10. Unfinished'
  BY <1>5, <1>7, NextUndo
<1>11. TypeOK'
  BY <1>5, <1>6, <1>7, NextSaga, ZenonT(60) DEF Compensate, TInv, TypeOK, identity
<1> QED BY <1>8, <1>9, <1>10, <1>11 DEF TInv

\* A process ends.
LEMMA CrashTyped ==
  ASSUME TInv, NEW a \in Admins, Crash(a)
  PROVE  TInv'
<1>1. op' = [op EXCEPT ![a] = Idle] /\ Idle.at = "idle" /\ clock' = clock
  BY DEF Crash, Idle, identity
<1>2. Granting'
  BY <1>1, Within
<1>3. Locked'
  BY <1>1, Others DEF Crash
<1>4. faults' \in 0..MaxFaults /\ drift' \in BOOLEAN
  BY DorisAssumption DEF Crash, TInv, TypeOK
<1>5. TypeOK'
  BY <1>1, <1>4, NextSaga DEF Crash, TInv, TypeOK, identity
<1>6. Unfinished'
  BY <1>1, NextUndo
<1> QED BY <1>2, <1>3, <1>5, <1>6 DEF TInv

\* Two fields of one entry change as one entry does.
LEMMA Fields ==
  ASSUME NEW f, NEW q, NEW at, NEW allowed
  PROVE  [f EXCEPT ![q].at = at, ![q].allowed = allowed]
           = [f EXCEPT ![q] = [f[q] EXCEPT !.at = at, !.allowed = allowed]]
OBVIOUS

\* The steps of queries, and of an administrator who gives the user a role.
LEMMA QueryTyped ==
  ASSUME TInv, NEW q \in Queries,
         \/ ResolvePrincipal(q) \/ ReadPolicy(q) \/ Record(q) \/ GiveUp(q)
         \/ \E x \in Assets : Runs(q, x)
  PROVE  TInv'
<1>1. query' \in [Queries -> Asked \cup {Idle}]
  <2>1. CASE ResolvePrincipal(q)
    BY <2>1 DEF ResolvePrincipal, Managed, TInv, TypeOK, Asked
  <2>2. CASE ReadPolicy(q)
    <3> DEFINE n == [query[q] EXCEPT !.at = "ready",
                 !.allowed = IF Managed(assigned) THEN grants[assigned] ELSE {},
                 !.pure = (assigned = query[q].role)]
    <3>1. query[q] \in Asked
      BY <2>2 DEF ReadPolicy, TInv, TypeOK, Idle
    <3>2. grants[assigned] \in SUBSET Assets
      BY DEF TInv, TypeOK
    <3>3. n \in Asked
      BY <3>1, <3>2 DEF Asked
    <3>4. query' = [query EXCEPT ![q] = n]
      BY <2>2 DEF ReadPolicy
    <3> HIDE DEF n
    <3> QED BY <3>3, <3>4 DEF TInv, TypeOK
  <2>3. CASE Record(q) \/ GiveUp(q)
    BY <2>3 DEF Record, GiveUp, TInv, TypeOK
  <2>4. ASSUME NEW x \in Assets, Runs(q, x)
        PROVE  query' \in [Queries -> Asked \cup {Idle}]
    <3> DEFINE n == [query[q] EXCEPT !.at = "ran", !.allowed = {x}]
    <3>1. query[q] \in Asked
      <4>1. query[q].at = "ready"
        BY <2>4 DEF Runs
      <4> QED BY <4>1 DEF TInv, TypeOK, Idle
    <3>2. n \in Asked
      BY <3>1 DEF Asked
    <3>3. query' = [query EXCEPT ![q] = n]
      <4>1. query' = [query EXCEPT ![q].at = "ran", ![q].allowed = {x}]
        BY <2>4 DEF Runs
      <4> QED BY <4>1, Fields, ZenonT(60)
    <3> HIDE DEF n
    <3> QED BY <3>2, <3>3 DEF TInv, TypeOK
  <2> QED BY <2>1, <2>2, <2>3, <2>4
<1>2. UNCHANGED <<doris, identity, op, lock, faults, drift>>
  BY DEF ResolvePrincipal, ReadPolicy, Record, GiveUp, Runs
<1>3. TypeOK'
  BY <1>1, <1>2 DEF TInv, TypeOK, identity
<1> QED BY <1>2, <1>3 DEF TInv, Locked, Granting, Unfinished, identity

LEMMA AssignTyped ==
  ASSUME TInv, NEW r \in Roles, Assign(r)
  PROVE  TInv'
BY DEF Assign, TInv, TypeOK, Locked, Granting, Unfinished

LEMMA TypesStep == TInv /\ [Next]_vars => TInv'
<1> SUFFICES ASSUME TInv, [Next]_vars PROVE TInv'
  OBVIOUS
<1>1. ASSUME NEW a \in Admins,
             \/ Ask(a) \/ DropPolicy(a) \/ Send(a) \/ Commit(a) \/ Refuse(a) \/ Mislead(a)
             \/ Compensate(a) \/ Crash(a)
      PROVE  TInv'
  BY <1>1, AskTyped, DropPolicyTyped, SendTyped, CommitTyped, FailTyped, CompensateTyped, CrashTyped
<1>2. ASSUME NEW q \in Queries,
             \/ ResolvePrincipal(q) \/ ReadPolicy(q) \/ Record(q) \/ GiveUp(q)
             \/ \E x \in Assets : Runs(q, x)
      PROVE  TInv'
  BY <1>2, QueryTyped
<1>3. CASE UNCHANGED vars
  BY <1>3 DEF vars, identity, TInv, TypeOK, Locked, Granting, Unfinished
<1> QED BY <1>1, <1>2, <1>3, AssignTyped DEF Next

\* Administrators, roles, queries and assets have the types TypeOK gives them,
\* and no more epochs are given away than there are: the check for a free epoch
\* is made under the lock that the commit still holds.
THEOREM TypeCorrect == Spec => []TypeOK
<1>1. TInv => TypeOK
  BY DEF TInv
<1> QED BY <1>1, StartTyped, TypesStep, PTL DEF Spec

-----------------------------------------------------------------------------
\* Every epoch that is in use, or that a query has read, has been given away.
Numbered ==
  /\ \A r \in Roles : epoch[r] <= clock
  /\ \A q \in Queries : query[q].at # "idle" => query[q].epoch <= clock

\* What a query may use while its epoch lasts, the role may use.
Fitting ==
  \A q \in Queries :
    /\ query[q].at \in {"ready", "ran"}
    /\ query[q].epoch = epoch[query[q].role]
    /\ query[q].pure
    => query[q].allowed \subseteq grants[query[q].role]

\* The same of what has been recorded.
Recorded ==
  \A e \in past :
    /\ e.role \in Roles /\ e.epoch \in 1..clock /\ e.asset \in Assets
    /\ e.epoch = epoch[e.role] /\ e.pure => e.asset \in grants[e.role]

IInv == TInv /\ Numbered /\ Fitting /\ Recorded

LEMMA Start == Init => IInv
BY StartTyped DEF Init, IInv, Numbered, Fitting, Recorded, Idle

\* A step that leaves identities, queries and records alone.
LEMMA Elsewhere ==
  ASSUME IInv, TInv', UNCHANGED <<epoch, grants, clock, query, past>>
  PROVE  IInv'
BY DEF IInv, Numbered, Fitting, Recorded

\* A commit adds to the privileges of a role, or gives it a new epoch, or
\* leaves it without one.
LEMMA CommitForward ==
  ASSUME TInv, Numbered, NEW a \in Admins, Commit(a)
  PROVE  /\ clock' \in {clock, clock + 1}
         /\ \A r \in Roles : epoch'[r] <= clock'
         /\ \A r \in Roles : \/ epoch'[r] = epoch[r] /\ grants[r] \subseteq grants'[r]
                             \/ epoch'[r] = clock + 1
                             \/ epoch'[r] = 0
<1> DEFINE o == op[a]
<1>1. o \in Saga
  BY UnderWay DEF Commit, Running
<1>2. o.role \in Roles /\ o.kind \in Kinds /\ clock \in Nat
  BY <1>1, DorisAssumption DEF Saga, TInv, TypeOK
<1>3. o.kind = "grant" => grants[o.role] \subseteq Written(o, o.role)
  BY DEF Written
<1>4. /\ epoch \in [Roles -> 0..MaxEpoch]
      /\ grants' = [grants EXCEPT ![o.role] = Written(o, o.role)]
      /\ grants \in [Roles -> SUBSET Assets]
  BY DEF Commit, TInv, TypeOK
<1>5. /\ o.kind = "delete" => clock' = clock /\ epoch' = [epoch EXCEPT ![o.role] = 0]
      /\ o.kind = "grant" => clock' = clock /\ epoch' = [epoch EXCEPT ![o.role] = epoch[o.role]]
      /\ o.kind \notin {"delete", "grant"} =>
           clock' = clock + 1 /\ epoch' = [epoch EXCEPT ![o.role] = clock + 1]
  BY <1>2 DEF Commit, Kinds
<1> HIDE DEF o
<1>6. clock' \in {clock, clock + 1}
  BY <1>5
<1>7. \A r \in Roles : epoch'[r] <= clock'
  BY <1>2, <1>4, <1>5, DorisAssumption DEF Numbered
<1>8. ASSUME NEW r \in Roles
      PROVE  \/ epoch'[r] = epoch[r] /\ grants[r] \subseteq grants'[r]
             \/ epoch'[r] = clock + 1
             \/ epoch'[r] = 0
  BY <1>2, <1>3, <1>4, <1>5
<1> QED BY <1>6, <1>7, <1>8

LEMMA CommitKeeps ==
  ASSUME IInv, NEW a \in Admins, Commit(a)
  PROVE  IInv'
<1>1. TInv'
  BY CommitTyped DEF IInv
<1>2. UNCHANGED <<query, past>> /\ clock \in Nat
  BY DorisAssumption DEF Commit, IInv, TInv, TypeOK
<1>3. \A q \in Queries : query[q].at # "idle" =>
        query[q].role \in Roles /\ query[q].epoch \in 1..clock
  BY DorisAssumption DEF IInv, TInv, TypeOK, Asked, Idle, Numbered
<1>4. Numbered'
  BY <1>2, <1>3, CommitForward DEF IInv, Numbered
<1>5. Fitting'
  <2> SUFFICES ASSUME NEW q \in Queries, query[q].at \in {"ready", "ran"},
                      query[q].epoch = epoch'[query[q].role], query[q].pure
               PROVE  query[q].allowed \subseteq grants'[query[q].role]
    BY <1>2 DEF Fitting
  <2>1. query[q].role \in Roles /\ query[q].epoch \in 1..clock
    BY <1>3
  <2>2. epoch'[query[q].role] = epoch[query[q].role] /\ grants[query[q].role] \subseteq grants'[query[q].role]
    BY <1>2, <2>1, CommitForward DEF IInv
  <2> QED BY <2>2 DEF IInv, Fitting
<1>6. Recorded'
  <2> SUFFICES ASSUME NEW e \in past
               PROVE  /\ e.role \in Roles /\ e.epoch \in 1..clock' /\ e.asset \in Assets
                      /\ e.epoch = epoch'[e.role] /\ e.pure => e.asset \in grants'[e.role]
    BY <1>2 DEF Recorded
  <2>1. e.role \in Roles /\ e.epoch \in 1..clock /\ e.asset \in Assets
    BY DEF IInv, Recorded
  <2>2. e.epoch \in 1..clock'
    BY <1>2, <2>1, CommitForward DEF IInv
  <2>3. e.epoch = epoch'[e.role] => epoch'[e.role] = epoch[e.role] /\ grants[e.role] \subseteq grants'[e.role]
    BY <1>2, <2>1, CommitForward DEF IInv
  <2> QED BY <2>1, <2>2, <2>3 DEF IInv, Recorded
<1> QED BY <1>1, <1>4, <1>5, <1>6 DEF IInv

\* A query reads the epoch first and the privileges afterwards.
LEMMA QueryKeeps ==
  ASSUME IInv, NEW q \in Queries,
         \/ ResolvePrincipal(q) \/ ReadPolicy(q) \/ Record(q) \/ GiveUp(q)
         \/ \E x \in Assets : Runs(q, x)
  PROVE  IInv'
<1>1. TInv'
  BY QueryTyped DEF IInv
<1>2. UNCHANGED <<epoch, grants, clock, assigned>>
  BY DEF ResolvePrincipal, ReadPolicy, Record, GiveUp, Runs, identity
<1>3. query \in [Queries -> Asked \cup {Idle}]
  BY DEF IInv, TInv, TypeOK
<1>4. CASE ResolvePrincipal(q)
  <2> DEFINE n == [at |-> "known", role |-> assigned, epoch |-> epoch[assigned],
                   allowed |-> {}, pure |-> TRUE]
  <2>1. n.at = "known" /\ n.epoch <= clock
    BY DEF IInv, TInv, TypeOK, Numbered
  <2>2. query' = [query EXCEPT ![q] = n] /\ past' = past
    BY <1>4 DEF ResolvePrincipal
  <2> HIDE DEF n
  <2> QED BY <1>1, <1>2, <1>3, <2>1, <2>2 DEF IInv, Numbered, Fitting, Recorded
<1>5. CASE ReadPolicy(q)
  <2> DEFINE n == [query[q] EXCEPT !.at = "ready",
               !.allowed = IF Managed(assigned) THEN grants[assigned] ELSE {},
               !.pure = (assigned = query[q].role)]
  <2>1. query[q].at = "known"
    BY <1>5 DEF ReadPolicy
  <2>2. query[q] \in Asked
    BY <1>3, <2>1 DEF Idle
  <2>3. /\ n.epoch = query[q].epoch /\ n.role = query[q].role
        /\ n.pure => assigned = n.role
        /\ n.allowed \subseteq grants[assigned]
    BY <2>2 DEF Asked
  <2>4. query' = [query EXCEPT ![q] = n] /\ past' = past
    BY <1>5 DEF ReadPolicy
  <2> HIDE DEF n
  <2> QED BY <1>1, <1>2, <1>3, <2>1, <2>3, <2>4 DEF IInv, Numbered, Fitting, Recorded
<1>6. CASE Record(q)
  <2>1. query[q].at = "ran"
    BY <1>6 DEF Record
  <2>2. query[q] \in Asked
    BY <1>3, <2>1 DEF Idle
  <2>3. query[q].role \in Roles /\ query[q].epoch \in 1..clock /\ query[q].allowed \subseteq Assets
    BY <2>1, <2>2, DorisAssumption DEF IInv, TInv, TypeOK, Numbered, Asked
  <2>4. Recorded'
    <3> SUFFICES ASSUME NEW x \in query[q].allowed
                 PROVE  /\ query[q].role \in Roles /\ query[q].epoch \in 1..clock /\ x \in Assets
                        /\ query[q].epoch = epoch[query[q].role] /\ query[q].pure => x \in grants[query[q].role]
      BY <1>2, <1>6 DEF Record, Recorded
    <3> QED BY <2>1, <2>3 DEF IInv, Fitting
  <2>5. query' = [query EXCEPT ![q] = Idle] /\ Idle.at = "idle"
    BY <1>6 DEF Record, Idle
  <2> QED BY <1>1, <1>2, <1>3, <2>4, <2>5 DEF IInv, Numbered, Fitting
<1>7. CASE GiveUp(q)
  <2>1. query' = [query EXCEPT ![q] = Idle] /\ Idle.at = "idle" /\ past' = past
    BY <1>7 DEF GiveUp, Idle
  <2> QED BY <1>1, <1>2, <1>3, <2>1 DEF IInv, Numbered, Fitting, Recorded
<1>8. ASSUME NEW x \in Assets, Runs(q, x)
      PROVE  IInv'
  <2> DEFINE n == [query[q] EXCEPT !.at = "ran", !.allowed = {x}]
  <2>1. query[q].at = "ready" /\ x \in query[q].allowed
    BY <1>8 DEF Runs
  <2>2. query[q] \in Asked
    BY <1>3, <2>1 DEF Idle
  <2>3. /\ n.epoch = query[q].epoch /\ n.role = query[q].role /\ n.pure = query[q].pure
        /\ n.allowed = {x}
    BY <2>2 DEF Asked
  <2>4. query' = [query EXCEPT ![q].at = "ran", ![q].allowed = {x}] /\ past' = past
    BY <1>8 DEF Runs
  <2>5. query' = [query EXCEPT ![q] = n]
    BY <2>4, Fields, ZenonT(60)
  <2> HIDE DEF n
  <2> QED BY <1>1, <1>2, <1>3, <2>1, <2>3, <2>4, <2>5 DEF IInv, Numbered, Fitting, Recorded
<1> QED BY <1>4, <1>5, <1>6, <1>7, <1>8

LEMMA Step == IInv /\ [Next]_vars => IInv'
<1> SUFFICES ASSUME IInv, [Next]_vars PROVE IInv'
  OBVIOUS
<1>1. TInv'
  BY TypesStep DEF IInv
<1>2. ASSUME NEW a \in Admins,
             \/ Ask(a) \/ DropPolicy(a) \/ Send(a) \/ Refuse(a) \/ Mislead(a)
             \/ Compensate(a) \/ Crash(a)
      PROVE  IInv'
  <2>1. UNCHANGED <<epoch, grants, clock, query, past>>
    <3>1. CASE Ask(a)
      BY <3>1 DEF Ask, CreateRole, DeleteRole, GrantSelect, RevokeSelect, RevokeAll, AddPolicy,
                  FindPolicy, Begin, identity
    <3>2. CASE ~Ask(a)
      BY <1>2, <3>2 DEF DropPolicy, Send, Refuse, Mislead, Compensate, Crash, Undo, identity
    <3> QED BY <3>1, <3>2
  <2> QED BY <1>1, <2>1, Elsewhere
<1>3. ASSUME NEW r \in Roles, Assign(r)
      PROVE  IInv'
  BY <1>1, <1>3, Elsewhere DEF Assign
<1>4. CASE UNCHANGED vars
  BY <1>1, <1>4, Elsewhere DEF vars, identity
<1>5. ASSUME NEW q \in Queries,
             \/ ResolvePrincipal(q) \/ ReadPolicy(q) \/ Record(q) \/ GiveUp(q)
             \/ \E x \in Assets : Runs(q, x)
      PROVE  IInv'
  BY <1>5, QueryKeeps
<1> QED BY <1>2, <1>3, <1>4, <1>5, CommitKeeps DEF Next

\* The inductive invariant holds throughout.
THEOREM Invariance == Spec => []IInv
BY Start, Step, PTL DEF Spec

\* Experience that has been recorded under the epoch a role still has uses
\* nothing the role may no longer read: what Recorded says of past.
THEOREM CurrentAllowed == Spec => []CurrentExperienceAllowed
<1>1. IInv => CurrentExperienceAllowed
  BY DEF IInv, Recorded, CurrentExperienceAllowed
<1> QED BY <1>1, Invariance, PTL
-----------------------------------------------------------------------------
(* Doris and the projection, as long as no two operations on one role      *)
(* overlap: every operation keeps at hand what leads back to where it      *)
(* began (Restores).                                                       *)

\* From d the statements of a list lead to e, and Doris accepts every one.
Restores(d, list, e) ==
  \E path \in [1..(Len(list) + 1) -> RoleState] :
    /\ path[1] = d /\ path[Len(list) + 1] = e
    /\ \A i \in 1..Len(list) :
         Accepts(path[i], list[i]) /\ path[i + 1] = Effect(path[i], list[i])

\* What the identity says of a role, Doris does.
Agrees(d, r) ==
  IF Managed(r) THEN d.role /\ d.user /\ d.privs = grants[r] ELSE d = NoRole

Settled(r) == Agrees(doris[r], r)

\* What the statements an operation has sent are about.
Done(a) == UNION {op[a].undo[i].on : i \in DOMAIN op[a].undo}

\* How far an operation that has not failed has come, for each kind.
Held(a) == doris[op[a].role]

Creating(a) ==
  /\ ~Managed(op[a].role)
  /\ \/ /\ op[a].todo = <<[verb |-> "create_role"], [verb |-> "create_user"]>>
        /\ op[a].undo = <<>>
     \/ op[a].todo = <<[verb |-> "create_user"]>> /\ Held(a) = [NoRole EXCEPT !.role = TRUE]
     \/ op[a].todo = <<>> /\ Held(a) = [NoRole EXCEPT !.role = TRUE, !.user = TRUE]

Deleting(a) ==
  /\ Managed(op[a].role)
  /\ \/ op[a].todo = <<[verb |-> "drop_user"], [verb |-> "drop_role"]>> /\ op[a].undo = <<>>
     \/ /\ op[a].todo = <<[verb |-> "drop_role"]>>
        /\ Held(a) = [op[a].before EXCEPT !.user = FALSE]
     \/ op[a].todo = <<>> /\ Held(a) = NoRole

Giving(a) ==
  /\ Managed(op[a].role)
  /\ \/ /\ op[a].undo = <<>>
        /\ \E new \in SUBSET Assets : /\ op[a].todo = <<[verb |-> "grant", on |-> new]>>
                                      /\ new \cap grants[op[a].role] = {}
     \/ /\ op[a].todo = <<>>
        /\ Held(a) = [op[a].before EXCEPT !.privs = grants[op[a].role] \cup Done(a)]

Taking(a) ==
  /\ Managed(op[a].role)
  /\ op[a].todo \in Seq(Takes) /\ op[a].undo \in Seq(Gives)
  /\ Held(a) = [op[a].before EXCEPT !.privs = grants[op[a].role] \ Done(a)]

Filtering(a) ==
  /\ Managed(op[a].role)
  /\ \/ /\ op[a].undo = <<>>
        /\ \E verb \in {"add_policy", "drop_policy"}, p \in Policies :
             op[a].todo = <<[verb |-> verb, name |-> p]>>
     \/ /\ op[a].todo = <<>>
        /\ \E names \in SUBSET Policies : Held(a) = [op[a].before EXCEPT !.policies = names]

Progress(a) ==
  /\ op[a].kind = "create" => Creating(a)
  /\ op[a].kind = "delete" => Deleting(a)
  /\ op[a].kind = "grant" => Giving(a)
  /\ op[a].kind = "revoke" => Taking(a)
  /\ op[a].kind = "policy" => Filtering(a)

\* Before an operation Doris and the projection agreed, and what it has to
\* undo leads back there.
Sound(a) ==
  /\ Agrees(op[a].before, op[a].role)
  /\ Restores(Held(a), op[a].undo, op[a].before)
  /\ op[a].at = "wait" => op[a].undo = <<>>
  /\ op[a].at \in {"wait", "run"} => Progress(a)

Consistent ==
  ~drift =>
    /\ \A r \in Roles : (\A a \in Admins : op[a].at # "idle" => op[a].role # r) => Settled(r)
    /\ \A a \in Admins : op[a].at # "idle" => Sound(a)

\* No two operations on one role overlap.
Apart ==
  \A a, b \in Admins :
    a # b /\ op[a].at # "idle" /\ op[b].at # "idle" => op[a].role # op[b].role

SInv == TInv /\ Consistent

-----------------------------------------------------------------------------
\* Nothing to undo leaves everything as it is.
LEMMA RestoresNothing ==
  ASSUME NEW d \in RoleState, NEW e
  PROVE  Restores(d, <<>>, e) <=> d = e
<1>1. ASSUME Restores(d, <<>>, e) PROVE d = e
  BY <1>1 DEF Restores
<1>2. ASSUME d = e PROVE Restores(d, <<>>, e)
  <2> DEFINE path == [i \in 1..1 |-> d]
  <2>1. path \in [1..1 -> RoleState] /\ path[1] = d /\ Len(<<>>) = 0
    OBVIOUS
  <2> HIDE DEF path
  <2> QED BY <1>2, <2>1 DEF Restores
<1> QED BY <1>1, <1>2

\* One statement.
LEMMA RestoresOne ==
  ASSUME NEW d \in RoleState, NEW s \in Statement, Accepts(d, s)
  PROVE  Restores(d, <<s>>, Effect(d, s))
<1> DEFINE e == Effect(d, s)
           path == [i \in 1..2 |-> IF i = 1 THEN d ELSE e]
<1>1. e \in RoleState
  BY EffectType
<1>2. Len(<<s>>) = 1 /\ <<s>>[1] = s
  OBVIOUS
<1> HIDE DEF e
<1>3. path \in [1..(Len(<<s>>) + 1) -> RoleState] /\ path[1] = d /\ path[2] = e
  BY <1>1, <1>2
<1>4. \A i \in 1..Len(<<s>>) : Accepts(path[i], <<s>>[i]) /\ path[i + 1] = Effect(path[i], <<s>>[i])
  BY <1>2, <1>3 DEF e
<1> HIDE DEF path
<1>5. path[Len(<<s>>) + 1] = e
  BY <1>2, <1>3
<1> QED BY <1>3, <1>4, <1>5 DEF Restores, e

\* One list after the other.
LEMMA RestoresBoth ==
  ASSUME NEW d, NEW e, NEW f, NEW first \in Seq(Statement), NEW second \in Seq(Statement),
         Restores(d, first, e), Restores(e, second, f)
  PROVE  Restores(d, first \o second, f)
<1> DEFINE n == Len(first)
           m == Len(second)
           list == first \o second
<1>1. n \in Nat /\ m \in Nat /\ Len(list) = n + m
  OBVIOUS
<1>2. PICK p \in [1..(n + 1) -> RoleState] :
        /\ p[1] = d /\ p[n + 1] = e
        /\ \A i \in 1..n : Accepts(p[i], first[i]) /\ p[i + 1] = Effect(p[i], first[i])
  BY DEF Restores
<1>3. PICK q \in [1..(m + 1) -> RoleState] :
        /\ q[1] = e /\ q[m + 1] = f
        /\ \A i \in 1..m : Accepts(q[i], second[i]) /\ q[i + 1] = Effect(q[i], second[i])
  BY DEF Restores
<1>4. /\ \A i \in 1..n : list[i] = first[i]
      /\ \A i \in 1..m : list[n + i] = second[i]
  OBVIOUS
<1> DEFINE path == [i \in 1..(n + m + 1) |-> IF i <= n + 1 THEN p[i] ELSE q[i - n]]
<1> HIDE DEF n, m, list
<1>5. path \in [1..(n + m + 1) -> RoleState]
  <2> SUFFICES ASSUME NEW i \in 1..(n + m + 1)
               PROVE  (IF i <= n + 1 THEN p[i] ELSE q[i - n]) \in RoleState
    OBVIOUS
  <2> HIDE DEF path
  <2>1. CASE i <= n + 1
    BY <1>1, <1>2, <2>1
  <2>2. CASE ~(i <= n + 1)
    <3>1. i - n \in 1..(m + 1)
      BY <1>1, <2>2
    <3> QED BY <1>3, <2>2, <3>1
  <2> QED BY <2>1, <2>2
<1>6. /\ \A i \in 1..(n + 1) : path[i] = p[i]
      /\ \A i \in 1..(m + 1) : path[n + i] = q[i]
  <2>1. ASSUME NEW i \in 1..(n + 1) PROVE path[i] = p[i]
    <3>1. i \in 1..(n + m + 1) /\ i <= n + 1
      BY <1>1
    <3> QED BY <3>1
  <2>2. ASSUME NEW i \in 1..(m + 1) PROVE path[n + i] = q[i]
    <3>1. n + i \in 1..(n + m + 1) /\ (n + i) - n = i /\ (n + i <= n + 1 => i = 1)
      BY <1>1
    <3>2. path[n + i] = IF n + i <= n + 1 THEN p[n + i] ELSE q[(n + i) - n]
      BY <3>1
    <3> HIDE DEF path
    <3>3. CASE n + i <= n + 1
      BY <1>2, <1>3, <3>1, <3>2, <3>3
    <3>4. CASE ~(n + i <= n + 1)
      BY <3>1, <3>2, <3>4
    <3> QED BY <3>3, <3>4
  <2> QED BY <2>1, <2>2
<1> HIDE DEF path
<1>7. path[1] = d /\ path[n + m + 1] = f
  <2>1. 1 \in 1..(n + 1) /\ m + 1 \in 1..(m + 1) /\ n + (m + 1) = n + m + 1
    BY <1>1
  <2> QED BY <1>2, <1>3, <1>6, <2>1
<1>8. ASSUME NEW i \in 1..(n + m)
      PROVE  Accepts(path[i], list[i]) /\ path[i + 1] = Effect(path[i], list[i])
  <2>1. CASE i <= n
    <3>1. i \in 1..n /\ i \in 1..(n + 1) /\ i + 1 \in 1..(n + 1)
      BY <1>1, <2>1
    <3>2. path[i] = p[i] /\ path[i + 1] = p[i + 1] /\ list[i] = first[i]
      BY <1>4, <1>6, <3>1
    <3> QED BY <1>2, <3>1, <3>2
  <2>2. CASE ~(i <= n)
    <3> DEFINE j == i - n
    <3>1. j \in 1..m /\ j \in 1..(m + 1) /\ j + 1 \in 1..(m + 1) /\ n + j = i /\ n + (j + 1) = i + 1
      BY <1>1, <2>2
    <3> HIDE DEF j
    <3>2. path[n + j] = q[j] /\ path[n + (j + 1)] = q[j + 1] /\ list[n + j] = second[j]
      BY <1>4, <1>6, <3>1
    <3>3. path[i] = q[j] /\ path[i + 1] = q[j + 1] /\ list[i] = second[j]
      BY <3>1, <3>2
    <3> QED BY <1>3, <3>1, <3>3
  <2> QED BY <2>1, <2>2
<1>9. Restores(d, list, f)
  BY <1>1, <1>5, <1>7, <1>8 DEF Restores
<1> QED BY <1>9 DEF list

\* The first statement and the rest.
LEMMA RestoresRest ==
  ASSUME NEW d, NEW e, NEW list \in Seq(Statement), list # <<>>, Restores(d, list, e)
  PROVE  Accepts(d, Head(list)) /\ Restores(Effect(d, Head(list)), Tail(list), e)
<1> DEFINE n == Len(list)
           rest == Tail(list)
<1>1. n \in Nat \ {0} /\ Len(rest) = n - 1 /\ Head(list) = list[1]
      /\ \A i \in 1..(n - 1) : rest[i] = list[i + 1]
  OBVIOUS
<1>2. PICK p \in [1..(n + 1) -> RoleState] :
        /\ p[1] = d /\ p[n + 1] = e
        /\ \A i \in 1..n : Accepts(p[i], list[i]) /\ p[i + 1] = Effect(p[i], list[i])
  BY DEF Restores
<1> DEFINE path == [i \in 1..n |-> p[i + 1]]
<1> HIDE DEF n, rest
<1>3. path \in [1..n -> RoleState] /\ \A i \in 1..n : path[i] = p[i + 1]
  <2>1. \A i \in 1..n : i + 1 \in 1..(n + 1)
    BY <1>1
  <2> QED BY <1>2, <2>1
<1> HIDE DEF path
<1>4. Accepts(d, Head(list)) /\ p[2] = Effect(d, Head(list))
  <2>1. 1 \in 1..n /\ 1 + 1 = 2
    BY <1>1
  <2> QED BY <1>1, <1>2, <2>1
<1>5. path[1] = Effect(d, Head(list)) /\ path[n] = e
  <2>1. 1 \in 1..n /\ n \in 1..n /\ 1 + 1 = 2
    BY <1>1
  <2> QED BY <1>2, <1>3, <1>4, <2>1
<1>6. ASSUME NEW i \in 1..(n - 1)
      PROVE  Accepts(path[i], rest[i]) /\ path[i + 1] = Effect(path[i], rest[i])
  <2>1. i \in 1..n /\ i + 1 \in 1..n
    BY <1>1
  <2>2. path[i] = p[i + 1] /\ path[i + 1] = p[(i + 1) + 1] /\ rest[i] = list[i + 1]
    BY <1>1, <1>3, <2>1
  <2> QED BY <1>2, <2>1, <2>2
<1>7. Len(rest) + 1 = n
  BY <1>1
<1>8. Restores(Effect(d, Head(list)), rest, e)
  BY <1>1, <1>3, <1>5, <1>6, <1>7 DEF Restores
<1> QED BY <1>4, <1>8 DEF rest

\* A list of two.
LEMMA Pair ==
  ASSUME NEW S, NEW x \in S, NEW y \in S
  PROVE  <<x, y>> = <<x>> \o <<y>>
<1>1. <<x>> \in Seq(S) /\ <<y>> \in Seq(S) /\ <<x, y>> \in Seq(S)
  OBVIOUS
<1>2. /\ Len(<<x>> \o <<y>>) = 2
      /\ (<<x>> \o <<y>>)[1] = x /\ (<<x>> \o <<y>>)[2] = y
  BY <1>1
<1> DEFINE both == <<x>> \o <<y>>
           list == <<x, y>>
<1>3. both \in Seq(S) /\ Len(list) = Len(both) /\ \A i \in 1..Len(list) : list[i] = both[i]
  BY <1>1, <1>2
<1>4. list \in Seq(S)
  BY <1>1
<1> HIDE DEF both, list
<1>5. list = both
  BY <1>3, <1>4, SeqEqual
<1> QED BY <1>5 DEF both, list

\* Privileges are given back, as long as the role is there.
LEMMA RestoresGrants ==
  ASSUME NEW d \in RoleState, d.role, NEW set \in SUBSET Assets
  PROVE  Restores(d, All("grant", set), [d EXCEPT !.privs = @ \cup set])
<1> DEFINE G(on) == [verb |-> "grant", on |-> on]
           A == set \ Columns
           B == set \cap Columns
<1>1. \A on \in SUBSET Assets, e \in RoleState :
        /\ G(on) \in Statement
        /\ e.role => Accepts(e, G(on)) /\ Effect(e, G(on)) = [e EXCEPT !.privs = @ \cup on]
  BY DEF Statement, Accepts, Effect
<1>2. A \in SUBSET Assets /\ B \in SUBSET Assets /\ A \cup B = set
  OBVIOUS
<1>3. \A on \in SUBSET Assets, e \in RoleState :
        e.role => /\ Restores(e, <<G(on)>>, [e EXCEPT !.privs = @ \cup on])
                  /\ [e EXCEPT !.privs = @ \cup on] \in RoleState
                  /\ [e EXCEPT !.privs = @ \cup on].role
  <2> SUFFICES ASSUME NEW on \in SUBSET Assets, NEW e \in RoleState, e.role
               PROVE  /\ Restores(e, <<G(on)>>, [e EXCEPT !.privs = @ \cup on])
                      /\ [e EXCEPT !.privs = @ \cup on] \in RoleState
                      /\ [e EXCEPT !.privs = @ \cup on].role
    OBVIOUS
  <2>1. G(on) \in Statement /\ Accepts(e, G(on)) /\ Effect(e, G(on)) = [e EXCEPT !.privs = @ \cup on]
    BY <1>1
  <2> HIDE DEF G
  <2>2. Restores(e, <<G(on)>>, Effect(e, G(on)))
    BY <2>1, RestoresOne
  <2> QED BY <2>1, <2>2 DEF RoleState
<1>4. All("grant", set) = [i \in DOMAIN Grouped(set) |-> G(Grouped(set)[i])]
  BY DEF All
<1>5. Grouped(set) = (IF A = {} THEN <<>> ELSE <<A>>) \o (IF B = {} THEN <<>> ELSE <<B>>)
  BY DEF Grouped
<1> HIDE DEF A, B
<1>6. CASE A = {} /\ B = {}
  <2>1. Grouped(set) = <<>>
    BY <1>5, <1>6
  <2>2. All("grant", set) = <<>>
    BY <1>4, <2>1
  <2>3. d = [d EXCEPT !.privs = @ \cup set]
    BY <1>2, <1>6 DEF RoleState
  <2> QED BY <2>2, <2>3, RestoresNothing
<1>7. CASE A # {} /\ B = {}
  <2>1. Grouped(set) = <<A>> /\ set = A
    BY <1>2, <1>5, <1>7
  <2>2. All("grant", set) = <<G(A)>>
    BY <1>4, <2>1
  <2> HIDE DEF G
  <2> QED BY <1>2, <1>3, <2>1, <2>2
<1>8. CASE A = {} /\ B # {}
  <2>1. Grouped(set) = <<B>> /\ set = B
    BY <1>2, <1>5, <1>8
  <2>2. All("grant", set) = <<G(B)>>
    BY <1>4, <2>1
  <2> HIDE DEF G
  <2> QED BY <1>2, <1>3, <2>1, <2>2
<1>9. CASE A # {} /\ B # {}
  <2>1. Grouped(set) = <<A, B>>
    BY <1>2, <1>5, <1>9, Pair
  <2>2. All("grant", set) = <<G(A), G(B)>>
    BY <1>4, <2>1
  <2> DEFINE e == [d EXCEPT !.privs = @ \cup A]
  <2>4. [e EXCEPT !.privs = @ \cup B] = [d EXCEPT !.privs = @ \cup set]
    BY <1>2 DEF RoleState
  <2>5. G(A) \in Statement /\ G(B) \in Statement
    BY <1>1, <1>2
  <2>3. <<G(A), G(B)>> = <<G(A)>> \o <<G(B)>>
    <3> HIDE DEF G
    <3> QED BY <2>5, Pair
  <2>6. <<G(A)>> \in Seq(Statement) /\ <<G(B)>> \in Seq(Statement)
    BY <2>5, Single
  <2> HIDE DEF G
  <2>7. Restores(d, <<G(A)>>, e) /\ e \in RoleState /\ e.role
    BY <1>2, <1>3
  <2>8. Restores(e, <<G(B)>>, [e EXCEPT !.privs = @ \cup B])
    <3> HIDE DEF e
    <3> QED BY <1>2, <1>3, <2>7
  <2> HIDE DEF e
  <2>9. Restores(d, <<G(A)>> \o <<G(B)>>, [e EXCEPT !.privs = @ \cup B])
    BY <2>6, <2>7, <2>8, RestoresBoth
  <2> QED BY <2>2, <2>3, <2>4, <2>9
<1> QED BY <1>6, <1>7, <1>8, <1>9

\* So are the row policies, one after the other.
LEMMA RestoresPolicies ==
  ASSUME NEW d \in RoleState, d.role, d.policies = {}, NEW b \in RoleState
  PROVE  Restores(d, PoliciesOf(b), [d EXCEPT !.policies = b.policies])
<1> DEFINE S == b.policies
           n == Cardinality(S)
           name == SetToSeq(S)
<1>1. S \subseteq Policies /\ IsFiniteSet(S) /\ n \in Nat
  BY DorisAssumption, FS_Subset, FS_CardinalityType DEF RoleState
<1>2. ExistsBijection(1..n, S)
  BY <1>1, FS_CardinalityType
<1>3. \E f \in [1..n -> S] : IsInjective(f)
  BY <1>2 DEF ExistsBijection, Bijection, Injection, Surjection, IsInjective
<1>4. name \in [1..n -> S] /\ IsInjective(name)
  BY <1>3 DEF SetToSeq
<1>5. IsFiniteSet(1..n) /\ Cardinality(1..n) = n
  BY <1>1, FS_Interval
<1> HIDE DEF n, name
<1>6. name \in Surjection(1..n, S)
  <2>1. name \in Injection(1..n, S)
    BY <1>4 DEF Injection, IsInjective
  <2> QED BY <1>1, <1>5, <2>1, FS_Injection DEF n
<1>7. \A p \in S : \E i \in 1..n : name[i] = p
  BY <1>6 DEF Surjection
<1> DEFINE Given(i) == {name[j] : j \in 1..(i - 1)}
           path == [i \in 1..(n + 1) |-> [d EXCEPT !.policies = Given(i)]]
           list == PoliciesOf(b)
<1>8. /\ list \in Seq(Statement) /\ Len(list) = n
      /\ \A i \in 1..n : list[i] = [verb |-> "add_policy", name |-> name[i]]
  <2>1. list = [i \in 1..n |-> [verb |-> "add_policy", name |-> name[i]]]
    BY <1>4 DEF PoliciesOf, name
  <2>2. list \in Seq(Statement)
    BY PoliciesType
  <2> HIDE DEF list
  <2> QED BY <1>1, <2>1, <2>2
<1> HIDE DEF list
<1>9. \A i \in 1..(n + 1) : Given(i) \subseteq S
  BY <1>1, <1>4
<1>10. /\ path \in [1..(n + 1) -> RoleState]
       /\ \A i \in 1..(n + 1) : path[i] = [d EXCEPT !.policies = Given(i)]
  <2> HIDE DEF Given
  <2> QED BY <1>1, <1>9 DEF RoleState
<1> HIDE DEF path
<1>11. path[1] = d
  <2>1. Given(1) = {} /\ 1 \in 1..(n + 1)
    BY <1>1
  <2> HIDE DEF Given
  <2>2. path[1] = [d EXCEPT !.policies = {}]
    BY <1>10, <2>1
  <2> QED BY <2>2 DEF RoleState
<1>12. path[n + 1] = [d EXCEPT !.policies = S]
  <2>1. n + 1 \in 1..(n + 1) /\ (n + 1) - 1 = n
    BY <1>1
  <2>2. Given(n + 1) = S
    BY <1>4, <1>7, <2>1
  <2> HIDE DEF Given
  <2> QED BY <1>10, <2>1, <2>2
<1>13. ASSUME NEW i \in 1..n
       PROVE  Accepts(path[i], list[i]) /\ path[i + 1] = Effect(path[i], list[i])
  <2>1. i \in 1..(n + 1) /\ i + 1 \in 1..(n + 1) /\ (i + 1) - 1 = i
    BY <1>1
  <2>2. name[i] \notin Given(i)
    BY <1>1, <1>4 DEF IsInjective
  <2>3. Given(i + 1) = Given(i) \cup {name[i]}
    <3>1. 1..i = (1..(i - 1)) \cup {i}
      BY <1>1
    <3> QED BY <2>1, <3>1
  <2>4. path[i] = [d EXCEPT !.policies = Given(i)] /\ path[i + 1] = [d EXCEPT !.policies = Given(i + 1)]
    BY <1>10, <2>1
  <2> HIDE DEF Given
  <2>5. path[i].role /\ path[i].policies = Given(i)
    BY <2>4 DEF RoleState
  <2>9. list[i].verb = "add_policy" /\ list[i].name = name[i]
    BY <1>8
  <2>6. Accepts(path[i], list[i])
    BY <2>2, <2>5, <2>9 DEF Accepts
  <2>7. Effect(path[i], list[i]) = [path[i] EXCEPT !.policies = @ \cup {name[i]}]
    BY <2>9 DEF Effect
  <2>8. [path[i] EXCEPT !.policies = @ \cup {name[i]}] = [d EXCEPT !.policies = Given(i + 1)]
    BY <2>3, <2>4, ZenonT(60) DEF RoleState
  <2> QED BY <2>4, <2>6, <2>7, <2>8
<1> QED BY <1>1, <1>8, <1>10, <1>11, <1>12, <1>13 DEF Restores, list

\* A role that has been dropped is made again with all it had.
LEMMA RestoresRole ==
  ASSUME TypeOK, NEW r \in Roles, NEW b \in RoleState, Managed(r), Agrees(b, r)
  PROVE  /\ Restores(NoRole, <<[verb |-> "create_role"], [verb |-> "create_user"]>>
                                \o Restored(b, r), b)
         /\ Restored(b, r) \in Seq(Statement)
<1> DEFINE made == [NoRole EXCEPT !.role = TRUE]
           used == [made EXCEPT !.user = TRUE]
           open == [used EXCEPT !.privs = @ \cup grants[r]]
           cr == [verb |-> "create_role"]
           cu == [verb |-> "create_user"]
<1>1. /\ NoRole \in RoleState /\ made \in RoleState /\ used \in RoleState /\ open \in RoleState
      /\ used.role /\ open.role /\ open.policies = {}
      /\ [open EXCEPT !.policies = b.policies] = b
      /\ grants[r] \in SUBSET Assets
  BY ZenonT(60) DEF TypeOK, NoRole, RoleState, Agrees
<1>2. /\ cr \in Statement /\ Accepts(NoRole, cr) /\ Effect(NoRole, cr) = made
      /\ cu \in Statement /\ Accepts(made, cu) /\ Effect(made, cu) = used
  BY DEF Statement, Accepts, Effect, NoRole
<1>3. /\ All("grant", grants[r]) \in Seq(Statement) /\ PoliciesOf(b) \in Seq(Statement)
      /\ <<cr>> \in Seq(Statement) /\ <<cu>> \in Seq(Statement)
  <2>1. All("grant", grants[r]) \in Seq(Statement)
    BY <1>1, AllType, LargerType
  <2> HIDE DEF cr, cu
  <2> QED BY <1>2, <2>1, PoliciesType, Single
<1>4. <<cr, cu>> = <<cr>> \o <<cu>>
  OBVIOUS
<1> HIDE DEF made, used, open, cr, cu
<1>5. Restores(NoRole, <<cr>>, made) /\ Restores(made, <<cu>>, used)
  BY <1>1, <1>2, RestoresOne
<1>6. Restores(NoRole, <<cr, cu>>, used) /\ <<cr, cu>> \in Seq(Statement)
  <2>1. Restores(NoRole, <<cr>> \o <<cu>>, used)
    BY <1>3, <1>5, RestoresBoth
  <2>2. <<cr>> \o <<cu>> \in Seq(Statement)
    BY <1>3
  <2> QED BY <1>4, <2>1, <2>2
<1>7. Restores(used, All("grant", grants[r]), open)
  BY <1>1, RestoresGrants DEF open
<1>8. Restores(open, PoliciesOf(b), b)
  <2>1. Restores(open, PoliciesOf(b), [open EXCEPT !.policies = b.policies])
    BY <1>1, RestoresPolicies
  <2> QED BY <1>1, <2>1
<1>9. Restores(used, Restored(b, r), b) /\ Restored(b, r) \in Seq(Statement)
  BY <1>3, <1>7, <1>8, RestoresBoth DEF Restored
<1>10. Restores(NoRole, <<cr, cu>> \o Restored(b, r), b)
  BY <1>6, <1>9, RestoresBoth
<1> QED BY <1>9, <1>10 DEF cr, cu

\* One more statement, and what takes it back.
LEMMA RestoresFirst ==
  ASSUME NEW d \in RoleState, NEW e, NEW after \in RoleState, NEW s \in Statement,
         NEW list \in Seq(Statement),
         Accepts(after, s), Effect(after, s) = d, Restores(d, list, e)
  PROVE  Restores(after, <<s>> \o list, e)
<1>1. Restores(after, <<s>>, d) /\ <<s>> \in Seq(Statement)
  BY RestoresOne, Single
<1> QED BY <1>1, RestoresBoth

-----------------------------------------------------------------------------
LEMMA SyncStart == Init => SInv
<1> SUFFICES ASSUME Init PROVE SInv
  OBVIOUS
<1>1. TInv
  BY StartTyped
<1>2. ASSUME NEW r \in Roles PROVE Settled(r)
  BY DEF Init, Settled, Agrees, Managed, NoRole
<1>3. \A a \in Admins : op[a].at = "idle"
  BY DEF Init, Idle
<1> QED BY <1>1, <1>2, <1>3 DEF SInv, Consistent

\* A step of one operation: it is the only one on its role, and leaves the
\* other roles alone.
LEMMA StepOf ==
  ASSUME SInv, NEW a \in Admins, NEW r \in Roles,
         \A b \in Admins : b # a => op'[b] = op[b] /\ (op[b].at # "idle" => op[b].role # r),
         op[a].at # "idle" => op[a].role = r,
         op'[a].at # "idle" => op'[a].role = r,
         \A x \in Roles : x # r => doris'[x] = doris[x] /\ epoch'[x] = epoch[x] /\ grants'[x] = grants[x],
         ~drift' => ~drift,
         ~drift' => IF op'[a].at = "idle" THEN Settled(r)' ELSE Sound(a)'
  PROVE  Consistent'
<1> SUFFICES ASSUME ~drift'
             PROVE  /\ \A x \in Roles : (\A b \in Admins : op'[b].at # "idle" => op'[b].role # x)
                                           => Settled(x)'
                    /\ \A b \in Admins : op'[b].at # "idle" => Sound(b)'
  BY DEF Consistent
<1>1. /\ \A x \in Roles : (\A b \in Admins : op[b].at # "idle" => op[b].role # x) => Settled(x)
      /\ \A b \in Admins : op[b].at # "idle" => Sound(b)
  BY DEF SInv, Consistent
<1>2. ASSUME NEW x \in Roles, \A b \in Admins : op'[b].at # "idle" => op'[b].role # x
      PROVE  Settled(x)'
  <2>1. CASE x = r
    BY <1>2, <2>1
  <2>2. CASE x # r
    <3>1. Settled(x)
      BY <1>1, <1>2, <2>2
    <3> QED BY <2>2, <3>1 DEF Settled, Agrees, Managed
  <2> QED BY <2>1, <2>2
<1>3. ASSUME NEW b \in Admins, op'[b].at # "idle"
      PROVE  Sound(b)'
  <2>1. CASE b = a
    BY <1>3, <2>1
  <2>2. CASE b # a
    <3>1. op'[b] = op[b] /\ op[b].role # r /\ Sound(b)
      BY <1>1, <1>3, <2>2
    <3>2. op[b].role \in Roles
      BY <1>3, <3>1, UnderWay DEF SInv, Saga
    <3>3. /\ doris'[op[b].role] = doris[op[b].role] /\ epoch'[op[b].role] = epoch[op[b].role]
          /\ grants'[op[b].role] = grants[op[b].role]
      BY <3>1, <3>2
    <3>4. Progress(b) => Progress(b)'
      <4>1. Done(b)' = Done(b)
        BY <3>1 DEF Done
      <4>2. Held(b)' = Held(b)
        BY <3>1, <3>3 DEF Held
      <4>3. (Creating(b) => Creating(b)') /\ (Deleting(b) => Deleting(b)')
        BY <3>1, <3>3, <4>2 DEF Creating, Deleting, Managed
      <4>4. (Giving(b) => Giving(b)') /\ (Taking(b) => Taking(b)')
        BY <3>1, <3>3, <4>1, <4>2 DEF Giving, Taking, Managed
      <4>5. Filtering(b) => Filtering(b)'
        BY <3>1, <3>3, <4>2, ZenonT(60) DEF Filtering, Managed
      <4> QED BY <3>1, <4>3, <4>4, <4>5 DEF Progress
    <3> QED BY <3>1, <3>3, <3>4 DEF Sound, Agrees, Managed, Held
  <2> QED BY <2>1, <2>2
<1> QED BY <1>2, <1>3

\* The other operations are on other roles.
LEMMA OnOthers ==
  ASSUME SInv, Apart, NEW a \in Admins, op[a].at # "idle", NEW o, op' = [op EXCEPT ![a] = o]
  PROVE  /\ op[a] \in Saga /\ op[a].role \in Roles /\ op[a].before \in RoleState
         /\ Held(a) \in RoleState /\ grants[op[a].role] \in SUBSET Assets
         /\ op[a].undo \in Seq(Statement)
         /\ op'[a] = o
         /\ \A b \in Admins : b # a =>
              op'[b] = op[b] /\ (op[b].at # "idle" => op[b].role # op[a].role)
         /\ ~drift => Sound(a)
<1>1. op[a] \in Saga
  BY UnderWay DEF SInv
<1> QED BY <1>1 DEF Apart, SInv, TInv, TypeOK, Consistent, Saga, Held

\* With nothing to undo, an operation has changed nothing.
LEMMA NothingDone ==
  ASSUME NEW a \in Admins, Held(a) \in RoleState, op[a].undo = <<>>, Sound(a)
  PROVE  Held(a) = op[a].before
BY RestoresNothing DEF Sound

\* An operation that begins finds its role settled.
LEMMA BeginSound ==
  ASSUME SInv, Apart', NEW a \in Admins, NEW r \in Roles, op[a].at = "idle",
         NEW kind \in Kinds, NEW at \in {"wait", "run"}, NEW todo \in Seq(Request),
         op' = [op EXCEPT ![a] = [kind |-> kind, role |-> r, at |-> at, todo |-> todo,
                                  undo |-> <<>>, before |-> doris[r]]],
         UNCHANGED <<doris, identity, drift>>,
         Settled(r) => Progress(a)'
  PROVE  Consistent'
<1>1. op'[a] = [kind |-> kind, role |-> r, at |-> at, todo |-> todo,
                undo |-> <<>>, before |-> doris[r]]
  BY DEF SInv, TInv, TypeOK
<1>2. \A b \in Admins : b # a => op'[b] = op[b]
  BY DEF SInv, TInv, TypeOK
<1>3. \A b \in Admins : b # a => (op[b].at # "idle" => op[b].role # r)
  BY <1>1, <1>2 DEF Apart
<1>4. ASSUME ~drift' PROVE Sound(a)'
  <2>1. Settled(r)
    BY <1>3, <1>4 DEF SInv, Consistent
  <2>2. Restores(doris[r], <<>>, doris[r])
    BY RestoresNothing DEF SInv, TInv, TypeOK
  <2>3. Progress(a)'
    BY <2>1
  <2> QED BY <1>1, <2>1, <2>2, <2>3 DEF Sound, Settled, Agrees, Managed, Held, identity
<1>5. op'[a].at # "idle" /\ op'[a].role = r
  BY <1>1
<1>6. \A x \in Roles : doris'[x] = doris[x] /\ epoch'[x] = epoch[x] /\ grants'[x] = grants[x]
  BY DEF identity
<1> QED BY <1>2, <1>3, <1>4, <1>5, <1>6, StepOf

\* To take everything is a list of revocations.
LEMMA AllTakes ==
  ASSUME NEW set \in SUBSET Assets
  PROVE  All("revoke", set) \in Seq(Takes)
<1>1. All("revoke", set) \in Seq(Request)
  BY AllType
<1>2. \A i \in DOMAIN Grouped(set) : Grouped(set)[i] \in SUBSET Assets
  BY DEF Grouped
<1>3. \A i \in DOMAIN All("revoke", set) : All("revoke", set)[i] \in Takes
  BY <1>2 DEF All, Takes
<1> DEFINE list == All("revoke", set)
<1> HIDE DEF list
<1>4. list \in [1..Len(list) -> Takes]
  BY <1>1, <1>3 DEF list
<1>5. Len(list) \in Nat
  BY <1>1 DEF list
<1> QED BY <1>4, <1>5, SeqDef DEF list

\* What is about to be sent fits what the role has.
LEMMA AskConsistent ==
  ASSUME SInv, Apart', NEW a \in Admins, Ask(a)
  PROVE  Consistent'
<1> PICK r \in Roles :
      \/ CreateRole(a, r) \/ DeleteRole(a, r) \/ RevokeAll(a, r)
      \/ \E target \in Targets : GrantSelect(a, r, target) \/ RevokeSelect(a, r, target)
      \/ \E p \in Policies : AddPolicy(a, r, p) \/ FindPolicy(a, r, p)
  BY DEF Ask
<1>0. /\ op[a].at = "idle" /\ doris[r] \in RoleState /\ grants[r] \in SUBSET Assets
      /\ op \in [Admins -> Saga \cup {Idle}]
  BY DEF Ask, SInv, TInv, TypeOK
<1> DEFINE Entry(kind, at, todo) ==
             [kind |-> kind, role |-> r, at |-> at, todo |-> todo, undo |-> <<>>,
              before |-> doris[r]]
           Begun(kind, todo) ==
             /\ op'[a].kind = kind /\ op'[a].role = r /\ op'[a].todo = todo
             /\ op'[a].undo = <<>> /\ op'[a].before = doris[r]
             /\ Held(a)' = doris[r] /\ (epoch'[r] # 0 <=> Managed(r)) /\ grants'[r] = grants[r]
<1>1. ASSUME NEW kind \in Kinds, NEW todo \in Seq(Request), Begin(a, kind, r, todo),
             Begun(kind, todo) /\ Settled(r) => Progress(a)'
      PROVE  Consistent'
  <2>1. /\ op' = [op EXCEPT ![a] = Entry(kind, "run", todo)]
        /\ UNCHANGED <<doris, identity, drift>>
    BY <1>1 DEF Begin
  <2>2. op'[a] = Entry(kind, "run", todo) /\ Held(a)' = doris[r]
    BY <1>0, <2>1 DEF Held
  <2>3. Begun(kind, todo)
    BY <2>1, <2>2 DEF identity, Managed
  <2> HIDE DEF Begun
  <2>4. Settled(r) => Progress(a)'
    BY <1>1, <2>3
  <2> QED BY <1>0, <2>1, <2>4, BeginSound
<1> HIDE DEF Entry
<1>2. \A v \in {"create_role", "create_user", "drop_role", "drop_user"} : [verb |-> v] \in Request
  BY DEF Request, Statement
<1>3. \A on \in SUBSET Assets : [verb |-> "grant", on |-> on] \in Request /\ [verb |-> "revoke", on |-> on] \in Request
  BY DEF Request, Statement
<1>4. \A p \in Policies : [verb |-> "add_policy", name |-> p] \in Request /\ [verb |-> "drop_policy", name |-> p] \in Request
  BY DEF Request, Statement
<1>5. \A target \in Targets : target \in SUBSET Assets
  BY DorisAssumption DEF Targets
<1>6. CASE CreateRole(a, r)
  <2> DEFINE todo == <<[verb |-> "create_role"], [verb |-> "create_user"]>>
  <2>1. todo \in Seq(Request)
    BY <1>2
  <2>2. ~Managed(r) /\ Begin(a, "create", r, todo)
    BY <1>6 DEF CreateRole
  <2>3. Begun("create", todo) => Progress(a)'
    BY <2>2 DEF Progress, Creating, Managed
  <2> HIDE DEF todo, Begun
  <2> QED BY <1>1, <2>1, <2>2, <2>3 DEF Kinds
<1>7. CASE DeleteRole(a, r)
  <2> DEFINE todo == <<[verb |-> "drop_user"], [verb |-> "drop_role"]>>
  <2>1. todo \in Seq(Request)
    BY <1>2
  <2>2. Managed(r) /\ Begin(a, "delete", r, todo)
    BY <1>7 DEF DeleteRole
  <2>3. Begun("delete", todo) => Progress(a)'
    BY <2>2 DEF Progress, Deleting, Managed
  <2> HIDE DEF todo, Begun
  <2> QED BY <1>1, <2>1, <2>2, <2>3 DEF Kinds
<1>8. ASSUME NEW todo \in Seq(Request), todo \in Seq(Takes), Managed(r), Begin(a, "revoke", r, todo)
      PROVE  Consistent'
  <2>1. ASSUME Begun("revoke", todo), Settled(r) PROVE Progress(a)'
    <3>1. op'[a].undo = <<>> /\ <<>> \in Seq(Gives)
      BY <2>1
    <3>2. Done(a)' = {}
      BY <3>1 DEF Done
    <3>3. doris[r] = [doris[r] EXCEPT !.privs = grants[r] \ {}]
      BY <1>0, <1>8, <2>1 DEF Settled, Agrees, RoleState
    <3>4. Taking(a)'
      BY <1>8, <2>1, <3>1, <3>2, <3>3 DEF Taking, Managed
    <3> QED BY <2>1, <3>4 DEF Progress
  <2> HIDE DEF Begun
  <2> QED BY <1>1, <1>8, <2>1 DEF Kinds
<1>9. CASE RevokeAll(a, r)
  <2>1. All("revoke", grants[r]) \in Seq(Request)
    BY <1>0, AllType
  <2>2. All("revoke", grants[r]) \in Seq(Takes)
    BY <1>0, AllTakes
  <2> QED BY <1>8, <1>9, <2>1, <2>2 DEF RevokeAll
<1>10. ASSUME NEW target \in Targets, RevokeSelect(a, r, target)
       PROVE  Consistent'
  <2>1. [verb |-> "revoke", on |-> target] \in Takes
    BY <1>5 DEF Takes
  <2>2. <<[verb |-> "revoke", on |-> target]>> \in Seq(Request) /\ <<[verb |-> "revoke", on |-> target]>> \in Seq(Takes)
    BY <1>3, <1>5, <2>1, Single
  <2> QED BY <1>8, <1>10, <2>2 DEF RevokeSelect
<1>11. ASSUME NEW target \in Targets, GrantSelect(a, r, target)
       PROVE  Consistent'
  <2> DEFINE new == target \ grants[r]
             todo == <<[verb |-> "grant", on |-> new]>>
  <2>1. new \in SUBSET Assets /\ new \cap grants[r] = {}
    BY <1>5
  <2>2. todo \in Seq(Request)
    BY <1>3, <2>1, Single
  <2>3. Managed(r) /\ Begin(a, "grant", r, todo)
    BY <1>11 DEF GrantSelect
  <2> HIDE DEF new
  <2>4. ASSUME Begun("grant", todo) PROVE Progress(a)'
    <3>1. Giving(a)'
      BY <2>1, <2>3, <2>4 DEF Giving, Managed
    <3> QED BY <2>4, <3>1 DEF Progress
  <2> HIDE DEF todo, Begun
  <2> QED BY <1>1, <2>2, <2>3, <2>4 DEF Kinds
<1>12. ASSUME NEW p \in Policies, AddPolicy(a, r, p)
       PROVE  Consistent'
  <2> DEFINE todo == <<[verb |-> "add_policy", name |-> p]>>
  <2>1. todo \in Seq(Request)
    BY <1>4, Single
  <2>2. Managed(r) /\ Begin(a, "policy", r, todo)
    BY <1>12 DEF AddPolicy
  <2>3. ASSUME Begun("policy", todo) PROVE Progress(a)'
    BY <2>2, <2>3 DEF Progress, Filtering, Managed
  <2> HIDE DEF todo, Begun
  <2> QED BY <1>1, <2>1, <2>2, <2>3 DEF Kinds
<1>13. ASSUME NEW p \in Policies, FindPolicy(a, r, p)
       PROVE  Consistent'
  <2> DEFINE todo == <<[verb |-> "drop_policy", name |-> p]>>
  <2>1. todo \in Seq(Request)
    BY <1>4, Single
  <2> USE DEF Entry
  <2>2. /\ Managed(r) /\ op' = [op EXCEPT ![a] = Entry("policy", "wait", todo)]
        /\ UNCHANGED <<doris, identity, drift>>
    BY <1>13 DEF FindPolicy
  <2>3. op'[a] = Entry("policy", "wait", todo)
    BY <1>0, <2>2
  <2>4. Progress(a)'
    BY <2>2, <2>3 DEF Progress, Filtering, Managed, identity
  <2> QED BY <1>0, <2>1, <2>2, <2>4, BeginSound DEF Kinds
<1> QED BY <1>6, <1>7, <1>9, <1>10, <1>11, <1>12, <1>13

\* Steps of an operation that leave Doris and the projection alone.
LEMMA StillSound ==
  ASSUME SInv, Apart, NEW a \in Admins, op[a].at # "idle", NEW o, op' = [op EXCEPT ![a] = o],
         UNCHANGED <<doris, identity>>, ~drift' => ~drift,
         ~drift' => \/ o.at = "idle" /\ op[a].undo = <<>>
                    \/ o.at = "undo" /\ o = [op[a] EXCEPT !.at = "undo"]
                    \/ o.at = "run" /\ op[a].at = "wait" /\ o = [op[a] EXCEPT !.at = "run"],
         o.at # "idle" => o.role = op[a].role
  PROVE  Consistent'
<1>0. op[a] \in Saga /\ op[a].role \in Roles
  BY OnOthers
<1> PICK r \in Roles : r = op[a].role
  BY <1>0
<1>1. /\ op[a] \in Saga /\ r \in Roles /\ op'[a] = o
      /\ Held(a) \in RoleState /\ op[a].before \in RoleState
      /\ \A b \in Admins : b # a => op'[b] = op[b] /\ (op[b].at # "idle" => op[b].role # r)
      /\ ~drift => Sound(a)
  BY <1>0, OnOthers
<1>2. \A x \in Roles : doris'[x] = doris[x] /\ epoch'[x] = epoch[x] /\ grants'[x] = grants[x]
  BY DEF identity
<1>3. ASSUME ~drift', o.at = "idle" PROVE Settled(r)'
  <2>1. Sound(a) /\ op[a].undo = <<>>
    BY <1>1, <1>3
  <2>2. Held(a) = op[a].before
    BY <1>1, <2>1, NothingDone
  <2>3. Agrees(Held(a), r)
    BY <2>1, <2>2 DEF Sound
  <2>4. doris'[r] = Held(a) /\ epoch'[r] = epoch[r] /\ grants'[r] = grants[r]
    BY <1>1, <1>2 DEF Held
  <2> QED BY <2>3, <2>4 DEF Settled, Agrees, Managed
<1>4. ASSUME ~drift', o.at # "idle" PROVE Sound(a)'
  <2>1. Sound(a)
    BY <1>1, <1>4
  <2>2. /\ op'[a].before = op[a].before /\ op'[a].role = op[a].role /\ op'[a].undo = op[a].undo
        /\ op'[a].todo = op[a].todo /\ op'[a].kind = op[a].kind
        /\ op'[a].at = "undo" \/ (op'[a].at = "run" /\ op[a].at = "wait")
    BY <1>1, <1>4 DEF Saga
  <2>3. Held(a)' = Held(a) /\ Done(a)' = Done(a)
    BY <2>2 DEF Held, Done
  <2>4. Progress(a) => Progress(a)'
    <3>1. (Creating(a) => Creating(a)') /\ (Deleting(a) => Deleting(a)')
      BY <2>2, <2>3 DEF Creating, Deleting, Managed, identity
    <3>2. (Giving(a) => Giving(a)') /\ (Taking(a) => Taking(a)')
      BY <2>2, <2>3 DEF Giving, Taking, Managed, identity
    <3>3. Filtering(a) => Filtering(a)'
      BY <2>2, <2>3, ZenonT(60) DEF Filtering, Managed, identity
    <3> QED BY <2>2, <3>1, <3>2, <3>3 DEF Progress
  <2> QED BY <2>1, <2>2, <2>3, <2>4 DEF Sound, Agrees, Managed, identity
<1>5. ~drift' => IF op'[a].at = "idle" THEN Settled(r)' ELSE Sound(a)'
  BY <1>1, <1>3, <1>4
<1>6. op'[a].at # "idle" => op'[a].role = r
  BY <1>1
<1>7. op[a].at # "idle" => op[a].role = r
  OBVIOUS
<1>8. \A b \in Admins : b # a => op'[b] = op[b] /\ (op[b].at # "idle" => op[b].role # r)
  BY <1>1
<1>9. r \in Roles
  BY <1>1
<1>10. \A x \in Roles : x # r => doris'[x] = doris[x] /\ epoch'[x] = epoch[x] /\ grants'[x] = grants[x]
  BY <1>2
<1> QED BY <1>5, <1>6, <1>7, <1>8, <1>9, <1>10, StepOf

LEMMA DropPolicyConsistent ==
  ASSUME SInv, Apart, NEW a \in Admins, DropPolicy(a)
  PROVE  Consistent'
<1>1. op[a].at = "wait" /\ op[a] \in Saga /\ UNCHANGED <<doris, identity, drift>>
  BY UnderWay DEF DropPolicy, SInv
<1>2. CASE op' = [op EXCEPT ![a].at = "run"]
  <2> DEFINE o == [op[a] EXCEPT !.at = "run"]
  <2>1. op' = [op EXCEPT ![a] = o] /\ o.at = "run" /\ o.role = op[a].role
    BY <1>1, <1>2 DEF Saga
  <2> HIDE DEF o
  <2> QED BY <1>1, <2>1, StillSound DEF o
<1>3. CASE op' = [op EXCEPT ![a] = Idle]
  <2>1. ~drift => op[a].undo = <<>>
    BY <1>1 DEF SInv, Consistent, Sound
  <2>2. Idle.at = "idle"
    BY DEF Idle
  <2> QED BY <1>1, <1>3, <2>1, <2>2, StillSound
<1> QED BY <1>2, <1>3 DEF DropPolicy

LEMMA RefuseConsistent ==
  ASSUME SInv, Apart, NEW a \in Admins, Refuse(a)
  PROVE  Consistent'
<1>1. op[a].at = "run" /\ op[a] \in Saga /\ UNCHANGED <<doris, identity, drift>>
  BY UnderWay DEF Refuse, Running, Undo, SInv
<1> DEFINE o == IF op[a].undo = <<>> THEN Idle ELSE [op[a] EXCEPT !.at = "undo"]
<1>2. op' = [op EXCEPT ![a] = o]
  BY DEF Refuse, Undo
<1>3. /\ \/ o.at = "idle" /\ op[a].undo = <<>>
         \/ o.at = "undo" /\ o = [op[a] EXCEPT !.at = "undo"]
      /\ o.at # "idle" => o.role = op[a].role
  BY <1>1 DEF Saga, Idle
<1> HIDE DEF o
<1> QED BY <1>1, <1>2, <1>3, StillSound

LEMMA CrashConsistent ==
  ASSUME SInv, Apart, NEW a \in Admins, Crash(a)
  PROVE  Consistent'
<1>1. /\ op[a].at # "idle" /\ UNCHANGED <<doris, identity>> /\ op' = [op EXCEPT ![a] = Idle]
      /\ ~drift' => ~drift /\ op[a].undo = <<>>
  BY DEF Crash, SInv, TInv, TypeOK
<1>2. Idle.at = "idle"
  BY DEF Idle
<1> QED BY <1>1, <1>2, StillSound

\* What each statement does, and what takes it back.
LEMMA RoleBack ==
  ASSUME NEW o, NEW e, e = Effect(NoRole, [verb |-> "create_role"])
  PROVE  /\ e = [NoRole EXCEPT !.role = TRUE]
         /\ Accepts(e, [verb |-> "drop_role"]) /\ Effect(e, [verb |-> "drop_role"]) = NoRole
         /\ Undoing(o, [verb |-> "create_role"]) = <<[verb |-> "drop_role"]>>
BY DEF Effect, Accepts, Undoing, NoRole

LEMMA UserBack ==
  ASSUME NEW o, NEW d, d = [NoRole EXCEPT !.role = TRUE],
         NEW e, e = Effect(d, [verb |-> "create_user"])
  PROVE  /\ e = [NoRole EXCEPT !.role = TRUE, !.user = TRUE]
         /\ Accepts(e, [verb |-> "drop_user"]) /\ Effect(e, [verb |-> "drop_user"]) = d
         /\ Undoing(o, [verb |-> "create_user"]) = <<[verb |-> "drop_user"]>> \o o.undo
<1>1. e = [NoRole EXCEPT !.role = TRUE, !.user = TRUE]
  BY DEF Effect, NoRole
<1>2. Accepts(e, [verb |-> "drop_user"]) /\ Effect(e, [verb |-> "drop_user"]) = [e EXCEPT !.user = FALSE]
  BY DEF Effect, Accepts
<1>4. [e EXCEPT !.user = FALSE] = d
  <2>1. /\ NoRole \in [role : BOOLEAN, user : BOOLEAN, privs : {{}}, policies : {{}}]
        /\ NoRole.user = FALSE
    BY DEF NoRole
  <2> QED BY <1>1, <2>1
<1>3. Undoing(o, [verb |-> "create_user"]) = <<[verb |-> "drop_user"]>> \o o.undo
  BY DEF Undoing
<1> QED BY <1>1, <1>2, <1>3, <1>4

LEMMA DropUserBack ==
  ASSUME NEW o, NEW b \in RoleState, b.role, b.user,
         NEW e, e = Effect(b, [verb |-> "drop_user"])
  PROVE  /\ e = [b EXCEPT !.user = FALSE]
         /\ Accepts(e, [verb |-> "restore_user"]) /\ Effect(e, [verb |-> "restore_user"]) = b
         /\ Undoing(o, [verb |-> "drop_user"]) = <<[verb |-> "restore_user"]>>
BY DEF Effect, Accepts, Undoing, RoleState

LEMMA DropRoleBack ==
  ASSUME NEW o, NEW b \in RoleState, NEW d, d = [b EXCEPT !.user = FALSE],
         NEW e, e = Effect(d, [verb |-> "drop_role"])
  PROVE  /\ e = NoRole
         /\ Undoing(o, [verb |-> "drop_role"]) =
              <<[verb |-> "create_role"], [verb |-> "create_user"]>> \o Restored(o.before, o.role)
<1>1. Undoing(o, [verb |-> "drop_role"]) =
        <<[verb |-> "create_role"], [verb |-> "create_user"]>> \o Restored(o.before, o.role)
  BY DEF Undoing
<1>2. e = NoRole
  BY DEF Effect, NoRole, RoleState
<1> QED BY <1>1, <1>2

LEMMA GrantBack ==
  ASSUME NEW b \in RoleState, NEW s \in Gives, NEW back \in Takes, back.on = s.on,
         s.on \cap b.privs = {}, NEW e, e = Effect(b, s)
  PROVE  /\ e.role = b.role /\ e.user = b.user /\ e.policies = b.policies
         /\ e.privs = b.privs \cup s.on
         /\ Accepts(e, back) /\ Effect(e, back) = b
<1>0. s.verb = "grant" /\ back.verb = "revoke" /\ [s EXCEPT !.verb = "revoke"] = back
  BY DEF Gives, Takes
<1>1. e = [b EXCEPT !.privs = b.privs \cup s.on]
  BY <1>0 DEF Effect
<1>2. Accepts(e, back)
  BY <1>0, <1>1 DEF Accepts, RoleState
<1>3. Effect(e, back) = [e EXCEPT !.privs = e.privs \ s.on]
  BY <1>0 DEF Effect
<1>4. e.privs \ s.on = b.privs
  BY <1>1 DEF RoleState
<1>5. [e EXCEPT !.privs = b.privs] = b
  BY <1>1 DEF RoleState
<1> QED BY <1>1, <1>2, <1>3, <1>4, <1>5 DEF RoleState

LEMMA RevokeBack ==
  ASSUME NEW d \in RoleState, d.role, NEW s \in Takes, NEW back \in Gives, back.on = s.on,
         Accepts(d, s), NEW e, e = Effect(d, s)
  PROVE  /\ e.role = d.role /\ e.user = d.user /\ e.policies = d.policies
         /\ e.privs = d.privs \ s.on
         /\ Accepts(e, back) /\ Effect(e, back) = d
<1>0. s.verb = "revoke" /\ back.verb = "grant" /\ [s EXCEPT !.verb = "grant"] = back
  BY DEF Gives, Takes
<1>1. e = [d EXCEPT !.privs = d.privs \ s.on] /\ s.on \subseteq d.privs
  BY <1>0 DEF Effect, Accepts
<1>2. Accepts(e, back)
  BY <1>0, <1>1 DEF Accepts, RoleState
<1>3. Effect(e, back) = [e EXCEPT !.privs = e.privs \cup s.on]
  BY <1>0 DEF Effect
<1>4. e.privs \cup s.on = d.privs
  BY <1>1 DEF RoleState
<1>5. [e EXCEPT !.privs = d.privs] = d
  BY <1>1 DEF RoleState
<1> QED BY <1>1, <1>2, <1>3, <1>4, <1>5 DEF RoleState

LEMMA AddBack ==
  ASSUME NEW b \in RoleState,
         NEW s \in [verb : {"add_policy"}, name : Policies],
         NEW back \in [verb : {"drop_policy"}, name : Policies], back.name = s.name,
         Accepts(b, s), NEW e, e = Effect(b, s)
  PROVE  /\ e.role = b.role /\ e.user = b.user /\ e.privs = b.privs
         /\ e.policies = b.policies \cup {s.name}
         /\ Accepts(e, back) /\ Effect(e, back) = b
<1>0. s.verb = "add_policy" /\ back.verb = "drop_policy" /\ [s EXCEPT !.verb = "drop_policy"] = back
  OBVIOUS
<1>1. e = [b EXCEPT !.policies = b.policies \cup {s.name}] /\ s.name \notin b.policies
  BY <1>0 DEF Effect, Accepts
<1>2. Accepts(e, back)
  BY <1>0, <1>1 DEF Accepts, RoleState
<1>3. Effect(e, back) = [e EXCEPT !.policies = e.policies \ {s.name}]
  BY <1>0 DEF Effect
<1>4. e.policies \ {s.name} = b.policies
  BY <1>1 DEF RoleState
<1>5. [e EXCEPT !.policies = b.policies] = b
  BY <1>1 DEF RoleState
<1> QED BY <1>1, <1>2, <1>3, <1>4, <1>5 DEF RoleState

LEMMA DropBack ==
  ASSUME NEW b \in RoleState, b.role,
         NEW s \in [verb : {"drop_policy"}, name : Policies],
         NEW back \in [verb : {"add_policy"}, name : Policies], back.name = s.name,
         Accepts(b, s), NEW e, e = Effect(b, s)
  PROVE  /\ e.role = b.role /\ e.user = b.user /\ e.privs = b.privs
         /\ e.policies = b.policies \ {s.name}
         /\ Accepts(e, back) /\ Effect(e, back) = b
<1>0. s.verb = "drop_policy" /\ back.verb = "add_policy" /\ [s EXCEPT !.verb = "add_policy"] = back
  OBVIOUS
<1>1. e = [b EXCEPT !.policies = b.policies \ {s.name}] /\ s.name \in b.policies
  BY <1>0 DEF Effect, Accepts
<1>2. Accepts(e, back)
  BY <1>0, <1>1 DEF Accepts, RoleState
<1>3. Effect(e, back) = [e EXCEPT !.policies = e.policies \cup {s.name}]
  BY <1>0 DEF Effect
<1>4. e.policies \cup {s.name} = b.policies
  BY <1>1 DEF RoleState
<1>5. [e EXCEPT !.policies = b.policies] = b
  BY <1>1 DEF RoleState
<1> QED BY <1>1, <1>2, <1>3, <1>4, <1>5 DEF RoleState

LEMMA BackLast ==
  ASSUME NEW o, NEW s, NEW back
  PROVE  /\ s \in Gives /\ back \in Takes /\ back.on = s.on =>
              Undoing(o, s) = <<back>> \o o.undo
         /\ s \in Takes /\ back \in Gives /\ back.on = s.on =>
              Undoing(o, s) = <<back>> \o o.undo
<1>1. ASSUME s \in Gives, back \in Takes, back.on = s.on
      PROVE  Undoing(o, s) = <<back>> \o o.undo
  <2>1. s.verb = "grant" /\ [s EXCEPT !.verb = "revoke"] = back
    BY <1>1 DEF Gives, Takes
  <2>2. Undoing(o, s) = <<[s EXCEPT !.verb = "revoke"]>> \o o.undo
    BY <2>1 DEF Undoing
  <2> QED BY <2>1, <2>2
<1>2. ASSUME s \in Takes, back \in Gives, back.on = s.on
      PROVE  Undoing(o, s) = <<back>> \o o.undo
  <2>1. s.verb = "revoke" /\ [s EXCEPT !.verb = "grant"] = back
    BY <1>2 DEF Gives, Takes
  <2>2. Undoing(o, s) = <<[s EXCEPT !.verb = "grant"]>> \o o.undo
    BY <2>1 DEF Undoing
  <2> QED BY <2>1, <2>2
<1> QED BY <1>1, <1>2

LEMMA PolicyBackLast ==
  ASSUME NEW o, NEW p
  PROVE  /\ Undoing(o, [verb |-> "add_policy", name |-> p]) = <<[verb |-> "drop_policy", name |-> p]>>
         /\ p \in o.before.policies => Undoing(o, [verb |-> "drop_policy", name |-> p]) =
                                         <<[verb |-> "add_policy", name |-> p]>>
BY DEF Undoing

LEMMA DropNeeds ==
  ASSUME NEW b, NEW s, s.verb = "drop_policy", Accepts(b, s)
  PROVE  s.name \in b.policies
BY DEF Accepts

LEMMA KeepsUser ==
  ASSUME NEW d \in RoleState, NEW s, s.verb \in {"revoke", "drop_policy"}
  PROVE  Effect(d, s).role = d.role /\ Effect(d, s).user = d.user
<1>1. CASE s.verb = "revoke"
  BY <1>1 DEF Effect, RoleState
<1>2. CASE s.verb = "drop_policy"
  BY <1>2 DEF Effect, RoleState
<1> QED BY <1>1, <1>2

\* A list with one more entry in front.
LEMMA LongerByOne ==
  ASSUME NEW old \in Seq(Statement), NEW s
  PROVE  /\ Len(old) \in Nat /\ DOMAIN old = 1..Len(old)
         /\ DOMAIN (<<s>> \o old) = 1..(Len(old) + 1)
         /\ (<<s>> \o old)[1] = s
         /\ \A i \in 1..Len(old) : (<<s>> \o old)[i + 1] = old[i]
<1> DEFINE n == Len(old)
<1>1. n \in Nat /\ DOMAIN old = 1..n
  OBVIOUS
<1>2. Len(<<s>> \o old) = n + 1
  BY SMTT(40)
<1>3. DOMAIN (<<s>> \o old) = 1..(n + 1)
  BY <1>2, SMTT(40)
<1>4. (<<s>> \o old)[1] = s
  BY <1>1, SMTT(40)
<1>5. ASSUME NEW i \in 1..n PROVE (<<s>> \o old)[i + 1] = old[i]
  BY <1>1, <1>5, SMTT(40)
<1> QED BY <1>1, <1>3, <1>4, <1>5

\* What an operation has sent, after one more statement.
LEMMA DoneNext ==
  ASSUME NEW a \in Admins, op[a].undo \in Seq(Statement), NEW s,
         op'[a].undo = <<s>> \o op[a].undo
  PROVE  Done(a)' = s.on \cup Done(a)
<1> PICK old \in Seq(Statement) : old = op[a].undo
  OBVIOUS
<1> PICK more : more = <<s>> \o old
  OBVIOUS
<1>1. /\ Len(old) \in Nat /\ DOMAIN old = 1..Len(old) /\ DOMAIN more = 1..(Len(old) + 1)
      /\ more[1] = s /\ \A i \in 1..Len(old) : more[i + 1] = old[i]
  BY LongerByOne
<1>2. Done(a)' = UNION {more[i].on : i \in DOMAIN more}
  BY DEF Done
<1>3. Done(a) = UNION {old[i].on : i \in DOMAIN old}
  BY DEF Done
<1> PICK k : k = Len(old)
  OBVIOUS
<1>4. /\ k \in Nat /\ DOMAIN old = 1..k /\ DOMAIN more = 1..(k + 1)
      /\ more[1] = s /\ \A i \in 1..k : more[i + 1] = old[i]
  BY <1>1
<1>5. ASSUME NEW x, x \in UNION {more[i].on : i \in DOMAIN more}
      PROVE  x \in s.on \cup UNION {old[i].on : i \in DOMAIN old}
  <2>1. PICK i \in 1..(k + 1) : x \in more[i].on
    BY <1>4, <1>5
  <2>2. CASE i = 1
    BY <1>4, <2>1, <2>2
  <2>3. CASE i # 1
    <3>1. i - 1 \in 1..k /\ (i - 1) + 1 = i
      BY <1>4, <2>3
    <3>2. x \in old[i - 1].on
      BY <1>4, <2>1, <3>1
    <3> QED BY <1>4, <3>1, <3>2
  <2> QED BY <2>2, <2>3
<1>6. ASSUME NEW x, x \in s.on \cup UNION {old[i].on : i \in DOMAIN old}
      PROVE  x \in UNION {more[i].on : i \in DOMAIN more}
  <2>1. 1 \in DOMAIN more /\ \A i \in 1..k : i + 1 \in DOMAIN more
    BY <1>4
  <2>2. CASE x \in s.on
    BY <1>4, <2>1, <2>2, SMTT(40)
  <2>3. ASSUME NEW i \in 1..k, x \in old[i].on PROVE x \in UNION {more[j].on : j \in DOMAIN more}
    <3> PICK j : j = i + 1
      OBVIOUS
    <3>1. j \in DOMAIN more /\ more[j] = old[i]
      BY <1>4, <2>1, <2>3
    <3>2. x \in more[j].on
      BY <2>3, <3>1
    <3> QED BY <3>1, <3>2
  <2> QED BY <1>4, <1>6, <2>2, <2>3
<1> QED BY <1>2, <1>3, <1>5, <1>6

\* A statement that is sent is one step further, and leads back.
LEMMA SendSound ==
  ASSUME SInv, Apart, ~drift, NEW a \in Admins, Send(a),
         NEW r \in Roles, r = op[a].role, NEW b \in RoleState, b = op[a].before,
         NEW d \in RoleState, d = Held(a), NEW s \in Request, s = Head(op[a].todo),
         NEW e \in RoleState, e = Effect(d, s)
  PROVE  Restores(e, Undoing(op[a], s), b) /\ Progress(a)'
<1>1. /\ op[a] \in Saga /\ Sound(a) /\ op[a].undo \in Seq(Statement)
      /\ op[a].at = "run" /\ op[a].todo # <<>> /\ Accepts(d, s) /\ r \in Roles
      /\ Agrees(b, r) /\ Restores(d, op[a].undo, b) /\ Progress(a)
      /\ grants[r] \in SUBSET Assets /\ TypeOK
  <2>1. op[a].at = "run" /\ op[a].todo # <<>> /\ Accepts(d, s)
    BY DEF Send, Running, Held
  <2>2. op[a] \in Saga /\ Sound(a)
    BY <2>1, UnderWay DEF SInv, Consistent
  <2> QED BY <2>1, <2>2 DEF Sound, Saga, SInv, TInv, TypeOK
<1>2. /\ op'[a].kind = op[a].kind /\ op'[a].role = r /\ op'[a].before = b
      /\ op'[a].todo = Tail(op[a].todo) /\ op'[a].undo = Undoing(op[a], s)
      /\ Held(a)' = e /\ grants' = grants /\ epoch' = epoch
  <2>1. op'[a] = [op[a] EXCEPT !.todo = Tail(@), !.undo = Undoing(op[a], s)]
    BY DEF Send, SInv, TInv, TypeOK
  <2>2. /\ op'[a].kind = op[a].kind /\ op'[a].role = r /\ op'[a].before = b
        /\ op'[a].todo = Tail(op[a].todo) /\ op'[a].undo = Undoing(op[a], s)
    BY <1>1, <2>1 DEF Saga
  <2>3. doris'[r] = e
    BY <1>1 DEF Send, SInv, TInv, TypeOK, Held
  <2> QED BY <2>2, <2>3 DEF Held, Send, identity
<1>3. op[a].undo = <<>> => d = b
  BY <1>1, RestoresNothing
<1>4. <<>> \in Seq(Statement) /\ s \in Statement
  BY DEF Request
<1>5. ASSUME NEW back \in Statement, Accepts(e, back), Effect(e, back) = d,
             Undoing(op[a], s) = <<back>> \o op[a].undo
      PROVE  Restores(e, Undoing(op[a], s), b)
  <2>1. Restores(e, <<back>> \o op[a].undo, b)
    BY <1>1, <1>5, RestoresFirst
  <2> QED BY <1>5, <2>1
<1>6. ASSUME NEW back \in Statement, Accepts(e, back), Effect(e, back) = b,
             Undoing(op[a], s) = <<back>>
      PROVE  Restores(e, Undoing(op[a], s), b)
  <2>1. Restores(e, <<back>>, Effect(e, back))
    BY <1>6, RestoresOne
  <2> QED BY <1>6, <2>1
<1>7. CASE op[a].kind = "create"
  <2>1. ~Managed(r) /\ b = NoRole /\ Creating(a)
    BY <1>1, <1>7 DEF Progress, Creating, Agrees
  <2>2. CASE op[a].todo = <<[verb |-> "create_role"], [verb |-> "create_user"]>> /\ op[a].undo = <<>>
    <3>1. s = [verb |-> "create_role"] /\ Tail(op[a].todo) = <<[verb |-> "create_user"]>> /\ d = NoRole
      BY <1>3, <2>1, <2>2
    <3>2. e = Effect(NoRole, [verb |-> "create_role"])
      BY <3>1
    <3>3. /\ e = [NoRole EXCEPT !.role = TRUE]
          /\ Accepts(e, [verb |-> "drop_role"]) /\ Effect(e, [verb |-> "drop_role"]) = NoRole
          /\ Undoing(op[a], [verb |-> "create_role"]) = <<[verb |-> "drop_role"]>>
      BY <3>2, RoleBack
    <3>4. [verb |-> "drop_role"] \in Statement
      BY DEF Statement
    <3>5. Restores(e, Undoing(op[a], s), b)
      BY <1>6, <2>1, <3>1, <3>3, <3>4
    <3>6. Progress(a)'
      BY <1>2, <1>7, <2>1, <3>1, <3>3 DEF Progress, Creating, Managed
    <3> QED BY <3>5, <3>6
  <2>3. CASE op[a].todo = <<[verb |-> "create_user"]>> /\ d = [NoRole EXCEPT !.role = TRUE]
    <3>1. s = [verb |-> "create_user"] /\ Tail(op[a].todo) = <<>>
      BY <2>3
    <3>2. e = Effect(d, [verb |-> "create_user"])
      BY <3>1
    <3>3. /\ e = [NoRole EXCEPT !.role = TRUE, !.user = TRUE]
          /\ Accepts(e, [verb |-> "drop_user"]) /\ Effect(e, [verb |-> "drop_user"]) = d
          /\ Undoing(op[a], [verb |-> "create_user"]) = <<[verb |-> "drop_user"]>> \o op[a].undo
      BY <2>3, <3>2, UserBack
    <3>4. [verb |-> "drop_user"] \in Statement
      BY DEF Statement
    <3>5. Restores(e, Undoing(op[a], s), b)
      BY <1>5, <3>1, <3>3, <3>4
    <3>6. Progress(a)'
      BY <1>2, <1>7, <2>1, <3>1, <3>3 DEF Progress, Creating, Managed
    <3> QED BY <3>5, <3>6
  <2> QED BY <1>1, <2>1, <2>2, <2>3 DEF Creating
<1>8. CASE op[a].kind = "delete"
  <2>1. Managed(r) /\ b.role /\ b.user /\ Deleting(a)
    BY <1>1, <1>8 DEF Progress, Deleting, Agrees
  <2>2. CASE op[a].todo = <<[verb |-> "drop_user"], [verb |-> "drop_role"]>> /\ op[a].undo = <<>>
    <3>1. s = [verb |-> "drop_user"] /\ Tail(op[a].todo) = <<[verb |-> "drop_role"]>> /\ d = b
      BY <1>3, <2>2
    <3>2. e = Effect(b, [verb |-> "drop_user"])
      BY <3>1
    <3>3. /\ e = [b EXCEPT !.user = FALSE]
          /\ Accepts(e, [verb |-> "restore_user"]) /\ Effect(e, [verb |-> "restore_user"]) = b
          /\ Undoing(op[a], [verb |-> "drop_user"]) = <<[verb |-> "restore_user"]>>
      BY <2>1, <3>2, DropUserBack
    <3>4. [verb |-> "restore_user"] \in Statement
      BY DEF Statement
    <3>5. Restores(e, Undoing(op[a], s), b)
      BY <1>6, <3>1, <3>3, <3>4
    <3>6. Progress(a)'
      BY <1>2, <1>8, <2>1, <3>1, <3>3 DEF Progress, Deleting, Managed
    <3> QED BY <3>5, <3>6
  <2>3. CASE op[a].todo = <<[verb |-> "drop_role"]>> /\ d = [b EXCEPT !.user = FALSE]
    <3>1. s = [verb |-> "drop_role"] /\ Tail(op[a].todo) = <<>>
      BY <2>3
    <3>2. e = Effect(d, [verb |-> "drop_role"])
      BY <3>1
    <3>3. /\ e = NoRole
          /\ Undoing(op[a], [verb |-> "drop_role"]) =
               <<[verb |-> "create_role"], [verb |-> "create_user"]>> \o Restored(op[a].before, op[a].role)
      BY <2>3, <3>2, DropRoleBack
    <3>4. Restores(NoRole, <<[verb |-> "create_role"], [verb |-> "create_user"]>> \o Restored(b, r), b)
      BY <1>1, <2>1, RestoresRole
    <3>5. Restores(e, Undoing(op[a], s), b)
      BY <3>1, <3>3, <3>4
    <3>6. Progress(a)'
      BY <1>2, <1>8, <2>1, <3>1, <3>3 DEF Progress, Deleting, Managed
    <3> QED BY <3>5, <3>6
  <2> QED BY <1>1, <2>1, <2>2, <2>3 DEF Deleting
<1>9. CASE op[a].kind = "grant"
  <2>1. /\ Managed(r) /\ b.privs = grants[r]
        /\ \E new \in SUBSET Assets : /\ op[a].todo = <<[verb |-> "grant", on |-> new]>>
                                      /\ new \cap grants[r] = {}
        /\ op[a].undo = <<>> /\ d = b
    BY <1>1, <1>3, <1>9 DEF Progress, Giving, Agrees
  <2>2. PICK new \in SUBSET Assets : /\ op[a].todo = <<[verb |-> "grant", on |-> new]>>
                                     /\ new \cap grants[r] = {}
    BY <2>1
  <2>3. s = [verb |-> "grant", on |-> new] /\ Tail(op[a].todo) = <<>>
    BY <2>2
  <2>4. e = Effect(b, s) /\ s \in Gives /\ s.on \cap b.privs = {}
    BY <2>1, <2>2, <2>3 DEF Gives
  <2> PICK back \in Takes : back = [verb |-> "revoke", on |-> new]
    BY DEF Takes
  <2>12. back \in Statement /\ back.on = s.on /\ s.on = new
    BY <2>3 DEF Takes, Statement
  <2>5. /\ e.role = b.role /\ e.user = b.user /\ e.policies = b.policies
        /\ e.privs = b.privs \cup s.on
        /\ Accepts(e, back) /\ Effect(e, back) = b
    BY <2>4, <2>12, GrantBack
  <2>6. Accepts(e, back) /\ Effect(e, back) = d /\ Undoing(op[a], s) = <<back>> \o op[a].undo
    BY <2>1, <2>4, <2>5, <2>12, BackLast
  <2>7. Restores(e, Undoing(op[a], s), b)
    BY <1>5, <2>6, <2>12
  <2>8. Done(a)' = back.on \cup Done(a)
    BY <1>1, <1>2, <2>6, DoneNext
  <2>9. Done(a) = {} /\ back.on = new
    BY <2>1 DEF Done
  <2>10. Done(a)' = new
    BY <2>8, <2>9
  <2>11. Giving(a)'
    <3>1. e = [b EXCEPT !.privs = grants[r] \cup new]
      BY <2>1, <2>5, <2>12 DEF RoleState
    <3> QED BY <1>2, <2>1, <2>3, <2>10, <3>1 DEF Giving, Managed
  <2> QED BY <1>2, <1>9, <2>7, <2>11 DEF Progress
<1>10. CASE op[a].kind = "revoke"
  <2>1. /\ Managed(r) /\ b.role /\ b.privs = grants[r]
        /\ op[a].todo \in Seq(Takes) /\ op[a].undo \in Seq(Gives)
        /\ d = [b EXCEPT !.privs = grants[r] \ Done(a)]
    BY <1>1, <1>10 DEF Progress, Taking, Agrees
  <2>2. s \in Takes /\ Tail(op[a].todo) \in Seq(Takes)
    BY <1>1, <2>1
  <2> PICK on \in SUBSET Assets : s = [verb |-> "revoke", on |-> on]
    BY <2>2 DEF Takes
  <2> PICK back \in Gives : back = [verb |-> "grant", on |-> on]
    BY DEF Gives
  <2>7. back \in Statement /\ back.on = s.on /\ s.on = on
    BY DEF Gives, Statement
  <2>3. d.role
    BY <2>1 DEF RoleState
  <2>4. /\ e.role = d.role /\ e.user = d.user /\ e.policies = d.policies
        /\ e.privs = d.privs \ s.on
        /\ Accepts(e, back) /\ Effect(e, back) = d
    <3>1. Accepts(e, back)
      BY <1>1, <2>2, <2>3, <2>7, RevokeBack
    <3>2. Effect(e, back) = d
      BY <1>1, <2>2, <2>3, <2>7, RevokeBack
    <3>3. e.role = d.role /\ e.user = d.user
      <4>1. s.verb \in {"revoke", "drop_policy"}
        BY <2>2 DEF Takes
      <4> QED BY <4>1, KeepsUser
    <3>4. e.policies = d.policies /\ e.privs = d.privs \ s.on
      BY <1>1, <2>2, <2>3, <2>7, RevokeBack
    <3> QED BY <3>1, <3>2, <3>3, <3>4
  <2>5. Accepts(e, back) /\ Effect(e, back) = d /\ Undoing(op[a], s) = <<back>> \o op[a].undo
    BY <2>2, <2>4, <2>7, BackLast
  <2>6. Restores(e, Undoing(op[a], s), b)
    BY <1>5, <2>5, <2>7
  <2>8. Done(a)' = back.on \cup Done(a)
    BY <1>1, <1>2, <2>5, DoneNext
  <2>9. op'[a].undo \in Seq(Gives)
    <3>1. <<back>> \in Seq(Gives)
      BY <2>7, Single
    <3>2. <<back>> \o op[a].undo \in Seq(Gives)
      BY <2>1, <3>1
    <3> QED BY <1>2, <2>5, <3>2
  <2>10. d.privs \ on = grants[r] \ Done(a)'
    BY <2>1, <2>7, <2>8 DEF RoleState
  <2>11. e = [b EXCEPT !.privs = d.privs \ on]
    <3>1. d.role = b.role /\ d.user = b.user /\ d.policies = b.policies
      BY <2>1 DEF RoleState
    <3>2. e.role = b.role /\ e.user = b.user /\ e.policies = b.policies /\ e.privs = d.privs \ on
      BY <2>4, <2>7, <3>1
    <3> QED BY <3>2 DEF RoleState
  <2>12. Taking(a)'
    <3>1. e = [b EXCEPT !.privs = grants[r] \ Done(a)']
      BY <2>10, <2>11
    <3>2. Managed(r)'
      BY <1>2, <2>1 DEF Managed
    <3>3. op'[a].todo \in Seq(Takes)
      BY <1>2, <2>2
    <3> QED BY <1>2, <2>9, <3>1, <3>2, <3>3 DEF Taking, Managed
  <2> QED BY <1>2, <1>10, <2>6, <2>12 DEF Progress
<1>11. CASE op[a].kind = "policy"
  <2>1. Managed(r) /\ op[a].undo = <<>> /\ d = b /\ b.role
    BY <1>1, <1>3, <1>11 DEF Progress, Filtering, Agrees
  <2>2. PICK verb \in {"add_policy", "drop_policy"}, p \in Policies :
          op[a].todo = <<[verb |-> verb, name |-> p]>>
    BY <1>1, <1>11 DEF Progress, Filtering
  <2>3. s = [verb |-> verb, name |-> p] /\ Tail(op[a].todo) = <<>>
    BY <2>2
  <2>4. ASSUME NEW names \in SUBSET Policies, e = [b EXCEPT !.policies = names]
        PROVE  Progress(a)'
    <3>1. Filtering(a)'
      BY <1>2, <2>1, <2>3, <2>4 DEF Filtering, Managed
    <3> QED BY <1>2, <1>11, <3>1 DEF Progress
  <2>5. CASE verb = "add_policy"
    <3> PICK back \in [verb : {"drop_policy"}, name : Policies] :
               back = [verb |-> "drop_policy", name |-> p]
      OBVIOUS
    <3>1. /\ s \in [verb : {"add_policy"}, name : Policies] /\ back \in Statement
          /\ back.name = s.name /\ s.name = p
      BY <2>3, <2>5 DEF Statement
    <3>2. Accepts(b, s) /\ e = Effect(b, s)
      BY <1>1, <2>1
    <3>3. /\ e.role = b.role /\ e.user = b.user /\ e.privs = b.privs
          /\ e.policies = b.policies \cup {s.name}
          /\ Accepts(e, back) /\ Effect(e, back) = b
      BY <3>1, <3>2, AddBack
    <3>6. Undoing(op[a], s) = <<back>>
      BY <2>3, <2>5, PolicyBackLast
    <3>4. b.policies \cup {s.name} \in SUBSET Policies
      BY <3>1 DEF RoleState
    <3>5. Progress(a)'
      <4>1. e = [b EXCEPT !.policies = e.policies]
        BY <3>3 DEF RoleState
      <4> QED BY <2>4, <3>3, <3>4, <4>1
    <3> QED BY <1>6, <3>1, <3>3, <3>5, <3>6
  <2>6. CASE verb = "drop_policy"
    <3> PICK back \in [verb : {"add_policy"}, name : Policies] :
               back = [verb |-> "add_policy", name |-> p]
      OBVIOUS
    <3>1. /\ s \in [verb : {"drop_policy"}, name : Policies] /\ back \in Statement
          /\ back.name = s.name /\ s.name = p
      BY <2>3, <2>6 DEF Statement
    <3>2. Accepts(b, s) /\ e = Effect(b, s)
      BY <1>1, <2>1
    <3>3. /\ e.role = b.role /\ e.user = b.user /\ e.privs = b.privs
          /\ e.policies = b.policies \ {s.name}
          /\ Accepts(e, back) /\ Effect(e, back) = b
      <4>1. Accepts(e, back)
        BY <2>1, <3>1, <3>2, DropBack
      <4>2. Effect(e, back) = b
        BY <2>1, <3>1, <3>2, DropBack
      <4>3. e.role = b.role /\ e.user = b.user
        <5>1. s.verb \in {"revoke", "drop_policy"}
          BY <3>1
        <5> QED BY <3>2, <5>1, KeepsUser
      <4>4. e.privs = b.privs /\ e.policies = b.policies \ {s.name}
        BY <2>1, <3>1, <3>2, DropBack
      <4> QED BY <4>1, <4>2, <4>3, <4>4
    <3>6. Undoing(op[a], s) = <<back>>
      <4>1. p \in op[a].before.policies
        <5>1. s.verb = "drop_policy" /\ Accepts(b, s)
          BY <1>1, <2>1, <3>1
        <5>2. s.name \in b.policies
          BY <5>1, DropNeeds
        <5> QED BY <3>1, <5>2
      <4> QED BY <2>3, <2>6, <4>1, PolicyBackLast, ZenonT(60)
    <3>4. b.policies \ {s.name} \in SUBSET Policies
      BY <3>1 DEF RoleState
    <3>5. Progress(a)'
      <4>1. e = [b EXCEPT !.policies = e.policies]
        BY <3>3 DEF RoleState
      <4> QED BY <2>4, <3>3, <3>4, <4>1
    <3> QED BY <1>6, <3>1, <3>3, <3>5, <3>6
  <2> QED BY <2>2, <2>5, <2>6
<1>12. op[a].kind \in Kinds
  BY <1>1 DEF Saga
<1> QED BY <1>7, <1>8, <1>9, <1>10, <1>11, <1>12 DEF Kinds

LEMMA SendConsistent ==
  ASSUME SInv, Apart, NEW a \in Admins, Send(a)
  PROVE  Consistent'
<1>1. op[a].at = "run" /\ op[a].todo # <<>> /\ op[a] \in Saga
  BY UnderWay DEF Send, Running, SInv
<1> PICK r \in Roles : r = op[a].role
  BY <1>1 DEF Saga
<1> PICK b \in RoleState : b = op[a].before
  BY <1>1 DEF Saga
<1> PICK s \in Request : s = Head(op[a].todo)
  BY <1>1 DEF Saga
<1> PICK d \in RoleState : d = Held(a)
  BY DEF Held, SInv, TInv, TypeOK
<1> PICK e \in RoleState : e = Effect(d, s)
  BY EffectType DEF Request
<1> PICK back : back = Undoing(op[a], s)
  OBVIOUS
<1>2. op' = [op EXCEPT ![a] = [op[a] EXCEPT !.todo = Tail(op[a].todo), !.undo = back]]
  BY <1>1 DEF Send, SInv, TInv, TypeOK
<1>3. /\ op'[a] = [op[a] EXCEPT !.todo = Tail(op[a].todo), !.undo = back]
      /\ \A x \in Admins : x # a => op'[x] = op[x] /\ (op[x].at # "idle" => op[x].role # r)
      /\ ~drift => Sound(a)
  BY <1>1, <1>2, OnOthers
<1>4. /\ op'[a].at = "run" /\ op'[a].role = r /\ op'[a].before = b /\ op'[a].undo = back
  BY <1>1, <1>3 DEF Saga
<1>5. doris' = [doris EXCEPT ![r] = e] /\ grants' = grants /\ epoch' = epoch /\ drift' = drift
  BY DEF Send, identity, Held
<1>6. doris'[r] = e /\ \A x \in Roles : x # r =>
        doris'[x] = doris[x] /\ epoch'[x] = epoch[x] /\ grants'[x] = grants[x]
  BY <1>5 DEF SInv, TInv, TypeOK
<1>7. ASSUME ~drift' PROVE Sound(a)'
  <2>1. ~drift /\ Sound(a)
    BY <1>3, <1>5, <1>7
  <2>2. Restores(e, back, b) /\ Progress(a)'
    BY <2>1, SendSound
  <2>3. Agrees(b, r)
    BY <2>1 DEF Sound
  <2>4. Held(a)' = e
    BY <1>4, <1>6 DEF Held
  <2>5. Agrees(b, r)'
    BY <1>5, <2>3 DEF Agrees, Managed
  <2> QED BY <1>4, <2>2, <2>4, <2>5 DEF Sound
<1>8. ~drift' => IF op'[a].at = "idle" THEN Settled(r)' ELSE Sound(a)'
  BY <1>4, <1>7
<1>9. (op[a].at # "idle" => op[a].role = r) /\ (op'[a].at # "idle" => op'[a].role = r)
  BY <1>4
<1>10. ~drift' => ~drift
  BY <1>5
<1> QED BY <1>3, <1>6, <1>8, <1>9, <1>10, StepOf, ZenonT(60)

\* What is committed is what Doris has been told.
LEMMA CommitConsistent ==
  ASSUME SInv, Apart, NEW a \in Admins, Commit(a)
  PROVE  Consistent'
<1>1. op[a].at = "run" /\ op[a].todo = <<>> /\ op[a] \in Saga
  BY UnderWay DEF Commit, Running, SInv
<1> PICK r \in Roles : r = op[a].role
  BY <1>1 DEF Saga
<1> PICK b \in RoleState : b = op[a].before
  BY <1>1 DEF Saga
<1>2. op' = [op EXCEPT ![a] = Idle] /\ UNCHANGED <<doris, drift>>
  BY DEF Commit
<1>3. /\ op'[a] = Idle /\ Held(a) \in RoleState
      /\ \A x \in Admins : x # a => op'[x] = op[x] /\ (op[x].at # "idle" => op[x].role # r)
      /\ ~drift => Sound(a)
  BY <1>1, <1>2, OnOthers
<1>4. /\ grants' = [grants EXCEPT ![r] = Written(op[a], r)]
      /\ epoch' = [epoch EXCEPT ![r] = CASE op[a].kind = "delete" -> 0
                                         [] op[a].kind = "grant" -> @
                                         [] OTHER -> clock + 1]
      /\ grants \in [Roles -> SUBSET Assets] /\ epoch \in [Roles -> 0..MaxEpoch] /\ clock \in Nat
  BY DEF Commit, SInv, TInv, TypeOK
<1>5. \A x \in Roles : x # r => doris'[x] = doris[x] /\ epoch'[x] = epoch[x] /\ grants'[x] = grants[x]
  BY <1>2, <1>4
<1>6. /\ grants'[r] = Written(op[a], r)
      /\ op[a].kind = "delete" => epoch'[r] = 0
      /\ op[a].kind = "grant" => epoch'[r] = epoch[r]
      /\ op[a].kind \in {"create", "revoke", "policy"} => epoch'[r] # 0
  BY <1>4
<1>7. ASSUME ~drift' PROVE Settled(r)'
  <2> PICK d \in RoleState : d = Held(a)
    BY <1>3
  <2>1. doris'[r] = d /\ Sound(a)
    BY <1>2, <1>3, <1>7 DEF Held
  <2>2. Agrees(b, r) /\ Progress(a)
    BY <1>1, <2>1 DEF Sound
  <2>3. SUFFICES IF epoch'[r] # 0 THEN d.role /\ d.user /\ d.privs = grants'[r] ELSE d = NoRole
    BY <2>1 DEF Settled, Agrees, Managed
  <2>4. CASE op[a].kind = "create"
    <3>1. d = [NoRole EXCEPT !.role = TRUE, !.user = TRUE]
      BY <1>1, <2>2, <2>4 DEF Progress, Creating
    <3>2. grants'[r] = {}
      BY <1>6, <2>4 DEF Written
    <3> QED BY <1>6, <2>4, <3>1, <3>2 DEF NoRole
  <2>5. CASE op[a].kind = "delete"
    <3>1. d = NoRole
      BY <1>1, <2>2, <2>5 DEF Progress, Deleting
    <3> QED BY <1>6, <2>5, <3>1
  <2>6. CASE op[a].kind = "grant"
    <3>1. /\ Managed(r) /\ d = [b EXCEPT !.privs = grants[r] \cup Done(a)]
      BY <1>1, <2>2, <2>6 DEF Progress, Giving
    <3>2. grants'[r] = grants[r] \cup Done(a)
      BY <1>6, <2>6 DEF Written, Done
    <3>3. epoch'[r] # 0
      BY <1>6, <2>6, <3>1 DEF Managed
    <3>4. b.role /\ b.user
      BY <2>2, <3>1 DEF Agrees
    <3>5. d.role /\ d.user /\ d.privs = grants[r] \cup Done(a)
      BY <3>1, <3>4 DEF RoleState
    <3> QED BY <3>2, <3>3, <3>5
  <2>7. CASE op[a].kind = "revoke"
    <3>1. Managed(r) /\ d = [b EXCEPT !.privs = grants[r] \ Done(a)]
      BY <2>2, <2>7 DEF Progress, Taking
    <3>2. grants'[r] = grants[r] \ Done(a)
      BY <1>6, <2>7 DEF Written, Done
    <3>3. epoch'[r] # 0
      BY <1>6, <2>7
    <3>4. b.role /\ b.user
      BY <2>2, <3>1 DEF Agrees
    <3>5. d.role /\ d.user /\ d.privs = grants[r] \ Done(a)
      BY <3>1, <3>4 DEF RoleState
    <3> QED BY <3>2, <3>3, <3>5
  <2>8. CASE op[a].kind = "policy"
    <3>1. Managed(r) /\ \E names \in SUBSET Policies : d = [b EXCEPT !.policies = names]
      BY <1>1, <2>2, <2>8 DEF Progress, Filtering
    <3>2. grants'[r] = grants[r]
      BY <1>6, <2>8 DEF Written
    <3>3. epoch'[r] # 0
      BY <1>6, <2>8
    <3>4. b.role /\ b.user /\ b.privs = grants[r]
      BY <2>2, <3>1 DEF Agrees
    <3>5. d.role /\ d.user /\ d.privs = grants[r]
      BY <3>1, <3>4 DEF RoleState
    <3> QED BY <3>2, <3>3, <3>5
  <2>9. op[a].kind \in Kinds
    BY <1>1 DEF Saga
  <2> QED BY <2>4, <2>5, <2>6, <2>7, <2>8, <2>9 DEF Kinds
<1>8. op'[a].at = "idle"
  BY <1>3 DEF Idle
<1>9. ~drift' => IF op'[a].at = "idle" THEN Settled(r)' ELSE Sound(a)'
  BY <1>7, <1>8
<1>10. (op[a].at # "idle" => op[a].role = r) /\ (op'[a].at # "idle" => op'[a].role = r)
  BY <1>8
<1>11. ~drift' => ~drift
  BY <1>2
<1> QED BY <1>3, <1>5, <1>9, <1>10, <1>11, StepOf

\* A statement that is undone is one step back; the last one arrives.
LEMMA UndoneTo ==
  ASSUME SInv, Apart, NEW a \in Admins, Compensate(a), ~drift'
  PROVE  /\ ~drift /\ Sound(a) /\ op[a] \in Saga /\ op[a].undo # <<>>
         /\ Tail(op[a].undo) \in Seq(Statement)
         /\ doris' = [doris EXCEPT ![op[a].role] = Effect(Held(a), Head(op[a].undo))]
         /\ Restores(Effect(Held(a), Head(op[a].undo)), Tail(op[a].undo), op[a].before)
         /\ op' = [op EXCEPT ![a] = IF Tail(op[a].undo) = <<>> THEN Idle
                                    ELSE [op[a] EXCEPT !.undo = Tail(op[a].undo)]]
<1>1. op[a].at = "undo" /\ ~drift /\ Accepts(Held(a), Head(op[a].undo))
  BY DEF Compensate, Held, SInv, TInv, TypeOK
<1>2. op[a] \in Saga /\ op[a].undo # <<>> /\ Sound(a)
  BY <1>1, UnderWay DEF SInv, TInv, Unfinished, Consistent
<1>3. op[a].undo \in Seq(Statement) /\ Restores(Held(a), op[a].undo, op[a].before)
  BY <1>2 DEF Saga, Sound
<1>4. Restores(Effect(Held(a), Head(op[a].undo)), Tail(op[a].undo), op[a].before)
  BY <1>2, <1>3, RestoresRest
<1>5. Tail(op[a].undo) \in Seq(Statement)
  BY <1>2, <1>3
<1>6. doris' = [doris EXCEPT ![op[a].role] = Effect(Held(a), Head(op[a].undo))]
  BY <1>1 DEF Compensate, Held
<1>7. op' = [op EXCEPT ![a] = IF Tail(op[a].undo) = <<>> THEN Idle
                              ELSE [op[a] EXCEPT !.undo = Tail(op[a].undo)]]
  BY <1>1 DEF Compensate, Held
<1> QED BY <1>1, <1>2, <1>4, <1>5, <1>6, <1>7

LEMMA CompensateConsistent ==
  ASSUME SInv, Apart, NEW a \in Admins, Compensate(a)
  PROVE  Consistent'
<1>1. SUFFICES ASSUME ~drift' PROVE Consistent'
  BY DEF Consistent
<1>2. op[a].at # "idle" /\ op[a] \in Saga
  BY UnderWay DEF Compensate, SInv
<1> PICK r \in Roles : r = op[a].role
  BY <1>2 DEF Saga
<1> PICK b \in RoleState : b = op[a].before
  BY <1>2 DEF Saga
<1> PICK rest : rest = Tail(op[a].undo)
  OBVIOUS
<1> PICK e : e = Effect(Held(a), Head(op[a].undo))
  OBVIOUS
<1> PICK o : o = IF rest = <<>> THEN Idle ELSE [op[a] EXCEPT !.undo = rest]
  OBVIOUS
<1>3. /\ ~drift /\ Sound(a) /\ op[a].undo # <<>> /\ rest \in Seq(Statement)
      /\ doris' = [doris EXCEPT ![r] = e] /\ Restores(e, rest, b)
      /\ op' = [op EXCEPT ![a] = o]
  BY <1>1, UndoneTo
<1>4. /\ op'[a] = o
      /\ \A x \in Admins : x # a => op'[x] = op[x] /\ (op[x].at # "idle" => op[x].role # r)
  BY <1>2, <1>3, OnOthers, ZenonT(60)
<1>5. e \in RoleState
  <2>1. op[a].undo \in Seq(Statement)
    BY <1>2 DEF Saga
  <2>2. Head(op[a].undo) \in Statement
    BY <1>3, <2>1
  <2>3. Held(a) \in RoleState
    BY DEF Held, SInv, TInv, TypeOK
  <2> QED BY <2>2, <2>3, EffectType
<1>6. doris \in [Roles -> RoleState] /\ epoch' = epoch /\ grants' = grants
  BY DEF Compensate, identity, SInv, TInv, TypeOK
<1>7. /\ doris'[r] = e
      /\ \A x \in Roles : x # r => doris'[x] = doris[x] /\ epoch'[x] = epoch[x] /\ grants'[x] = grants[x]
  BY <1>3, <1>6
<1>8. Agrees(b, r) /\ Agrees(b, r)'
  BY <1>3, <1>6 DEF Sound, Agrees, Managed
<1>9. CASE rest = <<>>
  <2>1. e = b
    <3>1. Restores(e, <<>>, b)
      BY <1>3, <1>9
    <3> QED BY <1>5, <3>1, RestoresNothing
  <2>2. Settled(r)'
    BY <1>7, <1>8, <2>1 DEF Settled, Agrees, Managed
  <2>3. op'[a].at = "idle"
    BY <1>4, <1>9 DEF Idle
  <2>4. ~drift' => IF op'[a].at = "idle" THEN Settled(r)' ELSE Sound(a)'
    BY <2>2, <2>3
  <2>5. (op[a].at # "idle" => op[a].role = r) /\ (op'[a].at # "idle" => op'[a].role = r)
    BY <2>3
  <2> QED BY <1>3, <1>4, <1>7, <2>4, <2>5, StepOf, ZenonT(60)
<1>10. CASE rest # <<>>
  <2>1. /\ op'[a].at = "undo" /\ op'[a].role = r /\ op'[a].before = b /\ op'[a].undo = rest
    BY <1>2, <1>4, <1>10, ZenonT(60) DEF Saga, Compensate
  <2>2. Held(a)' = e
    BY <1>7, <2>1 DEF Held
  <2>3. Sound(a)'
    BY <1>3, <1>8, <2>1, <2>2 DEF Sound
  <2>4. ~drift' => IF op'[a].at = "idle" THEN Settled(r)' ELSE Sound(a)'
    BY <2>1, <2>3
  <2>5. (op[a].at # "idle" => op[a].role = r) /\ (op'[a].at # "idle" => op'[a].role = r)
    BY <2>1
  <2> QED BY <1>3, <1>4, <1>7, <2>4, <2>5, StepOf
<1> QED BY <1>9, <1>10

\* What has nothing to do with an operation.
LEMMA AsideConsistent ==
  ASSUME SInv, UNCHANGED <<doris, epoch, grants, op, drift>>
  PROVE  Consistent'
<1>1. ASSUME NEW r \in Roles PROVE Settled(r)' <=> Settled(r)
  BY DEF Settled, Agrees, Managed
<1>2. ASSUME NEW a \in Admins PROVE Sound(a)' <=> Sound(a)
  <2>1. Held(a)' = Held(a) /\ Done(a)' = Done(a)
    BY DEF Held, Done
  <2>2. (Creating(a)' <=> Creating(a)) /\ (Deleting(a)' <=> Deleting(a))
    BY <2>1 DEF Creating, Deleting, Managed
  <2>3. (Giving(a)' <=> Giving(a)) /\ (Taking(a)' <=> Taking(a)) /\ (Filtering(a)' <=> Filtering(a))
    BY <2>1 DEF Giving, Taking, Filtering, Managed
  <2>4. Progress(a)' <=> Progress(a)
    BY <2>2, <2>3 DEF Progress
  <2> QED BY <2>1, <2>4 DEF Sound, Agrees, Managed
<1> QED BY <1>1, <1>2 DEF SInv, Consistent

LEMMA SyncStep == SInv /\ Apart /\ Apart' /\ [Next]_vars => SInv'
<1> SUFFICES ASSUME SInv, Apart, Apart', [Next]_vars PROVE SInv'
  OBVIOUS
<1>1. TInv'
  BY TypesStep DEF SInv
<1>2. Consistent'
  <2>1. ASSUME NEW a \in Admins, Ask(a) PROVE Consistent'
    BY <2>1, AskConsistent
  <2>2. ASSUME NEW a \in Admins, DropPolicy(a) PROVE Consistent'
    BY <2>2, DropPolicyConsistent
  <2>3. ASSUME NEW a \in Admins, Send(a) PROVE Consistent'
    BY <2>3, SendConsistent
  <2>4. ASSUME NEW a \in Admins, Commit(a) PROVE Consistent'
    BY <2>4, CommitConsistent
  <2>5. ASSUME NEW a \in Admins, Refuse(a) PROVE Consistent'
    BY <2>5, RefuseConsistent
  <2>6. ASSUME NEW a \in Admins, Mislead(a) PROVE Consistent'
    BY <2>6 DEF Mislead, Consistent
  <2>7. ASSUME NEW a \in Admins, Compensate(a) PROVE Consistent'
    BY <2>7, CompensateConsistent
  <2>8. ASSUME NEW a \in Admins, Crash(a) PROVE Consistent'
    BY <2>8, CrashConsistent
  <2>9. ASSUME NEW r \in Roles, Assign(r) PROVE Consistent'
    BY <2>9, AsideConsistent DEF Assign
  <2>10. ASSUME NEW q \in Queries,
                \/ ResolvePrincipal(q) \/ ReadPolicy(q) \/ Record(q) \/ GiveUp(q)
                \/ \E x \in Assets : Runs(q, x)
         PROVE  Consistent'
    <3>1. UNCHANGED <<doris, epoch, grants, op, drift>>
      BY <2>10 DEF ResolvePrincipal, ReadPolicy, Record, GiveUp, Runs, identity
    <3> QED BY <3>1, AsideConsistent
  <2>11. CASE UNCHANGED vars
    BY <2>11, AsideConsistent DEF vars, identity
  <2> QED BY <2>1, <2>2, <2>3, <2>4, <2>5, <2>6, <2>7, <2>8, <2>9, <2>10, <2>11 DEF Next
<1> QED BY <1>1, <1>2 DEF SInv

LEMMA SyncInvariance == Spec /\ []Apart => []SInv
<1>1. Init => SInv
  BY SyncStart
<1>2. SInv /\ Apart /\ Apart' /\ [Next]_vars => SInv'
  BY SyncStep
<1> QED BY <1>1, <1>2, PTL DEF Spec

(* While no two operations on one role overlap, Doris and the projection   *)
(* agree whenever nothing is under way and every undo worked.  The code    *)
(* does not keep operations apart when there are several administrators:   *)
(* this is a step on the way to OneAdministrator.                          *)
LEMMA StoresAgree == Spec /\ []Apart => []StoresAgreeAtRest
<1>1. SInv => StoresAgreeAtRest
  BY DEF SInv, Consistent, Settled, Agrees, StoresAgreeAtRest
<1> QED BY <1>1, SyncInvariance, PTL

\* The step that ends an undo puts the role back.
LEMMA LastUndo ==
  ASSUME SInv, Apart, [Next]_vars, NEW a \in Admins, op[a].at = "undo", op'[a].at = "idle", ~drift'
  PROVE  doris'[op[a].role] = op[a].before
<1>1. op \in [Admins -> Saga \cup {Idle}] /\ op[a] \in Saga /\ op[a].undo # <<>>
  BY UnderWay DEF SInv, TInv, TypeOK, Unfinished
<1>2. CASE Compensate(a)
  <2>1. /\ Sound(a) /\ Tail(op[a].undo) \in Seq(Statement)
        /\ doris' = [doris EXCEPT ![op[a].role] = Effect(Held(a), Head(op[a].undo))]
        /\ Restores(Effect(Held(a), Head(op[a].undo)), Tail(op[a].undo), op[a].before)
        /\ op' = [op EXCEPT ![a] = IF Tail(op[a].undo) = <<>> THEN Idle
                                   ELSE [op[a] EXCEPT !.undo = Tail(op[a].undo)]]
    BY <1>2, UndoneTo
  <2>2. Tail(op[a].undo) = <<>>
    <3>1. ASSUME Tail(op[a].undo) # <<>> PROVE FALSE
      <4>1. op'[a] = [op[a] EXCEPT !.undo = Tail(op[a].undo)]
        BY <1>1, <2>1, <3>1
      <4> QED BY <1>1, <4>1 DEF Saga
    <3> QED BY <3>1
  <2>3. Effect(Held(a), Head(op[a].undo)) \in RoleState
    <3>1. Head(op[a].undo) \in Statement /\ Held(a) \in RoleState
      BY <1>1 DEF Saga, Held, SInv, TInv, TypeOK
    <3> QED BY <3>1, EffectType
  <2>4. Effect(Held(a), Head(op[a].undo)) = op[a].before
    <3> PICK e : e = Effect(Held(a), Head(op[a].undo))
      OBVIOUS
    <3>1. Restores(e, <<>>, op[a].before) /\ e \in RoleState
      BY <2>1, <2>2, <2>3
    <3>2. e = op[a].before
      BY <3>1, RestoresNothing
    <3> QED BY <3>2
  <2> QED BY <1>1, <2>1, <2>4 DEF Saga, SInv, TInv, TypeOK
<1>3. CASE Crash(a)
  BY <1>1, <1>3 DEF Crash
<1>4. ASSUME NEW b \in Admins,
             \/ Ask(b) \/ DropPolicy(b) \/ Send(b) \/ Commit(b) \/ Refuse(b) \/ Mislead(b)
             \/ Compensate(b) \/ Crash(b)
      PROVE  a = b \/ op'[a] = op[a]
  <2>1. CASE Ask(b)
    BY <1>1, <2>1 DEF Ask, CreateRole, DeleteRole, RevokeAll, GrantSelect, RevokeSelect, AddPolicy,
                      FindPolicy, Begin
  <2>2. CASE DropPolicy(b)
    BY <1>1, <2>2 DEF DropPolicy
  <2>3. CASE Send(b)
    BY <1>1, <2>3 DEF Send
  <2>4. CASE Commit(b)
    BY <1>1, <2>4 DEF Commit
  <2>5. CASE Refuse(b)
    BY <1>1, <2>5 DEF Refuse, Undo
  <2>6. CASE Mislead(b)
    BY <1>1, <2>6 DEF Mislead, Undo
  <2>7. CASE Compensate(b)
    BY <1>1, <2>7 DEF Compensate
  <2>8. CASE Crash(b)
    BY <1>1, <2>8 DEF Crash
  <2> QED BY <1>4, <2>1, <2>2, <2>3, <2>4, <2>5, <2>6, <2>7, <2>8
<1>5. ~(Ask(a) \/ DropPolicy(a) \/ Send(a) \/ Commit(a) \/ Refuse(a) \/ Mislead(a))
  BY DEF Ask, DropPolicy, Send, Commit, Refuse, Mislead, Running
<1>6. op'[a] # op[a]
  OBVIOUS
<1>7. ASSUME NEW q \in Queries,
             \/ ResolvePrincipal(q) \/ ReadPolicy(q) \/ Record(q) \/ GiveUp(q)
             \/ \E x \in Assets : Runs(q, x)
      PROVE  op' = op
  BY <1>7 DEF ResolvePrincipal, ReadPolicy, Record, GiveUp, Runs
<1>8. (UNCHANGED vars \/ \E r \in Roles : Assign(r)) => op' = op
  BY DEF vars, Assign
<1> QED BY <1>2, <1>3, <1>4, <1>5, <1>6, <1>7, <1>8 DEF Next

(* Likewise, an operation that fails then leaves the role in Doris as it   *)
(* found it when every undo works.                                         *)
LEMMA FailuresUndone == Spec /\ []Apart => FailureIsUndone
<1>1. SInv /\ Apart /\ [Next]_vars =>
        [\A a \in Admins : op[a].at = "undo" /\ op'[a].at = "idle" /\ ~drift' =>
                             doris'[op[a].role] = op[a].before]_vars
  <2> SUFFICES ASSUME SInv, Apart, [Next]_vars
               PROVE  \A a \in Admins : op[a].at = "undo" /\ op'[a].at = "idle" /\ ~drift' =>
                                          doris'[op[a].role] = op[a].before
    OBVIOUS
  <2> QED BY LastUndo
<1> QED BY <1>1, SyncInvariance, PTL DEF Spec, FailureIsUndone

(* With one administrator nothing overlaps: whatever fails in a saga, and  *)
(* when it commits, Doris and the projection agree once it has ended, and  *)
(* a failed one has left no trace in Doris.                                *)
THEOREM OneAdministrator ==
  ASSUME \A a, b \in Admins : a = b
  PROVE  Spec => []StoresAgreeAtRest /\ FailureIsUndone
<1>1. Apart
  BY DEF Apart
<1> QED BY <1>1, StoresAgree, FailuresUndone, PTL
=============================================================================
