----------------------------- MODULE DorisRoles -----------------------------
(***************************************************************************)
(* Data roles in two stores: src/app/identity/services/authorization.py    *)
(* and doris_permission.py.                                                *)
(*                                                                         *)
(* Doris holds the role, its query user, its SELECT privileges and its row *)
(* policies; PostgreSQL holds the identity, with an authorization epoch,   *)
(* and the projection of the privileges.  Every operation of an            *)
(* administrator is a saga: a transaction under the security lock that     *)
(* sends statements to Doris one after the other and commits last.  What   *)
(* fails is undone in Doris after the transaction has been rolled back,    *)
(* without the lock.  A statement that fails may have taken effect, an     *)
(* undo may fail, a process may end: "drift" records that this happened.   *)
(*                                                                         *)
(* Queries read the identity and the projection in two statements, run     *)
(* with the privileges of Doris and are recorded as experience under the   *)
(* epoch they read.                                                        *)
(***************************************************************************)
EXTENDS Naturals, Sequences, SequencesExt

CONSTANTS Roles, Admins, Queries,
          Assets,     \* what a privilege may cover
          Columns,    \* the assets that are columns of one table
          Policies,   \* names of row policies
          MaxEpoch,   \* bound on the epochs given away
          MaxFaults   \* bound on failures

ASSUME DorisAssumption ==
  /\ Columns \subseteq Assets /\ IsFiniteSet(Policies)
  /\ MaxEpoch \in Nat \ {0} /\ MaxFaults \in Nat

VARIABLES doris,    \* what Doris holds of each role
          epoch,    \* the epoch of the identity of each role, 0 without one
          grants,   \* the projection of the privileges of each role
          clock,    \* epochs given away
          assigned, \* the role of the user
          op,       \* the saga of each administrator
          lock,     \* who holds the security lock
          query,    \* what each query has read
          past,     \* the experience recorded last: each is looked at on its own
          faults, drift

identity == <<epoch, grants, clock, assigned>>
vars == <<doris, identity, op, lock, query, past, faults, drift>>

RoleState == [role : BOOLEAN, user : BOOLEAN, privs : SUBSET Assets, policies : SUBSET Policies]
NoRole == [role |-> FALSE, user |-> FALSE, privs |-> {}, policies |-> {}]
Statement ==
  [verb : {"create_role", "create_user", "restore_user", "drop_role", "drop_user"}]
    \cup [verb : {"grant", "revoke"}, on : SUBSET Assets]
    \cup [verb : {"add_policy", "drop_policy"}, name : Policies]
\* What operations send; a query user is restored only to undo.
Request == {s \in Statement : s.verb # "restore_user"}
Kinds == {"create", "delete", "grant", "revoke", "policy"}
Idle == [at |-> "idle"]
Saga == [kind : Kinds, role : Roles, at : {"wait", "run", "undo"}, todo : Seq(Request),
         undo : Seq(Statement), before : RoleState]
Asked == [at : {"known", "ready", "ran"}, role : Roles, epoch : 1..MaxEpoch,
          allowed : SUBSET Assets, pure : BOOLEAN]

-----------------------------------------------------------------------------
\* What a statement does to a role in Doris, and when Doris accepts it.
Accepts(d, s) ==
  CASE s.verb = "create_role" -> ~d.role
    [] s.verb \in {"create_user", "restore_user"} -> d.role /\ ~d.user
    [] s.verb \in {"drop_role", "drop_user"} -> TRUE
    [] s.verb = "grant" -> d.role
    [] s.verb = "revoke" -> s.on \subseteq d.privs
    [] s.verb = "add_policy" -> d.role /\ s.name \notin d.policies
    [] s.verb = "drop_policy" -> s.name \in d.policies

Effect(d, s) ==
  CASE s.verb = "create_role" -> [d EXCEPT !.role = TRUE]
    [] s.verb \in {"create_user", "restore_user"} -> [d EXCEPT !.user = TRUE]
    [] s.verb = "drop_user" -> [d EXCEPT !.user = FALSE]
    [] s.verb = "drop_role" -> [NoRole EXCEPT !.user = d.user]
    [] s.verb = "grant" -> [d EXCEPT !.privs = @ \cup s.on]
    [] s.verb = "revoke" -> [d EXCEPT !.privs = @ \ s.on]
    [] s.verb = "add_policy" -> [d EXCEPT !.policies = @ \cup {s.name}]
    [] s.verb = "drop_policy" -> [d EXCEPT !.policies = @ \ {s.name}]

\* Privileges are given and taken by table and by the columns of a table.
Grouped(set) ==
  LET One(part) == IF part = {} THEN <<>> ELSE <<part>> IN
  One(set \ Columns) \o One(set \cap Columns)
All(verb, set) ==
  [i \in DOMAIN Grouped(set) |-> [verb |-> verb, on |-> Grouped(set)[i]]]
PoliciesOf(d) ==
  LET names == SetToSeq(d.policies) IN
  [i \in DOMAIN names |-> [verb |-> "add_policy", name |-> names[i]]]
Restored_NoGrants(d, r) == PoliciesOf(d)
Restored_NoPolicies(d, r) == All("grant", grants[r])
Restored(d, r) ==
  All("grant", grants[r]) \o PoliciesOf(d)

\* What has to be done in Doris, in this order, after one more statement has
\* taken effect and the operation fails later on.
Undoing(o, s) ==
  CASE s.verb = "create_role" -> <<[verb |-> "drop_role"]>>
    [] s.verb = "create_user" -> <<[verb |-> "drop_user"]>> \o o.undo
    [] s.verb = "drop_user" -> <<[verb |-> "restore_user"]>>
    [] s.verb = "drop_role" ->
         <<[verb |-> "create_role"], [verb |-> "create_user"]>> \o Restored(o.before, o.role)
    [] s.verb = "grant" -> <<[s EXCEPT !.verb = "revoke"]>> \o o.undo
    [] s.verb = "revoke" -> <<[s EXCEPT !.verb = "grant"]>> \o o.undo
    [] s.verb = "add_policy" -> <<[s EXCEPT !.verb = "drop_policy"]>>
    [] s.verb = "drop_policy" ->
         IF s.name \in o.before.policies THEN <<[s EXCEPT !.verb = "add_policy"]>> ELSE <<>>

Init ==
  /\ \E r \in Roles : /\ epoch = [x \in Roles |-> IF x = r THEN 1 ELSE 0]
                      /\ assigned = r
                      /\ doris = [x \in Roles |-> IF x # r THEN NoRole
                                   ELSE [NoRole EXCEPT !.role = TRUE, !.user = TRUE]]
  /\ op = [a \in Admins |-> Idle]
  /\ query = [q \in Queries |-> Idle]
  /\ grants = [r \in Roles |-> {}]
  /\ clock = 1
  /\ lock = {}
  /\ past = {}
  /\ faults = 0
  /\ drift = FALSE

-----------------------------------------------------------------------------
\* An administrator takes the lock, checks the request against PostgreSQL
\* and sets out what has to be sent to Doris.
Begin(a, kind, r, todo) ==
  /\ lock = {}
  /\ lock' = {a}
  /\ op' = [op EXCEPT ![a] = [kind |-> kind, role |-> r, at |-> "run", todo |-> todo,
                              undo |-> <<>>, before |-> doris[r]]]
  /\ UNCHANGED <<doris, identity, query, past, faults, drift>>

Managed(r) == epoch[r] # 0

CreateRole(a, r) ==
  /\ ~Managed(r) /\ clock < MaxEpoch
  /\ Begin(a, "create", r, <<[verb |-> "create_role"], [verb |-> "create_user"]>>)

DeleteRole(a, r) ==
  /\ Managed(r) /\ assigned # r
  /\ Begin(a, "delete", r, <<[verb |-> "drop_user"], [verb |-> "drop_role"]>>)

\* Only what the projection lacks is granted.
GrantSelect(a, r, target) ==
  /\ Managed(r) /\ ~(target \subseteq grants[r])
  /\ Begin(a, "grant", r, <<[verb |-> "grant", on |-> target \ grants[r]]>>)

RevokeSelect(a, r, target) ==
  /\ Managed(r) /\ target \subseteq grants[r] /\ clock < MaxEpoch
  /\ Begin(a, "revoke", r, <<[verb |-> "revoke", on |-> target]>>)

RevokeAll(a, r) ==
  /\ Managed(r) /\ grants[r] # {} /\ clock < MaxEpoch
  /\ Begin(a, "revoke", r, All("revoke", grants[r]))

AddPolicy(a, r, p) ==
  /\ Managed(r) /\ clock < MaxEpoch
  /\ Begin(a, "policy", r, <<[verb |-> "add_policy", name |-> p]>>)

\* The policy that is to be dropped is read before the lock is taken.
FindPolicy(a, r, p) ==
  /\ Managed(r)
  /\ op' = [op EXCEPT ![a] = [kind |-> "policy", role |-> r, at |-> "wait",
                              todo |-> <<[verb |-> "drop_policy", name |-> p]>>,
                              undo |-> <<>>, before |-> doris[r]]]
  /\ UNCHANGED <<doris, identity, lock, query, past, faults, drift>>

DropPolicy(a) ==
  LET r == op[a].role IN
  /\ op[a].at = "wait" /\ lock = {}
  /\ IF Managed(r) /\ clock < MaxEpoch
     THEN /\ lock' = {a}
          /\ op' = [op EXCEPT ![a].at = "run"]
     ELSE /\ op' = [op EXCEPT ![a] = Idle]
          /\ UNCHANGED lock
  /\ UNCHANGED <<doris, identity, query, past, faults, drift>>

Targets == {Assets \ Columns} \cup ((SUBSET Columns) \ {{}})

Ask(a) ==
  /\ op[a].at = "idle"
  /\ \E r \in Roles :
    \/ CreateRole(a, r) \/ DeleteRole(a, r) \/ RevokeAll(a, r)
    \/ \E target \in Targets : GrantSelect(a, r, target) \/ RevokeSelect(a, r, target)
    \/ \E p \in Policies : AddPolicy(a, r, p) \/ FindPolicy(a, r, p)

-----------------------------------------------------------------------------
Running(a) == op[a].at = "run"
Send(a) ==
  LET o == op[a]
      s == Head(o.todo) IN
  /\ Running(a) /\ o.todo # <<>>
  /\ Accepts(doris[o.role], s)
  /\ doris' = [doris EXCEPT ![o.role] = Effect(@, s)]
  /\ op' = [op EXCEPT ![a].todo = Tail(@), ![a].undo = Undoing(o, s)]
  /\ UNCHANGED <<identity, lock, query, past, faults, drift>>

\* What is written to PostgreSQL.  All but a grant rotate the epoch.
Written(o, r) ==
  CASE o.kind = "delete" -> {}
    [] o.kind = "create" -> {}
    [] o.kind = "grant" -> grants[r] \cup UNION {o.undo[i].on : i \in DOMAIN o.undo}
    [] o.kind = "revoke" -> grants[r] \ UNION {o.undo[i].on : i \in DOMAIN o.undo}
    [] o.kind = "policy" -> grants[r]

Commit_Unrotated(a) ==
  LET o == op[a] IN
  /\ Running(a) /\ o.todo = <<>>
  /\ grants' = [grants EXCEPT ![o.role] = Written(o, o.role)]
  /\ epoch' = [epoch EXCEPT ![o.role] = CASE o.kind = "delete" -> 0
                                          [] o.kind = "create" -> clock + 1
                                          [] OTHER -> @]
  /\ clock' = IF o.kind = "create" THEN clock + 1 ELSE clock
  /\ op' = [op EXCEPT ![a] = Idle]
  /\ lock' = {}
  /\ UNCHANGED <<doris, assigned, query, past, faults, drift>>

Commit(a) ==
  LET o == op[a] IN
  /\ Running(a) /\ o.todo = <<>>
  /\ grants' = [grants EXCEPT ![o.role] = Written(o, o.role)]
  /\ epoch' = [epoch EXCEPT ![o.role] = CASE o.kind = "delete" -> 0
                                          [] o.kind = "grant" -> @
                                          [] OTHER -> clock + 1]
  /\ clock' = IF o.kind \in {"delete", "grant"} THEN clock ELSE clock + 1
  /\ op' = [op EXCEPT ![a] = Idle]
  /\ lock' = {}
  /\ UNCHANGED <<doris, assigned, query, past, faults, drift>>

\* The transaction is rolled back.  Only the creation of an identity in Doris
\* cleans up after itself before that.
Undo(a) ==
  /\ op' = [op EXCEPT ![a] = IF op[a].undo = <<>> THEN Idle
                             ELSE [op[a] EXCEPT !.at = "undo"]]
  /\ lock' = IF op[a].kind = "create" /\ op[a].undo # <<>> /\ op[a].todo # <<>>
             THEN lock ELSE {}
  /\ UNCHANGED <<identity, query, past>>

\* Doris refuses, or the commit fails.
Refuse(a) ==
  /\ Running(a)
  /\ \/ op[a].todo # <<>> /\ ~Accepts(doris[op[a].role], Head(op[a].todo))
        /\ UNCHANGED faults
     \/ faults < MaxFaults /\ faults' = faults + 1
  /\ Undo(a)
  /\ UNCHANGED <<doris, drift>>

\* A statement takes effect and reports a failure all the same.
Mislead(a) ==
  LET o == op[a] IN
  /\ Running(a) /\ o.todo # <<>>
  /\ faults < MaxFaults /\ faults' = faults + 1
  /\ Accepts(doris[o.role], Head(o.todo))
  /\ doris' = [doris EXCEPT ![o.role] = Effect(@, Head(o.todo))]
  /\ drift' = TRUE
  /\ Undo(a)

Compensate(a) ==
  LET o == op[a]
      s == Head(o.undo)
      works == Accepts(doris[o.role], s)
      \* The restoration of a role stops at its first failure, and a role whose
      \* user cannot be created is dropped again.
      rest == IF works \/ o.kind # "delete" THEN Tail(o.undo)
              ELSE IF s.verb = "create_user" THEN <<[verb |-> "drop_role"]>> ELSE <<>> IN
  /\ o.at = "undo"
  /\ doris' = IF works THEN [doris EXCEPT ![o.role] = Effect(@, s)] ELSE doris
  /\ drift' = (drift \/ ~works)
  /\ op' = [op EXCEPT ![a] = IF rest = <<>> THEN Idle ELSE [o EXCEPT !.undo = rest]]
  /\ lock' = IF rest = <<>> THEN lock \ {a} ELSE lock
  /\ UNCHANGED <<identity, query, past, faults>>

\* The process of the administrator ends.
Crash(a) ==
  /\ op[a].at # "idle"
  /\ faults < MaxFaults /\ faults' = faults + 1
  /\ drift' = (drift \/ op[a].undo # <<>>)
  /\ op' = [op EXCEPT ![a] = Idle]
  /\ lock' = lock \ {a}
  /\ UNCHANGED <<doris, identity, query, past>>

\* update_user gives the user another role.
Assign(r) ==
  /\ lock = {} /\ Managed(r) /\ assigned # r
  /\ assigned' = r
  /\ UNCHANGED <<doris, epoch, grants, clock, op, lock, query, past, faults, drift>>

-----------------------------------------------------------------------------
\* A query reads its principal, then the policy of its user.
ResolvePrincipal(q) ==
  /\ query[q].at = "idle"
  /\ Managed(assigned)
  /\ query' = [query EXCEPT ![q] = [at |-> "known", role |-> assigned,
                 epoch |-> epoch[assigned], allowed |-> {}, pure |-> TRUE]]
  /\ UNCHANGED <<doris, identity, op, lock, past, faults, drift>>

ReadPolicy(q) ==
  /\ query[q].at = "known"
  /\ query' = [query EXCEPT ![q].at = "ready",
                 ![q].allowed = IF Managed(assigned) THEN grants[assigned] ELSE {},
                 ![q].pure = (assigned = query[q].role)]
  /\ UNCHANGED <<doris, identity, op, lock, past, faults, drift>>

\* The guard admits what the policy allows and Doris what the role may read;
\* the success is recorded afterwards.
Runs(q, x) ==
  /\ query[q].at = "ready"
  /\ x \in query[q].allowed
  /\ doris[query[q].role].user
  /\ x \in doris[query[q].role].privs
  /\ query' = [query EXCEPT ![q].at = "ran", ![q].allowed = {x}]
  /\ UNCHANGED <<doris, identity, op, lock, past, faults, drift>>

Record(q) ==
  /\ query[q].at = "ran"
  /\ past' = {[role |-> query[q].role, epoch |-> query[q].epoch,
                pure |-> query[q].pure, asset |-> x] : x \in query[q].allowed}
  /\ query' = [query EXCEPT ![q] = Idle]
  /\ UNCHANGED <<doris, identity, op, lock, faults, drift>>

GiveUp(q) ==
  /\ query[q].at \notin {"idle", "ran"}
  /\ query' = [query EXCEPT ![q] = Idle]
  /\ UNCHANGED <<doris, identity, op, lock, past, faults, drift>>

Next ==
  \/ \E a \in Admins :
       Ask(a) \/ DropPolicy(a) \/ Send(a) \/ Commit(a) \/ Refuse(a) \/ Mislead(a) \/ Compensate(a) \/ Crash(a)
  \/ \E r \in Roles : Assign(r)
  \/ \E q \in Queries :
       \/ ResolvePrincipal(q) \/ ReadPolicy(q) \/ Record(q) \/ GiveUp(q)
       \/ \E x \in Assets : Runs(q, x)

Spec == Init /\ [][Next]_vars

-----------------------------------------------------------------------------
TypeOK ==
  /\ doris \in [Roles -> RoleState]
  /\ epoch \in [Roles -> 0..MaxEpoch]
  /\ grants \in [Roles -> SUBSET Assets]
  /\ clock \in 1..MaxEpoch
  /\ assigned \in Roles
  /\ op \in [Admins -> Saga \cup {Idle}]
  /\ lock \subseteq Admins
  /\ query \in [Queries -> Asked \cup {Idle}]
  /\ faults \in 0..MaxFaults
  /\ drift \in BOOLEAN

(* Experience of the current epoch of a role uses only what the role may   *)
(* still read, whatever failed in between: every operation that takes      *)
(* something away moves the epoch, and a query records the epoch it read   *)
(* before it read what it may do.                                          *)
CurrentExperienceAllowed ==
  \A e \in past :
    Managed(e.role) /\ e.epoch = epoch[e.role] /\ e.pure => e.asset \in grants[e.role]

(* When no operation is under way and every undo could be carried out,     *)
(* Doris and the projection agree: a managed role has its user and exactly *)
(* its privileges, any other role has nothing.                             *)
StoresAgreeAtRest ==
  (\A a \in Admins : op[a].at = "idle") /\ ~drift =>
    \A r \in Roles : IF Managed(r) THEN /\ doris[r].role /\ doris[r].user
                                        /\ doris[r].privs = grants[r]
                     ELSE doris[r] = NoRole

(* An operation that fails leaves the role in Doris as it found it, its    *)
(* row policies included, when every undo works.                           *)
FailureIsUndone ==
  [][\A a \in Admins :
       op[a].at = "undo" /\ op'[a].at = "idle" /\ ~drift' =>
         doris'[op[a].role] = op[a].before]_vars
=============================================================================
