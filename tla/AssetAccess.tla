----------------------------- MODULE AssetAccess -----------------------------
(***************************************************************************)
(* What a policy allows, and what is left of the metadata for its user:    *)
(* src/app/identity/services/authorization.py and                          *)
(* src/app/metadata/services/authorization_filter.py.                      *)
(*                                                                         *)
(* An asset is the database, one of its tables or one of its columns; a    *)
(* missing part of its name is Whole.  There is one data source and one    *)
(* database.  A policy is a set of granted assets.                         *)
(***************************************************************************)
Whole == "*"
Database == [table |-> Whole, column |-> Whole]
TableAsset(t) == [table |-> t, column |-> Whole]

Encompasses(own, asset) ==
  \A part \in {"table", "column"} : own[part] = Whole \/ own[part] = asset[part]

Allows(policy, asset) == \E own \in policy : Encompasses(own, asset)

\* An asset is seen when something below it is granted.
IsVisible(policy, asset) ==
  Allows(policy, asset) \/ \E own \in policy : Encompasses(asset, own)

AllowedColumns(policy, columns) == {x \in columns : Allows(policy, x)}
VisibleTables(policy, tables) == {t \in tables : IsVisible(policy, TableAsset(t))}

\* A metric needs all its columns; one without columns needs the database.
MetricAllowed(policy, uses, columns) ==
  IF uses = {} THEN Allows(policy, Database)
  ELSE uses \subseteq AllowedColumns(policy, columns)

\* An experience needs the columns it names; of a table of which it names no
\* column it needs the table.
ExperienceAllowed(policy, assets) ==
  \A t \in {a.table : a \in assets} :
    LET named == {a \in assets : a.table = t /\ a.column # Whole} IN
    IF named = {} THEN Allows(policy, TableAsset(t))
    ELSE \A a \in named : Allows(policy, a)
=============================================================================
