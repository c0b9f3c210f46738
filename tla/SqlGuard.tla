------------------------------ MODULE SqlGuard ------------------------------
(***************************************************************************)
(* The check of a SQL statement: src/app/query/services/guard.py.          *)
(*                                                                         *)
(* A parsed statement is a record; a query is a sequence of scopes, each   *)
(* of which may read the ones before it (subqueries and common table       *)
(* expressions), the last one is the outermost.  A scope has sources,      *)
(* select items, and the references of its other clauses.  The statement   *)
(* that is run has its references completed and its stars expanded by      *)
(* sqlglot, which is modelled from how the guard uses it.                  *)
(*                                                                         *)
(* The catalogue may change between the two queries that read it.          *)
(***************************************************************************)
EXTENDS AssetAccess, Naturals, FiniteSets, SequencesExt

CONSTANTS Tables, Columns,  \* the metadata at first
          Policies, Statements,
          MaxEdits          \* bound on the changes of the metadata

VARIABLES tables, columns,  \* the metadata
          edits,
          policy, query,    \* what is checked, and for whom
          at,               \* the progress of the check
          listed,           \* the tables it has read
          seen,             \* the columns it has read
          issues

guardVars == <<tables, columns, edits, policy, query, at, listed, seen, issues>>

Bare == ""    \* a reference without a table
AnyName == "*"    \* a column of a table of which nothing is known

-----------------------------------------------------------------------------
\* A condition is the sequence of its parts, each after the parts it consists of,
\* and the whole comes last.  A part is an and, or, xor or not, a comparison of two
\* operands (the sets of references in each), or another expression.
IsCondition(c) ==
  /\ Len(c) \in Nat \ {0} /\ DOMAIN c = 1..Len(c)
  /\ \A i \in DOMAIN c : DOMAIN c[i] = {"op", "of", "left", "right"}
                          /\ c[i].of \subseteq 1..(i - 1)

IsComparison(part) == part.op = "compare"

Aliases(refs) == {r.alias : r \in refs}
Side(refs, left, right) ==
  CASE refs # {} /\ Aliases(refs) \subseteq left -> "left"
    [] Aliases(refs) = {right} /\ right \notin left -> "right"
    [] OTHER -> "none"

\* _comparison_links_sources
Linking(part, left, right) ==
  IsComparison(part)
  /\ {Side(part.left, left, right), Side(part.right, left, right)} = {"left", "right"}

\* _join_condition_links_sources
Branches_Any(op) == FALSE

Branches(op) == op \in {"or", "xor"}

LinksPart(part, links, left, right) ==
  IF part.of = {} THEN Linking(part, left, right)
  ELSE IF Branches(part.op) THEN \A child \in part.of : links[child]
  ELSE \E child \in part.of : links[child]

Links(c, left, right) ==
  LET links[i \in DOMAIN c] == LinksPart(c[i], links, left, right) IN links[Len(c)]

\* The terms of a condition that must all hold.
Splits(op) == op = "and"

TermsOf(part, terms) ==
  IF Splits(part.op) THEN UNION {terms[child] : child \in part.of} ELSE {part}

Terms(c) == LET terms[i \in DOMAIN c] == TermsOf(c[i], terms) IN terms[Len(c)]

-----------------------------------------------------------------------------
\* _load_catalog, of a policy and what was read of the catalogue.
Catalog(p, known, cols) ==
  LET shown == VisibleTables(p, known) IN
  [tables |-> shown,
   columns |-> {x \in AllowedColumns(p, cols) : x.table \in shown},
   restricted |-> {t \in shown : \E x \in cols : x.table = t /\ ~Allows(p, x)}]

OfTable(source) == "table" \in DOMAIN source.of
Sources(scope) == ToSet(scope.from)
Physical(scope) == {s \in Sources(scope) : OfTable(s)}
PhysicalTables(q) == {s.of.table : s \in UNION {Physical(scope) : scope \in ToSet(q.scopes)}}

\* The tables a star in the select list of a scope stands for; one that is
\* counted stands for the tables of the scope.
Starred(scope) ==
  {s.of.table : s \in {s \in Physical(scope) : \E i \in ToSet(scope.items) :
     i.kind = "count" \/ (i.kind = "star" /\ i.alias \in {Bare, s.alias})}}
StarTables(q) == UNION {Starred(scope) : scope \in ToSet(q.scopes)}

TableIssues(q, cat) ==
  [code : {"unknown_table"}, of : PhysicalTables(q) \ cat.tables]
    \cup [code : {"column_access_denied"}, of : StarTables(q) \cap cat.restricted]

-----------------------------------------------------------------------------
\* qualify: the names each scope gives out, from the innermost on.
UsingNames(scope) == UNION {s.using : s \in Sources(scope)}

NamesOf(cat, out, source) ==
  IF OfTable(source) THEN {x.column : x \in {y \in cat.columns : y.table = source.of.table}}
  ELSE ToSet(out[source.of.scope])

\* A star leaves out the columns of a USING that an earlier source has given.
Expanded(cat, out, scope, k) ==
  LET earlier == UNION {NamesOf(cat, out, scope.from[j]) : j \in 1..(k - 1)} IN
  NamesOf(cat, out, scope.from[k]) \ (UsingNames(scope) \cap earlier)

\* A star over a table without known columns stays a star.
OrAnyName(names) == IF names = {} THEN {AnyName} ELSE names

NamesOfItem(cat, out, scope, item) ==
  CASE item.kind = "ref" -> <<item.ref.column>>
    [] item.kind = "count" -> <<>>
    [] item.kind = "star" ->
         FlattenSeq([k \in DOMAIN scope.from |->
           IF item.alias = scope.from[k].alias
           THEN SetToSeq(OrAnyName(NamesOf(cat, out, scope.from[k])))
           ELSE IF item.alias = Bare THEN SetToSeq(OrAnyName(Expanded(cat, out, scope, k)))
           ELSE <<>>])

NamesOfScope(cat, out, scope) ==
  FlattenSeq([n \in DOMAIN scope.items |-> NamesOfItem(cat, out, scope, scope.items[n])])

Outputs(q, cat) ==
  LET out[i \in DOMAIN q.scopes] == NamesOfScope(cat, out, q.scopes[i]) IN out

\* The references a scope is written with, and the sources each can mean.  A
\* table without known columns is believed to have any column of its own.
Written(scope) ==
  {i.ref : i \in {i \in ToSet(scope.items) : i.kind = "ref"}} \cup scope.where
    \cup UNION {UNION {part.left \cup part.right : part \in ToSet(s.on)} :
                  s \in {s \in Sources(scope) : s.join = "on"}}

MayHave(cat, out, s, n) ==
  LET names == NamesOf(cat, out, s) IN n \in names \/ names = {} \/ AnyName \in names

\* The sources of which the join of the k-th one by USING compares a column: the
\* earlier ones that have it, or else the last of them, and the joined one.
Compared(cat, out, scope, k, n) ==
  LET having == {j \in 1..(k - 1) : n \in NamesOf(cat, out, scope.from[j])} IN
  {k} \cup (IF having = {} THEN {k - 1} ELSE having)

UsingRefs(cat, out, scope) ==
  {r \in [alias : Aliases(Sources(scope)), column : UsingNames(scope)] :
     \E k \in 2..Len(scope.from) :
       /\ r.column \in scope.from[k].using
       /\ \E j \in Compared(cat, out, scope, k, r.column) : r.alias = scope.from[j].alias}

\* A column of a USING is missing when both sides have known columns and one is
\* without it.
UsingFound(cat, out, scope) ==
  \A k \in 2..Len(scope.from) : \A n \in scope.from[k].using :
    LET earlier == UNION {NamesOf(cat, out, scope.from[j]) : j \in 1..(k - 1)}
        joined == NamesOf(cat, out, scope.from[k]) IN
    /\ n \in earlier \cap joined \/ earlier = {} \/ AnyName \in earlier \/ joined = {}
    /\ \A j \in Compared(cat, out, scope, k, n) : MayHave(cat, out, scope.from[j], n)

Resolved(cat, out, scope, r) ==
  LET having == {s \in Sources(scope) : r.column \in NamesOf(cat, out, s)}
      named == {s \in Sources(scope) : s.alias = r.alias /\ MayHave(cat, out, s, r.column)} IN
  IF r.alias # Bare THEN {r : s \in named}
  ELSE IF r.column \in UsingNames(scope)
  THEN {u \in UsingRefs(cat, out, scope) : u.column = r.column}
  ELSE IF Cardinality(having) = 1
  THEN {[alias |-> s.alias, column |-> r.column] : s \in having}
  ELSE {}

Qualifies(cat, out, scope) ==
  /\ \A r \in Written(scope) : Resolved(cat, out, scope, r) # {}
  /\ UsingFound(cat, out, scope)

Completed(cat, out, scope, refs) == UNION {Resolved(cat, out, scope, r) : r \in refs}

CompletedCondition(cat, out, scope, c) ==
  [i \in DOMAIN c |-> [c[i] EXCEPT !.left = Completed(cat, out, scope, @),
                                   !.right = Completed(cat, out, scope, @)]]

\* Every reference of the completed scope, its expanded stars and the columns
\* of USING included.
StarRefs(cat, out, scope) ==
  UNION {UNION {{[alias |-> s.alias, column |-> n] : n \in OrAnyName(NamesOf(cat, out, s))} :
                  s \in {s \in Sources(scope) : i.alias \in {Bare, s.alias}}} :
           i \in {i \in ToSet(scope.items) : i.kind = "star"}}
References(cat, out, scope) ==
  Completed(cat, out, scope, Written(scope)) \cup UsingRefs(cat, out, scope)
    \cup StarRefs(cat, out, scope)

\* _collect_physical_columns
PhysicalColumns(q, cat) ==
  LET out == Outputs(q, cat) IN
  UNION {UNION {{[table |-> s.of.table, column |-> r.column] :
                   r \in {r \in References(cat, out, scope) : r.alias = s.alias}} :
                  s \in Physical(scope)} : scope \in ToSet(q.scopes)}

-----------------------------------------------------------------------------
\* _check_joins, after USING has become a comparison of both sides.
IsJoined(cat, out, scope, k) ==
  LET s == scope.from[k]
      left == {scope.from[j].alias : j \in 1..(k - 1)} IN
  \/ s.join = "using"
  \/ s.join = "on" /\ Links(CompletedCondition(cat, out, scope, s.on), left, s.alias)

JoinIssues(q, cat) ==
  LET Unjoined(scope) ==
        {scope.from[k].alias :
           k \in {k \in 2..Len(scope.from) : ~IsJoined(cat, Outputs(q, cat), scope, k)}} IN
  [code : {"join"}, of : UNION {Unjoined(scope) : scope \in ToSet(q.scopes)}]

\* _duplicates
Duplicates(names) ==
  {names[i] : i \in {i \in DOMAIN names : \E j \in DOMAIN names : j < i /\ names[j] = names[i]}}

DuplicateIssues(q, cat) ==
  [code : {"duplicate_output_column"}, of : Duplicates(Last(Outputs(q, cat)))]

\* _check_asset_policy: stars and tables no column of which is known to be
\* read need the table.
NeedsTable_Starred(q, cols, t) == t \in StarTables(q)

NeedsTable_Always(q, cols, t) == TRUE

NeedsTable(q, cols, t) == t \in StarTables(q) \/ \A x \in cols : x.table # t

PolicyIssues(p, q, cat) ==
  LET cols == PhysicalColumns(q, cat) \cap cat.columns IN
  [code : {"table_access_denied"},
   of : {t \in PhysicalTables(q) : NeedsTable(q, cols, t) /\ ~Allows(p, TableAsset(t))}]
    \cup [code : {"column_access_denied"},
          of : {x \in cols : x.table \notin StarTables(q) /\ ~Allows(p, x)}]

\* What is found once the catalogue is read; each stage ends the check.
QueryIssues(p, q, cat) ==
  LET out == Outputs(q, cat) IN
  IF TableIssues(q, cat) # {} THEN TableIssues(q, cat)
  ELSE IF \E scope \in ToSet(q.scopes) : ~Qualifies(cat, out, scope)
  THEN [code : {"unknown_column"}, of : {Whole}]
  ELSE JoinIssues(q, cat) \cup DuplicateIssues(q, cat) \cup PolicyIssues(p, q, cat)

-----------------------------------------------------------------------------
\* _check_show_tables and _check_information_schema_query.
StatementIssues(q) ==
  [code : {"show"}, of : IF q.kind = "show" /\ ~q.plain THEN {Whole} ELSE {}]
    \cup [code : {"readonly"}, of : IF q.kind # "show" /\ ~q.readonly THEN {Whole} ELSE {}]
    \cup [code : {"catalog_query_shape_not_allowed"},
          of : IF q.kind = "catalog" /\ ~q.plain THEN {Whole} ELSE {}]
    \cup [code : {"catalog_scope_required"},
          of : IF q.kind = "catalog" /\ ~\E c \in Terms(q.where) : c.op = "schema"
               THEN {Whole} ELSE {}]
    \cup [code : {"duplicate_output_column"},
          of : IF q.kind = "catalog" THEN Duplicates(q.names) ELSE {}]

-----------------------------------------------------------------------------
\* What the parser makes of a statement: the sources of a scope have different
\* names, and a condition has its parts.
IsStatement(q) ==
  /\ q.kind \in {"show", "catalog", "query"}
  /\ q.kind = "catalog" => IsCondition(q.where)
  /\ q.kind = "query" => \A scope \in ToSet(q.scopes) :
       /\ Len(scope.from) \in Nat /\ DOMAIN scope.from = 1..Len(scope.from)
       /\ \A i, j \in DOMAIN scope.from : scope.from[i].alias = scope.from[j].alias => i = j
       /\ \A i \in ToSet(scope.items) : i.kind \in {"ref", "star", "count"}
       /\ \A s \in Sources(scope) : IsCondition(s.on)

ASSUME GuardAssumption ==
  /\ \A q \in Statements : IsStatement(q)
  /\ \A x \in Columns : x = [table |-> x.table, column |-> x.column] /\ x.column # AnyName
  /\ \A p \in Policies : \A own \in p : own.table = Whole => own.column = Whole
  /\ MaxEdits \in Nat

GuardInit ==
  /\ tables = Tables /\ columns = Columns /\ edits = 0
  /\ policy \in Policies /\ query \in Statements
  /\ at = "statement" /\ listed = {} /\ seen = {} /\ issues = {}

Decide(found) == at' = "done" /\ issues' = found

\* Statements about the catalogue are decided without it, and so is what is
\* not a query.
CheckStatement ==
  /\ at = "statement"
  /\ IF query.kind # "query" \/ StatementIssues(query) # {}
     THEN Decide(StatementIssues(query))
     ELSE at' = "tables" /\ UNCHANGED issues
  /\ UNCHANGED <<tables, columns, edits, policy, query, listed, seen>>

ListTables ==
  /\ at = "tables"
  /\ listed' = tables /\ at' = "columns"
  /\ UNCHANGED <<tables, columns, edits, policy, query, seen, issues>>

CheckQuery ==
  /\ at = "columns"
  /\ seen' = columns
  /\ Decide(QueryIssues(policy, query, Catalog(policy, listed, columns)))
  /\ UNCHANGED <<tables, columns, edits, policy, query, listed>>

\* The metadata of a column is deleted, or of a table with its columns, or
\* comes back.
EditMetadata ==
  /\ edits < MaxEdits /\ at \in {"tables", "columns"}
  /\ edits' = edits + 1
  /\ \/ \E x \in columns : columns' = columns \ {x} /\ UNCHANGED tables
     \/ \E t \in tables :
          tables' = tables \ {t} /\ columns' = {x \in columns : x.table # t}
     \/ \E x \in Columns \ columns :
          tables' = tables \cup {x.table} /\ columns' = columns \cup {x}
  /\ UNCHANGED <<policy, query, at, listed, seen, issues>>

GuardNext == CheckStatement \/ ListTables \/ CheckQuery \/ EditMetadata

GuardSpec == GuardInit /\ [][GuardNext]_guardVars

-----------------------------------------------------------------------------
Admitted == at = "done" /\ issues = {}

(* Every column that the completed statement makes Doris read, through any *)
(* alias, star or USING, is one the policy allows: also when columns have  *)
(* disappeared from the metadata that are still granted, or between the    *)
(* two readings of the metadata.                                           *)
AdmittedReadsAllowed ==
  Admitted /\ query.kind = "query" =>
    \A x \in PhysicalColumns(query, Catalog(policy, listed, seen)) :
      IF x.column = AnyName THEN Allows(policy, TableAsset(x.table)) ELSE Allows(policy, x)

\* A query that is in order on a catalogue nothing is hidden from, reads allowed
\* columns only, and has whole tables where it names no column of them.
IsSound(p, q, whole) ==
  LET reads == PhysicalColumns(q, whole) IN
  /\ PhysicalTables(q) \subseteq whole.tables \cap {x.table : x \in whole.columns}
  /\ \A scope \in ToSet(q.scopes) : Qualifies(whole, Outputs(q, whole), scope)
  /\ JoinIssues(q, whole) = {} /\ DuplicateIssues(q, whole) = {}
  /\ \A x \in reads : Allows(p, x)
  /\ \A t \in PhysicalTables(q) :
       t \in StarTables(q) \/ (\A x \in reads : x.table # t) => Allows(p, TableAsset(t))

(* The narrowed catalogue and the check of the policy refuse no more than  *)
(* they should: a query that is sound on the whole catalogue it has read   *)
(* is admitted.                                                            *)
NarrowingHidesNothing ==
  at = "done" /\ query.kind = "query" /\ query.readonly
    /\ IsSound(policy, query, [tables |-> listed, columns |-> seen, restricted |-> {}])
    => issues = {}

\* The truth of a condition, of the set of its atoms that are true.
HoldsPart(part, holds, true) ==
  CASE part.op = "and" -> \A child \in part.of : holds[child]
    [] part.op = "or" -> \E child \in part.of : holds[child]
    [] part.op = "xor" -> \E one, other \in part.of : holds[one] # holds[other]
    [] part.op = "not" -> \E child \in part.of : ~holds[child]
    [] OTHER -> part \in true

Holds(c, true) == LET holds[i \in DOMAIN c] == HoldsPart(c[i], holds, true) IN holds[Len(c)]

IsPositive(c) == \A i \in DOMAIN c : c[i].of # {} => c[i].op \in {"and", "or", "xor"}

(* No join of an admitted query can succeed without one of its comparisons *)
(* of the joined source with an earlier one: none is a product in          *)
(* disguise.  Conditions with a negation, or with a comparison that is an  *)
(* argument of something else, are left out.                               *)
JoinsAreLinked ==
  Admitted /\ query.kind = "query" =>
    LET cat == Catalog(policy, listed, seen)
        out == Outputs(query, cat) IN
    \A scope \in ToSet(query.scopes) : \A k \in 2..Len(scope.from) :
      LET s == scope.from[k]
          left == {scope.from[j].alias : j \in 1..(k - 1)}
          c == CompletedCondition(cat, out, scope, s.on) IN
      s.join # "using" =>
        /\ s.join = "on"
        /\ IsPositive(s.on) => \A true \in SUBSET ToSet(c) : Holds(c, true) =>
             \E atom \in true : Linking(atom, left, s.alias)

(* An admitted query of the information schema shows the current database  *)
(* only, whatever else its condition says.                                 *)
CatalogIsScoped ==
  Admitted /\ query.kind = "catalog" =>
    \A true \in SUBSET ToSet(query.where) : Holds(query.where, true) =>
      \E atom \in true : atom.op = "schema"

(* What the guard reads off a condition is so for every truth of its       *)
(* comparisons, not only where it stands in a plain conjunction.           *)
ConditionsBind == JoinsAreLinked /\ CatalogIsScoped
=============================================================================
