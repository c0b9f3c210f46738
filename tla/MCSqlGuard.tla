----------------------------- MODULE MCSqlGuard -----------------------------
(* Two tables that share the name of a column, every policy over them, and *)
(* statements of up to two scopes and two sources.                         *)
EXTENDS SqlGuard

Ref(a, c) == [alias |-> a, column |-> c]
Leaf(op, left, right) == <<[op |-> op, of |-> {}, left |-> left, right |-> right]>>
After(a, b) == [i \in DOMAIN b |-> [b[i] EXCEPT !.of = {j + Len(a) : j \in @}]]
Pair(op, a, b) ==
  a \o After(a, b) \o <<[op |-> op, of |-> {Len(a), Len(a) + Len(b)}, left |-> {}, right |-> {}]>>
Not(a) == a \o <<[op |-> "not", of |-> {Len(a)}, left |-> {}, right |-> {}]>>

MCTables == {"orders", "users"}
MCColumns == {[table |-> t, column |-> "id"] : t \in MCTables}
               \cup {[table |-> "orders", column |-> "price"]}
MCPolicies == SUBSET (MCColumns \cup {TableAsset(t) : t \in MCTables}) \cup {{Database}}

link == Leaf("compare", {Ref("o", "id")}, {Ref("u", "id")})
same == Leaf("compare", {Ref("o", "id")}, {Ref("o", "price")})
bare == Leaf("compare", {Ref("u", "id")}, {Ref(Bare, "price")})
constant == Leaf("other", {}, {})
MCConditions ==
  {link, same, bare} \cup {Pair(op, a, b) : op \in {"and", "or", "xor"},
                             a \in {link, same}, b \in {bare, same, constant}}
    \cup {Pair("or", Pair("and", link, same), c) : c \in {same, bare}}

Source(a, of, join, on, using) ==
  [alias |-> a, of |-> of, join |-> join, on |-> on, using |-> using]
From(a, of) == Source(a, of, "first", constant, {})
orders == [table |-> "orders"]
users == [table |-> "users"]
inner == [scope |-> 1]

Item(a, c) == [kind |-> "ref", ref |-> Ref(a, c), alias |-> Bare]
Star(a) == [kind |-> "star", alias |-> a]
count == [kind |-> "count", alias |-> Bare]

Joins == {Source("u", users, "on", c, {}) : c \in MCConditions \cup {Not(link)}}
           \cup {Source("u", users, "using", constant, {n}) : n \in {"id", "price"}}
           \cup {Source("u", users, join, constant, {}) : join \in {"cross", "none"}}
Scope(from, items, where) == [from |-> from, items |-> items, where |-> where]
Query(scopes) == [kind |-> "query", readonly |-> TRUE, scopes |-> scopes]

Items == {Item("o", "id"), Item("o", "price"), Item(Bare, "id"), Item("o", "ghost"),
          Star(Bare), Star("o"), count}
OneTable == {Query(<<Scope(<<From("o", orders)>>, items, where)>>) :
               items \in {<<i>> : i \in Items} \cup {<<i, j>> : i, j \in Items},
               where \in {{}, {Ref("o", "price")}, {Ref(Bare, "id")}}}
TwoTables == {Query(<<Scope(<<From("o", orders), j>>, <<i>>, {})>>) : j \in Joins,
                i \in {Item(Bare, "id"), Item(Bare, "price"), Item("u", "id"),
                       Star("u"), Star(Bare)}}
Nested == {Query(<<Scope(<<From("o", orders)>>, <<i>>, where),
                   Scope(<<From("c", inner)>> \o more, <<j>>, {})>>) :
             i \in Items, where \in {{}, {Ref("o", "price")}},
             more \in {<<>>, <<Source("u", users, "using", constant, {"id"})>>},
             j \in {Item("c", "id"), Item(Bare, "price"), Star(Bare), Star("u"), count}}

schema == Leaf("schema", {}, {})
Catalogue == [kind : {"catalog"}, names : {<<"table_name">>, <<"table_name", "table_name">>},
              plain : BOOLEAN, readonly : BOOLEAN,
              where : {schema, constant} \cup {Pair(op, schema, constant) : op \in {"and", "or"}}
                        \cup {Pair("and", constant, Pair(op, schema, constant)) :
                                op \in {"and", "or"}}]
Other == [kind : {"show"}, plain : BOOLEAN]
           \cup {[Query(<<>>) EXCEPT !.readonly = FALSE]}
MCStatements == OneTable \cup TwoTables \cup Nested \cup Catalogue \cup Other
=============================================================================
