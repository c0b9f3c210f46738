-------------------------- MODULE MCSemanticRecall --------------------------
(* Orders refer to users; the metric and the value need the buyer of       *)
(* orders.  The user may read orders and the key of users, or only one of  *)
(* the columns.                                                            *)
EXTENDS SemanticRecall
Column(t, c) == [table |-> t, column |-> c]
buyer == Column("orders", "buyer")
id == Column("users", "id")
MCColumns == {buyer, id}
MCKeys == {id}
MCRefers == (buyer :> {id}) @@ (id :> {})
MCUses == [m \in {"revenue"} |-> {buyer}]
MCOwner == [v \in {"cheap"} |-> buyer]
MCAssets == [e \in {"top"} |-> {TableAsset("users"), id}]
MCPolicies == {{TableAsset("orders"), id}, {buyer}}
MCRequests == {{[type |-> t, term |-> "sales"]} : t \in {"column", "metric"}}
MCSelectors == {[all |-> TRUE], [asset |-> TableAsset("orders")]}
MCEdited == {buyer}
Exchangeable == Permutations(Callers)
=============================================================================
