--------------------------- MODULE MCCatalogSync ---------------------------
EXTENDS CatalogSync, TLC

CONSTANTS col, col2, met, e1, e2, w1, w2

TwoColumns == {col, col2}
OneMetric == {met}
TwoEditors == {e1, e2}
TwoWorkers == {w1, w2}

Text(n, d, a, u) == [name |-> n, description |-> d, alias |-> a, uses |-> u]

\* texts with two roles, and one that comes and goes; a metric of a column
First == Text("n", "n", {}, {})
Second == Text("n", "x", {"x", "n"}, {})
Used == Text("n", "n", {}, {col})
TestContents == {First, Second, Used}
TestSaying == [r \in {col, col2, met} |-> IF r = col THEN {Second} ELSE {}]
Permutable == Permutations(TwoEditors) \cup Permutations(TwoWorkers)
TestImports == {col :> Second, col :> First @@ col2 :> First @@ met :> Used}
=============================================================================
