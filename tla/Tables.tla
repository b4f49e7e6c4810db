------------------------------- MODULE Tables -------------------------------
(* A table of the database as a function from the key of a row to the row.   *)
EXTENDS Functions, TLC

\* The fields of one row, or the rows of one table, over those of another
f ++ g == [x \in DOMAIN f \cup DOMAIN g |-> IF x \in DOMAIN f THEN f[x] ELSE g[x]]

Has(table, key) == key \in DOMAIN table
Put(table, key, row) == [k \in DOMAIN table \cup {key} |-> IF k = key THEN row ELSE table[k]]
Drop(table, keys) == Restrict(table, DOMAIN table \ keys)

\* The rows whose composed key has x at place i
KeysWith(table, i, x) == {k \in DOMAIN table : k[i] = x}
=============================================================================
