------------------------------ MODULE Rowids ------------------------------
(* How SQLite numbers the rows of a table with INTEGER PRIMARY KEY.          *)
EXTENDS Naturals

\* Mutation of IsNewRowid: the smallest free id instead of the largest plus one.
SmallestFreeRowid(ids, id) ==
    /\ id \notin ids
    /\ id = 1 \/ id - 1 \in ids

\* Without AUTOINCREMENT: one more than the largest id in the table, 1 when the
\* table is empty.  Ids of deleted rows come back.
IsNewRowid(ids, id) ==
    /\ \A k \in ids : k < id
    /\ id = 1 \/ id - 1 \in ids
===========================================================================
