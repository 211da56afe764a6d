------------------------------ MODULE RowLocks ------------------------------
(***************************************************************************)
(* Rows of a PostgreSQL table under READ COMMITTED, as far as the services *)
(* rely on them.  A row has a committed value, the value its writer has    *)
(* written and the transaction that holds its lock; other sessions read    *)
(* the committed value until the writer commits.                           *)
(***************************************************************************)

CONSTANT NoTx   \* the holder of an unlocked row

Unlocked(v)  == [val |-> v, new |-> v, by |-> NoTx]
\* An UPDATE or FOR UPDATE of session s need not wait.
Free(row, s) == row.by \in {NoTx, s}
\* What session s reads: its own write, or the committed value.
Read(row, s) == IF row.by = s THEN row.new ELSE row.val
Write(row, s, v) == [val |-> row.val, new |-> v, by |-> s]

\* COMMIT and ROLLBACK of session s, for one table.
Publish(table, s) ==
    [k \in DOMAIN table |-> IF table[k].by = s THEN Unlocked(table[k].new) ELSE table[k]]
Discard(table, s) ==
    [k \in DOMAIN table |-> IF table[k].by = s THEN Unlocked(table[k].val) ELSE table[k]]

=============================================================================
