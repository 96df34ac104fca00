----------------------------- MODULE BackupStore -----------------------------
(***************************************************************************)
(* What a backup writer of goInception promises, whatever batching it does *)
(* inside: a row handed over for a backup table waits, in hand-over order, *)
(* and leaves the waiting line from its front only, either into the table  *)
(* it was meant for or, when the backup server refuses the INSERT, into    *)
(* the lost ones.  Rows are settled in batches that never mix two tables.  *)
(***************************************************************************)
EXTENDS Naturals, Sequences

CONSTANTS Target,   \* the backup tables (or backup databases) written to
          Row       \* the rows handed over

VARIABLES pending,  \* rows handed over and not settled, oldest first
          stored,   \* rows inserted on the backup server, in insertion order
          lost      \* rows of the INSERTs that failed

vars == <<pending, stored, lost>>

Entry == [table : Target, row : Row]

TypeOK ==
    /\ pending \in Seq(Entry)
    /\ stored \in Seq(Entry)
    /\ lost \in SUBSET Entry

Init ==
    /\ pending = <<>>
    /\ stored = <<>>
    /\ lost = {}

\* The caller hands over one row for table t.
Accept(t, r) ==
    /\ pending' = Append(pending, [table |-> t, row |-> r])
    /\ UNCHANGED <<stored, lost>>

\* The n oldest waiting rows, if they all are for one table.
Batch(n) == SubSeq(pending, 1, n)

OneTable(n) == \A j, k \in 1..n : pending[j].table = pending[k].table

\* A batch reaches its table, or is refused as a whole.
Settle(n) ==
    /\ OneTable(n)
    /\ pending' = SubSeq(pending, n + 1, Len(pending))
    /\ \/ /\ stored' = stored \o Batch(n)
          /\ UNCHANGED lost
       \/ /\ lost' = lost \cup {pending[k] : k \in 1..n}
          /\ UNCHANGED stored

Next ==
    \/ \E t \in Target, r \in Row : Accept(t, r)
    \/ \E n \in 1..Len(pending) : Settle(n)

Spec == Init /\ [][Next]_vars
=============================================================================
