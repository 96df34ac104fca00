-------------------------- MODULE TwoPhaseSnapshot --------------------------
(***************************************************************************)
(* What the transactions of TwoPhaseCommit promise: SnapshotTxn, seen      *)
(* through a refinement mapping.  A transaction counts as committed from   *)
(* the moment at which its primary key is.                                 *)
(***************************************************************************)
EXTENDS TwoPhaseCommit

OpKeys(op) == [t \in Txn |-> {k \in KeysOf(t) : OpOf[t][k] = op}]

Abs == INSTANCE SnapshotTxn
         WITH commit <- [t \in Txn |-> CommittedAt(t)],
              Puts <- OpKeys("put"), Dels <- OpKeys("del"), Locks <- OpKeys("lock")

\* The protocol implements snapshot isolation: reads see the newest version committed at or
\* below the start timestamp, a transaction commits in one step, and two transactions that
\* write the same key do not overlap.
Snapshot == Abs!Spec
=============================================================================
