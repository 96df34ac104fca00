------------------------------ MODULE MvccStore ------------------------------
(***************************************************************************)
(* The multi-version store of the embedded engine: what one request of the *)
(* transaction client does to the versions and the lock of a key           *)
(* (store/mockstore/mocktikv/mvcc_leveldb.go, mvcc.go and rpc.go).         *)
(*                                                                         *)
(* The store is a function db from keys to entries.  An entry holds at     *)
(* most one lock and a set of versions, no two with the same commit        *)
(* timestamp, because a version is stored under the key                    *)
(* mvccEncode(key, commitTS).  Every request runs under the mutex of the   *)
(* store and writes one batch, so a request is one step and each operator  *)
(* below maps the store before it to the store after it.  Values are left  *)
(* out: a version is identified by the start timestamp of its writer.      *)
(***************************************************************************)
EXTENDS Integers, FiniteSets

CONSTANT
    Keys        \* the keys of the store

Ops == {"put", "del", "lock"}

NoLock == [start |-> 0, primary |-> 0, op |-> "none"]

\* An entry without versions and without a lock.
EmptyEntry == [lock |-> NoLock, values |-> {}]

EmptyStore == [k \in Keys |-> EmptyEntry]

\* A version of a key.  A rollback record has commit = start.
Version(type, start, commit) == [type |-> type, start |-> start, commit |-> commit]

\* batch.Put under mvccEncode(key, commitTS): the record of that timestamp is replaced.
PutVersion(values, v) == {w \in values : w.commit # v.commit} \cup {v}

\* The first version that an iterator over the key meets: the newest one.
Newest(values) == CHOOSE v \in values : \A w \in values : w.commit <= v.commit

HasLock(e) == e.lock # NoLock

\* The versions that the transaction that started at ts left on the key (getTxnCommitInfo).
CommitInfo(e, ts) == {v \in e.values : v.start = ts}

------------------------------------------------------------------------------
(* Prewrite *)

\* prewriteMutation: what the request meets on one key.
PrewriteError(e, ts) ==
    IF HasLock(e)
    THEN IF e.lock.start # ts THEN "locked" ELSE "none"
    ELSE IF e.values # {} /\ Newest(e.values).commit >= ts THEN "conflict" ELSE "none"

\* MVCCLevelDB.Prewrite: all the locks of the batch are written, or none is.
\* ops is a function from the keys of the batch to their operations.
Prewrite(db, ops, primary, ts) ==
    IF \E k \in DOMAIN ops : PrewriteError(db[k], ts) # "none"
    THEN db
    ELSE [k \in Keys |->
            IF k \in DOMAIN ops /\ ~HasLock(db[k])
            THEN [db[k] EXCEPT !.lock = [start |-> ts, primary |-> primary, op |-> ops[k]]]
            ELSE db[k]]

------------------------------------------------------------------------------
(* Commit and rollback *)

\* commitLock: the lock becomes a version, except that a lock taken with Op_Lock leaves no
\* trace.
CommitLock(e, cts) ==
    [lock   |-> NoLock,
     values |-> IF e.lock.op = "lock" THEN e.values
                ELSE PutVersion(e.values, Version(e.lock.op, e.lock.start, cts))]

\* rollbackLock and the end of rollbackKey: a rollback record at the start timestamp.
RollbackVersion(e, ts) == PutVersion(e.values, Version("rollback", ts, ts))

RollbackLock(e) == [lock |-> NoLock, values |-> RollbackVersion(e, e.lock.start)]

\* commitKey refuses a transaction that has neither its lock nor a committed version here.
CommitRefused(e, ts) ==
    /\ e.lock.start # ts
    /\ \A v \in CommitInfo(e, ts) : v.type = "rollback"

\* MVCCLevelDB.Commit: nothing is written when one of the keys is refused.
Commit(db, S, ts, cts) ==
    IF \E k \in S : CommitRefused(db[k], ts)
    THEN db
    ELSE [k \in Keys |-> IF k \in S /\ db[k].lock.start = ts THEN CommitLock(db[k], cts) ELSE db[k]]

\* rollbackKey answers ErrAlreadyCommitted.
AlreadyCommitted(e, ts) ==
    /\ e.lock.start # ts
    /\ \E v \in CommitInfo(e, ts) : v.type # "rollback"

\* Mutant: no rollback record where the transaction never reached the key.
RollbackLockOnly(e, ts) == IF e.lock.start = ts THEN RollbackLock(e) ELSE e

\* rollbackKey on a key where the transaction is not committed.  A transaction that never
\* reached the key gets a rollback record too.
RollbackKey(e, ts) ==
    IF e.lock.start = ts THEN RollbackLock(e)
    ELSE IF CommitInfo(e, ts) # {} THEN e
    ELSE [e EXCEPT !.values = RollbackVersion(e, ts)]

\* MVCCLevelDB.Rollback and, on one key, MVCCLevelDB.Cleanup.
Rollback(db, S, ts) ==
    IF \E k \in S : AlreadyCommitted(db[k], ts)
    THEN db
    ELSE [k \in Keys |-> IF k \in S THEN RollbackKey(db[k], ts) ELSE db[k]]

\* Mutant: ErrAlreadyCommitted is not translated to the commit timestamp.
CleanupStatusLost(e, ts) == 0

\* What handleKvCleanup answers: the commit timestamp of the transaction, or 0.
CleanupStatus(e, ts) ==
    IF AlreadyCommitted(e, ts)
    THEN (CHOOSE v \in CommitInfo(e, ts) : v.type # "rollback").commit
    ELSE 0

\* MVCCLevelDB.ResolveLock over the keys S of a region: every lock of the transaction becomes
\* a version when cts > 0 and a rollback record otherwise.
ResolveLock(db, S, ts, cts) ==
    [k \in Keys |->
        IF k \in S /\ db[k].lock.start = ts
        THEN IF cts > 0 THEN CommitLock(db[k], cts) ELSE RollbackLock(db[k])
        ELSE db[k]]

------------------------------------------------------------------------------
(* Reads *)

\* Mutant: the lock of a deletion does not block a read.
ReadBlockedByPut(e, ts) == HasLock(e) /\ e.lock.start <= ts /\ e.lock.op = "put"

\* mvccLock.check: a snapshot at ts is refused by a lock that may commit below it.
ReadBlocked(e, ts) == HasLock(e) /\ e.lock.start <= ts /\ e.lock.op # "lock"

\* getValue: the newest version at or below ts that is not a rollback record, as the start
\* timestamp of its writer; 0 when there is none or when it is a deletion.
Visible(e, ts) ==
    LET seen == {v \in e.values : v.type # "rollback" /\ v.commit <= ts}
    IN  IF seen = {} \/ Newest(seen).type = "del" THEN 0 ELSE Newest(seen).start
==============================================================================
