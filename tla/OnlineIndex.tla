---------------------------- MODULE OnlineIndex ----------------------------
(***************************************************************************)
(* Adding and dropping an index of one table while several servers write   *)
(* to it (ddl/ddl_worker.go, index.go, reorg.go, syncer.go,                *)
(* domain/domain.go, schema_validator.go, owner/manager.go,                *)
(* table/tables/tables.go and index.go).                                   *)
(*                                                                         *)
(* The worker of the owner takes the index through a chain of states, one  *)
(* transaction and one schema version per state, and waits after each for  *)
(* all servers to load the version.  Every server maintains the index      *)
(* according to the state it has loaded, and its schema validator refuses  *)
(* a commit when the schema changed since the transaction began or when    *)
(* the lease of the schema ran out.  Before the index becomes public a     *)
(* goroutine of the owner backfills the rows that were there before.       *)
(*                                                                         *)
(* The rows and entries live in the transactional store of TwoPhaseCommit: *)
(* a commit is one step here, and a transaction fails when another one     *)
(* wrote one of its keys since it began.                                   *)
(***************************************************************************)
EXTENDS Integers, Sequences, FiniteSets

CONSTANTS
    Server,     \* the servers
    NoServer,   \* no server is the owner
    DeadOwner,  \* the owner crashed and its key is still there
    Handle,     \* the row handles, a set of numbers above 0
    Value,      \* the values of the indexed column
    NoRow,      \* the handle has no row
    Unique,     \* indexInfo.Unique
    FirstRows,  \* the rows before the first job
    Jobs,       \* the jobs in the order they are queued, "add" or "drop"
    Boundary,   \* the last handles of the regions of the table
    BatchCnt,   \* DefaultTaskHandleCnt
    MaxTxn,     \* bound: transactions of the clients
    MaxFault    \* bound: cancels of a job, crashes and shutdowns of a server, together

ASSUME ServerAssumption ==
    /\ NoServer \notin Server /\ DeadOwner \notin Server /\ NoServer # DeadOwner

ASSUME TableAssumption ==
    /\ IsFiniteSet(Handle) /\ Handle \subseteq Nat
    /\ NoRow \notin Value
    /\ FirstRows \in [Handle -> Value \cup {NoRow}]

ASSUME JobAssumption ==
    /\ Jobs \in Seq({"add", "drop"})
    /\ Boundary \subseteq Nat
    /\ BatchCnt \in Nat \ {0}

VARIABLES
    row,        \* row[h]: the value of the row, or NoRow
    entry,      \* the index entries, as <<index ID, value, handle>>
    meta,       \* the stored schema: its version, the state of the index, its ID
    schema,     \* schema[s]: the schema s has loaded, version 0 before it loads one
    valid,      \* valid[s]: latestSchemaVer of the schema validator of s
    fresh,      \* the servers whose schema lease has not run out
    granted,    \* the servers that are loading a schema whose lease has not run out
    reg,        \* reg[s]: the version s registered in etcd, NoVersion without a session
    global,     \* the global schema version in etcd
    owner,      \* the DDL owner
    closed,     \* the servers that were shut down; in the model they do not come back
    handed,     \* what went on too early or too long after a shutdown, see Wake and FillCommit
    worker,     \* worker[s]: where the DDL worker of s is, and the version it waits for
    job,        \* the job at the head of its queue
    ended,      \* the number of jobs moved to the history
    ranges,     \* the index IDs in the delete-range table
    gone,       \* the index IDs whose range has been deleted
    reorg,      \* reorg[s]: reorgCtx of the worker of s, and its goroutine
    txn,        \* txn[s]: the open client transaction of s
    fill,       \* fill[s]: the open backfill transaction of s
    count       \* transactions so far, and cancels, crashes and shutdowns

hand == <<closed, handed>>

vars == <<row, entry, meta, schema, valid, fresh, granted, reg, global, owner, closed, handed, worker,
          job, ended, ranges, gone, reorg, txn, fill, count>>

States == {"none", "deleteOnly", "writeOnly", "writeReorg", "public", "deleteReorg"}

NoVersion == -1

NoJob == [type |-> "none", state |-> "none", schema |-> "none", snap |-> FALSE,
          start |-> 0, end |-> 0]

NoReorg == [on |-> FALSE, id |-> 0, pos |-> 0, end |-> 0, next |-> 0, cancel |-> FALSE, result |-> "none"]

NoTxn == [ver |-> 0, keys |-> {}, del |-> {}, add |-> {}, h |-> 0, new |-> NoRow]

NoFill == [on |-> FALSE, keys |-> {}, add |-> {}, next |-> 0]

Rows == {h \in Handle : row[h] # NoRow}

------------------------------------------------------------------------------
(* Index maintenance of a statement *)

\* Mutant: the index is written only once the backfill may run.
WritableInReorg(st) == st \in {"writeReorg", "public"}

\* WritableIndices.
Writable(st) == st \in {"writeOnly", "writeReorg", "public"}

\* DeletableIndices: every index of the table.
Deletable(st) == st # "none"

RowKey(h) == <<"row", h>>

\* GenIndexKey: the handle is part of the key unless the index is unique.
IndexKey(e) == IF Unique THEN <<"index", e[1], e[2]>> ELSE <<"index", e[1], e[2], e[3]>>

\* The key removeRowIndices deletes when row h disappears or changes.
RemovedKeys(sc, h) ==
    IF Deletable(sc.st) /\ row[h] # NoRow THEN {IndexKey(<<sc.id, row[h], h>>)} ELSE {}

\* The entry addIndices or rebuildIndices creates for the new value of row h.
AddedEntries(sc, h, v) ==
    IF Writable(sc.st) /\ v # NoRow THEN {<<sc.id, v, h>>} ELSE {}

\* index.Create answers ErrKeyExists.
Duplicate(add, removed) ==
    Unique /\ \E e \in entry, a \in add : IndexKey(e) = IndexKey(a) /\ IndexKey(e) \notin removed

\* A commit of s that wrote the keys K: the transactions that hold one of them will fail with
\* a write conflict and are dropped, a backfill to be read again.
Overtake(K) ==
    /\ txn' = [x \in Server |-> IF txn[x].keys \cap K # {} THEN NoTxn ELSE txn[x]]
    /\ fill' = [x \in Server |-> IF fill[x].keys \cap K # {} THEN NoFill ELSE fill[x]]

ddlVars == <<meta, reg, global, owner, hand, worker, job, ended, ranges, gone, reorg>>

\* A statement gives row h the value v: an insert, an update or a delete, in a transaction
\* of its own with the schema server s has loaded.  One that begins after the lease ran out is
\* left out: the lease comes back with a newer schema, which makes it fail.
Begin(s, h, v) ==
    LET sc == schema[s]
        removed == RemovedKeys(sc, h)
        add == AddedEntries(sc, h, v)
    IN /\ count.txn < MaxTxn
       /\ s \in fresh
       /\ txn[s] = NoTxn
       /\ row[h] # v
       /\ ~Duplicate(add, removed)
       /\ txn' = [txn EXCEPT ![s] =
                    [ver |-> sc.ver, del |-> removed, add |-> add, h |-> h, new |-> v,
                     keys |-> {RowKey(h)} \cup removed \cup {IndexKey(e) : e \in add}]]
       /\ count' = [count EXCEPT !.txn = @ + 1]
       /\ UNCHANGED <<row, entry, schema, valid, fresh, granted, fill, ddlVars>>

\* schemaValidator.Check with the commit timestamp: the table changed since the transaction
\* began, or the lease ran out.
SchemaValid(s) == txn[s].ver >= valid[s] /\ s \in fresh

\* The transaction of s commits, or fails on its schema.
Commit(s) ==
    LET t == txn[s] IN
    /\ t # NoTxn
    /\ IF SchemaValid(s)
       THEN /\ row' = [row EXCEPT ![t.h] = t.new]
            /\ entry' = {e \in entry : IndexKey(e) \notin t.del} \cup t.add
            /\ Overtake(t.keys)
       ELSE txn' = [txn EXCEPT ![s] = NoTxn] /\ UNCHANGED <<row, entry, fill>>
    /\ UNCHANGED <<schema, valid, fresh, granted, count, ddlVars>>

------------------------------------------------------------------------------
(* Loading the schema *)

\* Domain.Reload: loads a stored schema that is new and registers its version in etcd
\* (loadInfoSchema), then the schema validator takes over the version with a new lease.  It is
\* also how a restarted server begins.
Reload(s) ==
    /\ s \notin closed
    /\ valid[s] = schema[s].ver
    /\ schema[s].ver # meta.ver
    /\ txn[s] = NoTxn
    /\ schema' = [schema EXCEPT ![s] = meta]
    /\ reg' = [reg EXCEPT ![s] = IF @ = NoVersion THEN @ ELSE meta.ver]
    /\ valid' = [valid EXCEPT ![s] = meta.ver]
    /\ fresh' = fresh \cup {s}
    /\ UNCHANGED <<hand, row, entry, meta, granted, global, owner, worker, job, ended, ranges, gone, reorg,
                   txn, fill, count>>

\* Domain.Reload, first half, while a transaction may still be checked against the old version.
\* The lease to come counts from here.
Load(s) ==
    /\ s \notin closed
    /\ valid[s] = schema[s].ver
    /\ schema[s].ver # meta.ver
    /\ txn[s] # NoTxn
    /\ schema' = [schema EXCEPT ![s] = meta]
    /\ reg' = [reg EXCEPT ![s] = IF @ = NoVersion THEN @ ELSE meta.ver]
    /\ granted' = granted \cup {s}
    /\ UNCHANGED <<hand, row, entry, meta, valid, fresh, global, owner, worker, job, ended, ranges, gone,
                   reorg, txn, fill, count>>

\* Domain.Reload, second half: the schema validator takes over the version and the lease.
Validate(s) ==
    /\ valid[s] # schema[s].ver
    /\ valid' = [valid EXCEPT ![s] = schema[s].ver]
    /\ fresh' = IF s \in granted THEN fresh \cup {s} ELSE fresh \ {s}
    /\ granted' = granted \ {s}
    /\ UNCHANGED <<hand, row, entry, meta, schema, reg, global, owner, worker, job, ended, ranges, gone,
                   reorg, txn, fill, count>>

\* Time passes: the leases that are older than the stored version ver run out, and the open
\* transactions under them will fail.  As a lease that runs out does nothing else, it is let go
\* when somebody waits for it.
LeasesExpire(ver) ==
    /\ fresh' = {x \in fresh : valid[x] >= ver}
    /\ txn' = [x \in Server |-> IF x \in fresh' THEN txn[x] ELSE NoTxn]
    /\ granted' = {x \in granted : schema[x].ver >= ver}

------------------------------------------------------------------------------
(* The DDL worker *)

dataVars == <<row, entry, schema, valid, fresh, granted, reg, txn>>

\* The n-th job as doDDLJob queues it.  All jobs are queued from the start: they are on one
\* table, so each runs when the one before it has ended.
NewJob(n) == IF n <= Len(Jobs) THEN [NoJob EXCEPT !.type = Jobs[n]] ELSE NoJob

\* CancelJobs.
Cancel ==
    /\ count.fault < MaxFault
    /\ job # NoJob
    /\ job.state \in {"none", "running"}
    /\ job' = [job EXCEPT !.state = "cancelling"]
    /\ count' = [count EXCEPT !.fault = @ + 1]
    /\ UNCHANGED <<hand, dataVars, meta, global, owner, worker, ended, ranges, gone, reorg, fill>>

\* The job states in which a worker waits for the other servers.
Waits(state) == state \in {"running", "rollingback", "done", "rollbackDone"}

\* Every server under a lease, or about to get one, has loaded the stored version.
Synced == \A x \in fresh \cup granted : schema[x].ver = meta.ver

\* handleDDLJobQueue begins: the first round only waits for the global schema version
\* (waitSchemaSynced), and not at all for a job that is new or being cancelled.  That is too
\* early ("wait") when the owner before stored a version, was shut down before it published it
\* or before the wait was over, and a server does not have it yet.
Wake(s) ==
    /\ worker[s].pc = "idle"
    /\ owner = s
    /\ job # NoJob
    /\ worker' = [worker EXCEPT ![s] =
                    IF Waits(job.state) /\ global > 0 THEN [pc |-> "wait", ver |-> global]
                                                      ELSE [pc |-> "run", ver |-> 0]]
    /\ handed' = IF Synced \/ worker'[s] = [pc |-> "wait", ver |-> meta.ver] THEN handed
                                                                            ELSE handed \cup {"wait"}
    /\ UNCHANGED <<closed, dataVars, meta, global, owner, job, ended, ranges, gone, reorg, fill, count>>

\* handleDDLJobQueue returns: no job, or not the owner any more.
Rest(s) ==
    /\ worker[s].pc = "run"
    /\ owner # s \/ job = NoJob
    /\ worker' = [worker EXCEPT ![s] = [pc |-> "idle", ver |-> 0]]
    /\ UNCHANGED <<hand, dataVars, meta, global, owner, job, ended, ranges, gone, reorg, fill, count>>

\* OwnerUpdateGlobalVersion.
Publish(s) ==
    /\ worker[s].pc = "publish"
    /\ global' = worker[s].ver
    /\ worker' = [worker EXCEPT ![s].pc = "wait"]
    /\ UNCHANGED <<hand, dataVars, meta, owner, job, ended, ranges, gone, reorg, fill, count>>

\* OwnerCheckAllVersions: no registered server is behind.
AllSynced(ver) == \A x \in Server : reg[x] = NoVersion \/ reg[x] >= ver

\* Mutant: the wait ends without the leases.
WaitedAtOnce(s) ==
    /\ worker[s].pc = "wait"
    /\ worker' = [worker EXCEPT ![s] = [pc |-> "run", ver |-> 0]]
    /\ UNCHANGED <<hand, dataVars, meta, global, owner, job, ended, ranges, gone, reorg, fill, count>>

\* waitSchemaChanged returns: every server has announced the version, or twice the lease has
\* passed.
Waited(s) ==
    /\ worker[s].pc = "wait"
    /\ IF AllSynced(worker[s].ver) THEN UNCHANGED <<fresh, granted, txn>> ELSE LeasesExpire(worker[s].ver)
    /\ worker' = [worker EXCEPT ![s] = [pc |-> "run", ver |-> 0]]
    /\ UNCHANGED <<hand, row, entry, schema, valid, reg, meta, global, owner, job, ended, ranges, gone,
                   reorg, fill, count>>

Runs(s) == worker[s].pc = "run" /\ owner = s /\ job # NoJob

\* Mutant: the worker goes on without waiting.
NewStateNoWait(s, st) ==
    /\ meta' = [ver |-> meta.ver + 1, st |-> st, id |-> meta.id]
    /\ UNCHANGED worker

\* updateVersionAndTableInfo with a new version, and the wait that follows.
NewState(s, st) ==
    /\ meta' = [ver |-> meta.ver + 1, st |-> st, id |-> meta.id]
    /\ worker' = [worker EXCEPT ![s] = [pc |-> "publish", ver |-> meta.ver + 1]]

\* finishDDLJob.
MoveToHistory == job' = NewJob(ended + 2) /\ ended' = ended + 1

\* finishDDLJob for a job that is done or rolled back.
Finish(s) ==
    /\ Runs(s)
    /\ job.state \in {"done", "rollbackDone"}
    /\ MoveToHistory
    /\ ranges' = IF job.type = "drop" \/ job.state = "rollbackDone" THEN ranges \cup {meta.id} ELSE ranges
    /\ UNCHANGED <<hand, dataVars, meta, global, owner, worker, gone, reorg, fill, count>>

\* The job is cancelled while its index is being backfilled.
CancelsBackfill == job.type = "add" /\ job.schema = "writeReorg" /\ job.snap

\* A cancelled job ends where it is, and so does an add of a public index or a drop of none.
EndCancelled(s) ==
    /\ Runs(s)
    /\ \/ job.state = "cancelling" /\ ~CancelsBackfill
       \/ job.state \in {"none", "running"} /\ job.type = "add" /\ meta.st = "public"
       \/ job.state \in {"none", "running"} /\ job.type = "drop" /\ meta.st = "none"
    /\ MoveToHistory
    /\ UNCHANGED <<hand, dataVars, meta, global, owner, worker, ranges, gone, reorg, fill, count>>

\* onCreateIndex before the backfill.
AddStep(s) ==
    LET next == [none |-> "deleteOnly", deleteOnly |-> "writeOnly", writeOnly |-> "writeReorg"] IN
    /\ Runs(s)
    /\ job.type = "add"
    /\ job.state \in {"none", "running"}
    /\ meta.st \in DOMAIN next
    /\ meta' = [ver |-> meta.ver + 1, st |-> next[meta.st], id |-> meta.id + (IF meta.st = "none" THEN 1 ELSE 0)]
    /\ worker' = [worker EXCEPT ![s] = [pc |-> "publish", ver |-> meta.ver + 1]]
    /\ job' = [job EXCEPT !.state = "running", !.schema = next[meta.st], !.snap = FALSE]
    /\ UNCHANGED <<hand, dataVars, global, owner, ended, ranges, gone, reorg, fill, count>>

\* onDropIndex, for a drop and for an add that is rolled back.
DropStep(s) ==
    LET next == [public |-> "writeOnly", writeOnly |-> "deleteOnly", deleteOnly |-> "deleteReorg",
                 deleteReorg |-> "none"] IN
    /\ Runs(s)
    /\ \/ job.type = "drop" /\ job.state \in {"none", "running"}
       \/ job.type = "add" /\ job.state = "rollingback"
    /\ meta.st \in DOMAIN next
    /\ NewState(s, next[meta.st])
    /\ job' = [job EXCEPT !.schema = next[meta.st],
                          !.state = IF meta.st # "deleteReorg" THEN (IF job.type = "add" THEN @ ELSE "running")
                                    ELSE IF job.type = "add" THEN "rollbackDone" ELSE "done"]
    /\ UNCHANGED <<hand, dataVars, global, owner, ended, ranges, gone, reorg, fill, count>>

------------------------------------------------------------------------------
(* The backfill *)

Reorganizes(s) ==
    /\ Runs(s)
    /\ job.type = "add"
    /\ meta.st = "writeReorg"
    /\ \/ job.state \in {"none", "running"}
       \/ job.state = "cancelling" /\ CancelsBackfill

\* getReorgInfo the first time: the range of the handles there are now (getTableRange).
FirstReorg(s) ==
    /\ Reorganizes(s)
    /\ ~job.snap
    /\ job' = [job EXCEPT !.state = "running", !.snap = TRUE,
                          !.start = IF Rows = {} THEN 0 ELSE CHOOSE h \in Rows : \A k \in Rows : h <= k,
                          !.end = IF Rows = {} THEN 0 ELSE CHOOSE h \in Rows : \A k \in Rows : k <= h]
    /\ UNCHANGED <<hand, dataVars, meta, global, owner, worker, ended, ranges, gone, reorg, fill, count>>

\* runReorgJob starts the goroutine from the stored handle, then its wait times out.
StartReorg(s) ==
    /\ Reorganizes(s)
    /\ job.snap
    /\ ~reorg[s].on
    /\ reorg' = [reorg EXCEPT ![s] =
                    [on |-> TRUE, id |-> meta.id, pos |-> job.start, end |-> job.end, next |-> job.start,
                     cancel |-> @.cancel \/ job.state = "cancelling", result |-> "none"]]
    /\ UNCHANGED <<hand, dataVars, meta, global, owner, worker, job, ended, ranges, gone, fill, count>>

\* runReorgJob waits for the goroutine and times out: the progress is stored.
ReorgTimeout(s) ==
    /\ Reorganizes(s)
    /\ job.snap
    /\ reorg[s].on
    /\ reorg[s].result = "none"
    /\ job' = [job EXCEPT !.start = reorg[s].next,
                          !.state = IF @ = "cancelling" THEN @ ELSE "running"]
    /\ reorg' = [reorg EXCEPT ![s].cancel = @ \/ job.state = "cancelling"]
    /\ job' # job \/ reorg' # reorg
    /\ UNCHANGED <<hand, dataVars, meta, global, owner, worker, ended, ranges, gone, fill, count>>

\* runReorgJob takes the result of the goroutine.
ReorgDone(s) ==
    /\ Reorganizes(s)
    /\ job.snap
    /\ reorg[s].on
    /\ reorg[s].result # "none"
    /\ reorg' = [reorg EXCEPT ![s] = NoReorg]
    /\ \/ /\ reorg[s].result = "ok"
          /\ NewState(s, "public")
          /\ job' = [job EXCEPT !.state = "done", !.schema = "public"]
       \/ /\ reorg[s].result \in {"duplicate", "cancelled"}   \* convert2RollbackJob
          /\ meta' = [meta EXCEPT !.st = "deleteOnly"]
          /\ job' = [job EXCEPT !.state = "rollingback", !.schema = "deleteOnly"]
          /\ UNCHANGED worker
    /\ UNCHANGED <<hand, dataVars, global, owner, ended, ranges, gone, fill, count>>

\* The region of a handle ends at the next boundary, the last one at the end of the range.
RegionEnd(pos, end) ==
    LET later == {b \in Boundary : pos <= b /\ b < end} IN
    IF later = {} THEN end ELSE CHOOSE b \in later : \A c \in later : b <= c

\* fetchRowColVals and batchCheckUniqueKey: a backfill transaction reads the next rows.
FillRead(s) ==
    LET r == reorg[s]
        last == RegionEnd(r.pos, r.end)
        left == {h \in Rows : r.pos <= h /\ h <= last}
        batch == {h \in left : Cardinality({k \in left : k < h}) < BatchCnt}
        next == IF batch = left THEN last + 1 ELSE 1 + (CHOOSE h \in batch : \A k \in batch : k <= h)
        new == {<<r.id, row[h], h>> : h \in batch} \ (IF Unique THEN entry ELSE {})
        taken == {e \in entry \cup new : Unique /\ \E a \in new : IndexKey(a) = IndexKey(e) /\ a # e}
    IN /\ r.on
       /\ r.result = "none"
       /\ ~fill[s].on
       /\ IF taken # {}
          THEN reorg' = [reorg EXCEPT ![s].result = "duplicate"] /\ UNCHANGED fill
          ELSE /\ fill' = [fill EXCEPT ![s] =
                            [on |-> TRUE, add |-> new, next |-> next,
                             keys |-> {IndexKey(e) : e \in new} \cup {RowKey(e[3]) : e \in new}]]
               /\ UNCHANGED reorg
       /\ UNCHANGED <<hand, dataVars, meta, global, owner, worker, job, ended, ranges, gone, count>>

\* The backfill transaction commits; then isReorgRunnable.  The progress counts once a region is
\* complete.  Nobody waits for the backfill of a server that is shut down: it may commit a last
\* transaction when others have moved on ("fill").
FillCommit(s) ==
    LET f == fill[s]
        r == reorg[s]
        regionDone == f.next > RegionEnd(r.pos, r.end)
    IN /\ f.on
       /\ entry' = entry \cup f.add
       /\ txn' = [x \in Server |->
                    IF txn[x].keys \cap {IndexKey(e) : e \in f.add} # {} THEN NoTxn ELSE txn[x]]
       /\ fill' = [fill EXCEPT ![s] = NoFill]
       /\ reorg' = [reorg EXCEPT ![s] =
                    IF s \in closed THEN [r EXCEPT !.result = "stopped"]
                    ELSE IF r.cancel THEN [r EXCEPT !.result = "cancelled"]
                    ELSE [r EXCEPT !.pos = f.next,
                                   !.next = IF regionDone THEN f.next ELSE @,
                                   !.result = IF f.next > r.end THEN "ok" ELSE @]]
       /\ handed' = IF s \in closed THEN handed \cup {"fill"} ELSE handed
       /\ UNCHANGED <<closed, row, schema, valid, fresh, granted, reg, meta, global, owner, worker, job, ended,
                      ranges, gone, count>>

\* The delete-range worker removes every key of a dropped index.
DeleteRange(i) ==
    /\ i \in ranges
    /\ entry' = {e \in entry : e[1] # i}
    /\ ranges' = ranges \ {i}
    /\ gone' = gone \cup {i}
    /\ UNCHANGED <<hand, row, schema, valid, fresh, granted, reg, txn, meta, global, owner, worker, job, ended, reorg,
                   fill, count>>

------------------------------------------------------------------------------
(* Crashes, shutdowns and ownership *)

\* A server crashes.  Its keys stay in etcd until their time to live has passed.
Crash(s) ==
    /\ count.fault < MaxFault
    /\ schema[s].ver > 0
    /\ schema' = [schema EXCEPT ![s] = [ver |-> 0, st |-> "none", id |-> 0]]
    /\ valid' = [valid EXCEPT ![s] = 0]
    /\ fresh' = fresh \ {s}
    /\ granted' = granted \ {s}
    /\ owner' = IF owner = s THEN DeadOwner ELSE owner
    /\ worker' = [worker EXCEPT ![s] = [pc |-> "idle", ver |-> 0]]
    /\ reorg' = [reorg EXCEPT ![s] = NoReorg]
    /\ txn' = [txn EXCEPT ![s] = NoTxn]
    /\ fill' = [fill EXCEPT ![s] = NoFill]
    /\ count' = [count EXCEPT !.fault = @ + 1]
    /\ UNCHANGED <<hand, row, entry, meta, reg, global, job, ended, ranges, gone>>

\* A server is shut down (Domain.Close, ddl.close) when its clients are gone.  It retires and
\* revokes its key at once (campaignLoop) and takes its version out of etcd; its worker still
\* publishes what it has stored and waits, and its backfill goes on until it asks whether it may.
Close(s) ==
    /\ count.fault < MaxFault
    /\ schema[s].ver > 0
    /\ closed' = closed \cup {s}
    /\ schema' = [schema EXCEPT ![s] = [ver |-> 0, st |-> "none", id |-> 0]]
    /\ valid' = [valid EXCEPT ![s] = 0]
    /\ fresh' = fresh \ {s}
    /\ granted' = granted \ {s}
    /\ reg' = [reg EXCEPT ![s] = NoVersion]
    /\ owner' = IF owner = s THEN NoServer ELSE owner
    /\ txn' = [txn EXCEPT ![s] = NoTxn]
    /\ count' = [count EXCEPT !.fault = @ + 1]
    /\ UNCHANGED <<row, entry, meta, global, handed, worker, job, ended, ranges, gone, reorg, fill>>

\* campaignLoop: s becomes the owner, at once when nobody holds the key.  The key of a crashed
\* owner lives for ManagerSessionTTL, longer than the schema lease.
Campaign(s) ==
    /\ owner \in {NoServer, DeadOwner}
    /\ schema[s].ver > 0
    /\ IF owner = DeadOwner THEN LeasesExpire(meta.ver) ELSE UNCHANGED <<fresh, granted, txn>>
    /\ owner' = s
    /\ UNCHANGED <<hand, row, entry, schema, valid, reg, meta, global, worker, job, ended, ranges, gone,
                   reorg, fill, count>>

------------------------------------------------------------------------------
(* A lost etcd session *)

\* The session of the schema syncer of s ends, and its version with it (loadSchemaInLoop).  The
\* schema validator of s goes on.
SessionLost(s) ==
    /\ schema[s].ver > 0
    /\ reg[s] # NoVersion
    /\ reg' = [reg EXCEPT ![s] = NoVersion]
    /\ UNCHANGED <<hand, row, entry, schema, valid, fresh, granted, txn, meta, global, owner, worker, job, ended,
                   ranges, gone, reorg, fill, count>>

\* mustRestartSyncer: the version is registered again as 0.
SessionRestart(s) ==
    /\ reg[s] = NoVersion
    /\ reg' = [reg EXCEPT ![s] = 0]
    /\ UNCHANGED <<hand, row, entry, schema, valid, fresh, granted, txn, meta, global, owner, worker, job, ended,
                   ranges, gone, reorg, fill, count>>

------------------------------------------------------------------------------
Init ==
    /\ row = FirstRows
    /\ entry = {}
    /\ meta = [ver |-> 1, st |-> "none", id |-> 0]
    /\ schema = [s \in Server |-> meta]
    /\ valid = [s \in Server |-> 1]
    /\ fresh = Server
    /\ granted = {}
    /\ reg = [s \in Server |-> 1]
    /\ global = 0
    /\ owner = NoServer
    /\ closed = {}
    /\ handed = {}
    /\ worker = [s \in Server |-> [pc |-> "idle", ver |-> 0]]
    /\ job = NewJob(1)
    /\ ended = 0
    /\ ranges = {}
    /\ gone = {}
    /\ reorg = [s \in Server |-> NoReorg]
    /\ txn = [s \in Server |-> NoTxn]
    /\ fill = [s \in Server |-> NoFill]
    /\ count = [txn |-> 0, fault |-> 0]

WorkerStep(s) ==
    \/ Wake(s) \/ Rest(s) \/ Publish(s) \/ Waited(s) \/ Finish(s) \/ EndCancelled(s)
    \/ AddStep(s) \/ DropStep(s) \/ FirstReorg(s) \/ StartReorg(s) \/ ReorgTimeout(s) \/ ReorgDone(s)

FillStep(s) == FillRead(s) \/ FillCommit(s)

Next ==
    \/ Cancel
    \/ \E i \in ranges : DeleteRange(i)
    \/ \E s \in Server :
        \/ \E h \in Handle, v \in Value \cup {NoRow} : Begin(s, h, v)
        \/ Commit(s) \/ Reload(s) \/ Load(s) \/ Validate(s) \/ WorkerStep(s) \/ FillStep(s)
        \/ Crash(s) \/ Close(s) \/ Campaign(s)

Spec == Init /\ [][Next]_vars

\* The system in which sessions are lost.
LossySpec == Init /\ [][Next \/ \E s \in Server : SessionLost(s) \/ SessionRestart(s)]_vars

------------------------------------------------------------------------------
(* Properties *)

\* The variables have their types.
TypeOK ==
    /\ row \in [Handle -> Value \cup {NoRow}]
    /\ \A e \in entry : e[1] \in Nat /\ e[2] \in Value /\ e[3] \in Handle
    /\ \A sc \in {meta} \cup {schema[s] : s \in Server} : sc.st \in States /\ sc.ver \in Nat
    /\ owner \in Server \cup {NoServer, DeadOwner}
    /\ closed \subseteq Server /\ handed \subseteq {"wait", "fill"}
    /\ \A s \in Server : worker[s].pc \in {"idle", "run", "publish", "wait"}

\* What an exact index with the given ID holds.
Exact(id) == {e \in entry : e[1] = id} = {<<id, row[h], h>> : h \in Rows}

\* Nothing writes to an index any more once its range has been deleted (finishDDLJob runs
\* after the wait for the version without the index).
NothingLeft == \A e \in entry : e[1] \notin gone

\* While a server may still read through the index, and once the index is stored as public, it
\* has exactly one entry for every row (the chain of states of onCreateIndex and onDropIndex);
\* and an index whose range has been deleted stays empty.
AlwaysExact ==
    /\ meta.st = "public" => Exact(meta.id)
    /\ \A s \in fresh : schema[s].st = "public" => Exact(schema[s].id)
    /\ NothingLeft

\* The index is exact through crashes of any server, also of the owner, and through shutdowns,
\* unless after one a worker went on too early or a backfill too long.
IndexExact == handed = {} => AlwaysExact

\* While its lease lasts a server works with the stored schema or the one before it, and a
\* transaction that would be let through was prepared at most two versions ago: a server
\* announces a version before its validator knows it (waitSchemaChanged, loadInfoSchema).
InStep ==
    \A s \in Server :
        /\ s \in fresh => schema[s].ver + 1 >= meta.ver
        /\ txn[s] # NoTxn /\ SchemaValid(s) => txn[s].ver + 2 >= meta.ver

\* The servers stay in step through crashes of any server, also of the owner, and through
\* shutdowns, unless after one the new owner did not wait for the last version of the old one
\* (waitSchemaSynced knows only the published version).  Without a shutdown nothing is excepted.
VersionLag ==
    /\ "wait" \notin handed => InStep
    /\ closed = {} => handed = {}
=============================================================================
