# Verification of goInception

goInception is an audit, execution and backup tool for MySQL. A client sends a *ticket*
(`inception_magic_start; ...; inception_magic_commit;`). The server parses it, audits every
statement against the target database, executes it there (statement by statement, or in
transactions of `--trans=N` statements), and writes rollback statements to a backup server:
an information row for every statement and, for DML, statements computed from the binlog of
the target. Changes of large tables go through pt-online-schema-change or gh-ost; an
administrator on another connection can list, pause, resume and kill them, or kill a ticket.
The server is built on an embedded SQL engine taken over from TiDB, with its transactions,
its DDL workers and an in-memory multi-version store.

This directory holds TLA+ models of the parts of that program which coordinate goroutines,
connections, transactions and tables, the TLC configurations that check them on small
instances, and TLAPS proofs for instances of any size. `PROJECT.json` says for every
definition which lines of the source it models, and lists the runs, the mutants that show
what each property catches, the hazards and the theorems.

## The parts of the system

| Part | Code | State | Model |
|---|---|---|---|
| Session protocol, options, split | `executeInc`, `processCommand`, `session/core.go`, `session/sql_split.go` | `haveBegin`, `haveCommit`, options, settings, record sets, groups | `Session` |
| Audit of statements | `check*` of `session/session_inception.go` | caches of databases and tables, rollback statements | `AuditCache` over `MySqlSchema` (the target) |
| Execution of a ticket | `session/session_inception.go` 747-1677, `session/conn.go` | records, two connections, selected database, cached thread id, binlog ranges | `TicketExec` |
| Information rows (first stage of the backup) | `session/session_backup.go` | records, caches of created tables, channel `chBackupRecord`, `insertBuffer` | `BackupInfo` (implements `BackupStore`), `BackupInfoProofs` |
| Binlog backup (second stage) | `session/parser.go` | records and their cursor, binlog position and thread, channel `s.ch`, `insertBuffer` | `BinlogBackup` (implements `BackupStore`) |
| A ticket as a whole | the three parts above | what they share | `TicketBackup` |
| Control of online schema changes | `session/osc.go`, `server/server.go`, `util/processinfo.go` | `oscProcessList`, the server's lock, the lock and the channel of each change | `OscControl`, `OscControlProofs` |
| Client connections | `server/conn.go`, `server/server.go`, `server/tokenlimiter.go` | status word, table of clients, tokens | `ServerConn`, `ServerConnProofs` |
| Latches of the embedded storage | `store/tikv/latch` | slots and nodes, waiting lists, the scheduler's channel | `Latch`, `LatchProofs` |
| Transactions of the embedded storage | `store/tikv/2pc.go`, `lock_resolver.go`, `snapshot.go`, `txn.go`, `store/mockstore/mocktikv` | locks and versions of keys, goroutines of both phases, cache of the lock resolver | `MvccStore`, `TwoPhaseCommit`, `TwoPhaseSnapshot` (it implements `SnapshotTxn`), `SnapshotTxnProofs`, `TwoPhaseCommitProofs`, `TwoPhaseSnapshotProofs` |
| Online addition of an index | `ddl/index.go`, `ddl_worker.go`, `reorg.go`, `syncer.go`, `domain/`, `owner/`, `table/tables` | schema versions and leases, states of the index, rows and entries, backfill | `OnlineIndex`, `OnlineIndexProofs` |
| Queues of DDL jobs | `ddl/ddl.go`, `ddl_worker.go`, `reorg.go`, `meta/meta.go`, `util/admin` | two lists, history, owner, reorganisation context, tables and indexes | `DdlJobs` |
| Rollback statements as text, print, masking, rewriting, result sets, HTTP interface, socket, wire protocol | other files of `session/`, `server/`, `config/` | none that is shared | not modelled |
| SQL parser, planner, executor, statistics, other storage code | `parser`, `ast`, `planner`, `executor`, `expression`, `kv`, ... | the embedded engine's | not modelled |

How they interact. A client's request arrives in `ServerConn` (dispatch) and is taken apart by
`Session`. `AuditCache` is the audit of the statements between start and commit; it leaves
records, rollback statements of DDL and, for each DML, a pointer to the table as it will be.
`TicketExec` begins with these records. What it leaves (records with status, thread id and
binlog range) is what `BackupInfo` and then `BinlogBackup` begin with; `BinlogFindable` of the
former is what the latter relies on to find the rows of a record, and `TicketBackup` composes
the three so that nothing has to be assumed about what one hands to the next. A DDL of a ticket
may become a job of `OscControl`. `KILL` is an action of `ServerConn`; its effect, a cancelled
context, is an action of `TicketExec` and `BinlogBackup`. `OscControl` and `ServerConn` share
the server's one `rwlock`. In the embedded engine `DdlJobs` runs the jobs of which `OnlineIndex`
shows the steps; both rest on transactions that are atomic and isolated, which is what
`TwoPhaseCommit` is shown to provide; `Latch` orders commits before they get there.

What is hard about this code: producer/consumer pairs over bounded channels with flush
markers; rows that carry no name of their table; connections that are lost with the outcome
of a statement unknown; a connection pool that replaces connections silently; state of a
connection (database, SET, thread id) that is remembered elsewhere; caches edited by hand to
follow a schema nobody has executed yet; kill at any moment; locks held over a send on an
unbuffered channel; a status word changed by compare-and-swap and by plain stores; requests
that were thought lost and are executed late; servers that work with different versions of
a schema; a context of a goroutine that outlives its job.

## Models

### BackupStore: what a backup writer promises

Rows handed over wait in order, and leave the line from its front only, in batches for one
table, into that table or, when the INSERT is refused, into the lost ones. Both backup
stages are shown to implement it.

### BackupInfo: information rows

Two goroutines. `runBackup` (variables `pc`, `cur`, `myRecord`, `lastDb`, `cache`) goes over
the records, creates backup databases and tables where the cache does not know them, and
sends a row per record, and before a change of the database a marker, on `chBackupRecord`
(`chan`, at most `ChanCap` messages). `processChanBackup` (`cpc`) receives; rows go to
`insertBuffer` (`buf`), a marker or a full buffer causes one INSERT, which may be refused.
`Init` is what `executeCommit` can hand over: only the last executed record can be in error.
Messages to the user and the text of rows are left out; records keep level and status.

### BinlogBackup: rows of the binlog

`parserBinlog` is a loop over binlog events with a label (`ENDCHECK`) at which it moves on to
the next record; `pc` has one value per place it can be in between two communications. The
writer is the second goroutine. Events carry as a ghost field the record that caused them,
which only properties read. `MCBinlogBackup` computes records and binlog of a ticket from a
description of what its statements do, with writes of other clients before them, unknown
outcomes, row counts that exceed the rows (ON DUPLICATE KEY UPDATE), transactions, MariaDB (no
thread id), and tickets killed in the execution. Faults: the binlog stream cannot be opened,
an event cannot be parsed, rows cannot be turned into statements, an INSERT is refused.

### TicketExec: execution

One goroutine (`pc` with `loop`/`after` for `executeAllStatement`, `tx*` for
`executeTransaction`, `remote`/`start`/`exec`/`end` for `executeRemoteStatementAndBackup`)
against a world in which statements fail, connections are lost before or after the statement
took effect, the pool replaces idle connections, other clients write to the binlog, and the
operation is killed. `res` is what the client is told, `ran` what the server did: whether the
statement took effect, in which database, on which connection, after which SETs, and at
which position of the binlog. Properties compare the two. The DSN names the database of `--db`
(`opt.db`), so that is where a connection the pool has replaced, `s.db` or `ddlDB`, finds
itself. A statement is `use`, `set`, `dml`,
`ddl`, `show` or `other`; its text does not matter. DDL through pt-osc or gh-ost is left to
`OscControl`, the sleep between batches is left out.

### TicketBackup: a ticket from its first statement to its result

`TicketBackup` instantiates `TicketExec`, `BackupInfo` and `BinlogBackup` and runs them one
after the other over the same records; the binlog the parser reads is the one the statements
have written. Its two properties are about what a user would rely on: what is marked BackupOK
can be undone, and a ticket without an error can be undone completely.

### AuditCache and MySqlSchema: the audit

The audit executes nothing. It keeps a cache of databases and one of `TableInfo` objects, loads
them when a name is first used, and edits them as it accepts DDL. `aud` is that state after
each statement, `live` the schema of the target, and `ref` the schema the target will have
when the statements accepted so far have run, computed by `MySqlSchema`, which is a model of the
target and external to the repository. `CacheAgrees` compares the caches with `ref`, `AuditExact`
the verdicts with what the target would do, `RollbackRestores` the effect of the rollback
statements. The cases in which the code is known not to look are written out in `AuditSound`,
`AuditComplete` and `RollbackRestores`, as kinds of statements the ticket must not have touched;
the properties except those and nothing else.

### Session: a request

A request is cut into chunks, which are parsed when their turn comes. Settings are copied from
the server at the begin of a request, and INCEPTION SET of any connection changes them. Modes
are check, execute, print and split; a verdict depends on three representative rules, the
fingerprints of earlier statements and the merge of ALTER statements. `SplitRight` compares the
groups of `--split` with their definition, for statements of one and of several tables.

### OscControl: online schema changes

Jobs (a session and, for gh-ost as a library, a goroutine listening on `PanicAbort`) and
administrators. One action per lock, unlock, send and receive: `AddOscProcess`, the tool
printing a line and its analysis, its end, `ClosePanicAbort` (with the panic of a sender
caught by `recover`), `Cleanup`; `Issue`, the lookup under the server's lock, the lock `RW` of the
job, the send, and the listing under the read lock. Two jobs may have the same key (equal
statements have equal sqlsha1).

### ServerConn: client connections

Every connection is a goroutine: handshake, loop, read, packet, dispatch, token, work, exit.
`status` is changed by its two compare-and-swaps, by `KILL` (a store) and by
`ShutdownOrNotify` of a graceful shutdown (a swap, then a store, as two steps).
`kickIdleConnection` is one action per client it looks at; the lock it holds meanwhile is the
guard `~Scanning` of the others. `ShutdownOrNotify` leaves a session inside a transaction of the
embedded engine alone (`conn.go:494`), which is left out: queries go to `ExecuteInc`, which passes
no BEGIN on to the engine, and prepared statements are switched off (`conn.go:642`).

### Latch: latches

Every stretch between a slot's `Lock` and `Unlock` is one action: `acquireSlot`, `releaseSlot`,
the two recycles; the goroutine of `LatchesScheduler.run` releases and goes on acquiring for the
transactions it wakes. The list of nodes of a slot is a function of the key. A commit whose
outcome is undetermined counts as not committed, as it does for the latches (`txn.go:182`).

### MvccStore, TwoPhaseCommit, TwoPhaseSnapshot, SnapshotTxn: transactions

`MvccStore` has an operator per request of the multi-version store, from the store before to the
store after: prewrite, commit, rollback, cleanup, resolve, read. The store itself does not fail:
a write to LevelDB that fails, which `Prewrite` answers without an error (`mvcc_leveldb.go:514`),
is left out. In `TwoPhaseCommit` a
transaction has a phase (`pc`) and a set of goroutines (`jobs`), each with the keys of its
batch and the locks it has met. A request whose sending failed stays in `stray` and may be
executed at any later time, or never. `SnapshotTxn` is snapshot isolation without locks and
failures: a transaction starts, reads and commits, at timestamps that may be any later numbers.
`TwoPhaseSnapshot` holds the refinement mapping, which takes a transaction to be committed when
its primary key is.

### OnlineIndex: adding and dropping an index

The owner's worker takes the index through its states, one transaction and one schema version
each, and waits until all servers have announced the version or their lease has run out.
Servers maintain the index according to the state they have loaded, and their schema validator
refuses commits. Rows and entries are in a transactional store in which a commit is one step.
The backfill goes over ranges in batches. A server may crash: then the key of the owner stays in
etcd longer than any schema lease lasts, and the next owner finds old leases expired. Or it is shut
down: then it revokes the key and the next owner begins at once, while the worker and the backfill
of the old one take a last step. `handed` records whether the new worker went on without waiting
for the last version (`wait`), and whether the old backfill still wrote (`fill`). `ResignOwner` is
called nowhere. Reductions: a transaction the validator will refuse is
dropped at once; a lease runs out only when somebody waits for it; the two halves of a load are
told apart only while a transaction is open on that server; the jobs are queued from the start.

### DdlJobs: queues

Sessions append jobs to two lists, workers on the owner run the job at the head of each, and
sessions poll the history. A job waits for older jobs on its table in the other list. The
worker's `reorgCtx` belongs to the worker and not to a job. Clients cancel any job at any time;
ownership may be lost between any two steps. Jobs are ADD INDEX in outline, DROP INDEX and DROP
TABLE. `CancelJobs` writes a job to the place where it found it in the two lists together, which
may be the place of another job of its own list; `strayed` records the jobs this touches, and
`adopted` those that took what the backfill of another job had left behind.

## Runs

`tlc -workers 2 -config <cfg> <module>`; the largest takes about three minutes. Deadlock is
checked in `BackupInfo`, `TicketExec`, `TicketBackup` and `Session`, whose last action repeats
the end; clients, commands, jobs and transactions of the other models do come to rest.

| Run | Configuration | What it checks |
|---|---|---|
| `backup_info` | `MCBackupInfo`: 3 records, 2 tables in 2 databases, channel of 1, batches of 2 | `RowInOwnDb`: information rows are in the database of their record; `NothingForgotten`: a backup without an error leaves nothing in channel or buffer; `BackupReturns`; `ImplementsStore` |
| `binlog_backup` | `MCBinlogBackup_all`: tickets of up to 3 statements, channel of 1, batches of 2, 1 fault of 5 kinds | `FiledRight`: a rollback statement is under its own record, in its table, in order, once; `BackupReported`: complete when nothing disturbs, BackupOK only with the rows stored; `ParserReturns`; `ImplementsStore` |
| `ticket` | `MCTicketExec`: the tickets of up to 4 statements that begin with USE and have a DML or DDL (up to 3 with a statement that is skipped or refused), and longer ones that flush a batch; with and without `--db`; one by one and in transactions of 3; up to 2 faults of 12 kinds; 1 event of another client | `ReportTrue`: "Execute Successfully" is true; `PrefixTakesEffect`: nothing runs behind a failure; `RunsInTicketSession`: every statement has the database and the SETs of the ticket; `BinlogFindable`: range and thread id lead to its event |
| `ticket_backup` | `MCTicketBackup`: 2 tickets, one by one and in transactions of 2, 1 fault anywhere, 1 event of another client | `BackupOKIsRecoverable`, `NoErrorMeansRecoverable` |
| `audit_cache` | `MCAuditCache`: tickets of up to 3 statements of every kind | `CacheAgrees`, `AuditExact`, `RollbackRestores` |
| `session` | `MCSession`: 2 connections, 2 requests each, 1 KILL | `ReplyTrue`: a reply is about its own request and settings; `OnlyAuditedRuns`: nothing is executed unless the whole ticket passed; `SplitRight` |
| `osc_commands` | `MCOscControl`: changes by two of the three tools with one key, 2 administrators, 2 commands | `LocksNested`, `OwnEntryOnly`: only its session removes the entry of a change; `NobodyHangs` |
| `server_connections` | `MCServerConn_all`: 2 connections, 1 token, 1 request each (query, quit, KILL of either), a graceful shutdown | `TokensConserved`, `NoLeak`, `KilledServesNoMore`, `BusyLeaves` |
| `latches` | `MCLatch`: 3 transactions on the second or both of 2 keys in 1 slot, lists of 1, expiry 4 | `OwnersAgree`, `ConflictSeen`: whoever holds a latch knows of every later commit on the key; `WaiterReturns` |
| `tikv_txn` | `MCTwoPhaseCommit`: 2 transactions with opposite primary keys, one reading first, resolver cache of 1, 2 faults | `AllOrNothing`; `ResultTrue`: what the caller and the lock resolver are told is true and final; `Snapshot`: snapshot isolation is implemented; `ReadReturns` |
| `online_index` | `MCOnlineIndex`: 2 servers, 2 handles, an index added and dropped, batches of 1, 2 transactions, 1 cancel, crash or shutdown | `IndexExact`: a public index has exactly the entries of the rows, nothing is left of a removed one; `VersionLag` |
| `ddl_jobs` | `MCDdlJobs`: 2 servers, 2 tables, 3 jobs of 3 kinds, 2 cancels or losses of ownership | `NoJobLost`, `TableOrder`, `ReorgIsOwn`, `EveryJobEnds` |

Bounds. `ChanCap` 1 makes every send block at least once in a ticket; with batches of 2 a full
buffer, a flush marker and the last flush all occur, and three records allow a change of the
table and back. Four statements behind each other allow USE, SET, DML and one that fails;
transactions of three have a first, a middle and a last record; the longer tickets end a batch
with USE or SET commands, the case in which these are cut off. Two faults include a loss of the
connection during the recovery from another one. Two administrators and two jobs with one key
are the smallest case of both sharing a lock and sharing a key. Two connections and one token
are the smallest case of waiting for a token and of KILL from another connection. Three
transactions, on key 2 or on both keys of one slot, let one hold key 1 and wait for key 2 while
another waits for key 1, in one waiting list; a clock of 13 with an expiry of 4 lets recycling
forget a commit. Two transactions with opposite
primaries meet each other's locks in both phases, resolve each other, and a cache of one status
is evicted; two faults are a lost request that is executed late and a crash, or two late
requests. Two servers are an owner and a follower, with a change of the owner by a crash or a
shutdown. `online_index` has one cancel, crash or shutdown; that a cancel and a change of the owner
together do no harm is left to the proofs, which have no bound. In `ddl_jobs`, two losses of
ownership bring a server back to a backfill it began before. The database
of `--db` is the second one, so that a statement can be displaced from the first. Three statements
of audit are a preparation, an edit of the cached table and its use.

Symmetry is used for administrators (`OscControl`) and servers (`OnlineIndex`), where no constant
tells them apart; no liveness property is checked together with symmetry.

Fairness. `BackupInfo`, `BinlogBackup`: each goroutine is scheduled and a call to the backup
server or the target returns (the drivers have timeouts), weak fairness for each; the arrival
of further binlog events is never assumed. `ServerConn`: strong fairness for the goroutine of a
connection, which stands for the fairness of `sync.RWMutex` (a waiting writer goes before new
readers) and of channels (FIFO); weak fairness for the shutdown; none for clients. `Latch`: weak
fairness for each transaction's goroutine and for the scheduler's. `TwoPhaseCommit`: weak
fairness for the goroutines of a transaction and for the expiry of its locks, which is the
passing of time. `DdlJobs`: weak fairness for the workers of each server and for some server
becoming the owner. `OscControl`, `OnlineIndex`, `TicketExec`, `TicketBackup`, `Session` and
`AuditCache` are checked for safety; `NobodyHangs` states with ENABLED that no reachable state
is stuck.

## Proofs

`tlapm <module>`; all obligations of the modules below are proved, from the named assumptions on
the constants, which TLC evaluates in the runs. Leaves are for Zenon, with a limit of 20 seconds;
those that need arithmetic or records name the SMT solver. The two modules about the two-phase
commit and `OnlineIndexProofs` take about ten minutes each, the others less than three.

* `BackupInfoProofs`, for any number of records, tables and databases, any capacity and batch
  size. `TypeCorrect` (`TypeOK`). `Placement` (`RowInOwnDb`): the rows on the server say
  nothing about those on their way, so `OrderInv` is added: the next message in the channel,
  or `lastDb` if there is none, names the database of all rows in `insertBuffer`, and the same
  for each row in the channel. `Completeness` (`NothingForgotten`): with `AccountInv`, every row
  handed over is in the channel, in the buffer, on the server or lost, and with the order in
  which `closed`, the end of the channel and the end of the goroutine follow.
* `OscControlProofs`, for any number of jobs, keys and sessions. `LockDiscipline`
  (`LocksNested`), with `ListenerInv`: the listener holds RW exactly between its lock and its
  unlock. `ListSound`: listed changes are alive. `EntryOwnership` (`OwnEntryOnly`).
* `ServerConnProofs`, for any number of connections, tokens and requests. The inductive
  invariant has four parts with a lemma each. `Types`. `TokensConserved`, by counting the
  connections at work; it gives the bound on `tokens`. `Removal`: a connection whose status is
  `shutdown`, whose `closedOutside` is set or that has ended, is out of the table or in the list
  of connections to close; this needs that nobody in the table or looked at by the shutdown is
  still in its handshake. `KilledStatus`: the status of a killed connection never is `reading` or
  `dispatching` again. Theorems `TypeTheorem`, `TokenTheorem` (`TokensConserved`), `LeakTheorem`
  (`NoLeak`), `KillTheorem` (`KilledServesNoMore`).
* `LatchProofs`, for any transactions, keys, hash, list length and expiry. `LatchesExclude`
  (`OwnersAgree`): what a transaction has acquired is an initial part of its keys in the order of
  their slots, and it owns exactly those nodes, also while the scheduler carries a lock of which
  nobody but the channel knows. `NoConflictMissed` (`ConflictSeen`): for a key somebody holds, the
  commit timestamp of its node, or of the node that was recycled, covers every commit on it; what
  recycling forgot is older than the expiry of anybody who could care.
* `OnlineIndexProofs`, for any number of servers, rows and jobs. `ServersFollow` (`VersionLag`):
  a version is stored only when every server has announced the one before or its lease has run
  out, and the validator of a server without a lease refuses commits. A crashed owner's key
  outlives the leases, so this carries over to the next owner; after a shutdown it does so until
  a worker goes on without waiting for the last version, and the theorem says nothing beyond that
  point. Without a shutdown it has no exception. `IndexStaysExact`
  (`IndexExact`), for a table of finitely many rows and an index that is not unique (a unique one
  does not have the property, see below), rests on it and has the same exception, and one more for
  a backfill that writes after its server was shut down. `IndexExact` looks at the index when it is
  public; its invariant `IndexInv` says what each earlier state has to provide. `ChainInv`: two
  servers under a lease are in neighbouring states, and after a backfill that is given up in
  `writeReorg` and `deleteOnly` at one version (`ConvertInv`). `LiveInv`: a transaction that will
  be let through deletes every entry of its row, and from `writeReorg` on, where all servers
  write, adds the new one. `SoundInv`: so no entry is ever wrong, and there is none while a
  server does not know the index. `FillInv`: during the backfill a row without an entry lies
  ahead of the stored position, of the goroutine and of its open transaction, which fails when
  the row changes; the result is `ok` only when nothing lies ahead. `PublicInv`: the index is
  complete then, and until the last server has stopped reading it every live transaction keeps it
  so. `RangeInv`: an index in the delete-range table is out of use, and no live transaction adds
  to it. There is one lemma per action; those that leave rows, entries and the stored schema alone
  share `QuietIndex`, those that change the stored state share `StateStep`. The finite-set
  theorems are instantiated only where batches are counted.
* `SnapshotTxnProofs`, about the abstract specification: `ReadsAreStable`, what was read stays the
  newest version below the snapshot; `NoUpdateIsLost`, two committed writers of a key do not
  overlap.
* `TwoPhaseCommitProofs`, for any transactions, keys, regions, faults and size of the resolver's
  cache. `CommitIsAtomic` (`AllOrNothing`) and `ToldTheTruth` (`ResultTrue`). The inductive
  invariant `IInv` has two layers. `StoreInv` is about the store alone: timestamps are distinct and
  ordered (`TimesOK`), a lock is one that its transaction asked for (`LocksTrue`), a version is
  written by a transaction whose primary key is committed, or is its rollback record
  (`VersionsTrue`, `Exclusive`), a lock is newer than all versions of its key (`LockNewest`), the
  primary key decides once (`Decided`), and a transaction with a commit timestamp that has not been
  rolled back still has its lock or its version on every key (`Prepared`). It is preserved by
  `StoreStep`: every request places, commits or rolls back locks of one transaction, so the lemmas
  about `MvccStore`'s operators are proved once and each action of the client cites them. The
  second layer is about the client: `PhaseOK` and `JobOK` (what the goroutines of each phase
  know), `ToldOK`, `ResolvedOK` (a cached status is the primary's) and `StrayOK`. Its heart is
  `Legit`: any request that was ever sent, and so any request that is executed late, asks for what
  is decided at the primary key already or takes the primary key along; this is why a late request
  does no harm.
* `TwoPhaseSnapshotProofs`: `ImplementsSnapshots` (`Snapshot`), the refinement. It adds `ReadInv`:
  whoever has read a key that another transaction is about to commit has started before that
  commit timestamp. A step that commits the primary key is the abstract commit; a read that no
  lock turns away returns what the abstract read may return; all other steps change nothing the
  abstract specification sees. With `SnapshotTxnProofs` this carries `ReadsAreStable` and
  `NoUpdateIsLost` over to the protocol.

Only model-checked. Liveness and what is stated with ENABLED (`BackupReturns`, `ParserReturns`,
`BusyLeaves`, `WaiterReturns`, `ReadReturns`, `EveryJobEnds`, `NobodyHangs`), which is out of the
prover's reach. Properties that rest on recursive definitions over sequences (the properties of
`AuditCache`, `SplitRight`, the order of rows in `FiledRight`, and with it `ImplementsStore`). The
other properties of `TicketExec`, `TicketBackup`, `BinlogBackup`, `Session` and `DdlJobs` have no
proof yet.

## Where code and documentation disagree

Every property above holds with the exceptions written in its definition. Besides, runs leave out
some inputs, which are named below: tickets that do not begin with USE, a unique index, and a lost
session of a DDL server.
The exceptions, and what was met besides, with the place where it bites
(`S` is `session/session_inception.go`):

Execution
* the error of `tx.Commit` is ignored (S:1212), and records are reported as executed
  (`docs/trans.md:55`); a transaction of one record for which `raw()` had to reconnect is neither
  committed nor rolled back (S:1211). `ReportTrue` excepts both;
* behind a failed batch a DDL is still executed (S:1010, `docs/trans.md:55`):
  `MCTicketExec_ddl_after.cfg` ends in a violation;
* USE and SET commands cut off at the end of a batch run on `ddlDB`, never on the connection of
  the transactions (S:1120, comment at 983); `execDDL` selects the database on `s.db`, not on the
  reconnected `ddlDB` (`conn.go:132`); the error of such a command is written to another record
  (S:990). `RunsInTicketSession` looks at SETs only without transactions;
* the cached thread id survives the reconnection after error 1046 (`conn.go:207`, comment at 206)
  and an idle connection the pool replaces unnoticed; the record then ends as BackupFail without
  an error;
* with `--db`, statements in front of the first USE run in the database the audit selected last
  (S:7199, `docs/changelog.md:57`). The runs have tickets that begin with USE;
* with `--db`, a connection the pool replaces unnoticed is in the database of the DSN
  (`core.go:470`), and so is `ddlDB` after any reconnection (`core.go:494`): no error 1046 is met
  and the statement runs there, whatever the last USE was. `RunsInTicketSession` excepts it as
  `Displaced`; without `--db` it excepts no database;
* `executeCommit` indexes an empty list when an executing ticket has no statement (S:758).

Backup
* affected rows of ON DUPLICATE KEY UPDATE exceed the rows in the binlog: a record by itself is
  BackupFail, and in a transaction rows are filed under the record before; on MariaDB rows are not
  told apart by thread (`docs/changelog.md:576` warns of it). `FiledRight` asks for `Separable`;
* BackupOK overwrites a failed INSERT of the same record (`parser.go:557`), and rows that could
  not be turned into statements count as backed up; `BackupReported` excepts these faults. A DDL
  record is BackupOK with its information row lost (`docs/result.md:24`):
  `MCBackupInfo_ok_lost.cfg` ends in a violation;
* in a transaction with such a record, or on MariaDB, the parser reads the whole range for the
  first record and then waits, for the second, for an event that only another client can write
  (`parser.go:286`); `ParserReturns` excepts it as `AwaitsOthers`;
* a killed backup waits for an event that need not come (`docs/kill_stmt.md:23`, `parser.go:286`
  waits with the background context): `MCBinlogBackup_kill.cfg` ends in a violation. In
  `TicketBackup` an ignored commit failure and a write of another client lead there;
* with `--trans`, a DDL executed behind a failed transaction has its rollback statement stored
  and no information row, because `runBackup` stops at the failed record.

Audit (`docs/zh/result.md:29` promises a rollback statement for DDL)
* blind spots of the caches: checks of MODIFY, ALTER COLUMN, AFTER and of indexes see dropped
  columns (S:4020), and cached indexes survive them; several columns added in one clause keep
  the last only (S:5170); a column dropped, added again and modified comes back twice; a database
  dropped in the ticket is still accepted; database names with capitals (S:6355); a rename into a
  database that does not exist; index names are compared with case in drop and rename; EXPLAIN
  runs against the target as it is now;
* gaps of the rollback statements: CREATE TABLE IF NOT EXISTS of an existing table (S:3094), DROP
  of several tables (the last only), DROP of a table changed or created in the ticket, indexes of
  a dropped column, ALTER COLUMN DROP DEFAULT (S:3871); DROP INDEX and TRUNCATE records have no
  TableInfo, and `runBackup` stops there (`session_backup.go:64`). `RollbackKeepsTables` states
  the first without its exception and fails in place of `RollbackRestores`.

Session
* `killExecute` (S:1047) and `alterTableInfoList` (S:3361, used with merging at S:321) are not
  reset between tickets; the property `LeavesNothing` fails for it;
* fingerprints leave out the database and the configured level, so statements that look alike
  share a verdict (`docs/params.md:28`); `SimilarAlike` fails for it;
* `--split` leaves SELECT, CREATE VIEW, INCEPTION SET and every kind it has no case for out of the
  groups (`sql_split.go:110-136`), and groups a statement by its first table, RENAME by the old one
  (`sql_split.go:92-98`), so DML and DDL on a further table of a DROP TABLE may share a group
  (`docs/params.md:31`). `SplitRight` excepts both; `SplitTables`, without the second exception,
  fails;
* only the first INCEPTION SET of a request is executed; statements behind the commit are
  ignored; a SET of several variables that fails half-way leaves the first ones set (S:6362).

Commands and connections
* a second command to a change blocks for ever, with the server's lock, when it comes after a kill
  (`osc.go:751`, `osc.go:778`; `session_inception_exec_test.go:827`), or after a kill, pause or
  resume that the listener has received but not begun, because the command then has RW and waits
  for the listener, and the listener waits for RW (`osc.go:744-745`, S:6918, S:6930, S:6955,
  S:6970). `NobodyHangs` excepts both as `Interlocked`, and `CommandReturns` fails for them;
* a graceful shutdown waits for an idle connection nobody closes (`server.go:372`,
  `conn.go:502`): `MCServerConn_graceful.cfg` ends in a violation. A KILL that arrives before the
  cancel function of the request is installed is lost (`server.go:357`), and a killed idle
  connection stays until its next packet.

Embedded engine
* a latch's waiter behind a stale one is not woken (`latch.go:48`, `scheduler.go:93`):
  `MCLatch_wake.cfg` ends in a violation, and `WaiterReturns` excepts the transactions that are
  `Stranded` by it and no others;
* a key taken with Op_Lock leaves no trace when it is committed (`mvcc_leveldb.go:620`), so the
  commit of a secondary that was resolved meanwhile logs "There must be a serious bug"
  (`2pc.go:473`), and a transaction whose primary is such a key may be told an error although it
  is committed (`2pc.go:435`): `LockingResultTrue` fails; `ResultTrue` excepts transactions that
  only lock some of their keys;
* `MCOnlineIndex_unique.cfg` (a unique index, `tables/index.go:231`, `ddl/index.go:763`) and
  `MCOnlineIndex_session.cfg` (a server that loses its session, `domain.go:412`) end in violations;
  a lease of 0, the default (`config.go:633`, comment at `ddl.go:274`), switches the waiting off
  and is not modelled;
* an owner that is shut down hands over at once (`manager.go:219-221`), and the next one waits only
  for the version that was published (`ddl_worker.go:581-602`), so that a version the old one had
  stored and not published is not waited for; a batch of the old backfill may still be committed.
  `VersionLag` excepts the first, `IndexExact` both, as `handed`; `InStep` and `AlwaysExact`, the
  same without the exception, fail in the configuration of the run;
* `CancelJobs` writes a cancelled job to its place in the two lists taken together
  (`admin.go:123`), over another job, which is lost, and the jobs that wait for it wait for good.
  `NoJobLost` (which fails without it) and `TableOrder` except the jobs touched (`strayed`),
  `EveryJobEnds` the lost ones
  and lists that are stuck behind them;
* a DROP TABLE that was cancelled still hands the table to the delete-range worker
  (`ddl_worker.go:280`): `MCDdlJobs_cancel.cfg` ends in a violation of `DeletesDropped`;
* a job may take the result or the cancel of a backfill that another job left behind, when a server
  is the owner again or the other job was cancelled without stopping it (comments at
  `ddl/index.go:337` and 341). `ReorgIsOwn` excepts it as `adopted`;
* DROP INDEX on an index that a cancelled ADD INDEX left in `writeReorg` (`ddl/index.go:443`), and
  ADD INDEX on one that a cancelled DROP INDEX left half way, are retried for ever at the head of
  their list. `EveryJobEnds` excepts lists that are `Stuck`.

## Not modelled

Text: rollback statements, fingerprints, the merge of ALTER statements, masking and print walk
over syntax trees or rows and keep no state. The HTTP interface, the notification socket, the wire
protocol and authentication are I/O. The parser is generated. The planner, executor, statistics
and the other storage code belong to the embedded engine, which holds the system tables and no
data of a user. `PROJECT.json` gives the reason for each part.
