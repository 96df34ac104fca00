----------------------------- MODULE BackupInfo -----------------------------
(***************************************************************************)
(* First stage of the backup (session_backup.go): for every executed       *)
(* record one row goes into the table $_$inception_backup_information$_$   *)
(* of the record's backup database.  runBackup walks over the records and  *)
(* sends rows on the bounded channel chBackupRecord; the goroutine         *)
(* processChanBackup collects them in insertBuffer and inserts them in     *)
(* batches.  A message without values asks the goroutine to flush.         *)
(***************************************************************************)
EXTENDS Naturals, Sequences, FiniteSets

CONSTANTS
    NRec,       \* number of records of the order
    Table,      \* tables the order touches
    Db,         \* backup databases
    DbOf,       \* getRemoteBackupDBName: the backup database of a table
    NoTable,    \* the nil TableInfo, also of the records passed over
    NoDb,       \* the empty string in lastBackupTable
    OldName,    \* what an earlier order on this session left in lastBackupTable
    ChanCap,    \* capacity of chBackupRecord (50 in the code)
    FlushRows   \* rows collected before an INSERT (500 in the code)

ASSUME BackupInfoAssumption ==
    /\ NRec \in Nat \ {0}
    /\ DbOf \in [Table -> Db]
    /\ NoTable \notin Table
    /\ NoDb \notin Db
    /\ OldName \notin Db
    /\ OldName # NoDb
    /\ ChanCap \in Nat \ {0}
    /\ FlushRows \in Nat \ {0}

RecNo == 1..NRec

\* How runBackup sees a record: "skip" was not executed or needs no backup,
\* "noinfo" has a nil TableInfo, "row" is backed up by its row alone, "ddl" is
\* a DDL behind a middleware, whose rollback statement is written as well.
Level == 0..2
Status == {"ExecFail", "ExecOK", "BackupFail", "BackupOK"}

VARIABLES
    recs,           \* recordSets: kind and table of every record
    ignoreWarnings, \* s.opt.IgnoreWarnings
    level,          \* Record.ErrLevel
    status,         \* Record.StageStatus
    pc,             \* where runBackup is
    cur,            \* loop index of runBackup
    myRecord,       \* s.myRecord
    lastDb,         \* s.lastBackupTable
    cache,          \* backupDBCacheList and backupTableCacheList
    chan,           \* chBackupRecord
    closed,         \* chBackupRecord is closed
    cpc,            \* where processChanBackup is
    buf,            \* s.insertBuffer, one record number per row
    store,          \* information rows on the backup server, oldest first
    lost            \* rows of failed INSERTs

input == <<recs, ignoreWarnings>>
marks == <<level, status>>
producer == <<pc, cur, myRecord, lastDb, cache>>
server == <<store, lost>>
vars == <<recs, ignoreWarnings, level, status, pc, cur, myRecord, lastDb, cache,
          chan, closed, cpc, buf, store, lost>>

Record ==
    [kind : {"skip", "noinfo"}, tab : {NoTable}] \cup [kind : {"row", "ddl"}, tab : Table]
Message == [db : Db \cup {NoDb, OldName}, rec : RecNo, row : BOOLEAN]
InfoRow == [db : Db \cup {NoDb, OldName}, rec : RecNo]

\* The three CREATE statements of mysqlCreateBackupTable, in their order.
Stages(t) == <<<<"db", DbOf[t]>>, <<"table", t>>, <<"info", DbOf[t]>>>>

Stage == {"db", "table", "info"} \X (Db \cup Table)

\* The backup database of record r.
BackupDb(r) == DbOf[recs[r].tab]

Max(a, b) == IF a >= b THEN a ELSE b

(***************************************************************************)
(* hasError: the current record is in error, warnings included unless the  *)
(* caller asked to ignore them.                                            *)
(***************************************************************************)
hasError ==
    \/ level[myRecord] = 2
    \/ level[myRecord] = 1 /\ ~ignoreWarnings

-----------------------------------------------------------------------------
(***************************************************************************)
(* The state in which executeCommit calls runBackup.  Records carry a      *)
(* warning only if warnings are ignored; at most the last executed one     *)
(* carries an error, because execution stops there.                        *)
(***************************************************************************)
LastExecuted(r) == \A q \in RecNo : q > r => recs[q].kind = "skip"

Init ==
    /\ recs \in [RecNo -> Record]
    /\ ignoreWarnings \in BOOLEAN
    /\ level \in [RecNo -> Level]
    /\ \A r \in RecNo :
          /\ recs[r].kind = "skip" => level[r] = 0     \* never read
          /\ level[r] = 1 => ignoreWarnings
          /\ level[r] = 2 => LastExecuted(r)
    /\ status \in [RecNo -> {"ExecFail", "ExecOK"}]
    /\ \A r \in RecNo : status[r] = "ExecFail" => level[r] = 2
    /\ pc = "next"
    /\ cur = 1
    /\ myRecord = 1
    /\ lastDb \in {NoDb, OldName}
    /\ cache = {}
    /\ chan = <<>>
    /\ closed = FALSE
    /\ cpc = "run"
    /\ buf = <<>>
    /\ store = <<>>
    /\ lost = {}

-----------------------------------------------------------------------------
(***************************************************************************)
(* runBackup, the producer.                                                *)
(***************************************************************************)

\* appendErrorMsg and appendWarning: record r gets at least level lv.
\* recordSets.MaxLevel is not kept: after execution it only decides on the
\* wording of the first message.
Mark(r, lv) == level' = [level EXCEPT ![r] = Max(@, lv)]

\* mysqlCreateBackupTable gets through its first n CREATE statements.  A
\* statement whose object is cached is not sent and cannot fail.
CreateBackupTable(t, n) ==
    /\ n < 3 => Stages(t)[n + 1] \notin cache
    /\ cache' = cache \cup {Stages(t)[k] : k \in 1..n}

\* A record that was not executed, or of a type without backup.
SkipRecord ==
    /\ pc = "next"
    /\ cur <= NRec
    /\ recs[cur].kind = "skip"
    /\ cur' = cur + 1
    /\ UNCHANGED <<input, marks, pc, myRecord, lastDb, cache, chan, closed, cpc, buf, server>>

\* TableInfo is nil: an error, nothing is sent.
NoTableInfo ==
    /\ pc = "next"
    /\ cur <= NRec
    /\ recs[cur].kind = "noinfo"
    /\ myRecord' = cur
    /\ Mark(cur, 2)
    /\ pc' = "check"
    /\ UNCHANGED <<input, status, cur, lastDb, cache, chan, closed, cpc, buf, server>>

\* The backup tables are created and the row is built.  A failed CREATE is an
\* error of the record, an overlong statement for an old-style column
\* (tooLong) a warning; the row is sent in both cases.
PrepareRow ==
    /\ pc = "next"
    /\ cur <= NRec
    /\ recs[cur].kind \in {"row", "ddl"}
    /\ myRecord' = cur
    /\ \E n \in 0..3, tooLong \in BOOLEAN :
          /\ CreateBackupTable(recs[cur].tab, n)
          /\ Mark(cur, IF n < 3 THEN 2 ELSE IF tooLong THEN 1 ELSE 0)
    /\ pc' = "send"
    /\ UNCHANGED <<input, status, cur, lastDb, chan, closed, cpc, buf, server>>

\* The backup database changed: ask the goroutine to flush the old one first.
SendFlush ==
    /\ pc = "send"
    /\ lastDb \notin {NoDb, BackupDb(cur)}
    /\ Len(chan) < ChanCap
    /\ chan' = Append(chan, [db |-> lastDb, rec |-> cur, row |-> FALSE])
    /\ lastDb' = BackupDb(cur)
    /\ UNCHANGED <<input, marks, pc, cur, myRecord, cache, closed, cpc, buf, server>>

\* Mutant: a change of database is not noticed.
SendRowNoFlush ==
    /\ pc = "send"
    /\ Len(chan) < ChanCap
    /\ chan' = Append(chan, [db |-> BackupDb(cur), rec |-> cur, row |-> TRUE])
    /\ lastDb' = BackupDb(cur)
    /\ pc' = IF recs[cur].kind = "ddl" THEN "ddl" ELSE "check"
    /\ UNCHANGED <<input, marks, cur, myRecord, cache, closed, cpc, buf, server>>

SendRow ==
    /\ pc = "send"
    /\ lastDb \in {NoDb, BackupDb(cur)}
    /\ Len(chan) < ChanCap
    /\ chan' = Append(chan, [db |-> BackupDb(cur), rec |-> cur, row |-> TRUE])
    /\ lastDb' = BackupDb(cur)
    /\ pc' = IF recs[cur].kind = "ddl" THEN "ddl" ELSE "check"
    /\ UNCHANGED <<input, marks, cur, myRecord, cache, closed, cpc, buf, server>>

\* mysqlExecuteBackupSqlForDDL: behind a middleware the rollback statement of
\* a DDL (if there is one) is inserted right here, not through the channel.
WriteRollbackDDL ==
    /\ pc = "ddl"
    /\ \/ UNCHANGED marks                               \* DDLRollback = ""
       \/ /\ status' = [status EXCEPT ![cur] = "BackupOK"]
          /\ UNCHANGED level
       \/ /\ status' = [status EXCEPT ![cur] = "BackupFail"]
          /\ Mark(cur, 2)
    /\ pc' = "check"
    /\ UNCHANGED <<input, cur, myRecord, lastDb, cache, chan, closed, cpc, buf, server>>

\* The loop ends at the first record in error.
CheckError ==
    /\ pc = "check"
    /\ \/ /\ hasError
          /\ pc' = "close"
          /\ UNCHANGED cur
       \/ /\ ~hasError
          /\ pc' = "next"
          /\ cur' = cur + 1
    /\ UNCHANGED <<input, marks, myRecord, lastDb, cache, chan, closed, cpc, buf, server>>

\* Mutant: leaving the loop on an error forgets to close the channel.
CloseChanLate ==
    /\ \/ pc = "close" /\ UNCHANGED closed
       \/ pc = "next" /\ cur > NRec /\ closed' = TRUE
    /\ pc' = "wait"
    /\ UNCHANGED <<input, marks, cur, myRecord, lastDb, cache, chan, cpc, buf, server>>

CloseChan ==
    /\ \/ pc = "close"
       \/ pc = "next" /\ cur > NRec
    /\ closed' = TRUE
    /\ pc' = "wait"
    /\ UNCHANGED <<input, marks, cur, myRecord, lastDb, cache, chan, cpc, buf, server>>

\* wg.Wait returns once the goroutine is done.
Return ==
    /\ pc = "wait"
    /\ cpc = "done"
    /\ lastDb' = NoDb
    /\ pc' = "done"
    /\ UNCHANGED <<input, marks, cur, myRecord, cache, chan, closed, cpc, buf, server>>

-----------------------------------------------------------------------------
(***************************************************************************)
(* processChanBackup, the consumer.                                        *)
(***************************************************************************)

\* Mutant: insertBuffer survives a refused INSERT.
FlushKeepsRows(d, r, rows) ==
    \/ /\ rows = <<>>
       /\ UNCHANGED <<buf, marks, server>>
    \/ /\ rows # <<>>
       /\ buf' = <<>>
       /\ store' = store \o [k \in 1..Len(rows) |-> [db |-> d, rec |-> rows[k]]]
       /\ UNCHANGED <<marks, lost>>
    \/ /\ rows # <<>>
       /\ buf' = rows
       /\ lost' = lost \cup {rows[k] : k \in 1..Len(rows)}
       /\ Mark(r, 2)
       /\ status' = [status EXCEPT ![r] = "BackupFail"]
       /\ UNCHANGED store

\* flushBackupRecord inserts the rows into database d.  Only an error the
\* server answered (a MySQLError) is put on record r; after any other error
\* (the connection broke) the rows are dropped in silence.
FlushBackupRecord(d, r, rows) ==
    /\ buf' = <<>>
    /\ \/ /\ rows = <<>>
          /\ UNCHANGED <<marks, server>>
       \/ /\ rows # <<>>
          /\ store' = store \o [k \in 1..Len(rows) |-> [db |-> d, rec |-> rows[k]]]
          /\ UNCHANGED <<marks, lost>>
       \/ /\ rows # <<>>
          /\ lost' = lost \cup {rows[k] : k \in 1..Len(rows)}
          /\ Mark(r, 2)
          /\ status' = [status EXCEPT ![r] = "BackupFail"]
          /\ UNCHANGED store
       \/ /\ rows # <<>>
          /\ lost' = lost \cup {rows[k] : k \in 1..Len(rows)}
          /\ UNCHANGED <<marks, store>>

ReceiveFlush ==
    /\ cpc = "run"
    /\ chan # <<>>
    /\ ~Head(chan).row
    /\ chan' = Tail(chan)
    /\ FlushBackupRecord(Head(chan).db, Head(chan).rec, buf)
    /\ UNCHANGED <<input, producer, closed, cpc>>

\* writeBackupRecord: collect the row, insert when enough rows are there.
ReceiveRow ==
    /\ cpc = "run"
    /\ chan # <<>>
    /\ Head(chan).row
    /\ chan' = Tail(chan)
    /\ LET rows == Append(buf, Head(chan).rec)
       IN  IF Len(rows) >= FlushRows
           THEN FlushBackupRecord(Head(chan).db, Head(chan).rec, rows)
           ELSE buf' = rows /\ UNCHANGED <<marks, server>>
    /\ UNCHANGED <<input, producer, closed, cpc>>

\* Mutant: the goroutine ends without the last flush.
ReceiveNilNoFlush ==
    /\ cpc = "run"
    /\ chan = <<>>
    /\ closed
    /\ cpc' = "done"
    /\ UNCHANGED <<input, marks, producer, chan, closed, buf, server>>

\* The channel is closed and drained: flush what is left and finish.
ReceiveNil ==
    /\ cpc = "run"
    /\ chan = <<>>
    /\ closed
    /\ FlushBackupRecord(lastDb, myRecord, buf)
    /\ cpc' = "done"
    /\ UNCHANGED <<input, producer, chan, closed>>

-----------------------------------------------------------------------------
RunBackup ==
    \/ SkipRecord \/ NoTableInfo \/ PrepareRow \/ SendFlush \/ SendRow
    \/ WriteRollbackDDL \/ CheckError \/ CloseChan \/ Return

ProcessChanBackup == ReceiveFlush \/ ReceiveRow \/ ReceiveNil

Finished == pc = "done" /\ UNCHANGED vars

Next == RunBackup \/ ProcessChanBackup \/ Finished

Spec == Init /\ [][Next]_vars

\* Both goroutines are scheduled, and an INSERT returns.
FairSpec == Spec /\ WF_vars(RunBackup) /\ WF_vars(ProcessChanBackup)

-----------------------------------------------------------------------------
(***************************************************************************)
(* Properties.                                                             *)
(***************************************************************************)

\* Every variable has its type; the channel never holds more than its
\* capacity and insertBuffer never a full batch between two messages.
TypeOK ==
    /\ recs \in [RecNo -> Record]
    /\ ignoreWarnings \in BOOLEAN
    /\ level \in [RecNo -> Level]
    /\ status \in [RecNo -> Status]
    /\ pc \in {"next", "send", "ddl", "check", "close", "wait", "done"}
    /\ cur \in 1..NRec + 1
    /\ pc \in {"send", "ddl", "check"} => cur \in RecNo
    /\ pc \in {"send", "ddl"} => recs[cur].kind \in {"row", "ddl"}
    /\ myRecord \in RecNo
    /\ lastDb \in Db \cup {NoDb, OldName}
    /\ cache \subseteq Stage
    /\ chan \in Seq(Message)
    /\ Len(chan) <= ChanCap
    /\ closed \in BOOLEAN
    /\ cpc \in {"run", "done"}
    /\ buf \in Seq(RecNo)
    /\ Len(buf) < FlushRows
    /\ store \in Seq(InfoRow)
    /\ lost \subseteq RecNo

\* A row is only ever inserted into the backup database of its own record,
\* although insertBuffer carries no database and the goroutine learns of a
\* change of database through the channel (session_backup.go:246, "force a
\* flush when the database name changes").
RowInOwnDb == \A k \in 1..Len(store) : store[k].db = BackupDb(store[k].rec)

\* No record is forgotten: once runBackup returned without having met an
\* error, every record to back up was inserted or its INSERT failed, also the
\* last ones, which only the flush after close(chBackupRecord) writes.
NothingForgotten ==
    pc = "done" /\ cur > NRec =>
        \A r \in RecNo :
            recs[r].kind \in {"row", "ddl"} =>
                r \in lost \/ \E k \in 1..Len(store) : store[k].rec = r

\* The database the goroutine will be told of next behind the first k messages
\* in the channel; when there is none, the one runBackup remembers.
After(k) == IF k < Len(chan) THEN chan[k + 1].db ELSE lastDb

\* Why RowInOwnDb holds: whatever the goroutine receives next names the
\* database of all rows in insertBuffer, a row in the channel is followed by a
\* message of its own database, and nothing is on its way once the goroutine
\* has ended.
OrderInv ==
    /\ \A j \in 1..Len(buf) : BackupDb(buf[j]) = After(0) /\ After(0) \in Db
    /\ \A k \in 1..Len(chan) :
          chan[k].row => /\ chan[k].db = BackupDb(chan[k].rec)
                         /\ chan[k].db \in Db
                         /\ After(k) = chan[k].db
    /\ closed => pc \in {"wait", "done"}
    /\ cpc = "done" => closed /\ chan = <<>> /\ buf = <<>>

\* Where the row of record r can be once it was handed over.
Accounted(r) ==
    \/ r \in lost
    \/ \E k \in 1..Len(store) : store[k].rec = r
    \/ \E k \in 1..Len(buf) : buf[k] = r
    \/ \E k \in 1..Len(chan) : chan[k].row /\ chan[k].rec = r

\* Why NothingForgotten holds: no row that was handed over ever disappears
\* between channel, buffer and server.
AccountInv ==
    /\ \A r \in RecNo :
          /\ recs[r].kind \in {"row", "ddl"}
          /\ r < cur \/ (r = cur /\ pc \in {"ddl", "check"})
          => Accounted(r)
    /\ pc = "done" => cpc = "done"

\* runBackup returns: its sends, the goroutine's receives, close and wg.Wait
\* never wait for each other, also when the loop ends early.
BackupReturns == <>(pc = "done")

\* The rows on their way: first those in insertBuffer, then those in the
\* channel.  Markers are no rows.
IsRow(m) == m.row

InFlight ==
    LET rowMsgs == SelectSeq(chan, IsRow)
        recOf == [k \in 1..Len(rowMsgs) |-> rowMsgs[k].rec]
    IN  buf \o recOf

Entry(r) == [table |-> BackupDb(r), row |-> r]

Store == INSTANCE BackupStore WITH
    Target  <- Db \cup {NoDb, OldName},
    Row     <- RecNo,
    pending <- [k \in 1..Len(InFlight) |-> Entry(InFlight[k])],
    stored  <- [k \in 1..Len(store) |-> [table |-> store[k].db, row |-> store[k].rec]],
    lost    <- {Entry(r) : r \in lost}

\* The channel, the buffer and the two goroutines implement BackupStore: rows
\* reach the server in the order of the records, none twice, none skipped,
\* and no INSERT mixes two databases.
ImplementsStore == Store!Spec

\* docs/result.md:24 on the column of the backup status: "If the backup is
\* successful, it returns Backup successfully, otherwise it returns Backup
\* failed".  The code sets StatusBackupOK for the rollback statement of a DDL
\* alone, whatever becomes of the record's information row.
BackupOKIsStored ==
    pc = "done" => \A r \in RecNo : status[r] = "BackupOK" => r \notin lost
=============================================================================
