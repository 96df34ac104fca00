---------------------------- MODULE TicketBackup ----------------------------
(***************************************************************************)
(* A ticket from its first statement to its result: executeCommit runs the  *)
(* statements on the target server (TicketExec), files a row for each of    *)
(* them on the backup server (BackupInfo), and reads the binlog they left   *)
(* for the rollback statements (BinlogBackup).  The three parts share the   *)
(* records, the binlog and the context a KILL cancels.                      *)
(*                                                                          *)
(* A database holds one table of its name, with one backup table.  A        *)
(* position of TicketExec is the end of a group of binlog events.           *)
(***************************************************************************)
EXTENDS TicketExec, SequencesExt

CONSTANTS
    NStmt,        \* length of the longest ticket
    NRows,        \* rows a DML changes, if it changes any
    OtherTable,   \* the table other clients write to
    OtherThread,  \* their thread id
    OldName,      \* see BackupInfo; a session starts without it
    ChanCap,      \* capacity of chBackupRecord and of s.ch
    FlushRows,    \* rows collected before an INSERT
    BackupFaults  \* what may go wrong in the backup

ASSUME TicketBackupAssumption ==
    /\ \A t \in Tickets : Len(t) <= NStmt
    /\ NRows \in Nat \ {0}
    /\ OtherTable \in Db
    /\ BackupFaults \subseteq {"ping", "info", "sync", "parse", "columns", "params", "flush"}

VARIABLES
    phase,        \* how far executeCommit is
    killExecute,  \* s.killExecute
    \* runBackup
    iLevel, iStatus, iPc, iCur, iRecord, iLastDb, iCache, iChan, iClosed, iCpc, iBuf, iStore,
    iLost,
    \* parserBinlog
    tk, bPc, bCursor, bRecord, bMyRecord, bLastTable, bPos, bThread, bChangeRows, bTodo,
    stage, bAffected, bChan, bClosed, bCpc, bHand, bBuf, bStored, bLost, bHappened

infoVars == <<iLevel, iStatus, iPc, iCur, iRecord, iLastDb, iCache, iChan, iClosed, iCpc, iBuf,
              iStore, iLost>>
binlogVars == <<tk, bPc, bCursor, bRecord, bMyRecord, bLastTable, bPos, bThread, bChangeRows,
                bTodo, stage, bAffected, bChan, bClosed, bCpc, bHand, bBuf, bStored, bLost,
                bHappened>>
allVars == <<vars, phase, killExecute, infoVars, binlogVars>>

\* vars without the context, which a KILL cancels in every phase.
execVars == <<recs, opt, pc, i, trans, work, k, ret, useAfter, txId, dbName, threadID,
              myRecord, res, sess, ddl, opened, ran, pos, others, happened>>

-----------------------------------------------------------------------------
(***************************************************************************)
(* What the execution hands over.                                           *)
(***************************************************************************)
Slot == 1..NStmt

\* checkSqlIsDML, checkSqlIsDDL: a statement whose execution is complete.
ToBackUp(r) == r \in RecNo /\ IsWork(r) /\ res[r].complete

InfoRecs ==
    [r \in Slot |-> IF ToBackUp(r) THEN [kind |-> "row", tab |-> TicketDb(r)]
                                   ELSE [kind |-> "skip", tab |-> NoDb]]

\* The statements whose changes are in the group of the binlog that ends at p.
Writers(p) == {r \in RecNo : ran[r].at = p}

Event(kind, th) ==
    [kind |-> kind, op |-> "none", thread |-> th, table |-> NoDb, n |-> 0, of |-> 0]
RowsOf(r, th, t, n) ==
    [Event("rows", th) EXCEPT !.op = "write", !.table = t, !.n = n, !.of = r]

\* A change of one row by another client.
OtherGroup ==
    <<Event("begin", OtherThread), RowsOf(0, OtherThread, OtherTable, 1),
      Event("end", OtherThread)>>

\* The events of a group: of another client, of a DDL, or of the DML of one
\* statement or transaction.
Group(p) ==
    LET w == SetToSortSeq(Writers(p), <)
        th == ran[w[1]].on
    IN CASE w = <<>> -> OtherGroup
         [] w # <<>> /\ Kind(w[1]) = "ddl" -> <<Event("begin", th)>>
         [] OTHER ->
              <<Event("begin", th)>>
              \o [j \in 1..Len(w) |-> RowsOf(w[j], th, ran[w[j]].db, NRows)]
              \o <<Event("end", th)>>

\* The binlog up to the group that ends at p.
LogUpTo(p) == FlattenSeq([q \in 1..p - 1 |-> Group(q + 1)])
EventPos(p) == IF p = 0 THEN 0 ELSE Len(LogUpTo(p))

\* AffectedRows as the server answered it; the answer for a statement of a
\* transaction precedes the commit.
Answered(r) ==
    IF /\ Kind(r) = "dml" /\ res[r].status = "ExecOK"
       /\ ran[r].effect = "done" => ran[r].at > 0
    THEN NRows ELSE 0

BinlogRec(r) ==
    [kind |-> IF ToBackUp(r) THEN Kind(r) ELSE "skip",
     table |-> TicketDb(r), tabs |-> {TicketDb(r)}, rollback |-> TRUE,
     start |-> EventPos(res[r].start), stop |-> EventPos(res[r].end),
     thread |-> res[r].tid, status |-> res[r].status, affected |-> Answered(r)]

Handed ==
    [recs |-> [r \in RecNo |-> BinlogRec(r)], log |-> LogUpTo(pos), tran |-> UseTran,
     mariadb |-> FALSE, killExecute |-> killExecute]

NoTicket == [recs |-> <<>>, log |-> <<>>, tran |-> FALSE, mariadb |-> FALSE,
             killExecute |-> FALSE]

Info == INSTANCE BackupInfo WITH
    NRec <- NStmt, Table <- Db, DbOf <- [d \in Db |-> d], NoTable <- NoDb,
    recs <- InfoRecs, ignoreWarnings <- opt.ignoreWarnings, level <- iLevel, status <- iStatus,
    pc <- iPc, cur <- iCur, myRecord <- iRecord, lastDb <- iLastDb, cache <- iCache,
    chan <- iChan, closed <- iClosed, cpc <- iCpc, buf <- iBuf, store <- iStore, lost <- iLost

Binlog == INSTANCE BinlogBackup WITH
    Table <- Db, NoTable <- NoDb, Tickets <- {}, Faults <- BackupFaults \ {"ping", "info"},
    pc <- bPc, cursor <- bCursor, record <- bRecord, myRecord <- bMyRecord,
    lastTable <- bLastTable, pos <- bPos, thread <- bThread, changeRows <- bChangeRows,
    todo <- bTodo, affected <- bAffected, chan <- bChan, closed <- bClosed, cpc <- bCpc,
    hand <- bHand, buf <- bBuf, stored <- bStored, lost <- bLost, happened <- bHappened

-----------------------------------------------------------------------------
\* Before a part is called its variables hold nothing.
InfoIdle ==
    /\ iLevel = [r \in Slot |-> 0] /\ iStatus = [r \in Slot |-> "ExecOK"]
    /\ iPc = "idle" /\ iCur = 1 /\ iRecord = 1 /\ iLastDb = NoDb /\ iCache = {}
    /\ iChan = <<>> /\ iClosed = FALSE /\ iCpc = "run" /\ iBuf = <<>>
    /\ iStore = <<>> /\ iLost = {}

BinlogIdle ==
    /\ tk = NoTicket /\ bPc = "idle" /\ bCursor = 0 /\ bRecord = 0 /\ bMyRecord = 1
    /\ bLastTable = NoDb /\ bPos = 0 /\ bThread = 0 /\ bChangeRows = 0 /\ bTodo = 0
    /\ stage = <<>> /\ bAffected = <<>> /\ bChan = <<>> /\ bClosed = FALSE
    /\ bCpc = "receive" /\ bHand = [kind |-> "none"] /\ bBuf = <<>> /\ bStored = <<>>
    /\ bLost = {} /\ bHappened = {}

TBInit ==
    /\ Init
    /\ phase = "exec"
    /\ killExecute = FALSE
    /\ InfoIdle
    /\ BinlogIdle

\* A fault of the backup shows in InfoTrouble or in bHappened; no behaviour has
\* more than MaxFaults in all its phases together.
InfoTrouble ==
    \/ iLost # {}
    \/ \E r \in RecNo : iLevel[r] > res[r].level
WithinFaults ==
    Cardinality(happened) + Cardinality(bHappened) + (IF InfoTrouble THEN 1 ELSE 0) <= MaxFaults

-----------------------------------------------------------------------------
(***************************************************************************)
(* executeCommit.                                                           *)
(***************************************************************************)

\* The statements are executed.  The loop that a KILL ends notes that it did;
\* a ticket that does not come to its first statement is returned at once.
Execute ==
    /\ phase = "exec"
    /\ \/ Prepare \/ ExecuteAllStatement \/ ExecuteTransaction \/ ExecuteRemoteCommand
       \/ IdleDrop \/ OtherWrites \/ Kill
    /\ killExecute' = (killExecute \/ (pc = "after" /\ pc' = "done" /\ ~hasErrorBefore))
    /\ phase' = IF pc = "prepare" /\ pc' = "done" THEN "result" ELSE "exec"
    /\ UNCHANGED <<infoVars, binlogVars>>

\* No backup was asked for.
NoBackup ==
    /\ phase = "exec"
    /\ pc = "done"
    /\ ~opt.backup
    /\ phase' = "result"
    /\ UNCHANGED <<vars, killExecute, infoVars, binlogVars>>

\* The backup server does not answer and cannot be reached anew.
BackupServerDown ==
    /\ phase = "exec"
    /\ pc = "done"
    /\ opt.backup
    /\ "ping" \in BackupFaults
    /\ bHappened' = {"ping"}
    /\ res' = Blame(res, myRecord)
    /\ phase' = "result"
    /\ UNCHANGED <<recs, opt, pc, loop, tran, dbName, threadID, myRecord, conns, target, world,
                   happened, killExecute, infoVars>>
    /\ UNCHANGED <<tk, bPc, bCursor, bRecord, bMyRecord, bLastTable, bPos, bThread, bChangeRows,
                   bTodo, stage, bAffected, bChan, bClosed, bCpc, bHand, bBuf, bStored, bLost>>
    /\ WithinFaults'

\* runBackup is called.
CallRunBackup ==
    /\ phase = "exec"
    /\ pc = "done"
    /\ opt.backup
    /\ phase' = "info"
    /\ iLevel' = [r \in Slot |-> IF r \in RecNo THEN res[r].level ELSE 0]
    /\ iStatus' = [r \in Slot |-> IF ToBackUp(r) THEN res[r].status ELSE "ExecOK"]
    /\ iRecord' = myRecord
    /\ iPc' = "next"
    /\ UNCHANGED <<vars, killExecute, iCur, iLastDb, iCache, iChan, iClosed, iCpc, iBuf, iStore,
                   iLost, binlogVars>>

RunBackup ==
    /\ phase = "info"
    /\ UNCHANGED <<vars, phase, killExecute, binlogVars>>
    /\ Info!RunBackup \/ Info!ProcessChanBackup
    /\ InfoTrouble' => "info" \in BackupFaults
    /\ WithinFaults'

\* runBackup has returned: parserBinlog is called.
CallParserBinlog ==
    /\ phase = "info"
    /\ iPc = "done"
    /\ phase' = "binlog"
    /\ tk' = Handed
    /\ bPc' = "scan"
    /\ bMyRecord' = iRecord
    /\ stage' = [r \in RecNo |-> IF ToBackUp(r) THEN iStatus[r] ELSE res[r].status]
    /\ bAffected' = [r \in RecNo |-> Answered(r)]
    /\ UNCHANGED <<vars, killExecute, infoVars, bCursor, bRecord, bLastTable, bPos, bThread,
                   bChangeRows, bTodo, bChan, bClosed, bCpc, bHand, bBuf, bStored, bLost,
                   bHappened>>

ParserBinlog ==
    /\ phase = "binlog"
    /\ UNCHANGED <<vars, phase, killExecute, infoVars>>
    /\ Binlog!Parser \/ Binlog!Writer
    /\ WithinFaults'

\* The records are returned to the client.
Deliver ==
    /\ phase = "binlog"
    /\ bPc = "done"
    /\ phase' = "result"
    /\ UNCHANGED <<vars, killExecute, infoVars, binlogVars>>

\* KILL while the backup is running; runBackup takes no notice.
KillBackup ==
    /\ phase \in {"info", "binlog"}
    /\ ~killed
    /\ killed' = TRUE
    /\ UNCHANGED <<execVars, phase, killExecute, infoVars, binlogVars>>

\* GetEvent waits at the end of the binlog until another client writes.  It does
\* so for the second record of a transaction whose rows are not in the binlog.
OthersGoOn ==
    /\ phase = "binlog"
    /\ bPc = "read"
    /\ bPos = Len(tk.log)
    /\ tk' = [tk EXCEPT !.log = @ \o OtherGroup]
    /\ UNCHANGED <<vars, phase, killExecute, infoVars, bPc, bCursor, bRecord, bMyRecord,
                   bLastTable, bPos, bThread, bChangeRows, bTodo, stage, bAffected, bChan,
                   bClosed, bCpc, bHand, bBuf, bStored, bLost, bHappened>>

Delivered == phase = "result" /\ UNCHANGED allVars

ExecuteCommit ==
    Execute \/ NoBackup \/ BackupServerDown \/ CallRunBackup \/ RunBackup \/ CallParserBinlog
    \/ ParserBinlog \/ Deliver

TBNext == ExecuteCommit \/ KillBackup \/ OthersGoOn \/ Delivered

TBSpec == TBInit /\ [][TBNext]_allVars

-----------------------------------------------------------------------------
\* The rows record r changed on the target server, as rollback statements.
Changed(r) == Binlog!Needed(r)

StoredFor(r) == {j \in 1..Len(bStored) : bStored[j].row.rec = r}

\* The backup server holds exactly what undoes record r, in its backup table.
Recoverable(r) ==
    /\ {bStored[j].row : j \in StoredFor(r)} = Changed(r)
    /\ Cardinality(StoredFor(r)) = Cardinality(Changed(r))
    /\ \A j \in StoredFor(r) : bStored[j].table = TicketDb(r)

HasInfo(r) == \E n \in 1..Len(iStore) : iStore[n] = [db |-> TicketDb(r), rec |-> r]

\* Rollback statements are found through the information row of their record:
\* parserBinlog stores none for a record runBackup did not get to.  In
\* transactions this holds of tickets without an error only: a DDL is executed
\* after a failed transaction, and runBackup stops at the failed record.
RollbackHasInfo ==
    phase = "result" /\ ~InfoTrouble /\ (UseTran => ~hasErrorBefore) =>
        \A j \in 1..Len(bStored) : HasInfo(bStored[j].row.rec)

\* "Backup Successfully" can be relied upon: the statement of a record marked
\* BackupOK took effect, and the backup server holds exactly what undoes it in
\* its backup table, whatever happened to the connections, the transactions and
\* the binlog range while it was executed (docs/result.md:24); and whatever is
\* stored is found through its information row.  Excepted are the faults
\* BinlogBackup lists: a refused INSERT and rows that cannot be turned into a
\* statement.
BackupOKIsRecoverable ==
    /\ phase = "result" /\ bPc = "done" /\ bHappened \cap {"flush", "columns", "params"} = {} =>
         \A r \in RecNo : stage[r] = "BackupOK" => ran[r].effect = "done" /\ Recoverable(r)
    /\ RollbackHasInfo

\* A ticket that comes back without an error can be undone: every statement that
\* changed something is marked BackupOK, its rollback statements are stored and
\* its row leads to them.  After a connection the pool replaced unnoticed the
\* cached thread id is stale; then nothing is found in the binlog, and the record
\* says BackupFail.
NoErrorMeansRecoverable ==
    /\ phase = "result" /\ opt.backup /\ ~hasErrorBefore
    /\ bHappened = {} /\ ~InfoTrouble /\ ~killed
    => \A r \in RecNo : ran[r].effect = "done" =>
          /\ HasInfo(r)
          /\ Kind(r) = "ddl" \/ ran[r].at > 0 =>
                \/ stage[r] = "BackupOK" /\ Recoverable(r)
                \/ stage[r] = "BackupFail" /\ "idle" \in happened
=============================================================================
