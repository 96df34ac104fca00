---------------------------- MODULE BinlogBackup ----------------------------
(***************************************************************************)
(* Second stage of the backup (parser.go): parserBinlog reads the binlog   *)
(* of the target database over the ranges of the executed records, turns   *)
(* the rows a record changed into rollback statements and sends them on    *)
(* the bounded channel s.ch; the goroutine processChan collects them in    *)
(* insertBuffer and inserts them into the backup table.                    *)
(*                                                                         *)
(* A binlog event is "begin" (QUERY_EVENT, names the thread), "rows" (a    *)
(* WRITE, UPDATE or DELETE of n rows of one table) or "end" (XID_EVENT).   *)
(* The position after the i-th event is i.  Rotation of the file, the      *)
(* text of the statements and the messages of the records are left out.    *)
(***************************************************************************)
EXTENDS Naturals, Sequences, FiniteSets

CONSTANTS
    Table,      \* tables, and their backup tables
    NoTable,    \* the empty string in lastBackupTable
    Tickets,    \* executed tickets: their records and the binlog they left
    ChanCap,    \* capacity of s.ch (50 in the code)
    FlushRows,  \* rows collected before an INSERT (500 in the code)
    Faults,     \* what may go wrong, each at most once
    MaxFaults   \* how many things may go wrong

Status == {"ExecOK", "ExecFail", "BackupFail", "BackupOK"}

\* What the execution leaves of a record: "skip" has no TableInfo, is neither
\* DML nor DDL, or was not executed.  A DDL may have no rollback statement.
Rec == [kind : {"skip", "dml", "ddl"}, table : Table, tabs : SUBSET Table, rollback : BOOLEAN,
        start : Nat, stop : Nat, thread : Nat, status : {"ExecOK", "ExecFail"}, affected : Nat]

\* "of" is the record whose execution wrote the event, 0 for other clients.
Event == [kind : {"begin", "rows", "end"}, op : {"none", "write", "change"}, thread : Nat,
          table : Table \cup {NoTable}, n : Nat, of : Nat]

Ticket == [recs : Seq(Rec), log : Seq(Event), tran : BOOLEAN, mariadb : BOOLEAN,
           killExecute : BOOLEAN]

FaultKinds == {"sync", "parse", "columns", "params", "flush"}

ASSUME BinlogAssumption ==
    /\ NoTable \notin Table
    /\ \A t \in Tickets : t \in Ticket
    /\ ChanCap \in Nat \ {0}
    /\ FlushRows \in Nat \ {0}
    /\ Faults \subseteq FaultKinds
    /\ MaxFaults \in Nat

VARIABLES
    tk,          \* the ticket
    pc,          \* where parserBinlog is
    cursor,      \* recordSets.cursor
    record,      \* record, 0 before the first one
    myRecord,    \* s.myRecord
    lastTable,   \* s.lastBackupTable
    pos,         \* currentPosition
    thread,      \* currentThreadID
    changeRows,  \* rows seen for the record
    todo,        \* rows of the event still to be written
    stage,       \* Record.StageStatus
    affected,    \* Record.AffectedRows
    killed,      \* the context of the ticket is cancelled
    chan,        \* s.ch
    closed,      \* s.ch is closed
    cpc,         \* where processChan is
    hand,        \* the message processChan works on
    buf,         \* s.insertBuffer
    stored,      \* rows on the backup server, oldest first
    lost,        \* rows of refused INSERTs
    happened     \* what went wrong so far

scan == <<cursor, record, myRecord, lastTable>>
reader == <<pos, thread, changeRows, todo>>
marks == <<stage, affected>>
writer == <<closed, cpc, hand, buf, stored, lost>>
vars == <<tk, pc, scan, reader, marks, killed, chan, writer, happened>>

NRec == Len(tk.recs)
RecNo == 1..NRec

\* A rollback statement: its record, and its event and row (0 for a DDL).
Row == [rec : Nat, ev : Nat, no : Nat]

\* chanData: a rollback statement, or the request to flush.
RowMsg(t, r, ev, no) == [kind |-> "row", table |-> t, rec |-> r,
                         row |-> [rec |-> r, ev |-> ev, no |-> no]]
FlushMsg(t, r) == [kind |-> "flush", table |-> t, rec |-> r]
NoMsg == [kind |-> "none"]

Fault(f) ==
    /\ f \in Faults \ happened
    /\ Cardinality(happened) < MaxFaults
    /\ happened' = happened \cup {f}

NoFault == UNCHANGED happened

Init ==
    /\ tk \in Tickets
    /\ pc = "scan"
    /\ cursor = 0
    /\ record = 0
    /\ myRecord = NRec
    /\ lastTable = NoTable
    /\ pos = 0
    /\ thread = 0
    /\ changeRows = 0
    /\ todo = 0
    /\ stage = [r \in RecNo |-> tk.recs[r].status]
    /\ affected = [r \in RecNo |-> tk.recs[r].affected]
    /\ killed = tk.killExecute
    /\ chan = <<>>
    /\ closed = FALSE
    /\ cpc = "receive"
    /\ hand = NoMsg
    /\ buf = <<>>
    /\ stored = <<>>
    /\ lost = {}
    /\ happened = {}

\* s.ch <- m
Send(m) ==
    /\ Len(chan) < ChanCap
    /\ chan' = Append(chan, m)

-----------------------------------------------------------------------------
(***************************************************************************)
(* getNextBackupRecord.                                                     *)
(***************************************************************************)

\* The record at the cursor.
Candidate == tk.recs[cursor + 1]

\* A DDL, or a DML that changed rows or whose outcome is unknown.
WantsBackup(r) ==
    \/ tk.recs[r].kind = "ddl"
    \/ /\ tk.recs[r].kind = "dml"
       /\ affected[r] > 0 \/ stage[r] = "ExecFail"
       /\ tk.recs[r].start # tk.recs[r].stop

PassOver ==
    /\ pc = "scan"
    /\ cursor < NRec
    /\ ~WantsBackup(cursor + 1)
    /\ cursor' = cursor + 1
    /\ lastTable' = IF lastTable = NoTable /\ Candidate.kind # "skip"
                    THEN Candidate.table ELSE lastTable
    /\ NoFault
    /\ UNCHANGED <<tk, pc, record, myRecord, reader, marks, killed, chan, writer>>

\* The record has another backup table: have the rows of the old one flushed.
SwitchTable ==
    /\ pc = "scan"
    /\ cursor < NRec
    /\ WantsBackup(cursor + 1)
    /\ lastTable \notin {NoTable, Candidate.table}
    /\ Send(FlushMsg(lastTable, myRecord))
    /\ lastTable' = Candidate.table
    /\ NoFault
    /\ UNCHANGED <<tk, pc, cursor, record, myRecord, reader, marks, killed, writer>>

\* The rollback statement of a DDL; an empty one is taken for a flush request.
SendDDL ==
    /\ pc = "scan"
    /\ cursor < NRec
    /\ Candidate.kind = "ddl"
    /\ lastTable \in {NoTable, Candidate.table}
    /\ Send(IF Candidate.rollback THEN RowMsg(Candidate.table, cursor + 1, 0, 0)
            ELSE FlushMsg(Candidate.table, cursor + 1))
    /\ lastTable' = Candidate.table
    /\ pc' = "ddl"
    /\ NoFault
    /\ UNCHANGED <<tk, cursor, record, myRecord, reader, marks, killed, writer>>

MarkDDL ==
    /\ pc = "ddl"
    /\ stage' = [stage EXCEPT ![cursor + 1] = IF @ = "ExecFail" THEN @ ELSE "BackupOK"]
    /\ cursor' = cursor + 1
    /\ pc' = "scan"
    /\ NoFault
    /\ UNCHANGED <<tk, record, myRecord, lastTable, reader, affected, killed, chan, writer>>

\* The next record to look for in the binlog.
TakeDML ==
    /\ pc = "scan"
    /\ cursor < NRec
    /\ WantsBackup(cursor + 1)
    /\ Candidate.kind = "dml"
    /\ lastTable \in {NoTable, Candidate.table}
    /\ stage' = [stage EXCEPT ![cursor + 1] = IF @ = "ExecFail" THEN @ ELSE "BackupFail"]
    /\ cursor' = cursor + 1
    /\ record' = cursor + 1
    /\ myRecord' = cursor + 1
    /\ lastTable' = Candidate.table
    /\ pc' = IF record = 0 THEN "sync" ELSE "killcheck"
    /\ NoFault
    /\ UNCHANGED <<tk, reader, affected, killed, chan, writer>>

NoRecordLeft ==
    /\ pc = "scan"
    /\ cursor = NRec
    /\ pc' = "close"
    /\ NoFault
    /\ UNCHANGED <<tk, scan, reader, marks, killed, chan, writer>>

-----------------------------------------------------------------------------
(***************************************************************************)
(* parserBinlog.                                                            *)
(***************************************************************************)

\* StartSync.  The stream starts with an artificial ROTATE_EVENT at the start
\* position, which matches nothing and goes through ENDCHECK.
StartSync ==
    /\ pc = "sync"
    /\ \/ NoFault /\ pos' = tk.recs[record].start /\ pc' = "endcheck"
       \/ Fault("sync") /\ UNCHANGED pos /\ pc' = "close"
    /\ UNCHANGED <<tk, scan, thread, changeRows, todo, marks, killed, chan, writer>>

\* Mutant: the thread of the event is not looked at.
MatchesAnyThread(e) ==
    /\ e.kind = "rows"
    /\ e.table \in IF e.op = "write" THEN {tk.recs[record].table} ELSE tk.recs[record].tabs

\* checkFilter, checkUpdateFilter: table and thread of the record.  The binlog
\* of MariaDB from version 10 on does not name the thread.
Matches(e) ==
    /\ e.kind = "rows"
    /\ e.table \in IF e.op = "write" THEN {tk.recs[record].table} ELSE tk.recs[record].tabs
    /\ tk.mariadb \/ thread = tk.recs[record].thread

\* GetEvent blocks until the server has one.
ReadEvent ==
    /\ pc = "read"
    /\ pos < Len(tk.log)
    /\ pos' = pos + 1
    /\ LET e == tk.log[pos + 1]
           inRange == pos + 1 >= tk.recs[record].start
       IN /\ thread' = IF inRange /\ e.kind = "begin" /\ ~tk.mariadb THEN e.thread ELSE thread
          /\ IF inRange /\ Matches(e)
             THEN /\ changeRows' = changeRows + e.n
                  /\ \/ NoFault /\ todo' = e.n /\ pc' = "rows"
                     \/ Fault("columns") /\ UNCHANGED todo /\ pc' = "endcheck"
             ELSE /\ pc' = IF inRange THEN "endcheck" ELSE "read"
                  /\ NoFault
                  /\ UNCHANGED <<changeRows, todo>>
    /\ UNCHANGED <<tk, scan, marks, killed, chan, writer>>

\* GetEvent or the decoding of rows fails.
ParseFails ==
    /\ pc \in {"read", "rows"}
    /\ Fault("parse")
    /\ pc' = "close"
    /\ UNCHANGED <<tk, scan, reader, marks, killed, chan, writer>>

\* write: one rollback statement.  A record that failed with unknown outcome
\* is corrected, row by row.  A statement whose parameters do not fit is nil
\* and is taken for a flush request.
WriteRow ==
    /\ pc = "rows"
    /\ affected' = [affected EXCEPT ![myRecord] = IF stage[myRecord] = "ExecFail" THEN @ + 1 ELSE @]
    /\ \/ NoFault /\ Send(RowMsg(lastTable, myRecord, pos, tk.log[pos].n - todo + 1))
       \/ Fault("params") /\ Send(FlushMsg(lastTable, myRecord))
    /\ todo' = todo - 1
    /\ pc' = IF todo = 1 THEN "endcheck" ELSE "rows"
    /\ UNCHANGED <<tk, scan, pos, thread, changeRows, stage, killed, writer>>

\* Mutant: an event that ends where the range ends counts as inside.
RecordDoneLate ==
    \/ pos > tk.recs[record].stop
    \/ tk.tran /\ ~tk.mariadb /\ changeRows >= affected[record]

\* Beyond the range of the record, or, with transactions, all its rows seen.
RecordDone ==
    \/ pos >= tk.recs[record].stop
    \/ tk.tran /\ ~tk.mariadb /\ changeRows >= affected[record]

\* Mutant: the counter runs on.
EndCheckNoReset ==
    /\ pc = "endcheck"
    /\ IF RecordDone
       THEN /\ stage' = [stage EXCEPT ![record] =
                  IF affected[record] > 0 /\ changeRows >= affected[record] THEN "BackupOK" ELSE @]
            /\ pc' = "scan"
       ELSE /\ pc' = "killcheck"
            /\ UNCHANGED stage
    /\ NoFault
    /\ UNCHANGED <<tk, scan, reader, affected, killed, chan, writer>>

\* ENDCHECK: on to the next record, or the next event.
EndCheck ==
    /\ pc = "endcheck"
    /\ IF RecordDone
       THEN /\ stage' = [stage EXCEPT ![record] =
                  IF affected[record] > 0 /\ changeRows >= affected[record] THEN "BackupOK" ELSE @]
            /\ changeRows' = 0
            /\ pc' = "scan"
       ELSE /\ pc' = "killcheck"
            /\ UNCHANGED <<stage, changeRows>>
    /\ NoFault
    /\ UNCHANGED <<tk, scan, pos, thread, todo, affected, killed, chan, writer>>

\* A ticket killed while it was executed is backed up all the same.
KillCheck ==
    /\ pc = "killcheck"
    /\ pc' = IF killed /\ ~tk.killExecute THEN "close" ELSE "read"
    /\ NoFault
    /\ UNCHANGED <<tk, scan, reader, marks, killed, chan, writer>>

CloseChan ==
    /\ pc = "close"
    /\ closed' = TRUE
    /\ pc' = "wait"
    /\ NoFault
    /\ UNCHANGED <<tk, scan, reader, marks, killed, chan, cpc, hand, buf, stored, lost>>

\* wg.Wait
Wait ==
    /\ pc = "wait"
    /\ cpc = "done"
    /\ pc' = "done"
    /\ NoFault
    /\ UNCHANGED <<tk, scan, reader, marks, killed, chan, writer>>

-----------------------------------------------------------------------------
(***************************************************************************)
(* processChan.                                                             *)
(***************************************************************************)

Receive ==
    /\ cpc = "receive"
    /\ chan # <<>>
    /\ hand' = Head(chan)
    /\ chan' = Tail(chan)
    /\ cpc' = "work"
    /\ NoFault
    /\ UNCHANGED <<tk, pc, scan, reader, marks, killed, closed, buf, stored, lost>>

\* The channel is closed and empty: a last flush.
ReceiveNil ==
    /\ cpc = "receive"
    /\ chan = <<>>
    /\ closed
    /\ hand' = FlushMsg(lastTable, myRecord)
    /\ cpc' = "last"
    /\ NoFault
    /\ UNCHANGED <<tk, pc, scan, reader, marks, killed, chan, closed, buf, stored, lost>>

\* myWrite, myWriteDDL: a full buffer is flushed at once.
Collect ==
    /\ cpc = "work"
    /\ hand.kind = "row"
    /\ buf' = Append(buf, [table |-> hand.table, row |-> hand.row])
    /\ IF Len(buf) + 1 >= FlushRows
       THEN hand' = FlushMsg(hand.table, hand.rec) /\ UNCHANGED cpc
       ELSE hand' = NoMsg /\ cpc' = "receive"
    /\ NoFault
    /\ UNCHANGED <<tk, pc, scan, reader, marks, killed, chan, closed, stored, lost>>

\* The buffer as rows of the table the INSERT names.
Rows(t) == [j \in 1..Len(buf) |-> [table |-> t, row |-> buf[j].row]]

\* Mutant: the buffer is not emptied.
FlushKeepsRows ==
    /\ cpc \in {"work", "last"}
    /\ hand.kind = "flush"
    /\ \/ NoFault /\ stored' = stored \o Rows(hand.table) /\ UNCHANGED <<lost, stage>>
       \/ /\ buf # <<>>
          /\ Fault("flush")
          /\ lost' = lost \cup {[table |-> hand.table, row |-> buf[j].row] : j \in 1..Len(buf)}
          /\ stage' = [stage EXCEPT ![hand.rec] = "BackupFail"]
          /\ UNCHANGED stored
    /\ hand' = NoMsg
    /\ cpc' = IF cpc = "last" THEN "done" ELSE "receive"
    /\ UNCHANGED <<tk, pc, scan, reader, affected, killed, chan, closed, buf>>

\* flush: one INSERT, which the backup server accepts or refuses.
Flush ==
    /\ cpc \in {"work", "last"}
    /\ hand.kind = "flush"
    /\ \/ NoFault /\ stored' = stored \o Rows(hand.table) /\ UNCHANGED <<lost, stage>>
       \/ /\ buf # <<>>
          /\ Fault("flush")
          /\ lost' = lost \cup {[table |-> hand.table, row |-> buf[j].row] : j \in 1..Len(buf)}
          /\ stage' = [stage EXCEPT ![hand.rec] = "BackupFail"]
          /\ UNCHANGED stored
    /\ buf' = <<>>
    /\ hand' = NoMsg
    /\ cpc' = IF cpc = "last" THEN "done" ELSE "receive"
    /\ UNCHANGED <<tk, pc, scan, reader, affected, killed, chan, closed>>

-----------------------------------------------------------------------------
\* KILL on the connection of the ticket.
Kill ==
    /\ ~killed
    /\ pc # "done"
    /\ killed' = TRUE
    /\ NoFault
    /\ UNCHANGED <<tk, pc, scan, reader, marks, chan, writer>>

Parser ==
    \/ PassOver \/ SwitchTable \/ SendDDL \/ MarkDDL \/ TakeDML \/ NoRecordLeft
    \/ StartSync \/ ReadEvent \/ ParseFails \/ WriteRow \/ EndCheck \/ KillCheck
    \/ CloseChan \/ Wait

Writer == Receive \/ ReceiveNil \/ Collect \/ Flush

Next == Parser \/ Writer \/ Kill

Spec == Init /\ [][Next]_vars

\* Both goroutines are scheduled, and every call to a database returns.
FairSpec == Spec /\ WF_vars(Parser) /\ WF_vars(Writer)

-----------------------------------------------------------------------------
\* The parser and the writer stay within their types; the channel within its
\* capacity and the buffer below the size at which it is flushed.
TypeOK ==
    /\ pc \in {"scan", "ddl", "sync", "read", "rows", "endcheck", "killcheck", "close", "wait",
               "done"}
    /\ cpc \in {"receive", "work", "last", "done"}
    /\ cursor \in 0..NRec
    /\ record \in 0..cursor
    /\ myRecord \in 0..NRec
    /\ lastTable \in Table \cup {NoTable}
    /\ pos \in 0..Len(tk.log)
    /\ thread \in Nat
    /\ changeRows \in Nat
    /\ todo \in Nat
    /\ stage \in [RecNo -> Status]
    /\ affected \in [RecNo -> Nat]
    /\ killed \in BOOLEAN
    /\ closed \in BOOLEAN
    /\ hand.kind \in {"none", "row", "flush"}
    /\ Len(chan) <= ChanCap
    /\ Len(buf) <= FlushRows
    /\ happened \subseteq Faults

\* The rows under way to the backup server, oldest first.
InChan == LET q == SelectSeq(chan, LAMBDA m : m.kind = "row")
          IN [j \in 1..Len(q) |-> [table |-> q[j].table, row |-> q[j].row]]
InHand == IF hand.kind = "row" THEN <<[table |-> hand.table, row |-> hand.row]>> ELSE <<>>
Pending == buf \o InHand \o InChan

RowsIn(s) == {s[j].row : j \in 1..Len(s)}
Backed == RowsIn(Pending) \cup RowsIn(stored) \cup {x.row : x \in lost}

\* The rollback statements of record r that its execution calls for.
Needed(r) ==
    IF tk.recs[r].kind = "ddl"
    THEN IF tk.recs[r].rollback THEN {[rec |-> r, ev |-> 0, no |-> 0]} ELSE {}
    ELSE UNION {{[rec |-> r, ev |-> p, no |-> j] : j \in 1..tk.log[p].n} :
                p \in {q \in 1..Len(tk.log) : tk.log[q].kind = "rows" /\ tk.log[q].of = r}}

\* The server counted for r exactly the rows that are in the binlog.
Exact(r) == tk.recs[r].affected = Cardinality(Needed(r))

\* The parser can tell whose rows it reads: MariaDB does not name the thread,
\* and the records of a transaction are told apart by their row counts.
Separable == ~tk.mariadb /\ (tk.tran => \A r \in RecNo : tk.recs[r].kind = "dml" => Exact(r))

\* The order of the records and, within one, of the binlog.
Before(x, y) ==
    \/ x.rec < y.rec
    \/ x.rec = y.rec /\ x.ev < y.ev
    \/ x.rec = y.rec /\ x.ev = y.ev /\ x.no < y.no

\* A rollback statement is where the rollback of its record looks for it: filed
\* under the record that changed the row, not under another record of the
\* transaction and never a row of other clients (checkFilter, checkUpdateFilter,
\* the early switch of ENDCHECK); in the backup table of that record, whatever
\* batch it is inserted with (lastBackupTable against the flush requests); after
\* the statements for earlier changes, none twice, since they are applied in
\* reverse order.
FiledRight ==
    LET s == stored \o Pending
    IN  /\ Separable => \A x \in Backed : x \in Needed(x.rec)
        /\ \A j \in 1..Len(stored) : stored[j].table = tk.recs[stored[j].row.rec].table
        /\ \A j \in 1..Len(s) - 1 : Before(s[j].row, s[j + 1].row)

\* A ticket that nothing disturbs is backed up completely: every record with
\* exact counts is marked BackupOK with all its rows stored, and a record of
\* unknown outcome is settled by the binlog: BackupOK with the rows counted if
\* it was executed, ExecFail if it was not.
Settled ==
    (pc = "done" /\ happened = {} /\ (killed => tk.killExecute) /\ Separable) =>
        \A r \in RecNo :
            LET unknown == tk.recs[r].status = "ExecFail"
            IN tk.recs[r].kind # "skip" /\ (unknown \/ Exact(r))
               => /\ Needed(r) \subseteq RowsIn(stored)
                  /\ tk.recs[r].kind = "dml" =>
                       stage[r] = IF Needed(r) # {} THEN "BackupOK"
                                  ELSE tk.recs[r].status
                  /\ tk.recs[r].kind = "dml" => affected[r] = Cardinality(Needed(r))

\* A record marked BackupOK has its rollback statements on the backup server, or
\* one of the faults the parser does not look at happened: a refused INSERT,
\* rows that could not be turned into a statement.
OKIsStored ==
    pc = "done" /\ happened \cap {"flush", "columns", "params"} = {} /\ Separable =>
        \A r \in RecNo : stage[r] = "BackupOK" => Needed(r) \subseteq RowsIn(stored)

\* What the ticket tells of its backup in the end is true: complete and settled
\* when nothing went wrong, and BackupOK only with the rollback statements
\* stored (write, ENDCHECK, the flush after the channel is closed).
BackupReported == Settled /\ OKIsStored

\* Rows as the abstract store sees them: the record they belong to.
Abs(e) == [table |-> e.table, row |-> e.row.rec]
AnyRecNo == UNION {1..Len(t.recs) : t \in Tickets}
AbsSeq(s) == [j \in 1..Len(s) |-> Abs(s[j])]

\* The channel and the buffer are an implementation of the abstract store: rows
\* settle in the order of the channel, in batches for one table, once each.
Store == INSTANCE BackupStore
    WITH Target <- Table, Row <- AnyRecNo,
         pending <- AbsSeq(Pending), stored <- AbsSeq(stored), lost <- {Abs(e) : e \in lost}
ImplementsStore == Store!Spec

\* The parser has come to the end of the binlog and of the range of its record,
\* which is the range of an earlier record too: the rows of the two, in one
\* transaction, cannot be told apart (MariaDB, ON DUPLICATE KEY UPDATE), so the
\* earlier one was not left before the end of the range.  Only an event of
\* another client lets the parser go on.
AwaitsOthers ==
    /\ pc = "read" /\ pos = Len(tk.log)
    /\ ~Separable
    /\ \E r \in 1..(record - 1) : tk.recs[r].kind = "dml" /\ tk.recs[r].stop = tk.recs[record].stop

\* parserBinlog returns: it neither waits for an event that does not come nor
\* for a writer that waits for it, except that it may await other clients.
ParserReturns == <>(pc = "done" \/ AwaitsOthers)

\* A killed backup ends.
KillEndsBackup == killed ~> (pc = "done")
=============================================================================
