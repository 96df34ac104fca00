----------------------------- MODULE TicketExec -----------------------------
(***************************************************************************)
(* Execution of an audited ticket: executeCommit and executeAllStatement of *)
(* session_inception.go with everything they call on the target server, up  *)
(* to the point where the backup begins.                                    *)
(*                                                                          *)
(* One goroutine executes the ticket.  Around it things happen in any       *)
(* order: statements fail, a connection is lost before, during or after a   *)
(* statement, the pool replaces an idle connection without telling, other   *)
(* clients write to the binlog, an administrator kills the operation.       *)
(* Faults and MaxFaults say which of these a model contains and how many.   *)
(***************************************************************************)
EXTENDS Integers, Sequences, FiniteSets, FiniteSetsExt

CONSTANTS
    Db,         \* databases a USE can name
    NoDb,       \* no database: the empty name
    Tickets,    \* the audited tickets: sequences of Stmt
    TranBatches, \* values of the option --trans; at most 1: no transactions
    LongWait,   \* wait_timeout is at least 600 seconds
    OptDbs,     \* values of the option --db
    Faults,     \* what may go wrong
    MaxFaults,  \* how many things go wrong in one behaviour
    MaxOther    \* how many events other clients write to the binlog

\* "other" is a statement of no known type while enable_any_statement is off.
Stmt == [kind : {"use"}, db : Db]
        \cup [kind : {"dml", "ddl", "set", "show", "other"}, db : {NoDb}]

FaultKind == {"prepare", "lost", "down", "idle", "stmt", "env", "begin", "thread",
              "status", "aux", "commit", "kill"}

ASSUME TicketAssumption ==
    /\ NoDb \notin Db
    /\ Tickets \subseteq Seq(Stmt) \ {<<>>}
    /\ TranBatches \subseteq Nat
    /\ LongWait \in BOOLEAN
    /\ OptDbs \subseteq Db \cup {NoDb}
    /\ Faults \subseteq FaultKind
    /\ MaxFaults \in Nat
    /\ MaxOther \in Nat

VARIABLES
    recs,       \* the audited statements, s.recordSets
    opt,        \* the options of the ticket
    pc,         \* where executeCommit is
    i,          \* the record of the loop in executeAllStatement
    trans,      \* records collected for the next transaction
    work,       \* the records executeTransaction was called with
    k,          \* the record of its loop
    ret,        \* where executeTransaction returns to
    useAfter,   \* its newUseDB
    txId,       \* its currentThreadId
    dbName,     \* s.dbName
    threadID,   \* s.threadID: the cached thread id, 0 when there is none
    myRecord,   \* s.myRecord: the record errors are written to
    res,        \* the result columns of each record
    sess,       \* the connection behind s.db
    ddl,        \* the connection behind s.ddlDB
    opened,     \* connections opened so far
    ran,        \* what the target server did for each record
    pos,        \* the end of the binlog
    others,     \* events other clients wrote
    killed,     \* the context of the operation was cancelled
    happened    \* what went wrong so far

option == <<recs, opt>>
loop == <<i, trans>>
tran == <<work, k, ret, useAfter, txId>>
conns == <<sess, ddl, opened>>
target == <<ran, pos>>
world == <<others, killed>>
vars == <<recs, opt, pc, i, trans, work, k, ret, useAfter, txId, dbName, threadID, myRecord,
          res, sess, ddl, opened, ran, pos, others, killed, happened>>

RecNo == 1..Len(recs)
Kind(r) == recs[r].kind
IsEnv(r) == Kind(r) \in {"use", "set"}
IsWork(r) == Kind(r) \in {"dml", "ddl"}
UseTran == opt.tranBatch > 1

\* Something of kind f goes wrong, once at most; or nothing does.
Fault(f) ==
    /\ f \in Faults \ happened
    /\ Cardinality(happened) < MaxFaults
    /\ happened' = happened \cup {f}
NoFault == UNCHANGED happened

\* The database of the last USE among the records of R, or d.
LastUse(R, d) ==
    LET U == {r \in R : Kind(r) = "use"} IN IF U = {} THEN d ELSE recs[Max(U)].db

\* The database a record is meant for: the one of the last USE before it.
TicketDb(r) == LastUse(1..r - 1, opt.db)

Result == [level : 0..2, status : {"Audit", "ExecOK", "ExecFail"}, complete : BOOLEAN,
           tid : Nat, start : Nat, end : Nat]
Conn == [id : Nat, db : Db \cup {NoDb}, env : SUBSET Nat]

\* The audit leaves s.dbName and the connection in the database of the last
\* USE of the ticket (checkChangeDB); ddlDB is as it was opened.  A ticket in
\* error is not executed.
Init ==
    /\ recs \in Tickets
    /\ opt \in [backup : BOOLEAN, ignoreWarnings : BOOLEAN, db : OptDbs, tranBatch : TranBatches]
    /\ pc = "prepare" /\ i = 1 /\ trans = <<>>
    /\ work = <<>> /\ k = 1 /\ ret = "after" /\ useAfter = NoDb /\ txId = 0
    /\ dbName = LastUse(RecNo, opt.db)
    /\ threadID = 0
    /\ myRecord = 1
    /\ res = [r \in RecNo |-> [level |-> 0, status |-> "Audit", complete |-> FALSE,
                               tid |-> 0, start |-> 0, end |-> 0]]
    /\ sess = [id |-> 1, db |-> dbName, env |-> {}]
    /\ ddl = [id |-> 2, db |-> opt.db, env |-> {}]
    /\ opened = 2
    /\ ran = [r \in RecNo |-> [effect |-> "none", db |-> NoDb, on |-> 0, env |-> {}, at |-> 0]]
    /\ pos = 1
    /\ others = 0 /\ killed = FALSE /\ happened = {}

-----------------------------------------------------------------------------
(***************************************************************************)
(* Helpers of the session.                                                  *)
(***************************************************************************)

\* appendErrorMsg and appendWarningMessage on record r, in the results f.
Blame(f, r) == [f EXCEPT ![r].level = 2]
Warn(f, r) == [f EXCEPT ![r].level = IF @ = 2 THEN 2 ELSE 1]

hasError(r) == res[r].level = 2 \/ (res[r].level = 1 /\ ~opt.ignoreWarnings)
hasErrorBefore == \E r \in RecNo : hasError(r)

\* The name initConnection selects.
ReconnectDb == IF dbName = NoDb THEN opt.db ELSE dbName

\* A new connection of a pool, in database d; its session settings are gone.
Fresh(d) == [id |-> opened + 1, db |-> d, env |-> {}]
Replace(d) == sess' = Fresh(d) /\ opened' = opened + 1

\* A USE or a SET takes effect on connection c.
Apply(c, r) ==
    CASE Kind(r) = "use" -> [c EXCEPT !.db = recs[r].db]
      [] Kind(r) = "set" -> [c EXCEPT !.env = @ \cup {r}]
      [] OTHER -> c

\* What the server notes when record r runs on connection c.
RunOn(c, r, effect) ==
    [ran EXCEPT ![r] = [@ EXCEPT !.effect = effect, !.db = c.db, !.on = c.id, !.env = c.env]]

\* fetchThreadID on connection c: the cached id, or that of the connection.
CachedOr(c) == IF threadID > 0 THEN threadID ELSE c.id

\* executeTransaction returns: its deferred function switches s.dbName.
Return ==
    /\ pc' = ret
    /\ dbName' = IF useAfter = NoDb THEN dbName ELSE useAfter

\* The server forgets what an unfinished transaction did.
RolledBack == [r \in RecNo |-> IF ran[r].effect = "open"
                               THEN [ran[r] EXCEPT !.effect = "none"] ELSE ran[r]]

-----------------------------------------------------------------------------
(***************************************************************************)
(* executeCommit until the first statement: read_only, session settings,    *)
(* checks of the binlog.  Setting 0 stands for the binlog settings the      *)
(* backup needs.                                                            *)
(***************************************************************************)
Prepare ==
    /\ pc = "prepare"
    /\ \/ /\ NoFault
          /\ sess' = [sess EXCEPT !.env = IF opt.backup THEN {0} ELSE {}]
          /\ pc' = "loop"
          /\ UNCHANGED <<res, opened>>
       \/ /\ Fault("prepare")
          /\ res' = Blame(res, 1)
          /\ pc' = "done"
          /\ UNCHANGED <<sess, opened>>
       \/ /\ Fault("lost")              \* exec with retry: reconnect and warn
          /\ \E e \in SUBSET {0} : sess' = [Fresh(ReconnectDb) EXCEPT !.env = e]
          /\ opened' = opened + 1
          /\ res' = Warn(res, 1)
          /\ pc' = IF opt.ignoreWarnings THEN "loop" ELSE "done"
    /\ UNCHANGED <<option, loop, tran, dbName, threadID, myRecord, ddl, target, world>>

-----------------------------------------------------------------------------
(***************************************************************************)
(* The loop of executeAllStatement.                                         *)
(***************************************************************************)
AtRecord == pc = "loop" /\ i <= Len(recs)

\* SHOW and EXPLAIN: continue, past the checks for errors and for a kill.
SkipShow ==
    /\ AtRecord
    /\ Kind(i) = "show"
    /\ i' = i + 1
    /\ NoFault
    /\ UNCHANGED <<option, pc, trans, tran, dbName, threadID, myRecord, res, conns, target,
                   world>>

\* Record i joins the transaction being collected; a full one is executed first.
Collect ==
    \/ /\ Len(trans) < opt.tranBatch
       /\ trans' = Append(trans, i)
       /\ pc' = "after"
       /\ UNCHANGED <<work, ret>>
    \/ /\ Len(trans) >= opt.tranBatch
       /\ work' = trans
       /\ trans' = <<i>>
       /\ ret' = "after"
       /\ pc' = "tx"

CollectDml ==
    /\ AtRecord
    /\ UseTran
    /\ Kind(i) = "dml"
    /\ Collect
    /\ NoFault
    /\ UNCHANGED <<option, i, k, useAfter, txId, dbName, threadID, myRecord, res, conns,
                   target, world>>

\* A USE or a SET runs on ddlDB at once and joins the transaction.  Its error
\* goes to s.myRecord, which this branch has not set.
CollectEnv ==
    /\ AtRecord
    /\ UseTran
    /\ IsEnv(i)
    /\ \/ /\ NoFault
          /\ ddl' = Apply(ddl, i)
          /\ Collect
          /\ UNCHANGED <<res, opened, sess>>
       \/ /\ Fault("env")
          /\ res' = Blame(res, myRecord)
          /\ pc' = "after"
          /\ UNCHANGED <<trans, work, ret, conns>>
       \/ /\ Fault("lost")              \* execDDL with retry; s.db is re-USEd, ddlDB is not
          /\ ddl' = Apply(Fresh(opt.db), i)
          /\ opened' = opened + 1
          /\ sess' = [sess EXCEPT !.db = ReconnectDb]
          /\ res' = Warn(res, myRecord)
          /\ Collect
    /\ UNCHANGED <<option, i, k, useAfter, txId, dbName, threadID, myRecord, target, world>>

\* Anything else ends the transaction being collected and runs by itself.
FlushThenRemote ==
    /\ AtRecord
    /\ UseTran
    /\ Kind(i) \in {"ddl", "other"}
    /\ IF trans = <<>>
       THEN pc' = "remote" /\ UNCHANGED <<work, ret, trans>>
       ELSE pc' = "tx" /\ work' = trans /\ trans' = <<>> /\ ret' = "remote"
    /\ NoFault
    /\ UNCHANGED <<option, i, k, useAfter, txId, dbName, threadID, myRecord, res, conns,
                   target, world>>

NoTran ==
    /\ AtRecord
    /\ ~UseTran
    /\ Kind(i) # "show"
    /\ pc' = "remote"
    /\ NoFault
    /\ UNCHANGED <<option, loop, tran, dbName, threadID, myRecord, res, conns, target, world>>

\* Mutant: only a kill stops the loop.
NextRecordIgnores ==
    /\ pc = "after"
    /\ IF killed THEN pc' = "done" /\ UNCHANGED i ELSE pc' = "loop" /\ i' = i + 1
    /\ NoFault
    /\ UNCHANGED <<option, trans, tran, dbName, threadID, myRecord, res, conns, target, world>>

\* After a record: stop at an error or a kill.
NextRecord ==
    /\ pc = "after"
    /\ \/ /\ hasErrorBefore
          /\ pc' = "done"
          /\ UNCHANGED <<i, res>>
       \/ /\ ~hasErrorBefore
          /\ killed
          /\ res' = Blame(res, myRecord)
          /\ pc' = "done"
          /\ UNCHANGED i
       \/ /\ ~hasErrorBefore
          /\ ~killed
          /\ i' = i + 1
          /\ pc' = "loop"
          /\ UNCHANGED res
    /\ NoFault
    /\ UNCHANGED <<option, trans, tran, dbName, threadID, myRecord, conns, target, world>>

\* The loop is over: the rest of the collected records.
LastBatch ==
    /\ pc = "loop"
    /\ i > Len(recs)
    /\ IF ~hasErrorBefore /\ UseTran /\ trans # <<>>
       THEN pc' = "tx" /\ work' = trans /\ trans' = <<>> /\ ret' = "done"
       ELSE pc' = "done" /\ UNCHANGED <<work, ret, trans>>
    /\ NoFault
    /\ UNCHANGED <<option, i, k, useAfter, txId, dbName, threadID, myRecord, res, conns,
                   target, world>>

-----------------------------------------------------------------------------
(***************************************************************************)
(* executeTransaction.                                                      *)
(***************************************************************************)

\* The records before the USE and SET commands at the end.
Kept == Max({0} \cup {j \in 1..Len(work) : ~IsEnv(work[j])})

\* Mutant: a USE that is cut off is forgotten.
NewUseDBNone == NoDb

\* newUseDB: the last USE among the commands at the end.
NewUseDB == LastUse({work[j] : j \in Kept + 1..Len(work)}, NoDb)

\* Nothing but USE and SET: no transaction, only the deferred switch.
EnvOnly ==
    /\ pc = "tx"
    /\ Kept = 0
    /\ dbName' = IF NewUseDB = NoDb THEN dbName ELSE NewUseDB
    /\ pc' = ret
    /\ NoFault
    /\ UNCHANGED <<option, loop, tran, threadID, myRecord, res, conns, target, world>>

\* tx.Begin, USE and connection_id().  A single command at the end is not cut
\* off: skipIndex < len(records)-1.
Begin ==
    /\ pc = "tx"
    /\ Kept > 0
    /\ work' = IF Kept < Len(work) - 1 THEN SubSeq(work, 1, Kept) ELSE work
    /\ useAfter' = NewUseDB
    /\ k' = 1
    /\ sess' = [sess EXCEPT !.db = IF dbName = NoDb THEN @ ELSE dbName]
    /\ pc' = IF opt.backup THEN "txstart" ELSE "txexec"
    /\ \/ NoFault /\ txId' = sess.id /\ UNCHANGED res
       \/ Fault("thread") /\ txId' = 0 /\ res' = Blame(res, myRecord)
    /\ UNCHANGED <<option, loop, ret, dbName, threadID, myRecord, ddl, opened, target, world>>

BeginFails ==
    /\ pc = "tx"
    /\ Kept > 0
    /\ dbName # NoDb
    /\ Fault("begin")
    /\ myRecord' = work[1]
    /\ res' = Blame(res, work[1])
    /\ dbName' = IF NewUseDB = NoDb THEN dbName ELSE NewUseDB
    /\ pc' = ret
    /\ UNCHANGED <<option, loop, tran, threadID, conns, target, world>>

\* With a backup the first record notes where the binlog is.  SHOW MASTER
\* STATUS needs a second connection of the pool: when that one turns out to
\* be dead, raw() writes an error to the record and answers all the same.
TxStart ==
    /\ pc = "txstart"
    /\ myRecord' = work[1]
    /\ \/ /\ \/ txId = 0 /\ NoFault
             \/ txId # 0 /\ Fault("status")
          /\ res' = Blame(res, work[1])
          /\ Return
       \/ /\ txId # 0
          /\ \/ NoFault /\ res' = [res EXCEPT ![work[1]].start = pos]
             \/ Fault("aux") /\ res' = Blame([res EXCEPT ![work[1]].start = pos], work[1])
          /\ pc' = "txexec"
          /\ UNCHANGED dbName
    /\ UNCHANGED <<option, loop, tran, threadID, conns, target, world>>

\* A statement without a database is refused by the server.
NoDatabase(c, r) == IsWork(r) /\ c.db = NoDb

TxExec ==
    /\ pc = "txexec"
    /\ ~NoDatabase(sess, work[k])
    /\ NoFault
    /\ myRecord' = work[k]
    /\ res' = [res EXCEPT ![work[k]] =
                  [@ EXCEPT !.status = "ExecOK", !.complete = TRUE, !.tid = txId]]
    /\ ran' = IF IsWork(work[k]) THEN RunOn(sess, work[k], "open") ELSE ran
    /\ sess' = Apply(sess, work[k])
    /\ dbName' = IF Kind(work[k]) = "use" THEN recs[work[k]].db ELSE dbName
    /\ k' = k + 1
    /\ pc' = IF k = Len(work) THEN "txend" ELSE "txexec"
    /\ UNCHANGED <<option, loop, work, ret, useAfter, txId, threadID, ddl, opened, pos, world>>

\* Mutant: only the statement that failed is marked.
TxExecFailsOne ==
    /\ pc = "txexec"
    /\ Fault("stmt")
    /\ myRecord' = work[k]
    /\ ran' = RolledBack
    /\ res' = Blame([res EXCEPT ![work[k]].status = "ExecFail"], work[k])
    /\ Return
    /\ UNCHANGED <<option, loop, tran, threadID, conns, pos, world>>

\* The statement fails, or its connection is lost: roll back, and this and
\* all earlier records of the transaction failed.
TxExecFails ==
    /\ pc = "txexec"
    /\ \/ Fault("stmt") /\ UNCHANGED <<sess, opened>>
       \/ NoDatabase(sess, work[k]) /\ NoFault /\ UNCHANGED <<sess, opened>>
       \/ Fault("lost") /\ Replace(opt.db)
    /\ myRecord' = work[k]
    /\ ran' = RolledBack
    /\ res' = [r \in RecNo |->
                  IF \E j \in 1..k : work[j] = r
                  THEN [res[r] EXCEPT !.status = "ExecFail", !.complete = FALSE, !.level = 2]
                  ELSE res[r]]
    /\ Return
    /\ UNCHANGED <<option, loop, tran, threadID, ddl, pos, world>>

\* All records ran.  With an error on the last one the function returns and
\* leaves the transaction open, on a connection no one uses again.
TxAbandon ==
    /\ pc = "txend"
    /\ hasError(myRecord)
    /\ Replace(opt.db)
    /\ Return
    /\ NoFault
    /\ UNCHANGED <<option, loop, tran, threadID, myRecord, res, ddl, target, world>>

\* The records of the transaction are in the binlog, unless they changed no row.
Committed(e) ==
    [r \in RecNo |-> IF ran[r].effect = "open"
                     THEN [ran[r] EXCEPT !.effect = "done", !.at = IF e = 1 THEN pos + 1 ELSE 0]
                     ELSE ran[r]]

\* tx.Commit, whose error nobody looks at: it may have failed, or have
\* succeeded while the answer was lost.
TxCommit ==
    /\ pc = "txend"
    /\ ~hasError(myRecord)
    /\ \/ /\ NoFault
          /\ \E e \in 0..1 : ran' = Committed(e) /\ pos' = pos + e
          /\ UNCHANGED <<sess, opened>>
       \/ /\ Fault("commit")
          /\ Replace(opt.db)
          /\ \/ ran' = RolledBack /\ UNCHANGED pos
             \/ ran' = Committed(1) /\ pos' = pos + 1
    /\ IF opt.backup THEN pc' = "txpos" /\ UNCHANGED dbName ELSE Return
    /\ UNCHANGED <<option, loop, tran, threadID, myRecord, res, ddl, world>>

\* Where the binlog is now, for all records of the transaction; when it has
\* not moved the first record forgets its start.
TxPos ==
    /\ pc = "txpos"
    /\ LET start == res[work[1]].start
           noted == IF start = pos
                    THEN [res EXCEPT ![work[1]].start = 0]
                    ELSE [r \in RecNo |-> IF \E j \in 1..Len(work) : work[j] = r
                                          THEN [res[r] EXCEPT !.start = start, !.end = pos]
                                          ELSE res[r]]
       IN \/ NoFault /\ res' = noted
          \/ Fault("status") /\ res' = Blame(res, myRecord)
          \/ Fault("aux") /\ res' = Blame(noted, myRecord)
    /\ Return
    /\ UNCHANGED <<option, loop, tran, threadID, myRecord, conns, target, world>>

-----------------------------------------------------------------------------
(***************************************************************************)
(* executeRemoteCommand, with executeRemoteStatementAndBackup and           *)
(* executeRemoteStatement.  With transactions it uses ddlDB.                *)
(***************************************************************************)
RemoteCommand ==
    /\ pc = "remote"
    /\ myRecord' = i
    /\ \/ /\ Kind(i) = "other"
          /\ res' = Blame(res, i)
          /\ pc' = "after"
       \/ /\ Kind(i) # "other"
          /\ pc' = IF Kind(i) = "dml" /\ opt.backup THEN "start" ELSE "exec"
          /\ UNCHANGED res
    /\ NoFault
    /\ UNCHANGED <<option, loop, tran, dbName, threadID, conns, target, world>>

\* Mutant: executes also when raw() had to reconnect.
FetchStartGoesOn ==
    /\ pc = "start"
    /\ \/ NoFault /\ res' = [res EXCEPT ![i].start = pos] /\ UNCHANGED <<sess, opened>>
       \/ /\ Fault("aux")
          /\ Replace(ReconnectDb)
          /\ res' = Blame([res EXCEPT ![i].start = pos], i)
    /\ pc' = "exec"
    /\ UNCHANGED <<option, loop, tran, dbName, threadID, myRecord, ddl, target, world>>

\* The start of the binlog range.  A dead connection is replaced by raw(),
\* at the price of an error, and then the statement is not executed.
FetchStart ==
    /\ pc = "start"
    /\ \/ /\ NoFault
          /\ res' = [res EXCEPT ![i].start = pos]
          /\ pc' = "exec"
          /\ UNCHANGED <<sess, opened>>
       \/ /\ Fault("status")
          /\ res' = Blame(res, i)
          /\ pc' = "after"
          /\ UNCHANGED <<sess, opened>>
       \/ /\ Fault("aux")
          /\ Replace(ReconnectDb)
          /\ res' = Blame([res EXCEPT ![i].start = pos, ![i].status = "ExecFail"], i)
          /\ pc' = "after"
    /\ UNCHANGED <<option, loop, tran, dbName, threadID, myRecord, ddl, target, world>>

RunConn == IF UseTran THEN ddl ELSE sess

\* A DML or DDL takes effect; a DML that changes no row leaves no event (e = 0).
Effect(e) ==
    IF IsWork(i)
    THEN /\ e = 0 => Kind(i) = "dml"
         /\ ran' = [RunOn(RunConn, i, "done") EXCEPT ![i].at = IF e = 1 THEN pos + 1 ELSE 0]
         /\ pos' = pos + e
    ELSE e = 0 /\ UNCHANGED <<ran, pos>>

AfterExec == IF Kind(i) = "dml" /\ opt.backup THEN "end" ELSE "after"

\* Record i is executed, and t is its thread id.
Noted(t) == [res EXCEPT ![i] = [@ EXCEPT !.status = "ExecOK", !.complete = TRUE, !.tid = t]]

\* The connection behind s.db when record i has run.
SessApplied == sess' = (IF UseTran THEN sess ELSE Apply(sess, i)) /\ UNCHANGED opened

\* The statement succeeds.  Without a thread id the record counts as executed
\* but not as complete; for a DML with a backup that ends it here.  When the
\* connection is dead by the time of connection_id(), raw() replaces it at the
\* price of an error, and the id is that of the new one.
Exec ==
    /\ pc = "exec"
    /\ ~NoDatabase(RunConn, i)
    /\ \E e \in 0..1 : Effect(e)
    /\ ddl' = IF UseTran THEN Apply(ddl, i) ELSE ddl
    /\ dbName' = IF Kind(i) = "use" THEN recs[i].db ELSE dbName
    /\ \/ /\ NoFault
          /\ threadID' = CachedOr(sess)
          /\ res' = Noted(CachedOr(sess))
          /\ pc' = AfterExec
          /\ SessApplied
       \/ /\ threadID = 0
          /\ Fault("thread")
          /\ res' = Blame([res EXCEPT ![i].status = "ExecOK"], i)
          /\ pc' = "after"
          /\ SessApplied
          /\ UNCHANGED threadID
       \/ /\ threadID = 0
          /\ Fault("aux")
          /\ Replace(ReconnectDb)
          /\ threadID' = opened'
          /\ res' = Blame(Noted(opened'), i)
          /\ pc' = AfterExec
    /\ UNCHANGED <<option, loop, tran, myRecord, world>>

ExecFails ==
    /\ pc = "exec"
    /\ \/ Fault("stmt")
       \/ /\ NoDatabase(RunConn, i)
          /\ UseTran \/ ~LongWait \/ dbName = NoDb
          /\ NoFault
    /\ res' = Blame([res EXCEPT ![i].status = "ExecFail"], i)
    /\ pc' = "after"
    /\ UNCHANGED <<option, loop, tran, dbName, threadID, myRecord, conns, target, world>>

\* Error 1046, no database selected, with a long wait_timeout: take it for a
\* reconnection, select the database and execute again.
ExecAgain ==
    /\ pc = "exec"
    /\ ~UseTran
    /\ NoDatabase(sess, i)
    /\ LongWait
    /\ dbName # NoDb
    /\ Replace(ReconnectDb)
    /\ res' = Warn(res, i)
    /\ NoFault
    /\ UNCHANGED <<option, pc, loop, tran, dbName, threadID, myRecord, ddl, target, world>>

\* The connection is lost under the statement, which was executed or not.
\* After a reconnection and with a backup the record counts as complete: the
\* binlog will tell.  When the server stays down this is left out.
ExecLost ==
    /\ pc = "exec"
    /\ ~NoDatabase(RunConn, i)
    /\ \/ UNCHANGED target
       \/ \E e \in 0..1 : Effect(e)
    /\ IF UseTran
       THEN /\ ddl' = Fresh(opt.db)
            /\ sess' = [sess EXCEPT !.db = ReconnectDb]
            /\ opened' = opened + 1
       ELSE Replace(ReconnectDb) /\ UNCHANGED ddl
    /\ \/ /\ Fault("lost")
          /\ opt.backup
          /\ threadID' = CachedOr(sess')
          /\ res' = Blame([res EXCEPT ![i] = [@ EXCEPT !.status = "ExecFail", !.complete = TRUE,
                                                       !.tid = CachedOr(sess')]], i)
          /\ pc' = AfterExec
       \/ /\ \/ ~opt.backup /\ Fault("lost")
             \/ Fault("down")
          /\ res' = Blame([res EXCEPT ![i].status = "ExecFail"], i)
          /\ pc' = "after"
          /\ UNCHANGED threadID
    /\ UNCHANGED <<option, loop, tran, dbName, myRecord, world>>

\* Mutant: a range of one event is taken for an empty one.
FetchEndOffByOne ==
    /\ pc = "end"
    /\ res' = IF res[i].start + 1 >= pos
              THEN [res EXCEPT ![i].start = 0]
              ELSE [res EXCEPT ![i].end = pos, ![i].complete = TRUE]
    /\ pc' = "after"
    /\ NoFault
    /\ UNCHANGED <<option, loop, tran, dbName, threadID, myRecord, conns, target, world>>

\* The end of the binlog range; when the binlog has not moved there is none.
FetchEnd ==
    /\ pc = "end"
    /\ LET noted == IF res[i].start = pos
                    THEN [res EXCEPT ![i].start = 0]
                    ELSE [res EXCEPT ![i].end = pos, ![i].complete = TRUE]
       IN \/ NoFault /\ res' = noted /\ UNCHANGED <<sess, opened>>
          \/ Fault("status") /\ res' = Blame(res, i) /\ UNCHANGED <<sess, opened>>
          \/ Fault("aux") /\ res' = Blame(noted, i) /\ Replace(ReconnectDb)
    /\ pc' = "after"
    /\ UNCHANGED <<option, loop, tran, dbName, threadID, myRecord, ddl, target, world>>

-----------------------------------------------------------------------------
(***************************************************************************)
(* Everybody else.                                                          *)
(***************************************************************************)

\* An idle connection of s.db or of ddlDB was closed by the server; the pool
\* opens another for the next statement, in the database the DSN names, and
\* reports nothing.  (A connection that is closed while the other one works is
\* not used before, so this may as well happen at the head of the loop.)
IdleDrop ==
    /\ pc = "loop"
    /\ Fault("idle")
    /\ \/ Replace(opt.db) /\ UNCHANGED ddl
       \/ UseTran /\ ddl' = Fresh(opt.db) /\ opened' = opened + 1 /\ UNCHANGED sess
    /\ UNCHANGED <<option, pc, loop, tran, dbName, threadID, myRecord, res, target, world>>

OtherWrites ==
    /\ pc # "done"
    /\ others < MaxOther
    /\ others' = others + 1
    /\ pos' = pos + 1
    /\ UNCHANGED <<option, pc, loop, tran, dbName, threadID, myRecord, res, conns, ran, killed,
                   happened>>

Kill ==
    /\ pc # "done"
    /\ ~killed
    /\ Fault("kill")
    /\ killed' = TRUE
    /\ UNCHANGED <<option, pc, loop, tran, dbName, threadID, myRecord, res, conns, target,
                   others>>

\* Executed: the backup takes over.
Finished == pc = "done" /\ UNCHANGED vars

ExecuteTransaction ==
    EnvOnly \/ Begin \/ BeginFails \/ TxStart \/ TxExec \/ TxExecFails \/ TxAbandon
    \/ TxCommit \/ TxPos
ExecuteRemoteCommand ==
    RemoteCommand \/ FetchStart \/ Exec \/ ExecFails \/ ExecAgain \/ ExecLost \/ FetchEnd
ExecuteAllStatement ==
    SkipShow \/ CollectDml \/ CollectEnv \/ FlushThenRemote \/ NoTran \/ NextRecord \/ LastBatch

Next == \/ Prepare
        \/ ExecuteAllStatement
        \/ ExecuteTransaction
        \/ ExecuteRemoteCommand
        \/ IdleDrop \/ OtherWrites \/ Kill
        \/ Finished

Spec == Init /\ [][Next]_vars

-----------------------------------------------------------------------------
(***************************************************************************)
(* Properties.                                                              *)
(***************************************************************************)

\* Every variable has its type; the loop is at a record whenever it works on
\* one, and no more records are collected than the option --trans says.
TypeOK ==
    /\ recs \in Seq(Stmt) \ {<<>>}
    /\ opt \in [backup : BOOLEAN, ignoreWarnings : BOOLEAN, db : OptDbs, tranBatch : TranBatches]
    /\ pc \in {"prepare", "loop", "after", "tx", "txstart", "txexec", "txend", "txpos",
               "remote", "start", "exec", "end", "done"}
    /\ i \in 1..Len(recs) + 1
    /\ pc \in {"after", "remote", "start", "exec", "end"} => i \in RecNo
    /\ trans \in Seq(RecNo)
    /\ Len(trans) <= opt.tranBatch
    /\ work \in Seq(RecNo)
    /\ pc \in {"tx", "txstart", "txexec", "txend", "txpos"} => work # <<>>
    /\ k \in Nat \ {0}
    /\ pc = "txexec" => k <= Len(work)
    /\ ret \in {"after", "remote", "done"}
    /\ useAfter \in Db \cup {NoDb}
    /\ txId \in Nat
    /\ dbName \in Db \cup {NoDb}
    /\ threadID \in Nat
    /\ myRecord \in RecNo
    /\ res \in [RecNo -> Result]
    /\ sess \in Conn
    /\ ddl \in Conn
    /\ opened \in Nat
    /\ ran \in [RecNo -> [effect : {"none", "open", "done"}, db : Db \cup {NoDb}, on : Nat,
                          env : SUBSET Nat, at : Nat]]
    /\ pos \in Nat \ {0}
    /\ others \in 0..MaxOther
    /\ killed \in BOOLEAN
    /\ happened \subseteq Faults

\* Outside transactions a statement reported as executed has taken effect when
\* executeAllStatement is over.
OKMeansDone ==
    pc = "done" /\ ~UseTran =>
        \A r \in RecNo : IsWork(r) /\ res[r].status = "ExecOK" => ran[r].effect = "done"

\* In transactions the report is exact between two transactions: a DML is
\* reported as executed if and only if it is committed.  Two cases are known
\* to break this and are excepted: the error of tx.Commit is ignored, and a
\* transaction whose only record got an error from raw() is neither committed
\* nor rolled back.
ReportMatches ==
    UseTran /\ pc \in {"loop", "after", "remote", "done"} /\ happened \cap {"commit", "aux"} = {} =>
        \A r \in RecNo : Kind(r) = "dml" =>
            (res[r].status = "ExecOK" <=> ran[r].effect = "done")

\* "Execute Successfully" is true, with and without transactions
\* (docs/result.md:23), whatever is lost, retried or rolled back on the way.
ReportTrue == OKMeansDone /\ ReportMatches

\* What took effect is a prefix of the ticket: nothing runs after a statement
\* that did not ("terminate it immediately", docs/trans.md:55).
PrefixExecuted ==
    \A r \in RecNo : IsWork(r) /\ ran[r].effect = "done" =>
        \A q \in 1..r - 1 : IsWork(q) => ran[q].effect = "done"

\* That holds of tickets executed statement by statement: the errors of
\* executeRemoteCommand reach the check at the end of the loop.
RowsPrefix == ~UseTran => PrefixExecuted

\* In transactions it holds of the DML statements alone, unless a failed
\* commit was ignored.
DmlPrefix ==
    "commit" \notin happened =>
        \A r \in RecNo : Kind(r) = "dml" /\ ran[r].effect = "done" =>
            \A q \in 1..r - 1 : Kind(q) = "dml" => ran[q].effect = "done"

\* Nothing is executed past a statement that was not, as far as the code sees to
\* it: the loop of executeAllStatement stops at the first error.
PrefixTakesEffect == RowsPrefix /\ DmlPrefix

\* Record r ran in the database of the option --db on a connection nobody led
\* back to the ticket's: one that replaced an idle connection, or ddlDB after a
\* reconnection, where initConnection selects the database on s.db alone.  The
\* DSN names the database (core.go:470), so that no error 1046 gives it away.
Displaced(r) ==
    /\ opt.db # NoDb
    /\ ran[r].db = opt.db
    /\ "idle" \in happened \/ (UseTran /\ "lost" \in happened)

\* A statement runs in the database of the last USE before it, whatever the
\* audit selected and whatever was lost and reconnected on the way, unless the
\* ticket was given a database with --db and the statement was displaced to it.
\* Without --db there is no exception.
RunsInTicketDb ==
    \A r \in RecNo : ran[r].effect # "none" => ran[r].db = TicketDb(r) \/ Displaced(r)

\* Without transactions a statement runs in a session in which all SET
\* commands before it were executed, also after a reconnection that was
\* noticed.  (The pool may replace an idle connection unnoticed.)
SetsApplied ==
    ~UseTran /\ "idle" \notin happened =>
        \A r \in RecNo : ran[r].effect # "none" =>
            {q \in 1..r - 1 : Kind(q) = "set"} \subseteq ran[r].env

\* A statement finds the session the ticket has prepared for it, its database
\* and its SET commands, after every reconnection (raw, exec, initConnection).
RunsInTicketSession == RunsInTicketDb /\ SetsApplied

\* A ticket that ends without an error has, for every DML that left an event
\* in the binlog, a range the event lies in, whatever others wrote meanwhile.
Window ==
    pc = "done" /\ opt.backup /\ ~hasErrorBefore =>
        \A r \in RecNo : Kind(r) = "dml" /\ ran[r].at > 0 =>
            /\ res[r].complete
            /\ res[r].start < ran[r].at
            /\ ran[r].at <= res[r].end

\* The thread id of a DML to back up is that of the connection it ran on: the
\* binlog is searched for it.  The cached id must never survive a reconnection
\* that lets the ticket go on, except the one after error 1046, where it does
\* (conn.go:206 announces that the cache is cleared; the code does not).
ThreadIdIsRunner ==
    ~UseTran /\ "idle" \notin happened =>
        \A r \in RecNo :
            Kind(r) = "dml" /\ ran[r].effect = "done" /\ res[r].complete =>
                res[r].tid = ran[r].on

\* What the backup will look for is there to be found: the range of a DML holds
\* its event and the thread id is the one of the event (fetchThreadID, SHOW
\* MASTER STATUS before and after the statement).
BinlogFindable == Window /\ ThreadIdIsRunner
=============================================================================
