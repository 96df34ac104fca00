-------------------------- MODULE BackupInfoProofs --------------------------
(***************************************************************************)
(* Proofs about BackupInfo, for any number of records, any databases, any  *)
(* channel capacity and any batch size.                                    *)
(***************************************************************************)
EXTENDS BackupInfo, TLAPS

\* Leaves that name no prover are for Zenon; those the SMT solver proves say so.
USE ZenonT(20)

\* What Append, Tail and concatenation do to the elements of a sequence.
LEMMA AppendFacts ==
    ASSUME NEW S, NEW s \in Seq(S), NEW e
    PROVE  /\ Len(s) \in Nat /\ Len(Append(s, e)) = Len(s) + 1
           /\ Append(s, e)[Len(s) + 1] = e
           /\ \A k \in 1..Len(s) : Append(s, e)[k] = s[k]
BY SMTT(60)

LEMMA TailFacts ==
    ASSUME NEW S, NEW s \in Seq(S), s # <<>>
    PROVE  /\ Len(s) \in Nat \ {0} /\ Len(Tail(s)) = Len(s) - 1
           /\ Head(s) = s[1] /\ s[1] \in S
           /\ \A k \in 1..Len(Tail(s)) : Tail(s)[k] = s[k + 1]
BY SMTT(60)

LEMMA ConcatFacts ==
    ASSUME NEW S, NEW T, NEW s \in Seq(S), NEW t \in Seq(T)
    PROVE  /\ Len(s) \in Nat /\ Len(t) \in Nat /\ Len(s \o t) = Len(s) + Len(t)
           /\ \A k \in 1..Len(s) : (s \o t)[k] = s[k]
           /\ \A k \in 1..Len(t) : (s \o t)[Len(s) + k] = t[k]
BY SMTT(60)

\* The rows of an INSERT.
LEMMA InsertFacts ==
    ASSUME NEW rows \in Seq(RecNo), NEW d
    PROVE  LET ins == [k \in 1..Len(rows) |-> [db |-> d, rec |-> rows[k]]]
           IN  /\ Len(ins) = Len(rows) /\ ins \in Seq([db : {d}, rec : RecNo])
               /\ \A k \in 1..Len(rows) : ins[k].rec = rows[k]
BY SMTT(60)

\* A record that is backed up has a table and a backup database.
LEMMA BackupDbType ==
    ASSUME TypeOK, NEW r \in RecNo, recs[r].kind \in {"row", "ddl"}
    PROVE  recs[r].tab \in Table /\ BackupDb(r) \in Db
BY BackupInfoAssumption DEF TypeOK, Record, BackupDb

\* The stages of a table are stages.
LEMMA StagesType ==
    ASSUME NEW t \in Table, NEW k \in 1..3
    PROVE  Stages(t)[k] \in Stage
<1>1. DbOf[t] \in Db
  BY BackupInfoAssumption
<1>2. k = 1 \/ k = 2 \/ k = 3
  BY SMTT(60)
<1> QED BY SMTT(60), <1>1, <1>2 DEF Stages, Stage

\* Marking a record keeps the levels.
LEMMA MarkType ==
    ASSUME level \in [RecNo -> Level], NEW r \in RecNo, NEW lv \in Level, Mark(r, lv)
    PROVE  level' \in [RecNo -> Level]
BY DEF Mark, Max, Level

\* One flush keeps the types of everything it writes and empties the buffer.
LEMMA FlushType ==
    ASSUME TypeOK, NEW d \in Db \cup {NoDb, OldName}, NEW r \in RecNo,
           NEW rows \in Seq(RecNo), FlushBackupRecord(d, r, rows)
    PROVE  /\ level' \in [RecNo -> Level]
           /\ status' \in [RecNo -> Status]
           /\ buf' = <<>>
           /\ store' \in Seq(InfoRow)
           /\ lost' \subseteq RecNo
<1> DEFINE ins == [k \in 1..Len(rows) |-> [db |-> d, rec |-> rows[k]]]
<1>1. ins \in Seq(InfoRow)
  BY SMTT(60) DEF InfoRow
<1>2. {rows[k] : k \in 1..Len(rows)} \subseteq RecNo
  BY SMTT(60)
<1>3. buf' = <<>>
  BY DEF FlushBackupRecord
<1>4. CASE UNCHANGED <<marks, server>>
  BY <1>3, <1>4 DEF TypeOK, marks, server
<1>5. CASE store' = store \o ins /\ UNCHANGED <<marks, lost>>
  <2>1. store' \in Seq(InfoRow)
    BY SMTT(60), <1>1, <1>5 DEF TypeOK
  <2> QED BY <1>3, <1>5, <2>1 DEF TypeOK, marks
<1>6. CASE /\ lost' = lost \cup {rows[k] : k \in 1..Len(rows)}
           /\ Mark(r, 2)
           /\ status' = [status EXCEPT ![r] = "BackupFail"]
           /\ UNCHANGED store
  <2>1. level' \in [RecNo -> Level]
    BY SMTT(60), <1>6, MarkType DEF TypeOK, Level
  <2> QED BY <1>2, <1>3, <1>6, <2>1 DEF TypeOK, Status
<1>7. CASE /\ lost' = lost \cup {rows[k] : k \in 1..Len(rows)}
           /\ UNCHANGED <<marks, store>>
  BY <1>2, <1>3, <1>7 DEF TypeOK, marks
<1> QED
  BY <1>4, <1>5, <1>6, <1>7 DEF FlushBackupRecord

\* The type invariant of runBackup and its goroutine.
LEMMA TypeInductive == TypeOK /\ [Next]_vars => TypeOK'
<1> SUFFICES ASSUME TypeOK, [Next]_vars PROVE TypeOK'
  OBVIOUS
<1> DEFINE Name == Db \cup {NoDb, OldName}
<1>1. CASE SkipRecord
  BY SMTT(60), <1>1, BackupInfoAssumption DEF TypeOK, RecNo, SkipRecord, input, marks, server
<1>2. CASE NoTableInfo
  <2>1. cur \in RecNo
    BY SMTT(60), <1>2 DEF TypeOK, NoTableInfo, RecNo
  <2>2. level' \in [RecNo -> Level]
    BY SMTT(60), <1>2, <2>1, MarkType DEF NoTableInfo, TypeOK, Level
  <2> QED BY <1>2, <2>1, <2>2 DEF TypeOK, NoTableInfo, input, server
<1>3. CASE PrepareRow
  <2>1. cur \in RecNo /\ recs[cur].kind \in {"row", "ddl"}
    BY SMTT(60), <1>3 DEF TypeOK, PrepareRow, RecNo
  <2>2. PICK n \in 0..3, tooLong \in BOOLEAN :
           /\ CreateBackupTable(recs[cur].tab, n)
           /\ Mark(cur, IF n < 3 THEN 2 ELSE IF tooLong THEN 1 ELSE 0)
    BY <1>3 DEF PrepareRow
  <2>3. level' \in [RecNo -> Level]
    BY SMTT(60), <2>1, <2>2, MarkType DEF TypeOK, Level
  <2>4. recs[cur].tab \in Table
    BY <2>1, BackupDbType
  <2>5. \A k \in 1..n : Stages(recs[cur].tab)[k] \in Stage
    BY SMTT(60), <2>4, StagesType
  <2>6. cache' \subseteq Stage
    BY <2>2, <2>5 DEF CreateBackupTable, TypeOK
  <2> QED BY <1>3, <2>1, <2>3, <2>6 DEF TypeOK, PrepareRow, input, server
<1>4. CASE SendFlush
  <2>1. cur \in RecNo /\ BackupDb(cur) \in Db /\ lastDb \in Name
    BY <1>4, BackupDbType DEF SendFlush, TypeOK
  <2>2. [db |-> lastDb, rec |-> cur, row |-> FALSE] \in Message
    BY <2>1 DEF Message
  <2>3. chan' \in Seq(Message) /\ Len(chan') <= ChanCap
    BY SMTT(60), <1>4, <2>2, BackupInfoAssumption DEF SendFlush, TypeOK
  <2> QED BY <1>4, <2>1, <2>3 DEF TypeOK, SendFlush, input, marks, server
<1>5. CASE SendRow
  <2>1. cur \in RecNo /\ BackupDb(cur) \in Db
    BY <1>5, BackupDbType DEF SendRow, TypeOK
  <2>2. [db |-> BackupDb(cur), rec |-> cur, row |-> TRUE] \in Message
    BY <2>1 DEF Message
  <2>3. chan' \in Seq(Message) /\ Len(chan') <= ChanCap
    BY SMTT(60), <1>5, <2>2, BackupInfoAssumption DEF SendRow, TypeOK
  <2> QED BY <1>5, <2>1, <2>3 DEF TypeOK, SendRow, input, marks, server
<1>6. CASE WriteRollbackDDL
  <2>1. level' \in [RecNo -> Level]
    BY SMTT(60), <1>6, MarkType DEF TypeOK, WriteRollbackDDL, marks, Level
  <2>2. status' \in [RecNo -> Status]
    BY <1>6 DEF TypeOK, WriteRollbackDDL, marks, Status
  <2> QED BY <1>6, <2>1, <2>2 DEF TypeOK, WriteRollbackDDL, input, server
<1>7. CASE CheckError
  BY SMTT(60), <1>7, BackupInfoAssumption DEF TypeOK, RecNo, CheckError, input, marks, server
<1>8. CASE CloseChan
  BY <1>8 DEF TypeOK, CloseChan, input, marks, server
<1>9. CASE Return
  BY <1>9 DEF TypeOK, Return, input, marks, server
<1>10. CASE ReceiveFlush
  <2>1. Head(chan) \in Message /\ chan' \in Seq(Message) /\ Len(chan') <= ChanCap
    BY SMTT(60), <1>10, BackupInfoAssumption DEF TypeOK, ReceiveFlush
  <2>2. FlushBackupRecord(Head(chan).db, Head(chan).rec, buf)
    BY <1>10 DEF ReceiveFlush
  <2>3. buf \in Seq(RecNo) /\ Head(chan).db \in Name /\ Head(chan).rec \in RecNo
    BY <2>1 DEF TypeOK, Message
  <2>4. /\ level' \in [RecNo -> Level] /\ status' \in [RecNo -> Status]
        /\ buf' = <<>> /\ store' \in Seq(InfoRow) /\ lost' \subseteq RecNo
    BY <2>2, <2>3, FlushType
  <2> QED
    BY SMTT(60), <1>10, <2>1, <2>4, BackupInfoAssumption DEF TypeOK, ReceiveFlush, input, producer
<1>11. CASE ReceiveRow
  <2> DEFINE rows == Append(buf, Head(chan).rec)
  <2>1. Head(chan) \in Message /\ chan' \in Seq(Message) /\ Len(chan') <= ChanCap
    BY SMTT(60), <1>11, BackupInfoAssumption DEF TypeOK, ReceiveRow
  <2>2. rows \in Seq(RecNo) /\ Head(chan).db \in Name /\ Head(chan).rec \in RecNo
    BY SMTT(60), <2>1 DEF TypeOK, Message
  <2>3. /\ level' \in [RecNo -> Level] /\ status' \in [RecNo -> Status]
        /\ buf' \in Seq(RecNo) /\ Len(buf') < FlushRows
        /\ store' \in Seq(InfoRow) /\ lost' \subseteq RecNo
    <3>1. CASE Len(rows) >= FlushRows
      <4>1. FlushBackupRecord(Head(chan).db, Head(chan).rec, rows)
        BY <1>11, <3>1 DEF ReceiveRow
      <4> HIDE DEF rows
      <4>2. /\ level' \in [RecNo -> Level] /\ status' \in [RecNo -> Status]
            /\ buf' = <<>> /\ store' \in Seq(InfoRow) /\ lost' \subseteq RecNo
        BY <2>2, <4>1, FlushType
      <4> QED BY SMTT(60), <4>2, BackupInfoAssumption
    <3>2. CASE ~(Len(rows) >= FlushRows)
      <4>1. buf' = rows /\ UNCHANGED <<level, status, store, lost>>
        BY <1>11, <3>2 DEF ReceiveRow, marks, server
      <4>2. Len(rows) < FlushRows
        BY SMTT(60), <2>2, <3>2, BackupInfoAssumption
      <4> QED BY <2>2, <4>1, <4>2 DEF TypeOK
    <3> QED BY <3>1, <3>2
  <2> QED BY <1>11, <2>1, <2>3 DEF TypeOK, ReceiveRow, input, producer
<1>12. CASE ReceiveNil
  <2>1. FlushBackupRecord(lastDb, myRecord, buf)
    BY <1>12 DEF ReceiveNil
  <2>2. buf \in Seq(RecNo) /\ lastDb \in Name /\ myRecord \in RecNo
    BY DEF TypeOK
  <2>3. /\ level' \in [RecNo -> Level] /\ status' \in [RecNo -> Status]
        /\ buf' = <<>> /\ store' \in Seq(InfoRow) /\ lost' \subseteq RecNo
    BY <2>1, <2>2, FlushType
  <2> QED
    BY SMTT(60), <1>12, <2>3, BackupInfoAssumption DEF TypeOK, ReceiveNil, input, producer
<1>13. CASE UNCHANGED vars
  BY <1>13 DEF TypeOK, vars
<1> QED
  BY <1>1, <1>2, <1>3, <1>4, <1>5, <1>6, <1>7, <1>8, <1>9, <1>10, <1>11, <1>12, <1>13
  DEF Next, RunBackup, ProcessChanBackup, Finished

\* Every variable of every reachable state has its type; the channel and
\* insertBuffer stay within their bounds.
THEOREM TypeCorrect == Spec => []TypeOK
<1>1. Init => TypeOK
  <2> SUFFICES ASSUME Init PROVE TypeOK
    OBVIOUS
  <2>1. status \in [RecNo -> Status]
    BY DEF Init, Status
  <2>2. cur \in 1..NRec + 1 /\ myRecord \in RecNo
    BY SMTT(60), BackupInfoAssumption DEF Init, RecNo
  <2>3. /\ chan \in Seq(Message) /\ buf \in Seq(RecNo) /\ store \in Seq(InfoRow)
        /\ Len(chan) <= ChanCap /\ Len(buf) < FlushRows
    BY SMTT(60), BackupInfoAssumption DEF Init
  <2> QED BY <2>1, <2>2, <2>3 DEF Init, TypeOK
<1> QED BY <1>1, TypeInductive, PTL DEF Spec

-----------------------------------------------------------------------------
\* A flush to database d stores rows of database d only where d is theirs.
LEMMA FlushPlaces ==
    ASSUME TypeOK, RowInOwnDb, NEW d, NEW r, NEW rows \in Seq(RecNo),
           \A k \in 1..Len(rows) : BackupDb(rows[k]) = d,
           FlushBackupRecord(d, r, rows), UNCHANGED recs
    PROVE  RowInOwnDb'
<1> DEFINE ins == [k \in 1..Len(rows) |-> [db |-> d, rec |-> rows[k]]]
<1>1. CASE UNCHANGED store
  BY <1>1 DEF RowInOwnDb, BackupDb
<1>2. CASE store' = store \o ins
  <2>1. Len(ins) = Len(rows) /\ ins \in Seq([db : {d}, rec : RecNo])
    BY SMTT(60)
  <2>2. ASSUME NEW k \in 1..Len(store')
        PROVE  store'[k].db = BackupDb(store'[k].rec)
    <3>1. CASE k <= Len(store)
      BY SMTT(60), <1>2, <2>1, <3>1 DEF RowInOwnDb, TypeOK
    <3>2. CASE k > Len(store)
      <4>1. k - Len(store) \in 1..Len(rows) /\ store'[k] = ins[k - Len(store)]
        BY SMTT(60), <1>2, <2>1, <3>2 DEF TypeOK
      <4> QED BY SMTT(60), <4>1
    <3> QED BY SMTT(60), <3>1, <3>2 DEF TypeOK
  <2> QED BY <2>2 DEF RowInOwnDb, BackupDb
<1> QED BY <1>1, <1>2 DEF FlushBackupRecord, server

\* The order of the messages keeps every row next to its database.
LEMMA OrderInductive ==
    TypeOK /\ OrderInv /\ RowInOwnDb /\ [Next]_vars => OrderInv' /\ RowInOwnDb'
<1> SUFFICES ASSUME TypeOK, OrderInv, RowInOwnDb, [Next]_vars
             PROVE  OrderInv' /\ RowInOwnDb'
  OBVIOUS
<1>0. CASE /\ UNCHANGED <<recs, lastDb, chan, closed, cpc, buf, store>>
           /\ closed => UNCHANGED pc
  <2>1. RowInOwnDb'
    BY <1>0 DEF RowInOwnDb, BackupDb
  <2>2. OrderInv'
    BY <1>0 DEF OrderInv, BackupDb, After
  <2> QED BY <2>1, <2>2
<1>1. CASE SkipRecord
  BY <1>0, <1>1 DEF SkipRecord, input, server
<1>2. CASE NoTableInfo
  BY <1>0, <1>2 DEF NoTableInfo, input, server, OrderInv
<1>3. CASE PrepareRow
  BY <1>0, <1>3 DEF PrepareRow, input, server, OrderInv
<1>4. CASE SendFlush
  <2> DEFINE m == [db |-> lastDb, rec |-> cur, row |-> FALSE]
  <2>1. /\ chan \in Seq(Message) /\ chan' = Append(chan, m) /\ lastDb' = BackupDb(cur)
        /\ UNCHANGED <<recs, pc, closed, cpc, buf, store>> /\ ~closed /\ cpc # "done"
    BY <1>4 DEF SendFlush, TypeOK, OrderInv, input, server
  <2>2. Len(chan') = Len(chan) + 1 /\ Len(chan) \in Nat
        /\ chan'[Len(chan) + 1] = m /\ \A k \in 1..Len(chan) : chan'[k] = chan[k]
    <3> HIDE DEF m
    <3> QED BY <2>1, AppendFacts
  <2>3. \A k \in 0..Len(chan) : After(k)' = After(k)
    BY SMTT(60), <2>2 DEF After
  <2>4. RowInOwnDb'
    BY <2>1 DEF RowInOwnDb, BackupDb
  <2>5. \A j \in 1..Len(buf') : (BackupDb(buf[j]) = After(0) /\ After(0) \in Db)'
    <3>1. After(0)' = After(0) /\ buf' = buf
      BY SMTT(60), <2>1, <2>2, <2>3
    <3>2. \A j \in 1..Len(buf) : BackupDb(buf[j])' = BackupDb(buf[j])
      BY <2>1 DEF BackupDb
    <3>3. \A j \in 1..Len(buf) : BackupDb(buf[j]) = After(0) /\ After(0) \in Db
      BY DEF OrderInv
    <3> QED BY <3>1, <3>2, <3>3, Zenon
  <2>6. ASSUME NEW k \in 1..Len(chan'), chan'[k].row
        PROVE  (/\ chan[k].db = BackupDb(chan[k].rec)
                /\ chan[k].db \in Db
                /\ After(k) = chan[k].db)'
    <3>1. k \in 1..Len(chan) /\ chan'[k] = chan[k]
      BY SMTT(60), <2>2, <2>6
    <3>2. /\ chan[k].db = BackupDb(chan[k].rec) /\ chan[k].db \in Db
          /\ After(k) = chan[k].db
      BY <2>6, <3>1 DEF OrderInv
    <3>3. After(k)' = After(k) /\ BackupDb(chan[k].rec)' = BackupDb(chan[k].rec)
      <4>1. k \in 0..Len(chan)
        BY SMTT(60), <2>2, <3>1
      <4>2. BackupDb(chan[k].rec)' = BackupDb(chan[k].rec)
        BY <2>1, <3>1 DEF BackupDb
      <4> QED BY <2>3, <4>1, <4>2, Zenon
    <3> QED BY <3>1, <3>2, <3>3, Zenon
  <2> QED BY <2>1, <2>4, <2>5, <2>6 DEF OrderInv, BackupDb
<1>5. CASE SendRow
  <2> DEFINE m == [db |-> BackupDb(cur), rec |-> cur, row |-> TRUE]
  <2>1. /\ chan \in Seq(Message) /\ chan' = Append(chan, m) /\ lastDb' = BackupDb(cur)
        /\ UNCHANGED <<recs, closed, cpc, buf, store>> /\ ~closed /\ cpc # "done"
        /\ lastDb \in {NoDb, BackupDb(cur)} /\ BackupDb(cur) \in Db
    BY <1>5, BackupDbType DEF SendRow, TypeOK, OrderInv, input, server
  <2>2. Len(chan') = Len(chan) + 1 /\ Len(chan) \in Nat
        /\ chan'[Len(chan) + 1] = m /\ \A k \in 1..Len(chan) : chan'[k] = chan[k]
    <3> HIDE DEF m
    <3> QED BY <2>1, AppendFacts
  <2>3. ASSUME NEW k \in 0..Len(chan), After(k) \in Db PROVE After(k)' = After(k)
    <3>1. CASE k < Len(chan)
      BY SMTT(60), <2>2, <3>1 DEF After
    <3>2. CASE ~(k < Len(chan))
      <4>1. k = Len(chan) /\ After(k) = lastDb
        BY SMTT(60), <2>2, <3>2 DEF After
      <4>2. lastDb = BackupDb(cur)
        BY <2>1, <2>3, <4>1, BackupInfoAssumption
      <4>3. After(k)' = m.db
        BY SMTT(60), <2>2, <4>1 DEF After
      <4> QED BY <4>1, <4>2, <4>3
    <3> QED BY <3>1, <3>2
  <2>4. RowInOwnDb'
    BY <2>1 DEF RowInOwnDb, BackupDb
  <2>5. \A j \in 1..Len(buf') : (BackupDb(buf[j]) = After(0) /\ After(0) \in Db)'
    <3>1. \A j \in 1..Len(buf) : BackupDb(buf[j])' = BackupDb(buf[j])
      BY <2>1 DEF BackupDb
    <3>2. \A j \in 1..Len(buf) : BackupDb(buf[j]) = After(0) /\ After(0) \in Db
      BY DEF OrderInv
    <3>3. After(0) \in Db => After(0)' = After(0)
      BY SMTT(60), <2>2, <2>3
    <3>4. buf' = buf
      BY <2>1
    <3> QED BY <3>1, <3>2, <3>3, <3>4, Zenon
  <2>6. ASSUME NEW k \in 1..Len(chan'), chan'[k].row
        PROVE  (/\ chan[k].db = BackupDb(chan[k].rec)
                /\ chan[k].db \in Db
                /\ After(k) = chan[k].db)'
    <3>1. CASE k \in 1..Len(chan)
      <4>1. chan'[k] = chan[k]
        BY <2>2, <3>1
      <4>2. /\ After(k) = chan[k].db /\ chan[k].db \in Db
            /\ chan[k].db = BackupDb(chan[k].rec)
        BY <2>6, <3>1, <4>1 DEF OrderInv
      <4>3. k \in 0..Len(chan)
        BY SMTT(60), <2>2, <3>1
      <4>4. After(k)' = After(k)
        BY <2>3, <4>2, <4>3
      <4>5. BackupDb(chan[k].rec)' = BackupDb(chan[k].rec)
        BY <2>1, <4>1 DEF BackupDb
      <4> QED BY <4>1, <4>2, <4>4, <4>5, Zenon
    <3>2. CASE k = Len(chan) + 1
      <4>1. chan'[k] = m
        BY <2>2, <3>2
      <4>2. After(k)' = lastDb'
        BY SMTT(60), <2>2, <3>2 DEF After
      <4>3. BackupDb(chan[k].rec)' = BackupDb(cur)
        <5>1. chan'[k].rec = cur /\ recs' = recs
          BY SMTT(60), <2>1, <4>1
        <5> QED BY <5>1, Zenon DEF BackupDb
      <4>4. chan'[k].db = BackupDb(cur)
        BY SMTT(60), <4>1
      <4> QED BY <2>1, <4>2, <4>3, <4>4, Zenon
    <3> QED BY SMTT(60), <2>2, <3>1, <3>2
  <2> QED BY <2>1, <2>4, <2>5, <2>6 DEF OrderInv, BackupDb
<1>6. CASE WriteRollbackDDL
  BY <1>0, <1>6 DEF WriteRollbackDDL, input, server, OrderInv
<1>7. CASE CheckError
  BY <1>0, <1>7 DEF CheckError, input, server, OrderInv
<1>8. CASE CloseChan
  <2>1. UNCHANGED <<recs, lastDb, chan, cpc, buf, store>> /\ closed' = TRUE /\ pc' = "wait"
    BY <1>8 DEF CloseChan, input, server
  <2> QED BY <2>1 DEF OrderInv, RowInOwnDb, BackupDb, After
<1>9. CASE Return
  <2>1. /\ UNCHANGED <<recs, chan, closed, cpc, buf, store>> /\ pc' = "done"
        /\ cpc = "done" /\ chan = <<>> /\ buf = <<>> /\ closed
    BY <1>9 DEF Return, input, server, OrderInv
  <2>2. RowInOwnDb'
    BY <2>1 DEF RowInOwnDb, BackupDb
  <2>3. 1..Len(chan') = {} /\ 1..Len(buf') = {}
    <3>1. chan' = <<>> /\ buf' = <<>>
      BY <2>1
    <3>2. Len(chan') = 0 /\ Len(buf') = 0
      BY <3>1
    <3> QED BY SMTT(60), <3>2
  <2>4. pc' = "done" /\ closed' /\ chan' = <<>> /\ buf' = <<>>
    BY <2>1
  <2>5. OrderInv'
    BY <2>3, <2>4, Zenon DEF OrderInv
  <2> QED BY <2>2, <2>5
<1>10. CASE ReceiveFlush
  <2>1. /\ chan \in Seq(Message) /\ chan # <<>> /\ chan' = Tail(chan) /\ cpc = "run"
        /\ UNCHANGED <<recs, lastDb, pc, closed, cpc>> /\ buf' = <<>>
        /\ FlushBackupRecord(Head(chan).db, Head(chan).rec, buf)
    BY <1>10 DEF ReceiveFlush, FlushBackupRecord, TypeOK, input, producer
  <2>2. Len(chan') = Len(chan) - 1 /\ Len(chan) \in Nat
        /\ \A k \in 1..Len(chan') : chan'[k] = chan[k + 1]
    BY <2>1, TailFacts
  <2>3. \A k \in 0..Len(chan') : After(k)' = After(k + 1)
    BY SMTT(60), <2>1, <2>2 DEF After
  <2>4. RowInOwnDb'
    <3>1. \A j \in 1..Len(buf) : BackupDb(buf[j]) = Head(chan).db
      BY SMTT(60), <2>1 DEF OrderInv, After
    <3> QED BY <2>1, <3>1, FlushPlaces DEF TypeOK
  <2>5. ASSUME NEW k \in 1..Len(chan'), chan'[k].row
        PROVE  (/\ chan[k].db = BackupDb(chan[k].rec)
                /\ chan[k].db \in Db
                /\ After(k) = chan[k].db)'
    <3>1. k + 1 \in 1..Len(chan) /\ chan'[k] = chan[k + 1] /\ After(k)' = After(k + 1)
      BY SMTT(60), <2>2, <2>3
    <3> QED BY <2>1, <2>5, <3>1 DEF OrderInv, BackupDb
  <2> QED BY SMTT(60), <2>1, <2>4, <2>5 DEF OrderInv
<1>11. CASE ReceiveRow
  <2> DEFINE rows == Append(buf, Head(chan).rec)
  <2>1. /\ chan \in Seq(Message) /\ chan # <<>> /\ chan' = Tail(chan) /\ cpc = "run"
        /\ UNCHANGED <<recs, lastDb, pc, closed, cpc>> /\ chan[1].row
    BY SMTT(60), <1>11 DEF ReceiveRow, TypeOK, input, producer
  <2>2. Len(chan') = Len(chan) - 1 /\ Len(chan) \in Nat \ {0}
        /\ \A k \in 1..Len(chan') : chan'[k] = chan[k + 1]
    BY <2>1, TailFacts
  <2>3. \A k \in 0..Len(chan') : After(k)' = After(k + 1)
    BY SMTT(60), <2>1, <2>2 DEF After
  <2>4. /\ rows \in Seq(RecNo) /\ Head(chan) = chan[1] /\ After(0) = chan[1].db
        /\ Len(rows) = Len(buf) + 1 /\ Len(buf) \in Nat
        /\ rows[Len(rows)] = chan[1].rec /\ \A j \in 1..Len(buf) : rows[j] = buf[j]
    <3>1. Head(chan) = chan[1] /\ chan[1] \in Message /\ After(0) = chan[1].db
      BY SMTT(60), <2>1, <2>2 DEF After
    <3>2. chan[1].rec \in RecNo /\ buf \in Seq(RecNo)
      BY <3>1 DEF Message, TypeOK
    <3> QED BY SMTT(60), <3>1, <3>2
  <2>5. chan[1].db = BackupDb(chan[1].rec) /\ After(1) = chan[1].db /\ chan[1].db \in Db
    BY SMTT(60), <2>1, <2>2 DEF OrderInv
  <2>6. \A j \in 1..Len(rows) : BackupDb(rows[j]) = chan[1].db
    BY SMTT(60), <2>4, <2>5 DEF OrderInv
  <2>7. \/ FlushBackupRecord(chan[1].db, chan[1].rec, rows)
        \/ buf' = rows /\ UNCHANGED store
    <3>1. CASE Len(rows) >= FlushRows
      BY <1>11, <2>4, <3>1 DEF ReceiveRow
    <3>2. CASE ~(Len(rows) >= FlushRows)
      BY <1>11, <3>2 DEF ReceiveRow, server
    <3> QED BY <3>1, <3>2
  <2> HIDE DEF rows
  <2>8. RowInOwnDb'
    <3>1. CASE FlushBackupRecord(chan[1].db, chan[1].rec, rows)
      BY <2>1, <2>4, <2>6, <3>1, FlushPlaces
    <3>2. CASE UNCHANGED store
      BY <2>1, <3>2 DEF RowInOwnDb, BackupDb
    <3> QED BY <2>7, <3>1, <3>2
  <2>9. \A j \in 1..Len(buf') : (BackupDb(buf[j]) = After(0) /\ After(0) \in Db)'
    <3>1. After(0)' = chan[1].db
      BY SMTT(60), <2>2, <2>3, <2>5
    <3>2. buf' = <<>> \/ buf' = rows
      BY <2>7 DEF FlushBackupRecord
    <3>3. CASE buf' = <<>>
      <4>1. Len(buf') = 0
        BY <3>3
      <4> QED BY SMTT(60), <4>1
    <3>4. CASE buf' = rows
      <4>1. \A j \in 1..Len(rows) : BackupDb(buf[j])' = BackupDb(rows[j])
        BY <2>1, <3>4 DEF BackupDb
      <4> QED BY <2>5, <2>6, <3>1, <3>4, <4>1, Zenon
    <3> QED BY <3>2, <3>3, <3>4
  <2>10. ASSUME NEW k \in 1..Len(chan'), chan'[k].row
         PROVE  (/\ chan[k].db = BackupDb(chan[k].rec)
                 /\ chan[k].db \in Db
                 /\ After(k) = chan[k].db)'
    <3>1. k + 1 \in 1..Len(chan) /\ chan'[k] = chan[k + 1] /\ After(k)' = After(k + 1)
      BY SMTT(60), <2>2, <2>3
    <3> QED BY <2>1, <2>10, <3>1 DEF OrderInv, BackupDb
  <2> QED BY <2>1, <2>8, <2>9, <2>10 DEF OrderInv
<1>12. CASE ReceiveNil
  <2>1. /\ chan = <<>> /\ closed /\ cpc' = "done" /\ buf' = <<>>
        /\ UNCHANGED <<recs, lastDb, pc, chan, closed>>
        /\ FlushBackupRecord(lastDb, myRecord, buf)
    BY <1>12 DEF ReceiveNil, FlushBackupRecord, input, producer
  <2>2. RowInOwnDb'
    <3>1. \A j \in 1..Len(buf) : BackupDb(buf[j]) = lastDb
      <4>1. Len(chan) = 0
        BY <2>1
      <4>2. After(0) = lastDb
        BY SMTT(60), <4>1 DEF After
      <4> QED BY <4>2, Zenon DEF OrderInv
    <3> QED BY <2>1, <3>1, FlushPlaces DEF TypeOK
  <2> QED BY SMTT(60), <2>1, <2>2 DEF OrderInv
<1>13. CASE UNCHANGED vars
  BY <1>0, <1>13 DEF vars
<1> QED
  BY <1>1, <1>2, <1>3, <1>4, <1>5, <1>6, <1>7, <1>8, <1>9, <1>10, <1>11, <1>12, <1>13
  DEF Next, RunBackup, ProcessChanBackup, Finished

\* Nothing is on its way at the beginning.
LEMMA InitEmpty == Init => OrderInv /\ RowInOwnDb
<1> SUFFICES ASSUME Init PROVE OrderInv /\ RowInOwnDb
  OBVIOUS
<1>1. 1..Len(chan) = {} /\ 1..Len(buf) = {} /\ 1..Len(store) = {}
  <2>1. chan = <<>> /\ buf = <<>> /\ store = <<>>
    BY DEF Init
  <2>2. Len(chan) = 0 /\ Len(buf) = 0 /\ Len(store) = 0
    BY <2>1
  <2> QED BY SMTT(60), <2>2
<1>2. ~closed /\ cpc # "done"
  BY DEF Init
<1>3. RowInOwnDb
  BY <1>1, Zenon DEF RowInOwnDb
<1>4. OrderInv
  BY <1>1, <1>2, Zenon DEF OrderInv
<1> QED BY <1>3, <1>4

\* Every row of the information tables is in the backup database of its own
\* record, for any number of records and databases, channel capacity and batch
\* size: the flush markers runBackup sends keep goroutine and rows in step.
THEOREM Placement == Spec => []RowInOwnDb
<1>1. Init => OrderInv /\ RowInOwnDb
  BY InitEmpty
<1> QED BY <1>1, OrderInductive, TypeCorrect, PTL DEF Spec

-----------------------------------------------------------------------------
\* Rows of a flush are accounted for afterwards, in the store or as lost, and
\* no row leaves the store or the lost ones.
LEMMA FlushAccounts ==
    ASSUME TypeOK, NEW d, NEW r, NEW rows \in Seq(RecNo), FlushBackupRecord(d, r, rows),
           NEW q \in RecNo,
           \/ q \in lost
           \/ \E k \in 1..Len(store) : store[k].rec = q
           \/ \E k \in 1..Len(rows) : rows[k] = q
    PROVE  q \in lost' \/ \E k \in 1..Len(store') : store'[k].rec = q
<1> DEFINE ins == [k \in 1..Len(rows) |-> [db |-> d, rec |-> rows[k]]]
<1>1. CASE UNCHANGED <<store, lost>> /\ rows = <<>>
  BY SMTT(60), <1>1
<1>2. CASE store' = store \o ins /\ UNCHANGED lost
  <2>1. /\ Len(ins) = Len(rows) /\ ins \in Seq([db : {d}, rec : RecNo])
        /\ Len(store) \in Nat /\ Len(rows) \in Nat
    <3>1. store \in Seq(InfoRow)
      BY DEF TypeOK
    <3> QED BY SMTT(60), <3>1, InsertFacts
  <2>1a. store \in Seq(InfoRow) /\ store' = store \o ins
    BY <1>2 DEF TypeOK
  <2> HIDE DEF ins
  <2> DEFINE T == [db : {d}, rec : RecNo]
  <2>1b. ins \in Seq(T)
    BY <2>1
  <2> HIDE DEF T
  <2>1c. /\ Len(store \o ins) = Len(store) + Len(ins)
         /\ \A k \in 1..Len(store) : (store \o ins)[k] = store[k]
         /\ \A k \in 1..Len(ins) : (store \o ins)[Len(store) + k] = ins[k]
    BY SMTT(60), <2>1a, <2>1b, ConcatFacts
  <2>2. Len(store') = Len(store) + Len(rows)
    BY <2>1, <2>1a, <2>1c
  <2>3. \A k \in 1..Len(store) : store'[k] = store[k]
    BY <2>1a, <2>1c, Zenon
  <2>4. \A k \in 1..Len(rows) : store'[Len(store) + k] = ins[k]
    BY <2>1, <2>1a, <2>1c, Zenon
  <2>5. CASE q \in lost
    BY <1>2, <2>5
  <2>6. ASSUME NEW k \in 1..Len(store), store[k].rec = q
        PROVE  \E j \in 1..Len(store') : store'[j].rec = q
    <3>1. k \in 1..Len(store') /\ store'[k].rec = q
      BY SMTT(60), <2>1, <2>2, <2>3, <2>6
    <3> QED BY <3>1
  <2>7. ASSUME NEW k \in 1..Len(rows), rows[k] = q
        PROVE  \E j \in 1..Len(store') : store'[j].rec = q
    <3>1. Len(store) + k \in 1..Len(store')
      BY SMTT(60), <2>1, <2>2
    <3>2. store'[Len(store) + k].rec = ins[k].rec
      BY <2>4
    <3>3. ins[k].rec = q
      BY <2>7 DEF ins
    <3> QED BY <3>1, <3>2, <3>3
  <2> QED BY <2>5, <2>6, <2>7
<1>3. CASE lost' = lost \cup {rows[k] : k \in 1..Len(rows)} /\ UNCHANGED store
  BY <1>3
<1> QED BY <1>1, <1>2, <1>3 DEF FlushBackupRecord, server

\* No step makes a row that was handed over disappear.
LEMMA AccountedKept ==
    ASSUME TypeOK, [Next]_vars, NEW r \in RecNo, Accounted(r)
    PROVE  Accounted(r)'
<1>0. CASE UNCHANGED <<chan, buf, store, lost>>
  BY <1>0 DEF Accounted
<1>1. ASSUME NEW m, chan' = Append(chan, m), UNCHANGED <<buf, store, lost>>
      PROVE  Accounted(r)'
  <2>1. Len(chan') = Len(chan) + 1 /\ Len(chan) \in Nat
        /\ \A k \in 1..Len(chan) : chan'[k] = chan[k]
    <3>1. chan \in Seq(Message)
      BY DEF TypeOK
    <3> QED BY <1>1, <3>1, AppendFacts
  <2>2. ASSUME NEW k \in 1..Len(chan), chan[k].row, chan[k].rec = r
        PROVE  \E j \in 1..Len(chan') : chan'[j].row /\ chan'[j].rec = r
    <3>1. k \in 1..Len(chan')
      BY SMTT(60), <2>1
    <3>2. chan'[k].row /\ chan'[k].rec = r
      BY <2>1, <2>2
    <3> QED BY <3>1, <3>2, Zenon
  <2>3. buf' = buf /\ store' = store /\ lost' = lost
    BY <1>1
  <2> QED BY <2>2, <2>3, Zenon DEF Accounted
<1>2. ASSUME chan # <<>>, chan' = Tail(chan)
      PROVE  \A k \in 1..Len(chan) : k # 1 => k - 1 \in 1..Len(chan') /\ chan'[k - 1] = chan[k]
  <2>1. chan \in Seq(Message)
    BY DEF TypeOK
  <2> QED BY SMTT(60), <1>2, <2>1, TailFacts
<1>2a. ASSUME chan # <<>>, chan' = Tail(chan), NEW k \in 1..Len(chan), k # 1,
              chan[k].row, chan[k].rec = r
       PROVE  Accounted(r)'
  <2>1. k - 1 \in 1..Len(chan') /\ chan'[k - 1] = chan[k]
    BY <1>2, <1>2a
  <2>2. chan'[k - 1].row /\ chan'[k - 1].rec = r
    BY <2>1, <1>2a
  <2>3. \E j \in 1..Len(chan') : chan'[j].row /\ chan'[j].rec = r
    BY <2>1, <2>2, Zenon
  <2> QED BY <2>3, Zenon DEF Accounted
<1>3. CASE ReceiveFlush
  <2>1. /\ chan # <<>> /\ chan' = Tail(chan) /\ ~chan[1].row
        /\ FlushBackupRecord(Head(chan).db, Head(chan).rec, buf)
    <3>1. chan \in Seq(Message)
      BY DEF TypeOK
    <3>2. /\ chan # <<>> /\ chan' = Tail(chan) /\ ~Head(chan).row
          /\ FlushBackupRecord(Head(chan).db, Head(chan).rec, buf)
      BY <1>3 DEF ReceiveFlush
    <3>3. Head(chan) = chan[1]
      BY <3>1, <3>2, TailFacts, Zenon
    <3> QED BY <3>2, <3>3, Zenon
  <2>2. CASE \E k \in 1..Len(chan) : chan[k].row /\ chan[k].rec = r
    <3>1. PICK k \in 1..Len(chan) : chan[k].row /\ chan[k].rec = r
      BY <2>2
    <3>2. k # 1
      BY <2>1, <3>1
    <3> QED BY <1>2a, <2>1, <3>1, <3>2, Zenon
  <2>3. CASE ~\E k \in 1..Len(chan) : chan[k].row /\ chan[k].rec = r
    <3>1. \/ r \in lost
          \/ \E k \in 1..Len(store) : store[k].rec = r
          \/ \E k \in 1..Len(buf) : buf[k] = r
      BY <2>3 DEF Accounted
    <3>2. r \in lost' \/ \E k \in 1..Len(store') : store'[k].rec = r
      <4>1. buf \in Seq(RecNo)
        BY DEF TypeOK
      <4> QED BY <2>1, <3>1, <4>1, FlushAccounts, Zenon
    <3> QED BY <3>2 DEF Accounted
  <2> QED BY <2>2, <2>3
<1>4. CASE ReceiveRow
  <2> DEFINE rows == Append(buf, Head(chan).rec)
  <2>1. chan # <<>> /\ chan' = Tail(chan) /\ Head(chan) = chan[1]
    <3>1. chan \in Seq(Message)
      BY DEF TypeOK
    <3>2. chan # <<>> /\ chan' = Tail(chan)
      BY <1>4 DEF ReceiveRow
    <3> QED BY <3>1, <3>2, TailFacts
  <2>2. chan[1].rec \in RecNo /\ buf \in Seq(RecNo)
    <3>1. chan[1] \in Message
      BY SMTT(60), <2>1 DEF TypeOK
    <3> QED BY <3>1 DEF TypeOK, Message
  <2>3. /\ rows \in Seq(RecNo) /\ Len(rows) = Len(buf) + 1 /\ Len(buf) \in Nat
        /\ rows[Len(rows)] = chan[1].rec /\ \A j \in 1..Len(buf) : rows[j] = buf[j]
    <3>1. rows = Append(buf, chan[1].rec)
      BY <2>1
    <3>2. rows \in Seq(RecNo)
      BY SMTT(60), <2>2, <3>1
    <3> QED BY SMTT(60), <2>2, <3>1, <3>2, AppendFacts
  <2>4. \/ FlushBackupRecord(chan[1].db, chan[1].rec, rows)
        \/ buf' = rows /\ UNCHANGED <<store, lost>>
    <3>1. CASE Len(rows) >= FlushRows
      BY <1>4, <2>1, <3>1 DEF ReceiveRow
    <3>2. CASE ~(Len(rows) >= FlushRows)
      BY <1>4, <3>2 DEF ReceiveRow, server
    <3> QED BY <3>1, <3>2
  <2> HIDE DEF rows
  <2>5. CASE \E k \in 1..Len(chan) : k # 1 /\ chan[k].row /\ chan[k].rec = r
    BY <1>2a, <2>1, <2>5, Zenon
  <2>6. CASE ~\E k \in 1..Len(chan) : k # 1 /\ chan[k].row /\ chan[k].rec = r
    <3>1. \/ r \in lost
          \/ \E k \in 1..Len(store) : store[k].rec = r
          \/ \E k \in 1..Len(rows) : rows[k] = r
      <4>1. CASE \E k \in 1..Len(buf) : buf[k] = r
        <5>1. PICK k \in 1..Len(buf) : buf[k] = r
          BY <4>1
        <5>2. k \in 1..Len(rows) /\ rows[k] = r
          BY SMTT(60), <2>3, <5>1
        <5> QED BY <5>2, Zenon
      <4>2. CASE chan[1].rec = r
        <5>1. Len(rows) \in 1..Len(rows) /\ rows[Len(rows)] = r
          BY SMTT(60), <2>3, <4>2
        <5> QED BY <5>1, Zenon
      <4> QED BY <2>6, <4>1, <4>2, Zenon DEF Accounted
    <3>2. CASE FlushBackupRecord(chan[1].db, chan[1].rec, rows)
      <4>1. r \in lost' \/ \E k \in 1..Len(store') : store'[k].rec = r
        BY <2>3, <3>1, <3>2, FlushAccounts
      <4> QED BY <4>1 DEF Accounted
    <3>3. CASE buf' = rows /\ UNCHANGED <<store, lost>>
      BY <3>1, <3>3, Zenon DEF Accounted
    <3> QED BY <2>4, <3>2, <3>3
  <2> QED BY <2>5, <2>6
<1>5. CASE ReceiveNil
  <2>1. chan = <<>> /\ UNCHANGED chan /\ FlushBackupRecord(lastDb, myRecord, buf)
    BY <1>5 DEF ReceiveNil
  <2>2. \/ r \in lost
        \/ \E k \in 1..Len(store) : store[k].rec = r
        \/ \E k \in 1..Len(buf) : buf[k] = r
    BY SMTT(60), <2>1 DEF Accounted
  <2>3. r \in lost' \/ \E k \in 1..Len(store') : store'[k].rec = r
    BY <2>1, <2>2, FlushAccounts DEF TypeOK
  <2> QED BY <2>3 DEF Accounted
<1>6. CASE SendFlush
  BY <1>1, <1>6 DEF SendFlush, server
<1>7. CASE SendRow
  BY <1>1, <1>7 DEF SendRow, server
<1>8. CASE SkipRecord \/ NoTableInfo \/ PrepareRow \/ WriteRollbackDDL
  BY <1>0, <1>8 DEF SkipRecord, NoTableInfo, PrepareRow, WriteRollbackDDL, server
<1>9. CASE CheckError \/ CloseChan \/ Return \/ UNCHANGED vars
  BY <1>0, <1>9 DEF CheckError, CloseChan, Return, vars, server
<1> QED
  BY <1>3, <1>4, <1>5, <1>6, <1>7, <1>8, <1>9
  DEF Next, RunBackup, ProcessChanBackup, Finished

\* A record is handed over before runBackup moves on to the next.
LEMMA AccountInductive ==
    TypeOK /\ OrderInv /\ AccountInv /\ [Next]_vars => AccountInv'
<1> SUFFICES ASSUME TypeOK, OrderInv, AccountInv, [Next]_vars PROVE AccountInv'
  OBVIOUS
<1>1. recs' = recs
  BY DEF Next, RunBackup, ProcessChanBackup, Finished, vars, input, SkipRecord, NoTableInfo,
         PrepareRow, SendFlush, SendRow, WriteRollbackDDL, CheckError, CloseChan, Return,
         ReceiveFlush, ReceiveRow, ReceiveNil
<1> DEFINE HandedOver(q) == q < cur \/ (q = cur /\ pc \in {"ddl", "check"})
<1>2. ASSUME NEW q \in RecNo, recs[q].kind \in {"row", "ddl"}, HandedOver(q)'
      PROVE  Accounted(q)'
  <2>1. CASE HandedOver(q)
    BY <1>2, <2>1, AccountedKept DEF AccountInv
  <2>2. CASE ~HandedOver(q)
    <3>1. SendRow /\ q = cur
      <4>0. q \in Nat /\ cur \in Nat /\ ~(q < cur)
        <5>1. q \in Nat
          BY SMTT(60), BackupInfoAssumption DEF RecNo
        <5>2. cur \in Nat
          BY SMTT(60), BackupInfoAssumption DEF TypeOK
        <5> QED BY <2>2, <5>1, <5>2
      <4>1. CASE SendRow
        BY <1>2, <2>2, <4>0, <4>1 DEF SendRow
      <4>2. CASE SkipRecord
        <5>1. cur' = cur + 1 /\ pc' = "next" /\ recs[cur].kind = "skip"
          BY <4>2 DEF SkipRecord
        <5>2. q = cur
          BY SMTT(60), <1>2, <4>0, <5>1
        <5> QED BY <1>2, <5>1, <5>2
      <4>3. CASE NoTableInfo
        BY <1>2, <2>2, <4>0, <4>3 DEF NoTableInfo
      <4>4. CASE CheckError
        <5>1. pc = "check"
          BY <4>4 DEF CheckError
        <5>1a. (pc' = "close" /\ cur' = cur) \/ (pc' = "next" /\ cur' = cur + 1)
          BY <4>4 DEF CheckError
        <5>2. q = cur
          BY SMTT(60), <1>2, <4>0, <5>1a
        <5> QED BY <2>2, <5>1, <5>2
      <4>5. CASE PrepareRow \/ SendFlush \/ WriteRollbackDDL
        BY <1>2, <2>2, <4>5 DEF PrepareRow, SendFlush, WriteRollbackDDL
      <4>6. CASE CloseChan \/ Return \/ UNCHANGED vars
        BY ZenonT(40), <1>2, <2>2, <4>6 DEF CloseChan, Return, vars, producer
      <4>7. CASE ReceiveFlush \/ ReceiveRow \/ ReceiveNil
        BY <1>2, <2>2, <4>7 DEF ReceiveFlush, ReceiveRow, ReceiveNil, producer
      <4> QED
        BY <4>1, <4>2, <4>3, <4>4, <4>5, <4>6, <4>7
        DEF Next, RunBackup, ProcessChanBackup, Finished
    <3>2. /\ Len(chan') = Len(chan) + 1 /\ Len(chan) \in Nat
          /\ chan'[Len(chan) + 1].row /\ chan'[Len(chan) + 1].rec = q
      <4>1. PICK m : /\ chan' = Append(chan, m) /\ m.row /\ m.rec = q
        <5>1. chan' = Append(chan, [db |-> BackupDb(cur), rec |-> cur, row |-> TRUE])
          BY <3>1 DEF SendRow
        <5> QED BY SMTT(60), <3>1, <5>1
      <4>2. chan \in Seq(Message)
        BY DEF TypeOK
      <4>3. Len(chan') = Len(chan) + 1 /\ Len(chan) \in Nat /\ chan'[Len(chan) + 1] = m
        BY SMTT(60), <4>1, <4>2
      <4> QED BY <4>1, <4>3
    <3>3. \E k \in 1..Len(chan') : chan'[k].row /\ chan'[k].rec = q
      BY SMTT(60), <3>2
    <3> QED BY <3>3 DEF Accounted
  <2> QED BY <2>1, <2>2
<1>3. (pc = "done" => cpc = "done")'
  BY DEF AccountInv, Next, RunBackup, ProcessChanBackup, Finished, vars, producer, SkipRecord,
         NoTableInfo, PrepareRow, SendFlush, SendRow, WriteRollbackDDL, CheckError, CloseChan,
         Return, ReceiveFlush, ReceiveRow, ReceiveNil
<1> QED BY <1>1, <1>2, <1>3 DEF AccountInv

\* Once runBackup returned without having met an error, every record to back
\* up was inserted or belongs to a failed INSERT: nothing is left behind in
\* the channel or in insertBuffer.
THEOREM Completeness == Spec => []NothingForgotten
<1>1. Init => OrderInv /\ RowInOwnDb /\ AccountInv
  <2> SUFFICES ASSUME Init PROVE OrderInv /\ RowInOwnDb /\ AccountInv
    OBVIOUS
  <2>2. OrderInv /\ RowInOwnDb
    BY InitEmpty
  <2>3. \A r \in RecNo : ~(r < cur \/ (r = cur /\ pc \in {"ddl", "check"}))
    BY SMTT(60) DEF Init, RecNo
  <2>4. pc # "done"
    BY DEF Init
  <2> QED BY <2>2, <2>3, <2>4 DEF AccountInv
<1>2. TypeOK /\ OrderInv /\ AccountInv => NothingForgotten
  <2> SUFFICES ASSUME TypeOK, OrderInv, AccountInv, pc = "done", cur > NRec,
                      NEW r \in RecNo, recs[r].kind \in {"row", "ddl"}
               PROVE  r \in lost \/ \E k \in 1..Len(store) : store[k].rec = r
    BY DEF NothingForgotten
  <2>1. Accounted(r)
    <3>1. r < cur
      BY SMTT(60), BackupInfoAssumption DEF RecNo, TypeOK
    <3> QED BY <3>1 DEF AccountInv
  <2>2. chan = <<>> /\ buf = <<>>
    BY DEF OrderInv, AccountInv
  <2>3. Len(chan) = 0 /\ Len(buf) = 0
    BY <2>2
  <2>4. 1..Len(chan) = {} /\ 1..Len(buf) = {}
    BY SMTT(60), <2>3
  <2> QED BY <2>1, <2>4, Zenon DEF Accounted
<1> QED
  BY <1>1, <1>2, OrderInductive, AccountInductive, TypeCorrect, PTL DEF Spec
=============================================================================
