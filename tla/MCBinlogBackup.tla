--------------------------- MODULE MCBinlogBackup ---------------------------
(***************************************************************************)
(* Executed tickets for the model checker.  A statement is described by    *)
(* what it does; the records and the binlog of a ticket are computed from  *)
(* that: without transactions every statement is a group of the binlog of  *)
(* its own, with them all DML between two DDL are one group.               *)
(***************************************************************************)
EXTENDS BinlogBackup, SequencesExt

CONSTANTS a, b, NStmt

\* rows: the rows it changes in each of its tables, in the order of the events;
\* extra: what the server counts beyond that (ON DUPLICATE KEY UPDATE);
\* other: whether another client writes the same rows just before it;
\* fate: "ok", "unknown" (connection lost) or "skip" (not executed).
Dml(t, ts, rows, fate) == [kind |-> "dml", table |-> t, tabs |-> ts, rows |-> rows, extra |-> 0,
                           other |-> FALSE, fate |-> fate, rollback |-> FALSE]
Ddl(t, rb) == [Dml(t, {t}, <<>>, "ok") EXCEPT !.kind = "ddl", !.rollback = rb]

One(t) == Dml(t, {t}, <<<<t, 1>>>>, "ok")
Two(t) == Dml(t, {t}, <<<<t, 2>>>>, "ok")
None(t) == Dml(t, {t}, <<>>, "ok")
Multi(t, u) == Dml(t, {t, u}, <<<<t, 1>>, <<u, 1>>>>, "ok")
Unknown(t, rows) == [Dml(t, {t}, rows, "unknown") EXCEPT !.other = TRUE]
Shared(s) == [s EXCEPT !.other = TRUE]
Duplicate(t) == [One(t) EXCEPT !.extra = 1]

\* The events of the rows of a statement; an INSERT has one table only.
RowEvents(s, th, of) ==
    [j \in 1..Len(s.rows) |-> [kind |-> "rows", op |-> IF Cardinality(s.tabs) = 1 THEN "write" ELSE "change",
                               thread |-> th, table |-> s.rows[j][1], n |-> s.rows[j][2], of |-> of]]
Mark(k, th) == [kind |-> k, op |-> "none", thread |-> th, table |-> NoTable, n |-> 0, of |-> 0]
Group(evs, th) == IF evs = <<>> THEN <<>> ELSE <<Mark("begin", th)>> \o evs \o <<Mark("end", th)>>

\* Another client changes one row of the table of s.
Others(s) == IF s.other THEN Group(RowEvents(One(s.table), 9, 0), 9) ELSE <<>>

Total(s) == FoldLeft(LAMBDA n, x : n + x[2], 0, s.rows)

Record(s, from, to) ==
    [kind |-> IF s.fate = "skip" THEN "skip" ELSE s.kind, table |-> s.table, tabs |-> s.tabs,
     rollback |-> s.rollback, start |-> IF from = to THEN 0 ELSE from,
     stop |-> IF from = to THEN 0 ELSE to, thread |-> 1,
     status |-> IF s.fate = "ok" THEN "ExecOK" ELSE "ExecFail",
     affected |-> IF s.fate = "ok" THEN Total(s) + s.extra ELSE 0]

\* The log after statement number r has been executed by itself.
ExecOne(log, s, r) ==
    log \o Others(s) \o (IF s.kind = "ddl" THEN <<Mark("begin", 1)>>
                         ELSE IF s.fate = "skip" THEN <<>> ELSE Group(RowEvents(s, 1, r), 1))

\* One group per run of DML; from is where the open group began.
CommitOpen(x) == [log |-> x.log \o Group(x.open, 1), open |-> <<>>, waiting |-> <<>>,
                  recs |-> x.recs \o [j \in 1..Len(x.waiting) |->
                      Record(x.waiting[j], Len(x.log), Len(x.log \o Group(x.open, 1)))]]

ExecTran(x, s) ==
    LET r == Len(x.recs) + Len(x.waiting) + 1
        y == CommitOpen(x)
    IN IF s.kind = "ddl"
       THEN [y EXCEPT !.log = ExecOne(y.log, s, r),
                      !.recs = Append(y.recs, Record(s, Len(y.log), Len(y.log) + 1))]
       ELSE [x EXCEPT !.open = @ \o RowEvents(s, 1, r), !.waiting = Append(@, s)]

Executed(stmts, tran) ==
    IF tran
    THEN LET x == CommitOpen(FoldLeft(ExecTran, [log |-> <<>>, recs |-> <<>>, open |-> <<>>,
                                                 waiting |-> <<>>], stmts))
         IN [recs |-> x.recs, log |-> x.log]
    ELSE FoldLeft(LAMBDA x, s : LET l == ExecOne(x.log, s, Len(x.recs) + 1)
                                IN [log |-> l, recs |-> Append(x.recs, Record(s, Len(x.log), Len(l)))],
                  [recs |-> <<>>, log |-> <<>>], stmts)

Make(stmts, tran, maria, ke) ==
    LET x == Executed(stmts, tran)
    IN [recs |-> x.recs, log |-> x.log, tran |-> tran, mariadb |-> maria, killExecute |-> ke]

Upto(S, n) == UNION {[1..m -> S] : m \in 1..n}

Single == {Shared(One(a)), Two(a), One(b), None(a), Multi(b, a), Unknown(a, <<<<a, 1>>>>), Unknown(a, <<>>),
           Duplicate(b), Ddl(a, TRUE), Ddl(b, FALSE), [One(b) EXCEPT !.fate = "skip"]}
InTran == {One(a), Two(a), One(b), None(a), Multi(b, a), Duplicate(a), Ddl(a, TRUE)}

\* Every way of executing tickets: all pairs of statements, and longer tickets
\* of those that interact.
MCTickets == {Make(s, FALSE, FALSE, FALSE) : s \in Upto(Single, 2)}
       \cup {Make(s, FALSE, FALSE, FALSE) : s \in Upto({Shared(One(a)), One(b), Ddl(a, TRUE)}, NStmt)}
       \cup {Make(s, TRUE, FALSE, FALSE) : s \in Upto(InTran, 2)}
       \cup {Make(s, TRUE, FALSE, FALSE) : s \in Upto({One(a), Two(a), Multi(b, a)}, NStmt)}
       \cup {Make(s, FALSE, TRUE, FALSE) : s \in Upto({Shared(One(a)), One(b)}, 2)}
       \cup {Make(s, TRUE, TRUE, FALSE) : s \in Upto({One(a), One(b)}, 2)}
       \cup {Make(s, FALSE, FALSE, TRUE) : s \in Upto({Shared(One(a)), One(b)}, 2)}

\* Transactions in which the rows of a record cannot be told from the next one's:
\* on MariaDB, and after a row count that is larger than the number of rows.
Starved == {Make(<<One(a), One(b)>>, TRUE, TRUE, FALSE), Make(<<Duplicate(a), One(b)>>, TRUE, FALSE, FALSE)}
MCTable == {a, b}
=============================================================================
