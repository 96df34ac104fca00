------------------------------ MODULE AuditCache ------------------------------
(***************************************************************************)
(* The audit of a ticket (session/session_inception.go, the check*          *)
(* functions): every statement is checked against the schema the            *)
(* statements before it will have produced when the ticket is executed.     *)
(* goInception never executes anything to find that schema: it keeps a      *)
(* cache of databases and a cache of TableInfo objects, loads them from the *)
(* target the first time a name is used, and edits them as it accepts DDL.  *)
(* Along the way it writes the rollback statement of each DDL, and leaves   *)
(* in the record of each DML a pointer to the TableInfo that the binlog     *)
(* parser will use to decode the rows of that statement.                    *)
(*                                                                          *)
(* The model audits a ticket one statement at a time.  aud is the session's *)
(* state; live is the schema of the target, which does not change while the *)
(* ticket is audited; ref is the schema the target will have when the       *)
(* statements accepted so far have been executed.  The audit goes on after  *)
(* an error in the code, but then nothing of the ticket is executed, so the *)
(* model stops at the first one.                                            *)
(***************************************************************************)
EXTENDS MySqlSchema, FiniteSets

CONSTANTS
    Stmts,       \* the statements a ticket is made of
    Lives,       \* the schemas the target may have at the start
    LowerDb,     \* the lower-case form of each database name
    MaxStmts     \* bound: statements in a ticket

VARIABLES
    ignoreCase,      \* session.IgnoreCase(): lower_case_table_names > 0
    ignoreWarnings,  \* opt.IgnoreWarnings
    live,            \* the target's schema while the ticket is audited
    aud,             \* the session: caches, TableInfo objects, current record
    ref,             \* the target's schema after the accepted statements
    recs,            \* the accepted DML: TableInfo and the columns at that point
    undo,            \* rollback statements of the accepted DDL, last first
    tags,            \* ghost: which of the audit's blind spots the ticket has met
    last,            \* the statement just audited
    done             \* statements audited

vars == <<ignoreCase, ignoreWarnings, live, aud, ref, recs, undo, tags, last, done>>

NoStmt == [op |-> "none"]

Fold(db) == IF ignoreCase THEN LowerDb[db] ELSE db

----------------------------------------------------------------------------
(* Errors.  An error, or a warning that is not ignored, refuses the ticket. *)
(* why tells an error about what exists from a rule of style.               *)

Reject(a, why) == IF a.ok THEN [a EXCEPT !.ok = FALSE, !.why = why] ELSE a

Warn(a) == IF ignoreWarnings THEN a ELSE Reject(a, "policy")

RejectIf(c, a, why) == IF c THEN Reject(a, why) ELSE a

----------------------------------------------------------------------------
(* The caches. *)

\* An empty database name is the session's current one.
Resolve(a, q) == IF q[1] = "" THEN <<a.cur, q[2]>> ELSE q

Key(q) == <<Fold(q[1]), q[2]>>

Put(f, k, v) == [x \in DOMAIN f \cup {k} |-> IF x = k THEN v ELSE f[x]]

\* checkDBExists: a database the cache has marked deleted is not reported.
CheckDBExists(a, db, report) ==
    IF db = "" THEN [a |-> Reject(a, "exists"), found |-> FALSE]
    ELSE IF Fold(db) \in DOMAIN a.dbs
         THEN [a |-> a, found |-> ~a.dbs[Fold(db)].del]
    ELSE IF Fold(db) \in live.dbs
         THEN [a |-> [a EXCEPT !.dbs = Put(@, Fold(db), [new |-> FALSE, del |-> FALSE])],
               found |-> TRUE]
    ELSE [a |-> RejectIf(report, a, "exists"), found |-> FALSE]

\* A TableInfo read from the target by SHOW FULL FIELDS and SHOW INDEX.
Loaded(q) ==
    LET t  == live.tabs[Key(q)]
        ns == SetToSeq(DOMAIN t.idx)
    IN  [q |-> q, del |-> FALSE, isNew |-> FALSE, newCols |-> FALSE, alters |-> 0,
         fields |-> [k \in DOMAIN t.cols |-> [name |-> t.cols[k], del |-> FALSE]],
         idx |-> [k \in DOMAIN ns |-> [name |-> ns[k], cols |-> t.idx[ns[k]], del |-> FALSE]]]

AddObject(a, key, t) ==
    [a EXCEPT !.heap = Append(@, t), !.cache = Put(@, key, Len(a.heap) + 1)]

\* queryTableFromDB finds no table: error 1146, or 1049 when the database is
\* not there either, which is excused only for a database this ticket creates,
\* looked up under the name as written.
TableMissing(a, q, report) ==
    IF Fold(q[1]) \in live.dbs THEN RejectIf(report, a, "exists")
    ELSE LET excused == ~report /\ q[1] \in DOMAIN a.dbs /\ a.dbs[q[1]].new
         IN  RejectIf(~excused, a, "exists")

\* getTableFromCache: the object of a table, 0 for none.
GetTableFromCache(a, name, report) ==
    LET q == Resolve(a, name)
        d == CheckDBExists(a, q[1], report)
        b == d.a
    IN  IF ~d.found THEN [a |-> b, id |-> 0]
        ELSE IF Key(q) \in DOMAIN b.cache
             THEN IF b.heap[b.cache[Key(q)]].del
                  THEN [a |-> RejectIf(report, b, "exists"), id |-> 0]
                  ELSE [a |-> b, id |-> b.cache[Key(q)]]
        ELSE IF Key(q) \in DOMAIN live.tabs
             THEN [a |-> AddObject(b, Key(q), Loaded(q)), id |-> Len(b.heap) + 1]
        ELSE [a |-> TableMissing(b, q, report), id |-> 0]

\* TableInfo.copy: dropped columns stay, dropped indexes go.
CopyOf(t) == [t EXCEPT !.idx = SelectSeq(@, LAMBDA i : ~i.del)]

CacheNewTable(a, t) == AddObject(a, Key(t.q), [t EXCEPT !.isNew = TRUE])

\* cacheTableSnapshot: later changes go to a copy, the records keep the old one.
CacheTableSnapshot(a, id) ==
    AddObject(a, Key(a.heap[id].q), CopyOf(a.heap[id]))

----------------------------------------------------------------------------
(* Looking at a TableInfo.  Live columns are the ones not marked deleted;   *)
(* some checks look at every field, the deleted ones included.              *)

LiveFields(t) == SelectSeq(t.fields, LAMBDA f : ~f.del)

LiveCols(t) == [k \in DOMAIN LiveFields(t) |-> LiveFields(t)[k].name]

HasField(t, c) == \E k \in DOMAIN t.fields : t.fields[k].name = c

HasLive(t, c) == \E k \in DOMAIN t.fields : t.fields[k].name = c /\ ~t.fields[k].del

FirstField(t, c) ==
    CHOOSE k \in DOMAIN t.fields :
        t.fields[k].name = c /\ \A j \in 1..(k - 1) : t.fields[j].name # c

LiveField(t, c) ==
    LET at == {k \in DOMAIN t.fields : t.fields[k].name = c /\ ~t.fields[k].del}
    IN  CHOOSE k \in at : \A j \in at : k <= j

LiveIdx(t, n) == {k \in DOMAIN t.idx : t.idx[k].name = n /\ ~t.idx[k].del}

NewField(c) == [name |-> c, del |-> FALSE]

----------------------------------------------------------------------------
(* The clauses of ALTER TABLE, on the TableInfo object id.  buf collects    *)
(* the clauses that undo them (alterRollbackBuffer).                        *)

Buffer(a, sp) == [a EXCEPT !.buf = Append(@, sp)]

SetTable(a, id, t) == [a EXCEPT !.heap[id] = t]

\* Mutant: the column is added whether or not the table has it.
AddOneUnchecked(a, id, c, pos) ==
    LET b == CacheTableSnapshot(a, id)
    IN  Buffer([b EXCEPT !.heap[Len(b.heap)].fields = Append(@, NewField(c))],
               [k |-> "dropCol", col |-> c])

\* checkAddColumn, for one column of the clause.  The position is looked up
\* among all the fields.  Every column of the clause starts from the TableInfo
\* the clause was given, not from the snapshot the column before it made.
CheckAddOne(a, id, c, pos) ==
    LET b == CacheTableSnapshot(a, id)
        n == Len(b.heap)
        t == b.heap[n]
        fields == CASE pos.at = "none"  -> Append(t.fields, NewField(c))
                    [] pos.at = "first" -> <<NewField(c)>> \o t.fields
                    [] OTHER -> InsertAt(t.fields, FirstField(t, pos.col) + 1, NewField(c))
    IN  IF ~a.ok THEN a
        ELSE IF HasLive(a.heap[id], c) \/ (pos.at = "after" /\ ~HasField(t, pos.col))
             THEN Reject(a, "exists")
        ELSE Buffer(SetTable(IF pos = NoPos THEN b ELSE Warn(b), n,
                             [t EXCEPT !.fields = fields, !.newCols = TRUE]),
                    [k |-> "dropCol", col |-> c])

CheckAddColumn(a, id, sp) ==
    FoldLeft(LAMBDA b, c : CheckAddOne(b, id, c, sp.pos), a, sp.cols)

\* Mutant: the column is marked on the object the records point to.
DropColumnInPlace(a, id, sp) ==
    LET t == a.heap[id]
    IN  IF ~HasLive(t, sp.col) \/ Len(LiveFields(t)) = 1 THEN Reject(a, "exists")
        ELSE Buffer([a EXCEPT !.heap[id].fields[LiveField(t, sp.col)].del = TRUE],
                    [k |-> "addCols", cols |-> <<sp.col>>, pos |-> NoPos])

CheckDropColumn(a, id, sp) ==
    LET t == a.heap[id]
        b == CacheTableSnapshot(a, id)
    IN  IF ~HasLive(t, sp.col) \/ Len(LiveFields(t)) = 1 THEN Reject(a, "exists")
        ELSE Buffer([b EXCEPT !.heap[Len(b.heap)].fields[LiveField(t, sp.col)].del = TRUE],
                    [k |-> "addCols", cols |-> <<sp.col>>, pos |-> NoPos])

\* The fields with the one at k moved behind the one at m.
MoveBehind(fs, k, m) == InsertAt(RemoveAt(fs, k), IF m > k THEN m ELSE m + 1, fs[k])

\* checkModifyColumn with the name unchanged: the field is looked up among all
\* the fields.  Without a position the object is changed in place; with one,
\* on a snapshot.  A column placed after itself slices out of range.
CheckModifyColumn(a, id, sp) ==
    LET k == FirstField(a.heap[id], sp.col)
        b == CacheTableSnapshot(a, id)
        n == Len(b.heap)
        t == [b.heap[n] EXCEPT !.fields[k] = NewField(sp.col)]
        m == LiveField(t, sp.pos.col)
        moved == IF sp.pos.at = "first" THEN <<t.fields[k]>> \o RemoveAt(t.fields, k)
                 ELSE IF m = k - 1 THEN t.fields ELSE MoveBehind(t.fields, k, m)
        old == [k |-> "modCol", col |-> sp.col, pos |-> NoPos]
    IN  IF ~HasField(a.heap[id], sp.col) THEN Reject(a, "exists")
        ELSE IF sp.pos = NoPos
             THEN Buffer([a EXCEPT !.heap[id].fields[k] = NewField(sp.col)], old)
        ELSE IF sp.pos.at = "after" /\ ~HasLive(t, sp.pos.col) THEN Reject(a, "exists")
        ELSE IF sp.pos.at = "after" /\ m = k THEN Reject(a, "panic")
        ELSE Buffer(SetTable(Warn(b), n, [t EXCEPT !.fields = moved]), old)

\* checkRenameColumn: on a snapshot; the cached indexes keep the old name.
CheckRenameColumn(a, id, sp) ==
    LET t == a.heap[id]
        b == CacheTableSnapshot(a, id)
        n == Len(b.heap)
    IN  IF ~HasLive(t, sp.col) \/ HasLive(t, sp.to) THEN Reject(a, "exists")
        ELSE Buffer(SetTable(b, n, [b.heap[n] EXCEPT
                        !.fields[LiveField(t, sp.col)] = NewField(sp.to), !.newCols = TRUE]),
                    [k |-> sp.k, col |-> sp.to, to |-> sp.col])

\* checkModifyColumn with a new name: the same with a warning.
CheckChangeColumn(a, id, sp) == CheckRenameColumn(Warn(a), id, sp)

\* checkAlterTableAlterColumn: the undo clause does not name the column.
CheckAlterColumn(a, id, sp) ==
    IF ~HasField(a.heap[id], sp.col) THEN Reject(a, "exists")
    ELSE Buffer(a, [k |-> "defaultOfNoColumn"])

\* Undoing a single index statement.
UndoClause(a, id, sp) ==
    [Buffer(a, sp) EXCEPT !.undo = <<[op |-> "alter", tab |-> a.heap[id].q, specs |-> <<sp>>]>>]

\* checkCreateIndex with checkDupColumnIndex: an index whose columns begin
\* another's, or are begun by them, is refused as a matter of style.
CheckCreateIndex(a, id, n, cols) ==
    LET t == a.heap[id]
        repeats == \E k \in DOMAIN t.idx :
                      ~t.idx[k].del /\ (IsPrefix(t.idx[k].cols, cols) \/ IsPrefix(cols, t.idx[k].cols))
    IN  IF ~a.ok THEN a
        ELSE IF repeats THEN Reject(a, "policy")
        ELSE IF \/ \E k \in DOMAIN cols : ~HasField(t, cols[k])
                \/ \E k \in DOMAIN t.idx : LowerIdx[t.idx[k].name] = LowerIdx[n] /\ ~t.idx[k].del
             THEN Reject(a, "exists")
        ELSE UndoClause([a EXCEPT !.heap[id].idx =
                            Append(@, [name |-> n, cols |-> cols, del |-> FALSE]),
                                  !.rec = IF @ = 0 THEN id ELSE @],
                        id, [k |-> "dropIdx", idx |-> n])

\* checkAlterTableDropIndex: the name is compared with its case.
CheckAlterTableDropIndex(a, id, n) ==
    LET t  == a.heap[id]
        at == CHOOSE k \in LiveIdx(t, n) : TRUE
    IN  IF LiveIdx(t, n) = {} THEN Reject(a, "exists")
        ELSE UndoClause([a EXCEPT !.heap[id].idx[at].del = TRUE], id,
                        [k |-> "addIdx", idx |-> n, cols |-> t.idx[at].cols])

\* checkAlterTableRenameIndex: both names are compared with their case.
CheckAlterTableRenameIndex(a, id, sp) ==
    LET t  == a.heap[id]
        at == CHOOSE k \in LiveIdx(t, sp.idx) : TRUE
    IN  IF LiveIdx(t, sp.idx) = {} \/ (sp.to # sp.idx /\ LiveIdx(t, sp.to) # {})
        THEN Reject(a, "exists")
        ELSE Buffer([a EXCEPT !.heap[id].idx =
                        Append([@ EXCEPT ![at].del = TRUE],
                               [name |-> sp.to, cols |-> t.idx[at].cols, del |-> FALSE])],
                    [k |-> "renIdx", idx |-> sp.to, to |-> sp.idx])

\* Mutant: the old name stays in the cache.
MoveKeepsOld(a, id, name) ==
    LET g == GetTableFromCache(a, name, FALSE)
        b == CacheNewTable(g.a, [CopyOf(a.heap[id]) EXCEPT !.q = Resolve(a, name)])
    IN  IF g.id # 0 THEN Reject(g.a, "exists")
        ELSE IF ~g.a.ok THEN g.a
        ELSE [b EXCEPT !.rec = Len(b.heap)]

\* The common part of the two rename statements: the old table exists, the new
\* one does not; the new name's database is looked up without a report.
MoveObject(a, id, name) ==
    LET g == GetTableFromCache(a, name, FALSE)
        b == CacheNewTable(g.a, [CopyOf(a.heap[id]) EXCEPT !.q = Resolve(a, name)])
    IN  IF g.id # 0 THEN Reject(g.a, "exists")
        ELSE IF ~g.a.ok THEN g.a
        ELSE [b EXCEPT !.heap[id].del = TRUE, !.rec = Len(b.heap)]

CheckAlterTableRenameTable(a, id, sp) ==
    Buffer(MoveObject(a, id, sp.tab), [k |-> "renTab", tab |-> a.heap[id].q])

CheckClause(a, id, sp) ==
    CASE sp.k = "addCols"  -> CheckAddColumn(a, id, sp)
      [] sp.k = "dropCol"  -> CheckDropColumn(a, id, sp)
      [] sp.k = "modCol"   -> CheckModifyColumn(a, id, sp)
      [] sp.k = "changeCol" -> CheckChangeColumn(a, id, sp)
      [] sp.k = "renameCol" -> CheckRenameColumn(a, id, sp)
      [] sp.k = "alterCol" -> CheckAlterColumn(a, id, sp)
      [] sp.k = "addIdx"   -> CheckCreateIndex(a, id, sp.idx, sp.cols)
      [] sp.k = "dropIdx"  -> CheckAlterTableDropIndex(a, id, sp.idx)
      [] sp.k = "renIdx"   -> CheckAlterTableRenameIndex(a, id, sp)
      [] sp.k = "renTab"   -> CheckAlterTableRenameTable(a, id, sp)

----------------------------------------------------------------------------
(* The statements. *)

\* Mutant: the undo clauses are kept in the order of the clauses.
AlterUndoneInOrder(a, st) ==
    LET q == Resolve(a, st.tab)
        g == GetTableFromCache(a, q, TRUE)
        Clause(x, sp) ==
            LET h == GetTableFromCache(x, q, TRUE)
            IN  IF ~x.ok \/ h.id = 0 THEN h.a ELSE CheckClause(h.a, h.id, sp)
        c == FoldLeft(Clause, g.a, st.specs)
    IN  IF g.id = 0 THEN g.a
        ELSE [c EXCEPT !.undo = <<[op |-> "alter", tab |-> q, specs |-> c.buf]>>]

\* checkAlterTable: the table is looked up again before every clause but the
\* first, which sees what the lookup at the top found.
CheckAlterTable(a, st) ==
    LET q == Resolve(a, st.tab)
        d == CheckDBExists(a, q[1], TRUE)
        g == GetTableFromCache(d.a, q, TRUE)
        t == g.a.heap[g.id]
        b == [g.a EXCEPT !.heap[g.id].alters = 1, !.rec = g.id]
        Clause(x, sp) ==
            LET h == GetTableFromCache(x, q, TRUE)
            IN  IF ~x.ok \/ h.id = 0 THEN h.a ELSE CheckClause(h.a, h.id, sp)
        c == FoldLeft(Clause, IF t.alters > 0 THEN Warn(b) ELSE b, st.specs)
        renames == SelectSeq(st.specs, LAMBDA sp : sp.k = "renTab")
        name == IF renames = <<>> THEN q ELSE Resolve(a, Head(renames).tab)
    IN  IF ~d.found \/ g.id = 0 THEN g.a
        ELSE [c EXCEPT !.undo = <<[op |-> "alter", tab |-> name, specs |-> Reverse(c.buf)]>>]

\* checkCreateTable with a column list or with LIKE.  The rollback statement is
\* written whenever the statement is accepted; it dereferences the table, which
\* LIKE leaves unset when the model table's database has been dropped.  The
\* record of a table that exists gets its TableInfo when it is executed.
CheckCreateTable(a, st) ==
    LET q == Resolve(a, st.tab)
        d == CheckDBExists(a, q[1], TRUE)
        g == GetTableFromCache(d.a, q, FALSE)
        o == GetTableFromCache(g.a, st.from, TRUE)
        t == IF st.like THEN [CopyOf(o.a.heap[o.id]) EXCEPT !.q = q]
             ELSE [q |-> q, del |-> FALSE, isNew |-> TRUE, newCols |-> TRUE, alters |-> 0,
                   fields |-> [k \in DOMAIN st.cols |-> NewField(st.cols[k])], idx |-> <<>>]
        b == CacheNewTable(IF st.like THEN o.a ELSE g.a, t)
        c == FoldLeft(LAMBDA x, i : CheckCreateIndex(x, Len(b.heap), i.idx, i.cols), b, st.keys)
        dropIt == <<[op |-> "drop", tabs |-> <<q>>, ifx |-> FALSE]>>
    IN  IF ~d.found \/ ~g.a.ok THEN g.a
        ELSE IF g.id # 0
             THEN IF st.ifx THEN [g.a EXCEPT !.undo = dropIt, !.rec = g.id] ELSE Reject(g.a, "exists")
        ELSE IF st.like /\ o.id = 0
             THEN IF o.a.ok THEN Reject(o.a, "panic") ELSE o.a
        ELSE IF ~st.like /\ ~IsInjective(st.cols) THEN Reject(g.a, "exists")
        ELSE [c EXCEPT !.undo = dropIt, !.rec = Len(b.heap)]

\* The statement SHOW CREATE TABLE answers: the table as the target has it now.
ShowCreateTable(q) ==
    LET t  == live.tabs[Key(q)]
        ns == SetToSeq(DOMAIN t.idx)
    IN  [op |-> "create", tab |-> q, cols |-> t.cols, ifx |-> FALSE, like |-> FALSE,
         keys |-> [k \in DOMAIN ns |-> [idx |-> ns[k], cols |-> t.idx[ns[k]]]]]

\* checkDropTable with mysqlShowCreateTable, which skips a table that is new.
\* The rollback statement of one table overwrites that of the table before it.
CheckDropOne(a, name, ifx) ==
    LET g == GetTableFromCache(a, name, FALSE)
        t == g.a.heap[g.id]
    IN  IF ~a.ok THEN a
        ELSE IF g.id = 0 THEN RejectIf(~ifx, g.a, "exists")
        ELSE [g.a EXCEPT !.heap[g.id].del = TRUE, !.rec = g.id,
                         !.undo = IF t.isNew THEN @ ELSE <<ShowCreateTable(t.q)>>]

CheckDropTable(a, st) == FoldLeft(LAMBDA x, n : CheckDropOne(x, n, st.ifx), a, st.tabs)

CheckTruncateTable(a, st) ==
    LET g == GetTableFromCache(a, st.tab, FALSE) IN RejectIf(g.id = 0, g.a, "exists")

\* checkRenameTable: the moves in order, the rollback moves in reverse.
CheckRenameOne(a, m) ==
    LET g == GetTableFromCache(a, m[1], TRUE)
        b == MoveObject(g.a, g.id, m[2])
    IN  IF ~a.ok THEN a
        ELSE IF g.id = 0 THEN Reject(g.a, "exists")
        ELSE [b EXCEPT !.buf = Append(@, <<Resolve(a, m[2]), g.a.heap[g.id].q>>)]

CheckRenameTable(a, st) ==
    LET b == FoldLeft(CheckRenameOne, a, st.moves)
    IN  [b EXCEPT !.undo = <<[op |-> "rename", moves |-> Reverse(b.buf)]>>]

CheckIndexStmt(a, st) ==
    LET g == GetTableFromCache(a, st.tab, TRUE)
    IN  IF g.id = 0 THEN g.a
        ELSE IF st.op = "createIdx" THEN CheckCreateIndex(g.a, g.id, st.idx, st.cols)
        ELSE CheckAlterTableDropIndex(g.a, g.id, st.idx)

\* checkCreateDB caches the database under its lower-case name.
CheckCreateDB(a, st) ==
    LET d == CheckDBExists(a, st.db, FALSE)
    IN  IF d.found THEN RejectIf(~st.ifx, d.a, "exists")
        ELSE [d.a EXCEPT !.dbs = Put(@, LowerDb[st.db], [new |-> TRUE, del |-> FALSE])]

\* checkDropDB marks the entry under the lower-case name, and there may be none.
CheckDropDB(a, st) ==
    LET d == CheckDBExists(a, st.db, ~st.ifx)
    IN  IF ~d.found THEN d.a
        ELSE IF LowerDb[st.db] \notin DOMAIN d.a.dbs THEN Reject(d.a, "panic")
        ELSE [d.a EXCEPT !.dbs[LowerDb[st.db]].del = TRUE]

\* checkChangeDB: the name is set before it is checked, and USE is sent to the
\* target unless the database is new.
CheckChangeDB(a, st) ==
    LET d == CheckDBExists([a EXCEPT !.cur = st.db], st.db, TRUE)
    IN  RejectIf(d.found /\ ~d.a.dbs[Fold(st.db)].new /\ Fold(st.db) \notin live.dbs,
                 d.a, "exists")

\* EXPLAIN runs on the target as it is now.
Explains(a, name, cols) == Reads(live, Key(Resolve(a, name)), cols)

AllLive(t, cols) == \A k \in DOMAIN cols : HasLive(t, cols[k])

\* checkInsert.  With SELECT, the columns selected are checked in the cache when
\* a selected table is new, and otherwise by EXPLAIN: of the whole statement, or
\* of the SELECT alone when the table inserted into has changed.
CheckInsert(a, st) ==
    LET g == GetTableFromCache(a, st.tab, TRUE)
        t == g.a.heap[g.id]
        s == GetTableFromCache(g.a, st.src, TRUE)
        u == s.a.heap[s.id]
        explained == /\ Explains(a, st.src, st.scols)
                     /\ t.isNew \/ t.newCols \/ Explains(a, st.tab, st.cols)
        b == IF ~st.join \/ ~s.a.ok THEN (IF st.join THEN s.a ELSE g.a)
             ELSE IF s.id # 0 /\ u.isNew THEN RejectIf(~AllLive(u, st.scols), s.a, "exists")
             ELSE RejectIf(~explained, s.a, "exists")
    IN  IF g.id = 0 THEN g.a
        ELSE IF ~AllLive(t, st.cols) THEN Reject(g.a, "exists")
        ELSE [b EXCEPT !.rec = g.id]

\* checkUpdate, of one table or of a join: every column is checked in the
\* cache; EXPLAIN follows unless a table is new or the updated one has changed.
CheckUpdate(a, st) ==
    LET g == GetTableFromCache(a, st.tab, TRUE)
        t == g.a.heap[g.id]
        s == IF st.join THEN GetTableFromCache(g.a, st.src, TRUE) ELSE g
        u == s.a.heap[s.id]
        explained == Explains(a, st.tab, st.cols) /\ (st.join => Explains(a, st.src, st.scols))
    IN  IF g.id = 0 \/ s.id = 0 THEN s.a
        ELSE IF ~AllLive(t, st.cols) \/ (st.join /\ ~AllLive(u, st.scols))
             THEN Reject(s.a, "exists")
        ELSE [RejectIf(~t.isNew /\ ~t.newCols /\ ~u.isNew /\ ~explained, s.a, "exists")
                EXCEPT !.rec = g.id]

\* checkDelete, of one table.
CheckDelete(a, st) ==
    LET g == GetTableFromCache(a, st.tab, TRUE)
        t == g.a.heap[g.id]
    IN  IF g.id = 0 THEN g.a
        ELSE IF ~AllLive(t, st.cols) THEN Reject(g.a, "exists")
        ELSE [RejectIf(~t.isNew /\ ~t.newCols /\ ~Explains(a, st.tab, st.cols), g.a, "exists")
                EXCEPT !.rec = g.id]

----------------------------------------------------------------------------
(* What the target does with the same statement: names resolved and folded, *)
(* index statements as the ALTER TABLE they are.                            *)

Normal(a, st) ==
    LET N(name) == Key(Resolve(a, name))
        Clause(sp) == IF sp.k = "renTab" THEN [sp EXCEPT !.tab = N(@)] ELSE sp
        Keys(ks) == [n \in {ks[k].idx : k \in DOMAIN ks} |->
                        ks[CHOOSE k \in DOMAIN ks : ks[k].idx = n].cols]
    IN  CASE st.op \in {"use", "createDb", "dropDb"} -> [st EXCEPT !.db = Fold(@)]
          [] st.op = "create" /\ st.like ->
                [op |-> "createLike", tab |-> N(st.tab), from |-> N(st.from)]
          [] st.op = "create" /\ ~st.like ->
                [op |-> "create", tab |-> N(st.tab), cols |-> st.cols, ifx |-> st.ifx,
                 idx |-> Keys(st.keys)]
          [] st.op = "drop" -> [st EXCEPT !.tabs = [k \in DOMAIN @ |-> N(@[k])]]
          [] st.op = "truncate" -> [st EXCEPT !.tab = N(@)]
          [] st.op = "rename" ->
                [st EXCEPT !.moves = [k \in DOMAIN @ |-> <<N(@[k][1]), N(@[k][2])>>]]
          [] st.op = "alter" ->
                [st EXCEPT !.tab = N(@), !.specs = [k \in DOMAIN @ |-> Clause(@[k])]]
          [] st.op = "createIdx" ->
                [op |-> "alter", tab |-> N(st.tab),
                 specs |-> <<[k |-> "addIdx", idx |-> st.idx, cols |-> st.cols]>>]
          [] st.op = "dropIdx" ->
                [op |-> "alter", tab |-> N(st.tab), specs |-> <<[k |-> "dropIdx", idx |-> st.idx]>>]
          [] OTHER ->
                [op |-> "dml", tab |-> N(st.tab), cols |-> st.cols, join |-> st.join,
                 src |-> IF st.join THEN N(st.src) ELSE N(st.tab), scols |-> st.scols]

----------------------------------------------------------------------------
(* Ghost state: what the ticket has done that the audit is known not to     *)
(* follow.  The properties below say what holds as long as it has not.      *)

ClausesOf(st) == IF st.op = "alter" THEN {st.specs[k] : k \in DOMAIN st.specs} ELSE {}

Existing(st) == {k \in DOMAIN st.tabs : Key(Resolve(aud, st.tabs[k])) \in DOMAIN ref.tabs}

\* The object a name has in the cache, if any.
ObjectOf(name) == LET g == GetTableFromCache(aud, name, FALSE)
                  IN  IF g.id = 0 THEN {} ELSE {g.a.heap[g.id]}

NamesAdded(sp) == CASE sp.k = "addCols" -> {sp.cols[k] : k \in DOMAIN sp.cols}
                    [] sp.k \in {"changeCol", "renameCol"} -> {sp.to}
                    [] OTHER -> {}

\* Columns a ticket drops and later brings back under the same name.
ReAdds(st) ==
    \E sp \in ClausesOf(st) : \E c \in NamesAdded(sp) :
        \/ \E t \in ObjectOf(st.tab) : HasField(t, c)
        \/ [k |-> "dropCol", col |-> c] \in ClausesOf(st)

\* Dropping a table whose definition is not the one the target has now.
DropsTouched(st) ==
    \E k \in Existing(st) :
        LET q == Key(Resolve(aud, st.tabs[k]))
        IN  \/ q \notin DOMAIN live.tabs
            \/ live.tabs[q] # ref.tabs[q]
            \/ \E t \in ObjectOf(st.tabs[k]) : t.isNew

\* Dropping or renaming a column that some index has.
TouchesIndexed(st) ==
    \E sp \in ClausesOf(st) :
        /\ sp.k \in {"dropCol", "changeCol", "renameCol"}
        /\ LET t == ref.tabs[Key(Resolve(aud, st.tab))]
           IN  \E n \in DOMAIN t.idx : Has(t.idx[n], sp.col)

Met(st) ==
    {x \in {"dropDb", "mixedDb", "addSeveral", "dropCol", "reAdd", "dropTouched", "indexedCol",
            "dropSeveral", "createExisting", "alterCol", "dropIdxStmt"} :
        CASE x = "dropDb"         -> st.op = "dropDb"
          [] x = "mixedDb"        -> st.op = "createDb" /\ st.db # LowerDb[st.db]
          [] x = "addSeveral"     -> \E sp \in ClausesOf(st) : sp.k = "addCols" /\ Len(sp.cols) > 1
          [] x = "dropCol"        -> \E sp \in ClausesOf(st) : sp.k = "dropCol"
          [] x = "reAdd"          -> ReAdds(st)
          [] x = "dropTouched"    -> st.op = "drop" /\ DropsTouched(st)
          [] x = "indexedCol"     -> TouchesIndexed(st)
          [] x = "dropSeveral"    -> st.op = "drop" /\ Cardinality(Existing(st)) > 1
          [] x = "createExisting" -> st.op = "create" /\ Key(Resolve(aud, st.tab)) \in DOMAIN ref.tabs
          [] x = "alterCol"       -> \E sp \in ClausesOf(st) : sp.k = "alterCol"
          [] x = "dropIdxStmt"    -> st.op = "dropIdx"}

----------------------------------------------------------------------------
IsDml(st) == st.op \in {"insert", "update", "delete"}

Fresh == [aud EXCEPT !.rec = 0, !.undo = <<>>, !.buf = <<>>]

\* One statement of executeInc: the record is reset, the statement checked.  The
\* rollback statement of a record without a TableInfo is never stored.
Audited(st, a) ==
    LET q == Key(Resolve(aud, st.tab))
    IN  /\ aud.ok /\ ref.ok /\ done < MaxStmts
        /\ done' = done + 1
        /\ aud' = a
        /\ last' = st
        /\ ref' = IF a.ok THEN Run(ref, Normal(aud, st)) ELSE ref
        /\ recs' = IF a.ok /\ ref'.ok /\ IsDml(st) /\ a.rec # 0
                   THEN Append(recs, [id |-> a.rec, cols |-> ref.tabs[q].cols]) ELSE recs
        /\ undo' = IF a.ok /\ ref'.ok /\ a.rec # 0 THEN a.undo \o undo ELSE undo
        /\ tags' = IF a.ok /\ ref'.ok THEN tags \cup Met(st) ELSE tags
        /\ UNCHANGED <<ignoreCase, ignoreWarnings, live>>

Init ==
    /\ ignoreCase \in BOOLEAN
    /\ ignoreWarnings \in BOOLEAN
    /\ live \in Lives
    /\ aud = [ok |-> TRUE, why |-> "", dbs |-> <<>>, cache |-> <<>>, heap |-> <<>>,
              cur |-> "d", rec |-> 0, undo |-> <<>>, buf |-> <<>>]
    /\ ref = live
    /\ recs = <<>>
    /\ undo = <<>>
    /\ tags = {}
    /\ last = NoStmt
    /\ done = 0

Use(st)       == st.op = "use"      /\ Audited(st, CheckChangeDB(Fresh, st))
CreateDb(st)  == st.op = "createDb" /\ Audited(st, CheckCreateDB(Fresh, st))
DropDb(st)    == st.op = "dropDb"   /\ Audited(st, CheckDropDB(Fresh, st))
Create(st)    == st.op = "create"   /\ Audited(st, CheckCreateTable(Fresh, st))
Drop(st)      == st.op = "drop"     /\ Audited(st, CheckDropTable(Fresh, st))
Truncate(st)  == st.op = "truncate" /\ Audited(st, CheckTruncateTable(Fresh, st))
Rename(st)    == st.op = "rename"   /\ Audited(st, CheckRenameTable(Fresh, st))
Alter(st)     == st.op = "alter"    /\ Audited(st, CheckAlterTable(Fresh, st))
IndexStmt(st) == st.op \in {"createIdx", "dropIdx"} /\ Audited(st, CheckIndexStmt(Fresh, st))
Insert(st)    == st.op = "insert"   /\ Audited(st, CheckInsert(Fresh, st))
Update(st)    == st.op = "update"   /\ Audited(st, CheckUpdate(Fresh, st))
Delete(st)    == st.op = "delete"   /\ Audited(st, CheckDelete(Fresh, st))

\* processCommand.
Next ==
    \E st \in Stmts :
        \/ Use(st) \/ CreateDb(st) \/ DropDb(st)
        \/ Create(st) \/ Drop(st) \/ Truncate(st) \/ Rename(st) \/ Alter(st) \/ IndexStmt(st)
        \/ Insert(st) \/ Update(st) \/ Delete(st)

Spec == Init /\ [][Next]_vars

----------------------------------------------------------------------------
Untouched(T) == tags \cap T = {}

\* The cached objects have the structure of a TableInfo, the caches point into
\* the heap, and the session's outcome is one of the kinds the checks produce.
TypeOK ==
    /\ ignoreCase \in BOOLEAN /\ ignoreWarnings \in BOOLEAN /\ live \in Lives
    /\ aud.ok \in BOOLEAN /\ aud.why \in {"", "policy", "exists", "panic"}
    /\ aud.ok <=> aud.why = ""
    /\ \A k \in DOMAIN aud.cache : aud.cache[k] \in DOMAIN aud.heap
    /\ \A k \in DOMAIN aud.heap :
          /\ aud.heap[k].alters \in 0..1
          /\ LiveFields(aud.heap[k]) # <<>>
    /\ done \in 0..MaxStmts /\ Len(recs) <= done /\ last \in Stmts \cup {NoStmt}

\* The caches show the schema the accepted statements will leave behind: a
\* cached table exists exactly if it will, with the columns it will have in
\* their order and the indexes it will have; a table not in the cache is as the
\* target has it.  Dropping a database, adding several columns in one clause,
\* and bringing back a dropped column's name are outside what the caches follow;
\* after a dropped column they are right about columns but not about indexes.
CacheShows ==
    aud.ok /\ ref.ok /\ Untouched({"dropDb", "addSeveral", "reAdd"}) =>
        /\ \A q \in DOMAIN aud.cache :
              LET t == aud.heap[aud.cache[q]]
              IN  /\ ~t.del <=> q \in DOMAIN ref.tabs
                  /\ ~t.del => LiveCols(t) = ref.tabs[q].cols
                  /\ ~t.del /\ Untouched({"dropCol"}) =>
                        {i.name : i \in {t.idx[k] : k \in {j \in DOMAIN t.idx : ~t.idx[j].del}}}
                            = DOMAIN ref.tabs[q].idx
        /\ \A q \in (DOMAIN ref.tabs \cup DOMAIN live.tabs) \ DOMAIN aud.cache :
              /\ q \in DOMAIN ref.tabs /\ q \in DOMAIN live.tabs
              /\ ref.tabs[q] = live.tabs[q]

\* Every database a statement names, as the server sees the name.
MovedTo(st) ==
    (IF st.op = "rename" THEN {st.moves[k][2] : k \in DOMAIN st.moves} ELSE {})
        \cup {sp.tab : sp \in {x \in ClausesOf(st) : x.k = "renTab"}}

UsesIndexOrAny(st) ==
    \/ st.op \in {"createIdx", "dropIdx"}
    \/ \E sp \in ClausesOf(st) : sp.k \in {"modCol", "alterCol", "addIdx", "dropIdx", "renIdx"}
    \/ \E sp \in ClausesOf(st) : sp.k = "addCols" /\ sp.pos.at = "after"

\* An index dropped or renamed under a name of another case than its own.
OtherCase(st) ==
    \/ st.op = "dropIdx" /\ st.idx \notin DOMAIN ref.tabs[Key(Resolve(aud, st.tab))].idx
    \/ \E sp \in ClausesOf(st) :
          sp.k \in {"dropIdx", "renIdx"} /\ sp.idx \notin DOMAIN ref.tabs[Key(Resolve(aud, st.tab))].idx

\* A ticket whose every statement passes the audit runs: the first statement
\* the target refuses is one the audit is blind to.  The blind spots are a
\* database dropped earlier in the ticket or created with capitals in its name,
\* several columns added in one clause, a dropped column brought back, a table
\* moved into a database that does not exist, an index renamed to a name that
\* differs from another's only in case, an INSERT ... SELECT explained on the
\* target as it is now, and, after a column was dropped, the checks that look at
\* every field or at the indexes.
AuditSound ==
    ~ref.ok =>
        \/ ~Untouched({"dropDb", "mixedDb", "addSeveral", "reAdd"})
        \/ ~Untouched({"dropCol"}) /\ UsesIndexOrAny(last)
        \/ \E q \in MovedTo(last) : Fold(q[1]) \notin ref.dbs
        \/ \E sp \in ClausesOf(last) : sp.k = "renIdx" /\ sp.to # LowerIdx[sp.to]
        \/ last.op = "insert" /\ last.join /\ Explains(aud, last.src, last.scols)

\* A statement is refused for what exists or not only if the target would
\* refuse it after the statements before it.  The exceptions are the blind spots
\* above, an index named in another case than its own, and a join or an
\* INSERT ... SELECT that reads a column this ticket adds, which EXPLAIN cannot
\* see on the target yet.
AuditComplete ==
    ~aud.ok /\ aud.why = "exists" =>
        \/ ~Run(ref, Normal(aud, last)).ok
        \/ ~Untouched({"dropDb", "mixedDb", "addSeveral", "reAdd"})
        \/ ~Untouched({"dropCol"}) /\ UsesIndexOrAny(last)
        \/ OtherCase(last)
        \/ IsDml(last) /\ last.join /\ ~Explains(aud, last.src, last.scols)

\* The audit decides as the target will, statement by statement, outside the
\* blind spots above: what it passes runs, and what it refuses would not.
AuditExact == AuditSound /\ AuditComplete

\* The TableInfo a DML record points to still has, when the whole ticket has
\* been audited, the columns the table has when that DML is executed: the binlog
\* parser decodes its rows by position.
SnapshotsTrue ==
    aud.ok /\ ref.ok /\ Untouched({"dropDb", "addSeveral", "reAdd"}) =>
        \A k \in DOMAIN recs : LiveCols(aud.heap[recs[k].id]) = recs[k].cols

\* The audit works with the tables as they will be: the caches at every
\* statement, the snapshots its records keep for the backup to the end.
CacheAgrees == CacheShows /\ SnapshotsTrue

\* The same tables with the same columns, in some order, and the same indexes.
SameTables(s, r) ==
    /\ DOMAIN s.tabs = DOMAIN r.tabs
    /\ \A q \in DOMAIN s.tabs : /\ ToSet(s.tabs[q].cols) = ToSet(r.tabs[q].cols)
                                /\ s.tabs[q].idx = r.tabs[q].idx

\* What the generated rollback statements, last first, make of the schema the
\* ticket leaves.
Back == RunAll(ref, [k \in DOMAIN undo |-> Normal(aud, undo[k])])

\* The rollback statements run and bring every table back with its columns and
\* its indexes.  They do not after a dropped database, after CREATE TABLE IF NOT
\* EXISTS of a table that exists, after DROP TABLE of several tables or of one
\* this ticket has changed, after dropping or renaming a column of an index,
\* after ALTER COLUMN, whose rollback clause names no column, and after DROP
\* INDEX, whose record has no TableInfo.
RollbackRestores ==
    /\ aud.ok /\ ref.ok
    /\ Untouched({"dropDb", "createExisting", "dropSeveral", "dropTouched", "indexedCol", "alterCol",
                  "dropIdxStmt"})
    => Back.ok /\ SameTables(Back, live)

\* The documentation of the result set: to roll a ticket back, find its rollback
\* statements in the backup table and run them.  A table that was there before
\* the ticket, and that no statement of the ticket takes away, is then still there.
RollbackKeepsTables ==
    aud.ok /\ ref.ok =>
        \A q \in DOMAIN live.tabs \cap DOMAIN ref.tabs : Back.ok => q \in DOMAIN Back.tabs
==============================================================================
