----------------------------- MODULE MySqlSchema -----------------------------
(***************************************************************************)
(* The target MySQL server, as far as the statements of a ticket change     *)
(* its schema: which databases and tables exist, the columns of a table in  *)
(* order, and its indexes.  External to the repository: modelled from the   *)
(* statements goInception audits, executes and generates as rollback.       *)
(*                                                                          *)
(* A schema is [ok, dbs, tabs]: ok becomes FALSE when a statement fails and *)
(* stays FALSE, dbs is the set of databases, tabs maps <<db, table>> to     *)
(* [cols, idx].  Names arrive here resolved (no empty database name) and in *)
(* the case the server compares them in; index names keep their case and    *)
(* are compared without it.                                                 *)
(***************************************************************************)
EXTENDS Naturals, Sequences, SequencesExt

\* Index names without case, as the server compares them.
LowerIdx == [n \in {"i", "I", "j"} |-> IF n = "I" THEN "i" ELSE n]

NoPos == [at |-> "none"]

Fails(s) == [s EXCEPT !.ok = FALSE]

Has(seq, x) == \E k \in DOMAIN seq : seq[k] = x

IndexOf(seq, x) == CHOOSE k \in DOMAIN seq : seq[k] = x

Without(seq, x) == SelectSeq(seq, LAMBDA y : y # x)

HasIdx(tab, n) == \E m \in DOMAIN tab.idx : LowerIdx[m] = LowerIdx[n]

IdxNamed(tab, n) == CHOOSE m \in DOMAIN tab.idx : LowerIdx[m] = LowerIdx[n]

\* The columns with c placed where an ADD or MODIFY clause asks.
Place(cols, c, pos) ==
    CASE pos.at = "none"  -> Append(cols, c)
      [] pos.at = "first" -> <<c>> \o cols
      [] OTHER            -> InsertAt(cols, IndexOf(cols, pos.col) + 1, c)

RenameIn(seq, old, new) == [k \in DOMAIN seq |-> IF seq[k] = old THEN new ELSE seq[k]]

\* Dropping a column takes it out of every index, and an index left without
\* columns disappears.
IdxWithout(idx, c) ==
    [n \in {m \in DOMAIN idx : Without(idx[m], c) # <<>>} |-> Without(idx[n], c)]

\* Whether one clause of an ALTER TABLE applies to a table.
ClauseRuns(tab, sp) ==
    CASE sp.k = "addCols" ->
            /\ \A k \in DOMAIN sp.cols : ~Has(tab.cols, sp.cols[k])
            /\ sp.pos.at = "after" => Has(tab.cols, sp.pos.col)
      [] sp.k = "dropCol" -> Has(tab.cols, sp.col) /\ Len(tab.cols) > 1
      [] sp.k = "modCol" ->
            /\ Has(tab.cols, sp.col)
            /\ sp.pos.at = "after" => Has(Without(tab.cols, sp.col), sp.pos.col)
      [] sp.k \in {"changeCol", "renameCol"} ->
            Has(tab.cols, sp.col) /\ ~Has(tab.cols, sp.to)
      [] sp.k = "alterCol" -> Has(tab.cols, sp.col)
      [] sp.k = "addIdx" ->
            ~HasIdx(tab, sp.idx) /\ \A k \in DOMAIN sp.cols : Has(tab.cols, sp.cols[k])
      [] sp.k = "dropIdx" -> HasIdx(tab, sp.idx)
      [] sp.k = "renIdx" ->
            /\ HasIdx(tab, sp.idx)
            /\ HasIdx(tab, sp.to) => LowerIdx[sp.idx] = LowerIdx[sp.to]
      [] OTHER -> FALSE

\* The table after a clause that applies.
ClauseResult(tab, sp) ==
    CASE sp.k = "addCols" ->
            [tab EXCEPT !.cols = FoldLeft(LAMBDA cs, c : Place(cs, c, sp.pos), @, sp.cols)]
      [] sp.k = "dropCol" ->
            [cols |-> Without(tab.cols, sp.col), idx |-> IdxWithout(tab.idx, sp.col)]
      [] sp.k = "modCol" ->
            IF sp.pos = NoPos THEN tab
            ELSE [tab EXCEPT !.cols = Place(Without(@, sp.col), sp.col, sp.pos)]
      [] sp.k \in {"changeCol", "renameCol"} ->
            [cols |-> RenameIn(tab.cols, sp.col, sp.to),
             idx  |-> [n \in DOMAIN tab.idx |-> RenameIn(tab.idx[n], sp.col, sp.to)]]
      [] sp.k = "alterCol" -> tab
      [] sp.k = "addIdx" ->
            [tab EXCEPT !.idx = [n \in DOMAIN @ \cup {sp.idx} |->
                                    IF n = sp.idx THEN sp.cols ELSE @[n]]]
      [] sp.k = "dropIdx" ->
            [tab EXCEPT !.idx = [n \in DOMAIN @ \ {IdxNamed(tab, sp.idx)} |-> @[n]]]
      [] sp.k = "renIdx" ->
            LET old == IdxNamed(tab, sp.idx)
            IN  [tab EXCEPT !.idx = [n \in (DOMAIN @ \ {old}) \cup {sp.to} |->
                                        IF n = sp.to THEN tab.idx[old] ELSE @[n]]]

SetTab(s, q, tab) ==
    [s EXCEPT !.tabs = [r \in DOMAIN @ \cup {q} |-> IF r = q THEN tab ELSE @[r]]]

DropTabs(s, Q) == [s EXCEPT !.tabs = [r \in DOMAIN @ \ Q |-> @[r]]]

MoveTab(s, old, new) ==
    IF old \in DOMAIN s.tabs /\ new \notin DOMAIN s.tabs /\ new[1] \in s.dbs
    THEN SetTab(DropTabs(s, {old}), new, s.tabs[old])
    ELSE Fails(s)

RunClause(s, q, sp) ==
    CASE sp.k = "renTab" -> MoveTab(s, q, sp.tab)
      [] q \in DOMAIN s.tabs /\ ClauseRuns(s.tabs[q], sp) ->
            SetTab(s, q, ClauseResult(s.tabs[q], sp))
      [] OTHER -> Fails(s)

Reads(s, q, cols) ==
    q \in DOMAIN s.tabs /\ \A k \in DOMAIN cols : Has(s.tabs[q].cols, cols[k])

\* Executing one statement.
Run(s, st) ==
    CASE ~s.ok -> s
      [] st.op = "use" -> IF st.db \in s.dbs THEN s ELSE Fails(s)
      [] st.op = "createDb" ->
            IF st.db \in s.dbs THEN (IF st.ifx THEN s ELSE Fails(s))
            ELSE [s EXCEPT !.dbs = @ \cup {st.db}]
      [] st.op = "dropDb" ->
            IF st.db \notin s.dbs THEN (IF st.ifx THEN s ELSE Fails(s))
            ELSE [DropTabs(s, {q \in DOMAIN s.tabs : q[1] = st.db}) EXCEPT !.dbs = @ \ {st.db}]
      [] st.op = "create" ->
            IF st.tab[1] \notin s.dbs THEN Fails(s)
            ELSE IF st.tab \in DOMAIN s.tabs THEN (IF st.ifx THEN s ELSE Fails(s))
            ELSE IF ~IsInjective(st.cols) THEN Fails(s)
            ELSE SetTab(s, st.tab, [cols |-> st.cols, idx |-> st.idx])
      [] st.op = "createLike" ->
            IF st.tab[1] \in s.dbs /\ st.tab \notin DOMAIN s.tabs /\ st.from \in DOMAIN s.tabs
            THEN SetTab(s, st.tab, s.tabs[st.from]) ELSE Fails(s)
      [] st.op = "drop" ->
            IF st.ifx \/ \A k \in DOMAIN st.tabs : st.tabs[k] \in DOMAIN s.tabs
            THEN DropTabs(s, {st.tabs[k] : k \in DOMAIN st.tabs}) ELSE Fails(s)
      [] st.op = "truncate" -> IF st.tab \in DOMAIN s.tabs THEN s ELSE Fails(s)
      [] st.op = "rename" ->
            FoldLeft(LAMBDA x, m : IF x.ok THEN MoveTab(x, m[1], m[2]) ELSE x, s, st.moves)
      [] st.op = "alter" ->
            FoldLeft(LAMBDA x, sp : IF x.ok THEN RunClause(x, st.tab, sp) ELSE x, s, st.specs)
      [] st.op = "dml" ->
            IF Reads(s, st.tab, st.cols) /\ (st.join => Reads(s, st.src, st.scols))
            THEN s ELSE Fails(s)

RunAll(s, sts) == FoldLeft(Run, s, sts)
==============================================================================
