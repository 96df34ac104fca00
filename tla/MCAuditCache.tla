---------------------------- MODULE MCAuditCache ----------------------------
(* One database with one or two tables on the target, a second name that    *)
(* differs from the first only in case, and a third that does not exist     *)
(* yet; a ticket of up to MaxStmts statements from the list below, which    *)
(* has every kind of statement and of clause in the forms that matter to    *)
(* each other.                                                              *)
EXTENDS AuditCache

MCLowerDb == [d \in {"d", "D", "e"} |-> IF d = "D" THEN "d" ELSE d]

dt == <<"d", "t">>
du == <<"d", "u">>

T1 == [cols |-> <<"a", "b">>, idx |-> [i \in {"i"} |-> <<"a">>]]
U1 == [cols |-> <<"a">>, idx |-> [i \in {} |-> <<>>]]

MCLives ==
    {[ok |-> TRUE, dbs |-> {"d"}, tabs |-> [q \in {dt} |-> T1]],
     [ok |-> TRUE, dbs |-> {"d"}, tabs |-> [q \in {dt, du} |-> IF q = dt THEN T1 ELSE U1]]}

Db(op, db, ifx)  == [op |-> op, db |-> db, ifx |-> ifx]
New(q, cols, keys, ifx) ==
    [op |-> "create", tab |-> q, cols |-> cols, keys |-> keys, ifx |-> ifx, like |-> FALSE]
Like(q, from)    == [op |-> "create", tab |-> q, from |-> from, cols |-> <<>>, keys |-> <<>>,
                     ifx |-> FALSE, like |-> TRUE]
Gone(qs, ifx)    == [op |-> "drop", tabs |-> qs, ifx |-> ifx]
Moves(ms)        == [op |-> "rename", moves |-> ms]
Alters(q, sps)   == [op |-> "alter", tab |-> q, specs |-> sps]
Dml(op, q, cols) == [op |-> op, tab |-> q, cols |-> cols, join |-> FALSE, scols |-> <<>>]
Join(op, q, cols, src, scols) ==
    [op |-> op, tab |-> q, cols |-> cols, join |-> TRUE, src |-> src, scols |-> scols]

Add(cs, pos)     == [k |-> "addCols", cols |-> cs, pos |-> pos]
DropC(c)         == [k |-> "dropCol", col |-> c]
Modify(c, pos)   == [k |-> "modCol", col |-> c, pos |-> pos]
To(k, c, d)      == [k |-> k, col |-> c, to |-> d]
AddI(i, cs)      == [k |-> "addIdx", idx |-> i, cols |-> cs]
DropI(i)         == [k |-> "dropIdx", idx |-> i]
RenI(i, j)       == [k |-> "renIdx", idx |-> i, to |-> j]

First == [at |-> "first"]
After(c) == [at |-> "after", col |-> c]

MCStmts ==
    {Db("use", "e", FALSE), Db("use", "D", FALSE),
     Db("createDb", "e", FALSE), Db("createDb", "d", TRUE), Db("createDb", "D", FALSE),
     Db("dropDb", "d", FALSE), Db("dropDb", "e", TRUE), Db("dropDb", "D", FALSE),
     New(du, <<"a", "b">>, <<>>, FALSE), New(dt, <<"a">>, <<>>, TRUE),
     New(<<"", "t">>, <<"a", "c">>, <<[idx |-> "j", cols |-> <<"c">>]>>, FALSE),
     New(<<"e", "t">>, <<"a">>, <<>>, FALSE), New(<<"D", "t">>, <<"a">>, <<>>, FALSE),
     New(du, <<"a", "a">>, <<>>, FALSE),
     Like(du, dt), Like(<<"e", "u">>, dt),
     Gone(<<dt>>, FALSE), Gone(<<dt, du>>, FALSE), Gone(<<du>>, TRUE),
     [op |-> "truncate", tab |-> dt],
     Moves(<<<<dt, du>>>>), Moves(<<<<dt, <<"e", "t">>>>>>), Moves(<<<<dt, <<"d", "v">>>>, <<du, dt>>>>),
     Alters(dt, <<Add(<<"c">>, NoPos)>>), Alters(dt, <<Add(<<"c", "x">>, NoPos)>>),
     Alters(dt, <<Add(<<"c">>, First)>>), Alters(dt, <<Add(<<"c">>, After("b"))>>),
     Alters(dt, <<DropC("a")>>), Alters(dt, <<DropC("b")>>),
     Alters(dt, <<DropC("b"), Add(<<"b">>, NoPos)>>), Alters(dt, <<DropC("b"), Add(<<"c">>, NoPos)>>),
     Alters(dt, <<Modify("b", NoPos)>>), Alters(dt, <<Modify("b", First)>>),
     Alters(dt, <<Modify("a", After("b"))>>), Alters(dt, <<Modify("b", After("b"))>>),
     Alters(dt, <<To("changeCol", "a", "c")>>), Alters(dt, <<To("renameCol", "b", "c")>>),
     Alters(dt, <<[k |-> "alterCol", col |-> "b"]>>),
     Alters(dt, <<AddI("j", <<"b">>)>>), Alters(dt, <<AddI("I", <<"b">>)>>),
     Alters(dt, <<Add(<<"c">>, NoPos), AddI("j", <<"c">>)>>),
     Alters(dt, <<DropI("i")>>), Alters(dt, <<RenI("i", "j")>>), Alters(dt, <<RenI("j", "I")>>),
     Alters(dt, <<[k |-> "renTab", tab |-> du]>>),
     [op |-> "createIdx", tab |-> dt, idx |-> "j", cols |-> <<"b">>],
     [op |-> "dropIdx", tab |-> dt, idx |-> "i"], [op |-> "dropIdx", tab |-> dt, idx |-> "I"],
     Dml("insert", dt, <<"a", "b">>), Dml("insert", <<"", "t">>, <<"a">>), Dml("insert", dt, <<"c">>),
     Dml("update", dt, <<"b">>), Dml("delete", dt, <<"b">>), Dml("delete", <<"e", "t">>, <<"a">>),
     Join("insert", du, <<"a">>, dt, <<"b">>), Join("insert", du, <<"a">>, dt, <<"c">>),
     Join("update", du, <<"a">>, dt, <<"c">>)}
==============================================================================
