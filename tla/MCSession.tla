----------------------------- MODULE MCSession -----------------------------
(***************************************************************************)
(* Two connections with two requests each.  The first sends tickets of      *)
(* every mode, half tickets, commands, and what the parser rejects; the     *)
(* second changes the settings and sends a ticket that depends on them.     *)
(***************************************************************************)
EXTENDS Session

CONSTANTS a, b

S(k) == [k |-> k, db |-> NoDb, tab |-> "t", more |-> {}, rule |-> "none", err |-> 0, big |-> {}, fp |-> "f"]
Start(flags) == [k |-> "start", opt |-> [flags |-> flags, good |-> "yes", db |-> a]]
BadStart(why) == [k |-> "start", opt |-> [flags |-> {"execute"}, good |-> why, db |-> a]]
Commit == [k |-> "commit"]
Use(d) == [S("use") EXCEPT !.db = d]
Dml == S("dml")
BigDml(ds) == [S("dml") EXCEPT !.big = ds]
Blob == [S("ddl") EXCEPT !.rule = "blob"]
Drop == [S("ddl") EXCEPT !.rule = "drop"]
DropTwo == [Drop EXCEPT !.more = {"u"}]
On(t, st) == [st EXCEPT !.tab = t]
Set(as) == [k |-> "set", global |-> FALSE, as |-> as]
SetGlobal(as) == [k |-> "set", global |-> TRUE, as |-> as]
To(v, x) == [v |-> v, val |-> x]

Bad == [k |-> "bad"]
Of(stmts) == [client |-> FALSE, stmts |-> stmts]

MCConn == {1, 2}
Tickets ==
    { [client |-> TRUE, stmts |-> <<>>],
      \* commands and statements without a ticket
      Of(<<S("show")>>), Of(<<S("query")>>), Of(<<Dml>>), Of(<<Commit>>), Of(<<Bad>>),
      \* tickets that are executed
      Of(<<Start({"execute"}), Blob, Drop, Commit, Dml>>),
      Of(<<Start({"execute", "ignoreWarnings"}), BigDml({a}), Commit>>),
      Of(<<Start({"execute"}), BigDml({a}), Dml, Commit>>),
      Of(<<Start({"execute"}), Commit>>),
      Of(<<Start({"execute"}), S("query"), Commit>>),
      Of(<<Start({"execute"}), S("other"), [S("other") EXCEPT !.err = 2], Commit>>),
      Of(<<Start({"execute"}), Set(<<To("blob", TRUE), To("drop", TRUE)>>), Blob, Commit>>),
      Of(<<Start({"execute"}), Set(<<To("drop", TRUE), To("unknown", TRUE)>>), Drop, Commit>>),
      Of(<<Start({"execute"}), Set(<<To("fp", TRUE)>>), Dml, Commit>>),
      Of(<<Start({"check", "execute"}), SetGlobal(<<To("drop", TRUE)>>), Drop, Commit>>),
      Of(<<Start({"execute"}), Dml, Drop, Bad, Commit>>),
      Of(<<Start({"execute"}), Dml>>),
      Of(<<Start({"execute"}), Start({"check"}), Commit>>),
      Of(<<Start({"execute"}), S("show"), Commit>>),
      Of(<<BadStart("syntax"), Dml, Commit>>), Of(<<BadStart("source"), Dml, Commit>>),
      \* tickets that are looked at only
      Of(<<Start({"check"}), S("alter"), S("alter"), Commit>>),
      Of(<<Start({"check", "fingerprint"}), BigDml({a}), BigDml({a}), Use(b), BigDml({a}), Commit>>),
      Of(<<Start({"print", "execute"}), Dml, S("alter"), Commit>>),
      Of(<<Start({"print"}), Start({"print"}), Commit>>),
      Of(<<Start({"split"}), Dml, S("query"), Use(b), S("alter"), Use(a), Dml, S("alter"), S("truncate"),
           Commit>>),
      Of(<<Start({"split", "execute"}), S("ddl"), [S("createdb") EXCEPT !.db = b], Use(b), S("ddl"), Dml>>),
      Of(<<Start({"split"}), Dml, Drop, Bad>>),
      Of(<<Start({"split"}), On("u", Dml), S("other"), DropTwo, Set(<<To("drop", TRUE)>>), On("u", S("ddl")), Commit>>) }

Settings ==
    { Of(<<Set(<<To("blob", FALSE), To("drop", FALSE)>>)>>),
      Of(<<Set(<<To("level", 3), To("unknown", TRUE), To("drop", FALSE)>>)>>),
      Of(<<Set(<<To("fp", TRUE), To("limit", FALSE)>>)>>),
      Of(<<Start({"execute"}), Blob, Drop, Commit>>) }

MCRequests == [c \in MCConn |-> IF c = 1 THEN Tickets ELSE Settings]
=============================================================================
