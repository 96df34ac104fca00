------------------------------ MODULE Session ------------------------------
(***************************************************************************)
(* What a connection does with a request (ExecuteInc, executeInc): it       *)
(* copies the settings of the server, parses the request chunk by chunk,    *)
(* and audits, prints or splits the statements between the magic start and  *)
(* the magic commit, or executes a command of its own.  Connections share   *)
(* the settings, which INCEPTION SET changes.                               *)
(*                                                                          *)
(* A request is cut into chunks at the lines with a closing semicolon, and  *)
(* a chunk is parsed when its turn comes.  Here it is the sequence of its   *)
(* statements, with "bad" for a chunk that cannot be parsed; a statement is *)
(* known by its place.  What the commit then executes is the subject of     *)
(* TicketExec, what the audit knows of tables that of AuditCache.           *)
(***************************************************************************)
EXTENDS Integers, Sequences, SequencesExt, FiniteSets, FiniteSetsExt

CONSTANTS
    Conn,      \* connections
    NoDb,      \* the empty database name
    Requests,  \* what the client of a connection may send: [client, stmts]
    MaxReq,    \* requests of one connection
    MaxKill    \* KILL QUERY commands

\* Settings of [inc] with an effect on the audit: EnableDropTable, EnableBlobType,
\* MaxUpdateRows > 0, EnableFingerprint.
Var == {"drop", "blob", "limit", "fp"}

VARIABLES
    cnf,     \* the global configuration: on, and the level of ER_UDPATE_TOO_MUCH_ROWS
    merge,   \* Inc.AlterAutoMerge
    se,      \* the session of each connection
    kills

vars == <<cnf, merge, se, kills>>

-----------------------------------------------------------------------------
NoOpt == [none |-> TRUE]
NoPrints == [none |-> TRUE]
NoSplit == [id |-> 0, tables |-> <<>>, buf |-> <<>>, flag |-> 0, rows |-> <<>>]
NoReply == [kind |-> "none", rows |-> <<>>]

\* What init and clear give back to a session.  alterTableInfoList is not among it.
Blank(s) ==
    [s EXCEPT !.haveBegin = FALSE, !.haveCommit = FALSE, !.opt = NoOpt, !.dbName = NoDb,
              !.prints = NoPrints, !.records = <<>>, !.printSets = <<>>, !.splitSets = NoSplit,
              !.disable = FALSE]

NewSession ==
    [pc |-> "idle", n |-> 0, req |-> <<>>, i |-> 1, vi |-> 1, killed |-> FALSE,
     haveBegin |-> FALSE, haveCommit |-> FALSE, opt |-> NoOpt, dbName |-> NoDb,
     inc |-> [v \in Var |-> FALSE], level |-> 0, disable |-> FALSE, prints |-> NoPrints,
     records |-> <<>>, printSets |-> <<>>, splitSets |-> NoSplit, alters |-> <<>>,
     reply |-> NoReply, ran |-> <<>>, began |-> [inc |-> [v \in Var |-> FALSE], level |-> 0,
                                                alters |-> <<>>]]

Init ==
    /\ cnf = [on |-> [v \in Var |-> v # "fp"], level |-> 1]
    /\ merge \in BOOLEAN
    /\ se = [c \in Conn |-> NewSession]
    /\ kills = 0

-----------------------------------------------------------------------------
\* Rows carry the number of their request and their place in it.
Row(s, place, level) == [n |-> s.n, at |-> place, level |-> level, merge |-> 0]
Nowhere == 0

Prints(s) == s.opt # NoOpt /\ s.opt.print
Splits(s) == s.opt # NoOpt /\ s.opt.split

\* addNewSplitNode: what is in the buffer becomes a row, a new group begins.
AddNewSplitNode(p) ==
    [p EXCEPT !.rows = IF p.id > 0 /\ p.buf # <<>>
                       THEN Append(@, [sql |-> p.buf, flag |-> p.flag, error |-> FALSE]) ELSE @,
              !.id = @ + 1, !.tables = <<>>, !.flag = 0, !.buf = <<>>]

\* An error goes to the set the options choose.
Tell(s, place) ==
    CASE Prints(s) -> [s EXCEPT !.printSets = Append(@, Row(s, place, 2))]
      [] ~Prints(s) /\ Splits(s) ->
            LET p == AddNewSplitNode(s.splitSets)
            IN [s EXCEPT !.splitSets =
                   [p EXCEPT !.rows = Append(@, [sql |-> <<[use |-> NoDb, at |-> place]>>, flag |-> p.flag,
                                                 error |-> TRUE])]]
      [] OTHER -> [s EXCEPT !.records = Append(@, Row(s, place, 2))]

\* makeResult.
MakeResult(s) ==
    CASE Prints(s) -> [kind |-> "print", rows |-> s.printSets]
      [] ~Prints(s) /\ Splits(s) ->
            [kind |-> "split", rows |-> AddNewSplitNode(s.splitSets).rows]
      [] OTHER -> [kind |-> "audit", rows |-> s.records]

Answer(s, r) == [Blank(s) EXCEPT !.pc = "reply", !.reply = r]
Result(s) == Answer(s, MakeResult(s))
Local == [kind |-> "local", rows |-> <<>>]
Refused == [kind |-> "error", rows |-> <<>>]

\* A panic ends the connection (Run).
Panic(s) == [Answer(s, [kind |-> "panic", rows |-> <<>>]) EXCEPT !.pc = "closed"]

Stmt(s) == s.req[s.i]
Advance(s) == [s EXCEPT !.i = @ + 1]

-----------------------------------------------------------------------------
(***************************************************************************)
(* Options, settings, levels.                                               *)
(***************************************************************************)

\* parseOptions and checkOptions.
ParseOptions(o) ==
    LET only == o.flags \cap {"split", "check", "print"} # {}
    IN [none |-> FALSE,
        print |-> "print" \in o.flags,
        split |-> "split" \in o.flags,
        check |-> "check" \in o.flags /\ o.flags \cap {"split", "print"} = {},
        execute |-> "execute" \in o.flags /\ ~only,
        iw |-> "ignoreWarnings" \in o.flags \/ only,
        fp |-> "fingerprint" \in o.flags]

\* initDisableTypes.
Disabled(s) == ~s.inc["blob"]

\* Assignments are made one after the other up to the first one that fails.
Valid(a, inTicket) == a.v \in Var \/ (a.v = "level" /\ ~inTicket)
GoodPrefix(as, inTicket) ==
    Min({k \in 1..Len(as) : ~Valid(as[k], inTicket)} \cup {Len(as) + 1}) - 1

\* The value of v after the first m assignments.
Assigned(on, as, m, v) ==
    LET ks == {k \in 1..m : as[k].v = v}
    IN IF ks = {} THEN on[v] ELSE as[Max(ks)].val

\* executeInceptionSet in a ticket: the copy of the session is changed.
InceptionSet(s, st) ==
    LET m == IF st.global THEN 0 ELSE GoodPrefix(st.as, TRUE)
        t == [s EXCEPT !.inc = [v \in Var |-> Assigned(@, st.as, m, v)]]
    IN IF m = Len(st.as) THEN [t EXCEPT !.disable = Disabled(t)] ELSE t

SetFails(st) == st.global \/ GoodPrefix(st.as, TRUE) < Len(st.as)

HasError(s, l) == l = 2 \/ (l = 1 /\ ~s.opt.iw)

MaxLevelLast(s) == IF s.records = <<>> THEN 0 ELSE s.records[Len(s.records)].level
MaxLevel(s) == Max({s.records[j].level : j \in 1..Len(s.records)} \cup {0})
HasErrorBefore(s) == HasError(s, MaxLevel(s))

-----------------------------------------------------------------------------
(***************************************************************************)
(* processCommand.                                                          *)
(***************************************************************************)

CheckedLive(s, st) ==
    Max({0, st.err}
        \cup (IF st.rule = "drop" /\ ~cnf.on["drop"] THEN {2} ELSE {})
        \cup (IF st.rule = "blob" /\ s.disable THEN {2} ELSE {})
        \cup (IF st.k = "query" /\ s.opt.execute THEN {2} ELSE {}))

\* What the checks before the EXPLAIN say.
Checked(s, st) ==
    Max({0, st.err}
        \cup (IF st.rule = "drop" /\ ~s.inc["drop"] THEN {2} ELSE {})
        \cup (IF st.rule = "blob" /\ s.disable THEN {2} ELSE {})
        \cup (IF st.k = "query" /\ s.opt.execute THEN {2} ELSE {}))

TooMany(s, st) == s.inc["limit"] /\ s.dbName \in st.big

\* explainOrAnalyzeSql: similar statements take what the EXPLAIN of the first one told;
\* getExplainInfo keeps it with the level of GetErrorLevel, which is 1.
Known(s, st) == s.inc["fp"] /\ s.prints # NoPrints /\ st.fp \in DOMAIN s.prints
Explained(s, st) ==
    IF Known(s, st) THEN s.prints[st.fp]
    ELSE IF TooMany(s, st) THEN s.level ELSE 0
Explains(s, st) == st.k = "dml" /\ ~HasError(s, Checked(s, st))

\* The record of a statement, without the changes it makes to the session.
Level(s, st) ==
    IF st.k = "set" THEN (IF SetFails(st) THEN 2 ELSE 0)
    ELSE IF Explains(s, st) THEN Max({Checked(s, st), Explained(s, st)})
    ELSE Checked(s, st)

KeepPrint(s, st) ==
    IF Explains(s, st) /\ s.inc["fp"] /\ ~Known(s, st)
    THEN [s EXCEPT !.prints = [f \in DOMAIN @ \cup {st.fp} |->
              IF f = st.fp THEN (IF TooMany(s, st) THEN 1 ELSE 0) ELSE @[f]]]
    ELSE s

\* The map of fingerprints is made at the start of the ticket only.
NilMap(s, st) == Explains(s, st) /\ s.inc["fp"] /\ s.prints = NoPrints

\* checkAlterTable notes the place an ALTER TABLE will have among the records.
NoteAlter(s, st) ==
    LET t == <<s.dbName, st.tab>>
        js == {j \in 1..Len(s.alters) : s.alters[j].tab = t}
    IN IF st.k # "alter" \/ ~merge THEN s
       ELSE IF js = {} THEN [s EXCEPT !.alters = Append(@, [tab |-> t, pos |-> <<Len(s.records)>>])]
       ELSE [s EXCEPT !.alters[Min(js)].pos = Append(@, Len(s.records))]

ProcessCommand(s, st) ==
    LET t == KeepPrint(NoteAlter(s, st), st)
        u == IF st.k = "set" THEN InceptionSet(t, st) ELSE t
    IN IF st.k = "use" THEN [u EXCEPT !.dbName = st.db] ELSE u

-----------------------------------------------------------------------------
(***************************************************************************)
(* splitCommand.                                                            *)
(***************************************************************************)
\* The kinds of statements that are put into a group.  SELECT, CREATE VIEW, INCEPTION SET
\* and what matches no case are left out.
SplitKinds == {"use", "dml", "truncate", "alter", "ddl", "createdb"}
IsDML(st) == st.k \in {"use", "dml", "truncate"}

\* ALTER TABLE and DROP TABLE.
Flagged(st) == st.k = "alter" \/ st.rule = "drop"

\* The table a statement is grouped by: the first of those it names, the old one of RENAME,
\* none for statements on a database.
Key(s, st) ==
    CASE st.k \in {"use", "createdb"} -> <<st.db, "">>
      [] OTHER -> <<IF st.db = NoDb THEN s.dbName ELSE st.db, st.tab>>

AddSplitNodeNoUse(s, st, place) ==
    LET p == s.splitSets
        key == Key(s, st)
        clash == \E j \in 1..Len(p.tables) : p.tables[j] = <<key, ~IsDML(st)>>
        new == p.id = 0 \/ clash
        q == IF new THEN AddNewSplitNode(p) ELSE p
        use == IF p.id = 0 /\ st.k # "use" /\ s.dbName # NoDb THEN <<[use |-> s.dbName, at |-> Nowhere]>> ELSE <<>>
    IN [s EXCEPT !.splitSets =
           [q EXCEPT !.tables = Append(@, <<key, IsDML(st)>>),
                     !.flag = IF Flagged(st) THEN 1 ELSE @,
                     !.buf = @ \o use \o <<[use |-> NoDb, at |-> place]>>]]

\* addSplitNode.
AddSplitNode(s, st, place) ==
    LET p == s.splitSets
        key == Key(s, st)
        clash == \E j \in 1..Len(p.tables) : p.tables[j] = <<key, ~IsDML(st)>>
        new == p.id = 0 \/ clash
        q == IF new THEN AddNewSplitNode(p) ELSE p
        use == IF new /\ st.k # "use" /\ s.dbName # NoDb THEN <<[use |-> s.dbName, at |-> Nowhere]>> ELSE <<>>
    IN [s EXCEPT !.splitSets =
           [q EXCEPT !.tables = Append(@, <<key, IsDML(st)>>),
                     !.flag = IF Flagged(st) THEN 1 ELSE @,
                     !.buf = @ \o use \o <<[use |-> NoDb, at |-> place]>>]]

SplitCommand(s, st) ==
    LET t == IF st.k = "use" THEN [s EXCEPT !.dbName = st.db] ELSE s
    IN IF st.k \in SplitKinds THEN AddSplitNode(t, st, s.i) ELSE t

-----------------------------------------------------------------------------
(***************************************************************************)
(* The steps of a connection.                                               *)
(***************************************************************************)

\* A request arrives; some statements of clients go to the embedded engine at once.
Receive(c) ==
    /\ se[c].pc = "idle"
    /\ se[c].n < MaxReq
    /\ \E r \in Requests[c] :
         se' = [se EXCEPT ![c] =
                  [@ EXCEPT !.n = @ + 1, !.req = r.stmts,
                            !.reply = IF r.client THEN Local ELSE NoReply,
                            !.pc = IF r.client THEN "reply" ELSE "init"]]
    /\ UNCHANGED <<cnf, merge, kills>>

\* init copies the settings, and after them the levels.
InitSettings(c) ==
    /\ se[c].pc = "init"
    /\ se' = [se EXCEPT ![c] = [Blank(@) EXCEPT !.pc = "levels", !.inc = cnf.on,
                                                 !.began.inc = cnf.on,
                                                 !.began.alters = se[c].alters]]
    /\ UNCHANGED <<cnf, merge, kills>>

ParseIncLevel(c) ==
    /\ se[c].pc = "levels"
    /\ LET l == Min({cnf.level, 2})
       IN se' = [se EXCEPT ![c] = [@ EXCEPT !.pc = "run", !.level = l, !.began.level = l]]
    /\ UNCHANGED <<cnf, merge, kills>>

Running(c) == se[c].pc = "run" /\ se[c].i <= Len(se[c].req)

At(c, kinds) == Running(c) /\ Stmt(se[c]).k \in kinds

\* A chunk that cannot be parsed ends the request.
ParseError(c) ==
    /\ At(c, {"bad"})
    /\ se' = [se EXCEPT ![c] = Result(Tell(@, @.i))]
    /\ UNCHANGED <<cnf, merge, kills>>

\* The magic start.
InceptionStart(c) ==
    /\ At(c, {"start"})
    /\ LET s == se[c]
           st == Stmt(s)
           o == IF st.opt.good = "syntax" THEN NoOpt ELSE ParseOptions(st.opt)
           t == [s EXCEPT !.haveBegin = TRUE, !.opt = o]
           u == [t EXCEPT !.dbName = st.opt.db, !.inc["fp"] = @ \/ o.fp]
       IN se' = [se EXCEPT ![c] =
             IF s.haveBegin \/ st.opt.good # "yes"
             THEN Result(Tell(IF s.haveBegin THEN s ELSE t, s.i))
             ELSE Advance([u EXCEPT !.prints = IF u.inc["fp"] THEN [f \in {} |-> 0] ELSE @,
                                    !.disable = Disabled(u)])]
    /\ UNCHANGED <<cnf, merge, kills>>

\* Alters of one table that are merged into a record of their own, at the commit.
Merges(s) == merge /\ s.opt # NoOpt /\ s.opt.check /\ ~s.opt.execute
MergeAlters(s) ==
    FoldLeft(LAMBDA t, info :
                IF Len(info.pos) < 2 THEN t
                ELSE LET rs == Append(t.records, Row(t, Nowhere, 0))
                     IN [t EXCEPT !.records =
                           [j \in 1..Len(rs) |-> IF \E i \in 1..Len(info.pos) : info.pos[i] + 1 = j
                                                 THEN [rs[j] EXCEPT !.merge = Len(rs)]
                                                 ELSE rs[j]]],
             s, s.alters)
OutOfRange(s) ==
    \E j \in 1..Len(s.alters) :
        /\ Len(s.alters[j].pos) >= 2
        /\ \E i \in 1..Len(s.alters[j].pos) :
              s.alters[j].pos[i] > Len(s.records) + Cardinality({h \in 1..j - 1 : Len(s.alters[h].pos) >= 2})

\* executeCommit: what is handed to executeAllStatement.  The target may refuse.
Executes(s) == s.opt.execute /\ ~s.opt.check /\ ~s.opt.print /\ ~s.opt.split /\ ~HasErrorBefore(s)
Refuse(s) == [s EXCEPT !.records[1].level = 2]

\* The magic commit; what follows it in the request is not looked at.
InceptionCommit(c) ==
    /\ At(c, {"commit"})
    /\ LET s == se[c]
           t == IF Merges(s) THEN MergeAlters(s) ELSE s
       IN CASE merge /\ (s.opt = NoOpt \/ (Merges(s) /\ OutOfRange(s))) ->
                 se' = [se EXCEPT ![c] = Panic(s)]
            [] ~(merge /\ (s.opt = NoOpt \/ (Merges(s) /\ OutOfRange(s)))) /\ ~s.haveBegin ->
                 se' = [se EXCEPT ![c] = Result(Tell(t, s.i))]
            [] OTHER ->
                 IF Executes(t)
                 THEN IF t.records = <<>> THEN se' = [se EXCEPT ![c] = Panic(s)]
                      ELSE \/ se' = [se EXCEPT ![c] = Result(Refuse(t))]
                           \/ se' = [se EXCEPT ![c] = Result([t EXCEPT !.ran = t.records])]
                 ELSE se' = [se EXCEPT ![c] = Result(t)]
    /\ UNCHANGED <<cnf, merge, kills>>

NeedDataSource(st) == st.k \notin {"set", "show"}
IsRunToTiDB(st) == st.k \in {"use", "query"}
\* "other": CREATE VIEW, and statements of a kind the session has no case for.
Others == {"use", "query", "dml", "truncate", "alter", "ddl", "createdb", "other", "set", "show"}

\* Without a start: the embedded engine answers, or the statement is refused.
OutsideTicket(c) ==
    /\ At(c, Others)
    /\ ~se[c].haveBegin
    /\ NeedDataSource(Stmt(se[c]))
    /\ se' = [se EXCEPT ![c] = IF IsRunToTiDB(Stmt(@)) THEN Answer(@, Local)
                               ELSE Result(Tell(@, @.i))]
    /\ UNCHANGED <<cnf, merge, kills>>

\* A command for the server itself: INCEPTION SHOW, the commands of online schema
\* changes, KILL.  A ticket may not contain one.
LocalCommand(c) ==
    /\ At(c, {"show"})
    /\ se' = [se EXCEPT ![c] = Answer(@, IF @.opt # NoOpt THEN Refused ELSE Local)]
    /\ UNCHANGED <<cnf, merge, kills>>

\* INCEPTION SET outside of a ticket changes the configuration of the server, one
\* variable after the other; it ends the request.
GlobalSet(c) ==
    /\ At(c, {"set"})
    /\ ~se[c].haveBegin
    /\ LET s == se[c]
           as == Stmt(s).as
       IN IF s.opt # NoOpt \/ s.vi > GoodPrefix(as, FALSE)
          THEN /\ se' = [se EXCEPT ![c] = Answer(s, IF s.opt = NoOpt /\ s.vi > Len(as)
                                                     THEN Local ELSE Refused)]
               /\ UNCHANGED cnf
          ELSE /\ se' = [se EXCEPT ![c].vi = @ + 1]
               /\ cnf' = IF as[s.vi].v = "level" THEN [cnf EXCEPT !.level = as[s.vi].val]
                         ELSE [cnf EXCEPT !.on[as[s.vi].v] = as[s.vi].val]
    /\ UNCHANGED <<merge, kills>>

\* A statement of a ticket: printed, split or audited.  A KILL is noticed after it.
Remote(c) ==
    /\ At(c, Others \ {"show"})
    /\ se[c].haveBegin
    /\ LET s == se[c]
           st == Stmt(s)
           l == Level(s, st)
           t == CASE Prints(s) -> [s EXCEPT !.printSets = Append(@, Row(s, s.i, 0))]
                  [] ~Prints(s) /\ Splits(s) -> SplitCommand(s, st)
                  [] OTHER -> ProcessCommand(s, st)
           u == IF Prints(s) \/ Splits(s) \/ (st.k = "set" /\ l = 0) THEN t
                ELSE [t EXCEPT !.records = Append(@, Row(s, s.i, l))]
       IN se' = [se EXCEPT ![c] =
             IF ~Prints(s) /\ ~Splits(s) /\ NilMap(s, st) THEN Panic(s)
             ELSE IF s.killed THEN Result(Tell(t, s.i))
             ELSE Advance(u)]
    /\ UNCHANGED <<cnf, merge, kills>>

\* The request is read to its end.
EndOfRequest(c) ==
    /\ se[c].pc = "run"
    /\ se[c].i > Len(se[c].req)
    /\ se' = [se EXCEPT ![c] = Result(IF @.haveBegin /\ ~@.haveCommit THEN Tell(@, Nowhere) ELSE @)]
    /\ UNCHANGED <<cnf, merge, kills>>

\* The reply is sent, the connection waits for the next request.
SendReply(c) ==
    /\ se[c].pc = "reply"
    /\ se' = [se EXCEPT ![c] = [NewSession EXCEPT !.n = se[c].n, !.alters = se[c].alters]]
    /\ UNCHANGED <<cnf, merge, kills>>

\* KILL QUERY of a request in work.
Kill(c) ==
    /\ kills < MaxKill
    /\ se[c].pc = "run"
    /\ ~se[c].killed
    /\ se' = [se EXCEPT ![c].killed = TRUE]
    /\ kills' = kills + 1
    /\ UNCHANGED <<cnf, merge>>

Done == (\A c \in Conn : se[c].pc = "closed" \/ (se[c].pc = "idle" /\ se[c].n = MaxReq)) /\ UNCHANGED vars

ExecuteInc(c) ==
    Receive(c) \/ InitSettings(c) \/ ParseIncLevel(c) \/ ParseError(c) \/ InceptionStart(c)
    \/ InceptionCommit(c) \/ OutsideTicket(c) \/ LocalCommand(c) \/ GlobalSet(c) \/ Remote(c)
    \/ EndOfRequest(c) \/ SendReply(c)

Next == (\E c \in Conn : ExecuteInc(c) \/ Kill(c)) \/ Done

Spec == Init /\ [][Next]_vars
-----------------------------------------------------------------------------
(***************************************************************************)
(* What a request says by itself, whatever the connection did before and    *)
(* other connections do meanwhile.                                          *)
(***************************************************************************)
FirstOf(s, ks) ==
    Min({p \in 2..Len(s.req) : s.req[p].k \in ks} \cup {Len(s.req) + 1})

\* A request with a ticket; where it ends, and whether it is committed there.
HasTicket(s) == s.req # <<>> /\ s.req[1].k = "start" /\ s.req[1].opt.good = "yes"
Options(s) == ParseOptions(s.req[1].opt)
End(s) == FirstOf(s, {"commit", "bad", "start", "show"})
Committed(s) == End(s) <= Len(s.req) /\ s.req[End(s)].k = "commit"
Ticket(s) == 2..End(s) - 1
PlacesOf(s, kinds) ==
    SelectSeq([p \in 1..End(s) - 1 |-> p], LAMBDA p : p > 1 /\ s.req[p].k \in kinds)

\* The settings a statement is audited with: those the server had when the request
\* began, changed by the options and the SETs before it in the same ticket.
SettingAt(s, p, v) ==
    LET qs == {q \in 2..p - 1 : /\ s.req[q].k = "set"
                                /\ \E k \in 1..Len(s.req[q].as) : s.req[q].as[k].v = v}
    IN IF qs = {} THEN s.began.inc[v] \/ (v = "fp" /\ Options(s).fp)
       ELSE Assigned(s.began.inc, s.req[Max(qs)].as, Len(s.req[Max(qs)].as), v)
DbAt(s, p) ==
    LET qs == {q \in 2..p - 1 : s.req[q].k = "use"}
    IN IF qs = {} THEN s.req[1].opt.db ELSE s.req[Max(qs)].db

\* The verdict on a statement that stands alone with these settings.
Verdict(s, p) ==
    LET st == s.req[p]
        on(v) == SettingAt(s, p, v)
        checked == Max({st.err, IF st.rule = "drop" /\ ~on("drop") THEN 2 ELSE 0,
                        IF st.rule = "blob" /\ ~on("blob") THEN 2 ELSE 0,
                        IF st.k = "query" /\ Options(s).execute THEN 2 ELSE 0})
        big == st.k = "dml" /\ on("limit") /\ DbAt(s, p) \in st.big
    IN CASE st.k = "set" -> IF SetFails(st) THEN 2 ELSE 0
         [] st.k # "set" /\ big /\ checked # 2 /\ (checked = 1 => Options(s).iw) ->
              Max({checked, s.began.level})
         [] OTHER -> checked

\* Statements whose verdict depends on an earlier one: after a SET that failed half
\* way, and a DML with the fingerprint of one in another database or under other
\* settings, or with another level than the built-in one for too many rows.
Comparable(s, p) ==
    /\ \A q \in 2..p - 1 : s.req[q].k = "set" => ~SetFails(s.req[q])
    /\ s.req[p].k = "dml" /\ SettingAt(s, p, "fp") =>
         \A q \in 2..p - 1 : s.req[q].k = "dml" /\ s.req[q].fp = s.req[p].fp =>
             /\ DbAt(s, q) = DbAt(s, p)
             /\ s.req[q].big = s.req[p].big
             /\ \A v \in Var : SettingAt(s, q, v) = SettingAt(s, p, v)
             /\ s.began.level = 1

Answered(s, kind) == s.pc = "reply" /\ s.reply.kind = kind
OwnRows(s) == SelectSeq(s.reply.rows, LAMBDA r : r.at # Nowhere)

\* The rows of a reply are those of the statements of the request, in their order,
\* without a gap but the SETs that worked, with the verdict of each.  The first
\* record of a ticket that is executed may show why the target refuses.
TrueReply(s) ==
    LET rows == OwnRows(s)
        told == {rows[j].at : j \in 1..Len(rows)}
        silent(p) == s.req[p].k = "set" /\ ~SetFails(s.req[p])
    IN /\ \A j \in 1..Len(s.reply.rows) : s.reply.rows[j].n = s.n
       /\ \A i, j \in 1..Len(rows) : i < j => rows[i].at < rows[j].at
       /\ HasTicket(s) =>
           /\ ~Options(s).print /\ ~Options(s).split
           /\ \A p \in Ticket(s) : p \in told \/ silent(p) \/ (s.killed /\ p > Max(told))
           /\ \A j \in 1..Len(rows) :
                 /\ rows[j].at \in Ticket(s)
                 /\ Comparable(s, rows[j].at)
                 /\ j = 1 => ~Options(s).execute
                 /\ j = Len(rows) => ~s.killed
                 => rows[j].level = Verdict(s, rows[j].at)

\* The reply to a ticket tells the truth about it and about nothing else: INCEPTION
\* SET of another connection, an earlier ticket of the same connection or a similar
\* statement before it change no verdict (init, clear, executeInc, checkFingerprint).
\* With alter_auto_merge this holds of the first ALTERs of a connection only, since
\* clear leaves alterTableInfoList as it is.
ReplyTrue ==
    \A c \in Conn : Answered(se[c], "audit") /\ se[c].began.alters = <<>> => TrueReply(se[c])

\* Every request is answered, also with alter_auto_merge: no connection is closed by
\* what an earlier ticket left behind (executeInc, clear).
LeavesNothing == \A c \in Conn : se[c].began.alters # <<>> => se[c].reply.kind # "panic"

\* Similar statements of one database get the same verdict, whatever level is set for
\* too many rows (docs/params.md:28: the explanation is reused).
SimilarAlike ==
    \A c \in Conn :
        LET s == se[c]
        IN Answered(s, "audit") /\ HasTicket(s) /\ Options(s).fp =>
            \A i, j \in 1..Len(s.reply.rows) :
                LET p == s.reply.rows[i].at
                    q == s.reply.rows[j].at
                IN {p, q} \subseteq Ticket(s) /\ s.req[p] = s.req[q] /\ DbAt(s, p) = DbAt(s, q)
                     => s.reply.rows[i].level = s.reply.rows[j].level

\* What is executed is a ticket its client wanted executed, all of it, and audited
\* without an error: no option that asks for less (check, print, split), every
\* statement between the start and the commit in its place, none after the commit,
\* and none from a request that could not be read to its commit (executeCommit,
\* parseOptions, hasErrorBefore).
OnlyAuditedRuns ==
    \A c \in Conn :
        LET s == se[c]
            flags == s.req[1].opt.flags
        IN s.pc = "reply" /\ s.ran # <<>> =>
            /\ HasTicket(s) /\ Committed(s)
            /\ "execute" \in flags /\ flags \cap {"check", "print", "split"} = {}
            /\ [j \in 1..Len(s.ran) |-> s.ran[j].at] =
                  PlacesOf(s, Others \ {"set"})
            /\ \A p \in Ticket(s) : Comparable(s, p) =>
                  Verdict(s, p) = 0 \/ (Verdict(s, p) = 1 /\ "ignoreWarnings" \in flags)

\* A split ticket is the ticket, apart from SELECT, CREATE VIEW, INCEPTION SET and what
\* splitCommand does not know, which are in no group: the groups together are the other
\* statements in their order; a group executed by itself finds every statement in the
\* database it was written for; no group has DML and DDL whose first table is the same,
\* and a group ends only where this makes it necessary; a group with an ALTER or DROP
\* TABLE is flagged (splitCommand, addSplitNode; docs/params.md:31).
SplitRight ==
    \A c \in Conn :
        LET s == se[c]
            groups == SelectSeq(s.reply.rows, LAMBDA r : ~r.error)
            kind(x) == IF x.at = Nowhere THEN "use" ELSE s.req[x.at].k
            stmts(g) == SelectSeq(groups[g].sql, LAMBDA x : x.at # Nowhere)
            dbFor(g, j) ==
                LET us == {i \in 1..j : kind(groups[g].sql[i]) = "use"}
                    x == groups[g].sql[Max(us)]
                IN IF us = {} THEN NoDb ELSE IF x.at = Nowhere THEN x.use ELSE s.req[x.at].db
            key(x) == Key([dbName |-> DbAt(s, x.at)], s.req[x.at])
            clash(x, y) == key(x) = key(y) /\ IsDML(s.req[x.at]) # IsDML(s.req[y.at])
            items == FlattenSeq([g \in 1..Len(groups) |-> stmts(g)])
            all == [j \in 1..Len(items) |-> items[j].at]
            good == PlacesOf(s, Others \ {"query", "other", "set"})
        IN Answered(s, "split") /\ HasTicket(s) =>
            /\ IF s.killed THEN IsPrefix(all, good) ELSE all = good
            /\ \A g \in 1..Len(groups) :
                  /\ \A j \in 1..Len(groups[g].sql) :
                        kind(groups[g].sql[j]) # "use" => dbFor(g, j) = DbAt(s, groups[g].sql[j].at)
                  /\ \A i, j \in 1..Len(stmts(g)) : ~clash(stmts(g)[i], stmts(g)[j])
                  /\ g > 1 => \E i \in 1..Len(stmts(g - 1)) : clash(stmts(g - 1)[i], stmts(g)[1])
                  /\ groups[g].flag = 1 <=> \E i \in 1..Len(stmts(g)) : Flagged(s.req[stmts(g)[i].at])

\* No group has DML and DDL on one table, the further ones of a statement included
\* (docs/params.md:31).
SplitTables ==
    \A c \in Conn :
        LET s == se[c]
            tables(p) == {<<DbAt(s, p), t>> : t \in {s.req[p].tab} \cup s.req[p].more}
        IN Answered(s, "split") /\ HasTicket(s) =>
            \A g \in 1..Len(s.reply.rows) :
                LET at == {s.reply.rows[g].sql[j].at : j \in 1..Len(s.reply.rows[g].sql)} \ {Nowhere}
                IN \A p, q \in at :
                      {s.req[p].k, s.req[q].k} \subseteq {"dml", "truncate", "alter", "ddl"}
                      /\ IsDML(s.req[p]) /\ ~IsDML(s.req[q]) => tables(p) \cap tables(q) = {}
=============================================================================
