---------------------------- MODULE MCTicketExec ----------------------------
(* Tickets and bounds for the model checker. *)
EXTENDS TicketExec

CONSTANTS a, b, NRec

Use(d) == [kind |-> "use", db |-> d]
Cmd(c) == [kind |-> c, db |-> NoDb]
MCDb == {a, b}

\* The tickets of up to NRec statements that begin with a USE and have a DML or
\* a DDL in them; those with a statement that is skipped or refused are shorter.
UseFirst ==
    LET Has(t, kinds) == {n \in DOMAIN t : t[n].kind \in kinds}
    IN {<<Use(a)>> \o t :
           t \in {u \in UNION {[1..n -> Stmt] : n \in 1..NRec - 1} :
                    /\ Has(u, {"dml", "ddl"}) # {}
                    /\ Len(u) = NRec - 1 => Has(u, {"show", "other"}) = {}}}

\* A batch that is flushed by a DDL, then two DML or more mixed with USE and SET.
Mixed == {<<Use(a), Cmd("ddl")>> \o t :
             t \in {u \in [1..3 -> {Cmd("dml"), Use(b), Cmd("set")}] :
                      Cardinality({n \in 1..3 : u[n].kind = "dml"}) >= 2}}
\* A full batch, then one that a DDL flushes.
Flushed == {<<Use(a)>> \o t \o <<Cmd("ddl")>> : t \in [1..3 -> {Cmd("dml"), Use(b)}]}
InBatches == UseFirst \cup Mixed \cup Flushed
=============================================================================
