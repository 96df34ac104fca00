--------------------------- MODULE MCTicketBackup ---------------------------
(* Tickets and bounds for the model checker. *)
EXTENDS TicketBackup

CONSTANTS a, b

Use(d) == [kind |-> "use", db |-> d]
Cmd(c) == [kind |-> c, db |-> NoDb]
MCDb == {a, b}

\* A batch of a transaction that is full and one more DML, a change of the database between
\* a DML and a DDL.
MCTickets == {<<Use(a), Cmd("dml"), Cmd("dml"), Cmd("dml")>>,
              <<Use(a), Cmd("dml"), Use(b), Cmd("ddl")>>}
=============================================================================
