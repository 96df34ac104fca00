----------------------------- MODULE MCDdlJobs -----------------------------
(***************************************************************************)
(* Instance: two servers and two tables.                                   *)
(***************************************************************************)
EXTENDS DdlJobs

CONSTANTS s1, s2, t1, t2

MCServer == {s1, s2}

MCTable == {t1, t2}

MCType == {"addIndex", "dropIndex", "dropTable"}
=============================================================================
