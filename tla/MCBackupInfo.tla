---------------------------- MODULE MCBackupInfo ----------------------------
(***************************************************************************)
(* BackupInfo for TLC: three records, two backup databases, a channel and  *)
(* a batch of two rows.  A full channel, a full batch, a change of the     *)
(* database there and back and an error at every point all occur.          *)
(***************************************************************************)
EXTENDS BackupInfo

CONSTANTS t1, t2, d1, d2

MCDbOf == [t \in Table |-> IF t = t1 THEN d1 ELSE d2]
=============================================================================
