---------------------------- MODULE MCOscControl ----------------------------
(***************************************************************************)
(* OscControl for TLC: one change per tool.  Those of an instance are the  *)
(* same statement sent on different connections and share their sqlsha1.   *)
(***************************************************************************)
EXTENDS OscControl, TLC

CONSTANTS pt, lib, bin, k1, a1, a2

MCTool == [j \in Job |-> IF j = pt THEN "pt" ELSE IF j = lib THEN "lib" ELSE "bin"]
MCKeyOf == [j \in Job |-> k1]
Symmetry == Permutations(Admin)
=============================================================================
