-------------------------- MODULE MCTwoPhaseCommit --------------------------
(***************************************************************************)
(* Instance: two transactions on the same two keys with opposite primary  *)
(* keys; the second reads both keys first and only locks the first key.    *)
(***************************************************************************)
EXTENDS TwoPhaseSnapshot

MCKeys == {1, 2}

MCTxn == {1, 2}

MCReadSet == <<{}, {1, 2}>>

MCKeyList == <<<<1, 2>>, <<2, 1>>>>

MCOpOf == <<<<"put", "del">>, <<"lock", "put">>>>
=============================================================================
