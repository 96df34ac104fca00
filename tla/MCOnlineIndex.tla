--------------------------- MODULE MCOnlineIndex ---------------------------
(***************************************************************************)
(* Instance: two servers, a table of two handles that starts with a row at *)
(* the second handle, one region per handle.                               *)
(***************************************************************************)
EXTENDS OnlineIndex, TLC

CONSTANTS s1, s2, a

MCServer == {s1, s2}

MCHandle == {1, 2}

MCValue == {a}

MCFirstRows == (1 :> NoRow) @@ (2 :> a)

MCJobs == <<"add", "drop">>

MCBoundary == {1, 2}

\* The servers are interchangeable.
Symmetry == Permutations(MCServer)
=============================================================================
