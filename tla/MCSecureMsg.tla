---------------------------- MODULE MCSecureMsg -----------------------------
(***************************************************************************)
(* Two nodes, with one message each from an earlier session; the one with  *)
(* faults sends another. The old messages differ: so do the buckets, at    *)
(* the same size.                                                          *)
(***************************************************************************)
EXTENDS SecureMsg

CONSTANTS a, b

MCNode == {a, b}

MCMessage == {1, 2, 3}

MCOld == [n \in MCNode |-> IF n = a THEN {1} ELSE {3}]

MCFaulty == {b}

MCAuthor == [m \in {2} |-> b]
=============================================================================
