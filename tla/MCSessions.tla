------------------------------ MODULE MCSessions ------------------------------
(* A small instance of Sessions.                                             *)
EXTENDS Sessions, TLC

CONSTANTS c1, c2, c3, c4, c5

FiveCalls == {c1, c2, c3, c4, c5}

Symmetry == Permutations(Calls)
=============================================================================
