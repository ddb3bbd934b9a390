------------------------------ MODULE MCQuoting ------------------------------
(* A small instance of Quoting and of RequestPrivacy on top of it.           *)
EXTENDS RequestPrivacy

CONSTANTS t1, t2, k1, k2

TwoTechnicians == {t1, t2}
TwoCalls == {k1, k2}
=============================================================================
