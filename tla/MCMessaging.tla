----------------------------- MODULE MCMessaging -----------------------------
(* A small instance of Messaging: one message each way.                      *)
EXTENDS Messaging

CONSTANTS c1, c2

TwoCalls == {c1, c2}
WhoseCall == [c \in TwoCalls |-> IF c = c1 THEN "customer" ELSE "technician"]
=============================================================================
