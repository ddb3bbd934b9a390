---------------------------- MODULE MCRepairOrder ----------------------------
(* Small instances of RepairOrder.  Amounts are counted in half cents, and   *)
(* the column keeps whole cents, rounding halves up as NUMERIC(10,2) does.   *)
EXTENDS OrderMigration, OrderFigures

MCAmounts == 2..6
MCQuotedPrice == 4

(* Three prices around the quoted one leave room for two reductions in a row *)
(* and for an increase over each of them.                                    *)
WideAmounts == 2..8
WideQuotedPrice == 6

RoundedTo(amounts) == [a \in amounts |-> ((a + 1) \div 2) * 2]
MCStored == RoundedTo(MCAmounts)
WideStored == RoundedTo(WideAmounts)
=============================================================================
