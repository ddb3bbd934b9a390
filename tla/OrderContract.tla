---------------------------- MODULE OrderContract ----------------------------
(****************************************************************************)
(* What a repair order promises its two parties, whatever happens in the     *)
(* workshop: it is open until it is closed once, with one outcome; what it   *)
(* charges never exceeds an amount the customer agreed to; and the report    *)
(* and the end of the conversation come with the closure, in the same step.  *)
(* RepairOrder implements it (see ImplementsContract there).                 *)
(****************************************************************************)
EXTENDS Naturals

CONSTANTS Amounts, QuotedPrice

VARIABLES
    outcome,   \* "open", or how the order was closed
    charge,    \* what the customer would pay now
    agreed,    \* the amounts the customer agreed to
    reported,  \* a report of the repair exists
    talking    \* the two parties can write to each other

contract == <<outcome, charge, agreed, reported, talking>>

ContractInit ==
    /\ outcome = "open" /\ charge = QuotedPrice
    /\ agreed = {QuotedPrice}
    /\ reported = FALSE /\ talking = TRUE

WithinAgreed(amount) == \E p \in agreed : amount <= p

(* The technician lowers the price, without asking.                          *)
Lower ==
    /\ outcome = "open"
    /\ charge' \in {a \in Amounts : a <= charge}
    /\ UNCHANGED <<outcome, agreed, reported, talking>>

(* The customer agrees to a new amount, which is charged from then on.       *)
Agree ==
    /\ outcome = "open"
    /\ charge' \in Amounts
    /\ agreed' = agreed \cup {charge'}
    /\ UNCHANGED <<outcome, reported, talking>>

(* The device was examined: the order ends with a report.                    *)
Finish ==
    /\ outcome = "open"
    /\ outcome' \in {"repaired", "not_repairable"}
    /\ charge' \in {a \in Amounts : WithinAgreed(a)}
    /\ reported' = TRUE /\ talking' = FALSE
    /\ UNCHANGED agreed

(* Either party walks away: no report.                                       *)
WalkAway ==
    /\ outcome = "open"
    /\ outcome' = "cancelled"
    /\ talking' = FALSE
    /\ UNCHANGED <<charge, agreed, reported>>

ContractNext == Lower \/ Agree \/ Finish \/ WalkAway

ContractSpec == ContractInit /\ [][ContractNext]_contract
=============================================================================
