---------------------------- MODULE OrderFigures ----------------------------
(****************************************************************************)
(* What an order contributes to the figures of its technician (GET           *)
(* /technicians/me/stats and /me/summary), of its customer's public profile  *)
(* and of the administrator's dashboard.  Each figure is a query of its own  *)
(* over the columns RepairOrder keeps; here is what it counts of one order.  *)
(****************************************************************************)
EXTENDS RepairOrder

(* count_active_for_technician                                               *)
MutNotCompleted == status # "completed"

ActiveOrder == status \notin TERMINAL_REPAIR_STATUSES

(* count_for_technician and count_for_customer: closed as completed, with    *)
(* whatever result.                                                          *)
CompletedOrder == status = "completed"

(* count_completed of the dashboard, by the result.                          *)
RepairedOrder == result = "repaired"

(* sum_completed_for_technician and total_revenue, by the result too.        *)
Earnings == IF RepairedOrder THEN finalPrice ELSE 0

(* counts_by_status, and count_by_result of the orders that have one.        *)
ByStatus == {status}

ByResult == {result} \ {"none"}

(* count_pending_price_changes: of any order, closed ones included.          *)
PendingPriceChanges == Pending

-----------------------------------------------------------------------------
(* The screens they are put together for: GET /technicians/me/stats and      *)
(* /me/summary, and GET /admin/stats.                                        *)
Stats == [active_orders |-> ActiveOrder, completed_orders |-> CompletedOrder,
          total_earnings |-> Earnings]

Summary == [by_status |-> ByStatus, by_result |-> ByResult,
            pending_price_changes |-> PendingPriceChanges]

Dashboard == [completed_orders |-> RepairedOrder, total_revenue |-> Earnings]

-----------------------------------------------------------------------------
(* The figures add up whatever handler closed the order and however its      *)
(* price was discussed: an order is counted as active or under one result;   *)
(* the dashboard's repaired orders are completed ones, of which the others   *)
(* are not repairable and cancelled ones are none; money is earned with a    *)
(* report; and a change that waits for the customer is of an order somebody  *)
(* still works on.                                                           *)
FiguresAddUp ==
    /\ Stats.active_orders <=> Summary.by_result = {}
    /\ Dashboard.completed_orders => Stats.completed_orders
    /\ Stats.completed_orders =>
           Dashboard.completed_orders \/ Summary.by_result = {"not_repairable"}
    /\ Summary.by_status = {"cancelled"} <=> Summary.by_result = {"cancelled"}
    /\ Stats.total_earnings > 0 \/ Dashboard.total_revenue > 0 => reports > 0
    /\ Summary.pending_price_changes # {} => Stats.active_orders
=============================================================================
