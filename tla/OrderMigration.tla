---------------------------- MODULE OrderMigration ----------------------------
(****************************************************************************)
(* What migration f2c1d3e4a5b6 does to the rows of an order, wherever its    *)
(* handlers have brought it: downgrade to the schema before the repair       *)
(* lifecycle, and upgrade back.                                              *)
(****************************************************************************)
EXTENDS RepairOrder

OldStatus == {"pending", "in_progress", "completed", "cancelled"}

-----------------------------------------------------------------------------
STATUS_MAP(s) ==
    CASE s = "pending"     -> "awaiting_receipt"
      [] s = "in_progress" -> "in_repair"
      [] OTHER             -> s

(* The statuses of a device in the workshop were one.                        *)
STATUS_MAP_DOWN(s) ==
    CASE s = "awaiting_receipt" -> "pending"
      [] s \in {"received", "diagnosis", "waiting_customer", "waiting_part",
                "in_repair", "testing", "ready"} -> "in_progress"
      [] OTHER -> s

(* The old CHECK on the type of a notice admits none of those that the       *)
(* handlers of a repair send: received, in repair, ready, every closure and  *)
(* every step of a price change.                                             *)
MutKeepsNoCheck == FALSE

(* STATUS_NOTIFICATIONS of the handlers                                      *)
NotifiedStatuses == {"received", "in_repair", "ready"}

RefusedNotices ==
    \/ IsClosed
    \/ statusEvents \cap NotifiedStatuses # {}
    \/ \E c \in ChangeIds : changes[c].status # "unused"

(* The old history requires a status of every event, so a single event       *)
(* without one, of a single order, makes the INSERT and with it the whole    *)
(* downgrade fail; so does a single notice the old CHECK refuses.            *)
GoesThrough == ~remarked /\ ~RefusedNotices

Downgraded ==
    [status |-> STATUS_MAP_DOWN(status), total_amount |-> finalPrice,
     history |-> {STATUS_MAP_DOWN(s) : s \in statusEvents}]

(* The status of the order, what the upgrade makes of its columns and of     *)
(* the tables it creates, which start empty.                                 *)
UpgradedHistory(old) == {STATUS_MAP(s) : s \in old.history}

UpgradedChildren == [changes |-> {}, costItems |-> 0, reports |-> 0]

UpgradedOrder(old) ==
    [status |-> STATUS_MAP(old.status),
     result |-> CASE old.status = "completed" -> "repaired"
                  [] old.status = "cancelled" -> "cancelled"
                  [] OTHER -> "none",
     finalPrice |-> old.total_amount,
     received |-> STATUS_MAP(old.status) # "awaiting_receipt",
     notes |-> {}]

(* An order as its tables hold it, and as the way down and up again gives it *)
(* back.                                                                     *)
Present ==
    [order |-> [status |-> status, result |-> result, finalPrice |-> finalPrice,
                received |-> received, notes |-> notes],
     history |-> statusEvents,
     changes |-> {c \in ChangeIds : changes[c].status # "unused"},
     costItems |-> costItems, reports |-> reports]

RoundTrip ==
    [order |-> UpgradedOrder(Downgraded), history |-> UpgradedHistory(Downgraded),
     changes |-> UpgradedChildren.changes,
     costItems |-> UpgradedChildren.costItems, reports |-> UpgradedChildren.reports]

-----------------------------------------------------------------------------
(* There is no way back once the workshop is at work: the downgrade goes     *)
(* through only while every order still awaits its device and nobody wrote a *)
(* text of it or touched its price, not even to clear or to reject it again. *)
(* An order that does go through has a status and a history the old schema   *)
(* accepts, and of all its tables it loses its cost items and nothing else:  *)
(* they leave no event and no notice that would stop the downgrade.          *)
OnlyUntouchedOrdersGoBack ==
    /\ GoesThrough <=> status = "awaiting_receipt" /\ ~remarked
    /\ GoesThrough =>
           /\ {Downgraded.status} \cup Downgraded.history \subseteq OldStatus
           /\ RoundTrip = [Present EXCEPT !.costItems = 0]
=============================================================================
