------------------------------ MODULE RepairOrder ------------------------------
(****************************************************************************)
(* One repair order of Pyckle, from the acceptance of its quotation to its   *)
(* closure: the technical status, the price negotiation, the closing         *)
(* documents, and the rows of other tables its handlers write (the repair    *)
(* request, the conversation, the report).                                   *)
(*                                                                           *)
(* Every handler of app/domains/orders that writes starts with               *)
(* SELECT ... FOR UPDATE on the order row (OrderRepository.lock) and only    *)
(* then loads the order, so at most one of them is between its load and its  *)
(* commit.  Lock is that first part; each handler action is the rest of one  *)
(* handler up to its commit, and Refused is a handler that raised before it. *)
(* The request row is NOT covered by the lock: POST                          *)
(* /repair-requests/{id}/cancel reads and writes it on its own, and so do    *)
(* the creations of other quotations that were under way at the acceptance,  *)
(* so "loaded" keeps the request status as the lock holder read it.          *)
(****************************************************************************)
EXTENDS Naturals

CONSTANTS
    Amounts,      \* the amounts of money the API accepts, as numbers
    Stored,       \* Stored[a]: amount a as the NUMERIC(10,2) column keeps it
    QuotedPrice,  \* price of the accepted quotation, as stored
    ChangeIds,    \* identities of the rows of order_price_changes (a bound)
    CancelCalls,  \* concurrent calls of POST /repair-requests/{id}/cancel
    QuotationCalls,  \* calls of POST /quotations that read the request while
                     \* it was open and had not committed at the acceptance
    MaxCostItems  \* bound on the rows of order_cost_items

(* The column rounds to cents: it keeps what it can represent, and rounding  *)
(* never inverts an order.                                                   *)
ASSUME AmountsAssumption == Amounts \subseteq Nat
ASSUME StoredAssumption ==
    /\ Stored \in [Amounts -> Amounts]
    /\ \A a \in Amounts : Stored[Stored[a]] = Stored[a]
    /\ \A a, b \in Amounts : a <= b => Stored[a] <= Stored[b]
ASSUME QuotedPriceAssumption ==
    QuotedPrice \in Amounts /\ Stored[QuotedPrice] = QuotedPrice
ASSUME MaxCostItemsAssumption == MaxCostItems \in Nat

VARIABLES
    status,        \* orders.status
    result,        \* orders.result, "none" for NULL
    finalPrice,    \* orders.final_price
    received,      \* orders.received_at IS NOT NULL
    notes,         \* which of the closing texts are recorded on the order
    changes,       \* order_price_changes, by identity
    costItems,     \* number of rows of order_cost_items
    lastStatus,    \* new_status of the latest order event that has one
    statusEvents,  \* every new_status the append-only order_events holds
    remarked,      \* order_events holds an event without a new_status
    reports,       \* number of rows of repair_reports
    conversation,  \* conversations.status
    request,       \* repair_requests.status
    loaded,        \* request status read by the holder of the order's row lock
    cancelling,    \* request-cancel calls past their check, not yet committed
    quoting        \* the QuotationCalls that have not committed

row      == <<status, result, finalPrice, received, notes>>
events   == <<lastStatus, statusEvents>>
children == <<changes, costItems, reports>>
others   == <<conversation, request>>
calls    == <<cancelling, quoting>>
vars     == <<row, events, remarked, children, others, loaded, calls>>

-----------------------------------------------------------------------------
(* Enumerations (app/models/enums.py)                                        *)

RepairStatus == {"awaiting_receipt", "received", "diagnosis",
                 "waiting_customer", "waiting_part", "in_repair", "testing",
                 "ready", "completed", "cancelled"}

TERMINAL_REPAIR_STATUSES == {"completed", "cancelled"}

MutSkipsReception ==
    [s \in RepairStatus |-> RepairStatus \ (TERMINAL_REPAIR_STATUSES \cup {s})]

ALLOWED_STATUS_TRANSITIONS ==
    [s \in RepairStatus |->
        CASE s = "awaiting_receipt" -> {"received"}
          [] s = "received"         -> {"diagnosis"}
          [] s = "diagnosis"        -> {"waiting_customer", "waiting_part",
                                        "in_repair"}
          [] s = "waiting_customer" -> {"diagnosis", "in_repair"}
          [] s = "waiting_part"     -> {"in_repair", "waiting_customer"}
          [] s = "in_repair"        -> {"testing", "waiting_part"}
          [] s = "testing"          -> {"ready", "in_repair"}
          [] s = "ready"            -> {"testing"}
          [] OTHER                  -> {}]

CUSTOMER_CANCELLABLE_STATUSES ==
    {"awaiting_receipt", "received", "diagnosis", "waiting_customer",
     "waiting_part"}

BLOCKED_BY_PENDING_PRICE == {"in_repair", "testing", "ready"}

RepairResult == {"repaired", "not_repairable", "cancelled"}

RequestStatus ==
    {"open", "quoted", "accepted", "in_progress", "completed", "cancelled"}

ConversationStatus == {"open", "archived"}

NoteFields == {"diagnosis", "work_performed"}

NoChange == [status |-> "unused", previous |-> QuotedPrice,
             new |-> QuotedPrice, decidedBy |-> "none"]

PriceChange == [status    : {"unused", "pending", "approved", "rejected"},
                previous  : Amounts,
                new       : Amounts,
                decidedBy : {"none", "customer", "technician"}]

-----------------------------------------------------------------------------
(* Queries and helpers of the handlers                                       *)

IsClosed == status \in TERMINAL_REPAIR_STATUSES

(* price_changes.get_pending: the rows it selects.                           *)
Pending == {c \in ChangeIds : changes[c].status = "pending"}

(* price_changes.has_approved_price, and without its filter on the status.   *)
MutHasProposedPrice(price) ==
    \E c \in ChangeIds : changes[c].status # "unused" /\ changes[c].new = price

HasApprovedPrice(price) ==
    \E c \in ChangeIds : changes[c].status = "approved" /\ changes[c].new = price

(* An event with a new_status is appended together with the status itself.   *)
MutSetStatusUnlogged(new) == status' = new /\ UNCHANGED events

SetStatus(new) ==
    /\ status' = new
    /\ lastStatus' = new
    /\ statusEvents' = statusEvents \cup {new}

(* An event that carries no status: the texts, the price, the report.        *)
Remark == remarked' = TRUE

(* order.request.status = new.  The ORM emits an UPDATE only for an attribute *)
(* whose value differs from the one it loaded.                               *)
MutEndsAcceptedOnly(new) ==
    request' = IF loaded = "accepted" THEN new ELSE request

SetRequest(new) ==
    request' = IF loaded = new THEN request ELSE new

(* _archive_conversation                                                     *)
MutArchiveNothing == UNCHANGED conversation
MutArchiveAsClosed == conversation' = "closed"

ArchiveConversation == conversation' = "archived"

(* A handler that holds the row lock ends, and its commit releases the lock. *)
Commit == loaded # "unlocked" /\ loaded' = "unlocked"

(* The guard every writing handler starts with after its load.               *)
MutCommitAnyStatus == Commit

CommitOpen == ~IsClosed /\ Commit

(* The price a closing handler may set: the current one, or the new price of *)
(* any change of this order that was ever approved.                          *)
ApprovedPrices == {finalPrice} \cup {p \in Amounts : HasApprovedPrice(p)}

-----------------------------------------------------------------------------
TypeOK ==
    /\ status \in RepairStatus
    /\ result \in RepairResult \cup {"none"}
    /\ finalPrice \in Amounts
    /\ received \in BOOLEAN
    /\ notes \subseteq NoteFields
    /\ changes \in [ChangeIds -> PriceChange]
    /\ costItems \in 0..MaxCostItems
    /\ lastStatus \in RepairStatus
    /\ statusEvents \subseteq RepairStatus
    /\ remarked \in BOOLEAN
    /\ reports \in Nat
    /\ conversation \in ConversationStatus
    /\ request \in RequestStatus
    /\ loaded \in RequestStatus \cup {"unlocked"}
    /\ cancelling \subseteq CancelCalls
    /\ quoting \subseteq QuotationCalls

(* The state the commit of QuotationService.accept leaves behind.            *)
Init ==
    /\ status = "awaiting_receipt" /\ result = "none"
    /\ finalPrice = QuotedPrice
    /\ received = FALSE /\ notes = {}
    /\ changes = [c \in ChangeIds |-> NoChange]
    /\ costItems = 0 /\ reports = 0
    /\ lastStatus = "awaiting_receipt" /\ statusEvents = {"awaiting_receipt"}
    /\ conversation = "open" /\ request = "accepted"
    /\ remarked = FALSE
    /\ loaded = "unlocked" /\ cancelling = {} /\ quoting = QuotationCalls

(* repo.lock, then get_detail: the order and its request are read.           *)
Lock ==
    /\ loaded = "unlocked"
    /\ loaded' = request
    /\ UNCHANGED <<row, events, remarked, children, others, calls>>

(* The handler raised (a guard, or a commit that failed and rolled back), or *)
(* it was a repeated close, which returns the closed order untouched.        *)
Refused ==
    /\ Commit
    /\ UNCHANGED <<row, events, remarked, children, others, calls>>

(* No work on the device while a price is under discussion.                  *)
MutPriceIgnored(new) == TRUE

PriceAllows(new) == new \in BLOCKED_BY_PENDING_PRICE => Pending = {}

(* PATCH /orders/{id}/status, by the assigned technician.                    *)
TransitionStatus(new) ==
    /\ CommitOpen
    /\ new \in ALLOWED_STATUS_TRANSITIONS[status]
    /\ PriceAllows(new)
    /\ SetStatus(new)
    /\ received' = (received \/ new = "received")
    /\ IF loaded = "accepted" THEN SetRequest("in_progress")
                              ELSE UNCHANGED request
    /\ UNCHANGED <<result, finalPrice, notes, remarked, children,
                   conversation, calls>>

(* PUT /orders/{id}/repair-details: any closing text may be set or cleared.  *)
UpdateDetails(fields) ==
    /\ CommitOpen
    /\ notes' = fields
    /\ Remark
    /\ UNCHANGED <<status, result, finalPrice, received, events, children,
                   others, calls>>

(* POST /orders/{id}/costs                                                   *)
AddCostItem ==
    /\ CommitOpen
    /\ costItems < MaxCostItems
    /\ costItems' = costItems + 1
    /\ UNCHANGED <<row, events, remarked, changes, reports, others, calls>>

(* POST /orders/{id}/price-changes: the comparisons use the submitted amount, *)
(* the columns keep the rounded one.                                         *)
MutProposeAgain(c, price) ==
    CommitOpen /\ changes[c].status = "unused" /\ price # finalPrice

ProposeGuard(c, price) ==
    /\ CommitOpen
    /\ Pending = {}
    /\ changes[c].status = "unused"
    /\ price # finalPrice

MutAutoApprovesIncreases(price) == price > finalPrice

AutoApproved(price) == price < finalPrice

(* A lower price is approved on the spot, in the technician's name.          *)
ProposeReduction(c, price) ==
    /\ ProposeGuard(c, price)
    /\ AutoApproved(price)
    /\ changes' = [changes EXCEPT ![c] =
            [status |-> "approved", previous |-> finalPrice,
             new |-> Stored[price], decidedBy |-> "technician"]]
    /\ finalPrice' = Stored[price]
    /\ Remark
    /\ UNCHANGED <<status, result, received, notes, events, costItems, reports,
                   others, calls>>

(* A higher one waits for the customer, and so does the repair.              *)
ProposeIncrease(c, price) ==
    /\ ProposeGuard(c, price)
    /\ ~AutoApproved(price)
    /\ changes' = [changes EXCEPT ![c] =
            [status |-> "pending", previous |-> finalPrice,
             new |-> Stored[price], decidedBy |-> "none"]]
    /\ IF status = "waiting_customer" THEN UNCHANGED <<status, events>>
                                      ELSE SetStatus("waiting_customer")
    /\ Remark
    /\ UNCHANGED <<result, finalPrice, received, notes, costItems, reports,
                   others, calls>>

(* A decision may be taken on a change that still waits for one.             *)
MutDecideAgain(c) == changes[c].status # "unused"

Undecided(c) == c \in Pending

Decided(c, outcome, who) ==
    [changes EXCEPT ![c].status = outcome, ![c].decidedBy = who]

(* POST /orders/{id}/price-changes/{change_id}/approve, by the customer.     *)
ApproveChange(c) ==
    /\ CommitOpen
    /\ Undecided(c)
    /\ changes' = Decided(c, "approved", "customer")
    /\ finalPrice' = changes[c].new
    /\ Remark
    /\ UNCHANGED <<status, result, received, notes, events, costItems, reports,
                   others, calls>>

(* POST .../reject: the technician has to plan the repair again.             *)
RejectChange(c) ==
    /\ CommitOpen
    /\ Undecided(c)
    /\ changes' = Decided(c, "rejected", "customer")
    /\ IF status = "waiting_customer" THEN SetStatus("diagnosis")
                                      ELSE UNCHANGED <<status, events>>
    /\ Remark
    /\ UNCHANGED <<result, finalPrice, received, notes, costItems, reports,
                   others, calls>>

(* _assert_can_close *)
CanClose == received /\ Pending = {}

(* _assert_close_data, on the values the handler is about to store.          *)
MutTextsUnchecked == TRUE

TextsRecorded == notes' = NoteFields

(* What both closing handlers write besides the order: the report and its    *)
(* row, the archived conversation, the request.                              *)
CloseWithReport(outcome) ==
    /\ SetStatus("completed")
    /\ result' = outcome
    /\ SetRequest("completed")
    /\ reports' = reports + 1
    /\ Remark
    /\ ArchiveConversation

(* POST /orders/{id}/complete: texts may come with the call, and so may a    *)
(* final price.                                                              *)
Complete(price, texts) ==
    /\ CommitOpen
    /\ CanClose
    /\ price \in ApprovedPrices
    /\ notes' = notes \cup texts
    /\ TextsRecorded
    /\ finalPrice' = price
    /\ CloseWithReport("repaired")
    /\ UNCHANGED <<received, changes, costItems, calls>>

(* POST /orders/{id}/not-repairable                                          *)
NotRepairable ==
    /\ CommitOpen
    /\ status # "awaiting_receipt"
    /\ CanClose
    /\ notes' = notes \cup {"diagnosis"}
    /\ CloseWithReport("not_repairable")
    /\ UNCHANGED <<finalPrice, received, changes, costItems, calls>>

(* _reject_pending_changes *)
RejectPending(who) ==
    changes' = [c \in ChangeIds |->
        IF c \in Pending
        THEN [changes[c] EXCEPT !.status = "rejected", !.decidedBy = who]
        ELSE changes[c]]

(* POST /orders/{id}/cancel.  get_pending raises when it finds two rows.     *)
Cancel(who) ==
    /\ CommitOpen
    /\ \A c, d \in Pending : c = d
    /\ RejectPending(who)
    /\ SetStatus("cancelled")
    /\ result' = "cancelled"
    /\ SetRequest("cancelled")
    /\ ArchiveConversation
    /\ UNCHANGED <<finalPrice, received, notes, remarked, costItems, reports, calls>>

CancelByCustomer ==
    status \in CUSTOMER_CANCELLABLE_STATUSES /\ Cancel("customer")

CancelByTechnician == Cancel("technician")

(* POST /repair-requests/{id}/cancel, which takes no lock: its check and its *)
(* UPDATE are separate steps, and it never looks at the order.               *)
RequestCancelCheck(k) ==
    /\ k \notin cancelling
    /\ request \notin {"completed", "cancelled"}
    /\ cancelling' = cancelling \cup {k}
    /\ UNCHANGED <<row, events, remarked, children, others, loaded, quoting>>

RequestCancelCommit(k) ==
    /\ k \in cancelling
    /\ request' = "cancelled"
    /\ cancelling' = cancelling \ {k}
    /\ UNCHANGED <<row, events, remarked, children, conversation, loaded, quoting>>

(* The end of QuotationService.create in a call that read the request open:  *)
(* it writes "quoted" over whatever the row holds by now.                    *)
QuotationCommit(k) ==
    /\ k \in quoting
    /\ request' = "quoted"
    /\ quoting' = quoting \ {k}
    /\ UNCHANGED <<row, events, remarked, children, conversation, loaded, cancelling>>

-----------------------------------------------------------------------------
TechnicianStep ==
    \/ \E new \in RepairStatus : TransitionStatus(new)
    \/ \E fields \in SUBSET NoteFields : UpdateDetails(fields)
    \/ AddCostItem
    \/ \E c \in ChangeIds, price \in Amounts :
            ProposeReduction(c, price) \/ ProposeIncrease(c, price)
    \/ \E price \in Amounts, texts \in SUBSET NoteFields : Complete(price, texts)
    \/ NotRepairable
    \/ CancelByTechnician

CustomerStep ==
    \/ \E c \in ChangeIds : ApproveChange(c) \/ RejectChange(c)
    \/ CancelByCustomer
    \/ \E k \in CancelCalls : RequestCancelCheck(k) \/ RequestCancelCommit(k)

(* A rival technician, whose quotation was on its way.                       *)
RivalStep == \E k \in QuotationCalls : QuotationCommit(k)

Next == Lock \/ Refused \/ TechnicianStep \/ CustomerStep \/ RivalStep

Spec == Init /\ [][Next]_vars

-----------------------------------------------------------------------------
(* Safety                                                                    *)

(* At most one price change of an order awaits a decision (get_pending uses  *)
(* scalar_one_or_none and would answer 500 otherwise), and while one does,   *)
(* the order is neither closed nor in a status of BLOCKED_BY_PENDING_PRICE:  *)
(* no path of proposals, transitions and decisions works on the device at a  *)
(* price still under discussion.                                             *)
PendingBlocksWork ==
    /\ \A c, d \in Pending : c = d
    /\ Pending # {} => status \notin BLOCKED_BY_PENDING_PRICE
                                        \cup TERMINAL_REPAIR_STATUSES

(* A pending change was computed from the price the order still has: no      *)
(* handler moves final_price under it, so the customer decides on a          *)
(* comparison that is still true, and never on a reduction.                  *)
PendingIsCurrent ==
    \A c \in Pending : changes[c].previous = finalPrice
                       /\ changes[c].new >= finalPrice

(* The prices the customer said yes to: the quotation, and the increases     *)
(* approved through the price-change flow.                                   *)
Consented ==
    {QuotedPrice} \cup
    {changes[c].new : c \in {d \in ChangeIds : /\ changes[d].status = "approved"
                                               /\ changes[d].decidedBy = "customer"}}

(* Whatever the sequence of reductions, increases and closing calls, the     *)
(* order never charges more than some price the customer agreed to.          *)
NeverAboveConsent == \E p \in Consented : finalPrice <= p

(* A technician alone can only register reductions: an approved change that  *)
(* raised the price was decided by the customer.                             *)
IncreasesAreDecided ==
    \A c \in ChangeIds :
        changes[c].status = "approved" /\ changes[c].new > changes[c].previous
            => changes[c].decidedBy = "customer"

(* What a customer pays was agreed to, and stays as agreed while the next    *)
(* change is discussed: the four properties above on every path of           *)
(* proposals, decisions, transitions and closes.                             *)
PriceIsAgreed ==
    /\ NeverAboveConsent /\ IncreasesAreDecided
    /\ PendingBlocksWork /\ PendingIsCurrent

(* What becomes of the request of a closed order.  Others write it too: a     *)
(* cancellation ends it just as well, but a quotation created across the      *)
(* acceptance sets it back to "quoted", whatever the order became, and then   *)
(* nothing but a cancellation of the request ends it.                         *)
RequestSettled ==
    \/ request \in {"completed", "cancelled"}
    \/ request = "quoted" /\ quoting # QuotationCalls

(* Closing is one transaction over five tables: result, status, report row,  *)
(* conversation and request agree in every state another call can see.       *)
ClosureIsCoherent ==
    /\ status = "completed" <=> result \in {"repaired", "not_repairable"}
    /\ status = "cancelled" <=> result = "cancelled"
    /\ reports = (IF status = "completed" THEN 1 ELSE 0)
    /\ conversation = "archived" <=> IsClosed
    /\ IsClosed => RequestSettled

(* A repaired order was received and has its diagnosis and work recorded,    *)
(* although details can be cleared and rewritten until the close.            *)
RepairedIsDocumented ==
    result = "repaired" => received /\ notes = NoteFields

(* The append-only history tells the truth: its latest status is the one the *)
(* order has, and it holds a reception exactly when received_at is set.      *)
HistoryMatches ==
    /\ lastStatus = status
    /\ status \in statusEvents
    /\ received <=> "received" \in statusEvents

(* A closure is whole: whatever handlers, cancelled or requoted requests and *)
(* price changes came before it, its five tables hold their types, agree     *)
(* with each other and with the history, and document what was done.         *)
ClosureIsWhole ==
    TypeOK /\ ClosureIsCoherent /\ RepairedIsDocumented /\ HistoryMatches

(* not_repairable: "El equipo debe estar recepcionado antes del diagnostico".*)
(* The table of transitions sees to it; only an increase proposed while the  *)
(* device is awaited takes an order past its reception, and for good.        *)
OnlyAnIncreaseSkipsReception ==
    status \notin {"awaiting_receipt", "cancelled"} /\ ~received =>
        \E c \in ChangeIds : /\ changes[c].status # "unused"
                             /\ changes[c].decidedBy # "technician"

(* Once closed, no handler, repeated or late, touches the order again.       *)
ClosedIsFinal ==
    [][IsClosed => UNCHANGED <<row, events, remarked, children, conversation>>]_vars

(* A decided price change keeps its decision and its numbers for ever, also  *)
(* when the order is cancelled.                                              *)
DecisionsAreFinal ==
    [][\A c \in ChangeIds : changes[c].status \in {"approved", "rejected"}
                                => changes'[c] = changes[c]]_vars

(* What is over stays over: neither a late handler of a closed order nor a   *)
(* second answer to a decided change rewrites anything.                      *)
PastStands == ClosedIsFinal /\ DecisionsAreFinal

-----------------------------------------------------------------------------
(* What the repository says of the program and the code does not do          *)

(* OrderPriceChange: "aumento requiere aprobacion del cliente": the price    *)
(* goes up only in the step in which the customer approves a change.  False  *)
(* (run increase_without_approval): a close may name any price that was ever *)
(* approved, the first of two reductions included.                           *)
IncreaseNeedsApproval ==
    [][finalPrice' > finalPrice =>
           \E c \in Pending : changes'[c].status = "approved"]_vars

-----------------------------------------------------------------------------
(* Refinement                                                                *)

Contract == INSTANCE OrderContract WITH
    outcome  <- IF result = "none" THEN "open" ELSE result,
    charge   <- finalPrice,
    agreed   <- Consented,
    reported <- reports > 0,
    talking  <- conversation = "open"

(* Every handler of the order is one step of the contract, or none: prices   *)
(* move within what was agreed, and the order closes once, completely.       *)
ImplementsContract == Contract!ContractSpec
=============================================================================
