-------------------------- MODULE RepairOrderProofs --------------------------
(****************************************************************************)
(* Theorems about RepairOrder, the figures computed from it, the migration   *)
(* applied to it and the two stores of its report (ReportStorage), for every *)
(* set of amounts, every rounding that satisfies StoredAssumption, and any   *)
(* number of price changes, cost items, concurrent request cancellations,    *)
(* closing calls and faults.                                                 *)
(****************************************************************************)
EXTENDS OrderMigration, OrderFigures, ReportStorage, TLAPS

-----------------------------------------------------------------------------
(* Type correctness                                                          *)

LEMMA InitTypeOK == Init => TypeOK
<1> SUFFICES ASSUME Init PROVE TypeOK
  OBVIOUS
<1>1. NoChange \in PriceChange
  BY QuotedPriceAssumption DEF NoChange, PriceChange
<1>2. changes \in [ChangeIds -> PriceChange]
  BY <1>1 DEF Init
<1>3. finalPrice \in Amounts /\ costItems \in 0..MaxCostItems
  BY QuotedPriceAssumption, MaxCostItemsAssumption DEF Init
<1> QED
  BY <1>2, <1>3
  DEF Init, TypeOK, RepairStatus, ConversationStatus, RequestStatus, NoteFields

(* Recording a new status keeps the three variables it writes well typed.    *)
LEMMA SetStatusType ==
  ASSUME NEW new \in RepairStatus, SetStatus(new), TypeOK
  PROVE  /\ status' \in RepairStatus
         /\ lastStatus' \in RepairStatus
         /\ statusEvents' \subseteq RepairStatus
  BY DEF SetStatus, TypeOK

LEMMA SetRequestType ==
  ASSUME NEW new \in RequestStatus, SetRequest(new), TypeOK
  PROVE  request' \in RequestStatus
  BY DEF SetRequest, TypeOK

(* The rows a closing handler writes with the order's.                       *)
LEMMA CloseWithReportType ==
  ASSUME NEW outcome \in RepairResult, CloseWithReport(outcome), TypeOK
  PROVE  /\ status' \in RepairStatus
         /\ lastStatus' \in RepairStatus
         /\ statusEvents' \subseteq RepairStatus
         /\ result' \in RepairResult \cup {"none"}
         /\ request' \in RequestStatus
         /\ reports' \in Nat /\ remarked' \in BOOLEAN
         /\ conversation' \in ConversationStatus
<1>1. "completed" \in RepairStatus /\ "completed" \in RequestStatus
  BY DEF RepairStatus, RequestStatus
<1>2. SetStatus("completed") /\ SetRequest("completed")
  BY DEF CloseWithReport
<1>3. request' \in RequestStatus
  BY <1>1, <1>2, SetRequestType
<1>4. /\ status' \in RepairStatus
      /\ lastStatus' \in RepairStatus
      /\ statusEvents' \subseteq RepairStatus
  BY <1>1, <1>2, SetStatusType
<1> QED
  BY <1>3, <1>4
  DEF CloseWithReport, ArchiveConversation, ConversationStatus, Remark, TypeOK

LEMMA StepTypeOK == TypeOK /\ [Next]_vars => TypeOK'
<1> SUFFICES ASSUME TypeOK, [Next]_vars PROVE TypeOK'
  OBVIOUS
<1> USE DEF TypeOK, Commit, CommitOpen, Remark, calls
<1>1. CASE Lock
  BY <1>1 DEF Lock, row, events, children, others
<1>2. CASE Refused
  BY <1>2 DEF Refused, row, events, children, others
<1>3. ASSUME NEW new \in RepairStatus, TransitionStatus(new) PROVE TypeOK'
  <2>1. SetStatus(new) /\ received' \in BOOLEAN
    BY <1>3 DEF TransitionStatus
  <2>2. request' \in RequestStatus
    BY <1>3 DEF TransitionStatus, SetRequest, RequestStatus
  <2> QED
    BY <1>3, <2>1, <2>2, SetStatusType DEF TransitionStatus, children
<1>4. ASSUME NEW fields \in SUBSET NoteFields, UpdateDetails(fields) PROVE TypeOK'
  BY <1>4 DEF UpdateDetails, events, children, others
<1>5. CASE AddCostItem
  BY <1>5, MaxCostItemsAssumption DEF AddCostItem, row, events, others
<1>6. ASSUME NEW c \in ChangeIds, NEW price \in Amounts, ProposeReduction(c, price)
      PROVE  TypeOK'
  <2>1. Stored[price] \in Amounts
    BY StoredAssumption
  <2>2. changes' \in [ChangeIds -> PriceChange]
    BY <1>6, <2>1 DEF ProposeReduction, PriceChange
  <2> QED
    BY <1>6, <2>1, <2>2 DEF ProposeReduction, ProposeGuard, events, others
<1>7. ASSUME NEW c \in ChangeIds, NEW price \in Amounts, ProposeIncrease(c, price)
      PROVE  TypeOK'
  <2>1. Stored[price] \in Amounts
    BY StoredAssumption
  <2>2. changes' \in [ChangeIds -> PriceChange]
    BY <1>7, <2>1 DEF ProposeIncrease, PriceChange
  <2>3. /\ status' \in RepairStatus
        /\ lastStatus' \in RepairStatus
        /\ statusEvents' \subseteq RepairStatus
    BY <1>7, SetStatusType DEF ProposeIncrease, events, RepairStatus
  <2> QED
    BY <1>7, <2>1, <2>2, <2>3 DEF ProposeIncrease, ProposeGuard, others
<1>8. ASSUME NEW c \in ChangeIds, ApproveChange(c) PROVE TypeOK'
  <2>1. changes' \in [ChangeIds -> PriceChange]
    BY <1>8 DEF ApproveChange, Decided, PriceChange
  <2>2. finalPrice' \in Amounts
    BY <1>8 DEF ApproveChange, PriceChange
  <2> QED
    BY <1>8, <2>1, <2>2 DEF ApproveChange, events, others
<1>9. ASSUME NEW c \in ChangeIds, RejectChange(c) PROVE TypeOK'
  <2>1. changes' \in [ChangeIds -> PriceChange]
    BY <1>9 DEF RejectChange, Decided, PriceChange
  <2>2. /\ status' \in RepairStatus
        /\ lastStatus' \in RepairStatus
        /\ statusEvents' \subseteq RepairStatus
    BY <1>9, SetStatusType DEF RejectChange, events, RepairStatus
  <2> QED
    BY <1>9, <2>1, <2>2 DEF RejectChange, others
<1>10. ASSUME NEW price \in Amounts, NEW texts \in SUBSET NoteFields,
              Complete(price, texts)
       PROVE  TypeOK'
  <2>1. "repaired" \in RepairResult
    BY DEF RepairResult
  <2>2. finalPrice' \in Amounts
    BY <1>10 DEF Complete
  <2> QED
    BY <1>10, <2>1, <2>2, CloseWithReportType DEF Complete
<1>11. CASE NotRepairable
  <2>1. "not_repairable" \in RepairResult
    BY DEF RepairResult
  <2>2. notes' \subseteq NoteFields
    BY <1>11 DEF NotRepairable, NoteFields
  <2> QED
    BY <1>11, <2>1, <2>2, CloseWithReportType DEF NotRepairable
<1>12. ASSUME NEW who \in {"customer", "technician"}, Cancel(who) PROVE TypeOK'
  <2>1. changes' \in [ChangeIds -> PriceChange]
    BY <1>12 DEF Cancel, RejectPending, PriceChange
  <2> QED
    BY <1>12, <2>1, SetStatusType, SetRequestType
    DEF Cancel, ArchiveConversation, RepairStatus, RequestStatus, RepairResult,
        ConversationStatus
<1>13. ASSUME NEW k \in CancelCalls, RequestCancelCheck(k) PROVE TypeOK'
  BY <1>13 DEF RequestCancelCheck, row, events, children, others
<1>14. ASSUME NEW k \in CancelCalls, RequestCancelCommit(k) PROVE TypeOK'
  BY <1>14 DEF RequestCancelCommit, row, events, children, RequestStatus
<1>15. ASSUME NEW k \in QuotationCalls, QuotationCommit(k) PROVE TypeOK'
  BY <1>15 DEF QuotationCommit, row, events, children, RequestStatus
<1>16. CASE UNCHANGED vars
  BY <1>16 DEF vars, row, events, children, others
<1> QED
  BY <1>1, <1>2, <1>3, <1>4, <1>5, <1>6, <1>7, <1>8, <1>9, <1>10, <1>11, <1>12,
     <1>13, <1>14, <1>15, <1>16
  DEF Next, TechnicianStep, CustomerStep, RivalStep, CancelByCustomer,
      CancelByTechnician

(* Every row a handler writes has the values its columns admit.              *)
THEOREM TypeCorrect == Spec => []TypeOK
  BY InitTypeOK, StepTypeOK, PTL DEF Spec

-----------------------------------------------------------------------------
(* The price negotiation                                                     *)

(* What the columns hold was rounded before: rounding it again is harmless.  *)
PricesAreStored ==
    /\ Stored[finalPrice] = finalPrice
    /\ \A c \in ChangeIds : Stored[changes[c].new] = changes[c].new

(* A close may come back to any approved price, so all of them, and not only *)
(* the current one, must be within what the customer agreed to.              *)
ApprovedWithinConsent ==
    \A c \in ChangeIds : changes[c].status = "approved"
                             => \E p \in Consented : changes[c].new <= p

PriceInv ==
    /\ PendingBlocksWork
    /\ PendingIsCurrent
    /\ IncreasesAreDecided
    /\ NeverAboveConsent
    /\ PricesAreStored
    /\ ApprovedWithinConsent

LEMMA InitPriceInv == Init => PriceInv
<1> SUFFICES ASSUME Init PROVE PriceInv
  OBVIOUS
<1>1. \A c \in ChangeIds : changes[c] = NoChange
  BY DEF Init
<1>2. Pending = {}
  BY <1>1 DEF Pending, NoChange
<1>3. QuotedPrice \in Consented /\ finalPrice <= QuotedPrice
  BY QuotedPriceAssumption, AmountsAssumption DEF Consented, Init
<1>4. PricesAreStored
  BY <1>1, QuotedPriceAssumption DEF PricesAreStored, NoChange, Init
<1> QED
  BY <1>1, <1>2, <1>3, <1>4
  DEF PriceInv, PendingBlocksWork, PendingIsCurrent, IncreasesAreDecided,
      NeverAboveConsent, ApprovedWithinConsent, NoChange

(* A step that keeps the changes, the price and the status keeps it all.     *)
LEMMA PriceInvFrame ==
  ASSUME PriceInv, UNCHANGED <<changes, finalPrice, status>>
  PROVE  PriceInv'
  BY DEF PriceInv, PendingBlocksWork, PendingIsCurrent, IncreasesAreDecided,
         NeverAboveConsent, PricesAreStored, ApprovedWithinConsent, Consented,
         Pending

(* What the customer agreed to is never forgotten: the set only grows while  *)
(* the changes the customer approved stay as they are.                       *)
LEMMA ConsentGrows ==
  ASSUME \A c \in ChangeIds :
            changes[c].status = "approved" => changes'[c] = changes[c]
  PROVE  Consented \subseteq Consented'
  BY DEF Consented

(* Deciding the only pending change leaves none.                             *)
LEMMA DecidingClears ==
  ASSUME NEW c, \A d \in Pending : d = c,
         \A d \in ChangeIds \ {c} : changes'[d] = changes[d],
         changes'[c].status # "pending"
  PROVE  Pending' = {}
<1>1. \A d \in ChangeIds : changes'[d].status # "pending"
  <2> TAKE d \in ChangeIds
  <2>1. CASE d = c
    BY <2>1
  <2>2. CASE d # c
    BY <2>2 DEF Pending
  <2> QED
    BY <2>1, <2>2
<1> QED
  BY <1>1 DEF Pending

(* Rounding respects the comparison that decided the change.                 *)
LEMMA StoredOrder ==
  ASSUME NEW a \in Amounts, NEW b \in Amounts, Stored[b] = b
  PROVE  /\ a < b => Stored[a] <= b
         /\ a > b => Stored[a] >= b
         /\ Stored[a] \in Amounts /\ Stored[Stored[a]] = Stored[a]
  BY AmountsAssumption, StoredAssumption

(* Once a change is pending no status reachable by the step allows work.     *)
LEMMA StepPriceInv == TypeOK /\ PriceInv /\ [Next]_vars => PriceInv'
<1> SUFFICES ASSUME TypeOK, PriceInv, [Next]_vars PROVE PriceInv'
  OBVIOUS
<1> USE DEF Commit, CommitOpen
<1>1. CASE Lock
  BY <1>1, PriceInvFrame DEF Lock, row, children
<1>2. CASE Refused
  BY <1>2, PriceInvFrame DEF Refused, row, children
<1>3. ASSUME NEW new \in RepairStatus, TransitionStatus(new) PROVE PriceInv'
  <2>1. UNCHANGED <<changes, finalPrice>> /\ status' = new
    BY <1>3 DEF TransitionStatus, children, SetStatus
  <2>2. new \notin TERMINAL_REPAIR_STATUSES
    BY <1>3 DEF TransitionStatus, ALLOWED_STATUS_TRANSITIONS, TypeOK,
                TERMINAL_REPAIR_STATUSES, RepairStatus
  <2>3. PendingBlocksWork'
    BY <1>3, <2>1, <2>2 DEF TransitionStatus, PriceAllows, PriceInv,
                            PendingBlocksWork, Pending
  <2> QED
    BY <2>1, <2>3
    DEF PriceInv, PendingIsCurrent, IncreasesAreDecided, NeverAboveConsent,
        PricesAreStored, ApprovedWithinConsent, Consented, Pending
<1>4. ASSUME NEW fields \in SUBSET NoteFields, UpdateDetails(fields) PROVE PriceInv'
  BY <1>4, PriceInvFrame DEF UpdateDetails, children
<1>5. CASE AddCostItem
  BY <1>5, PriceInvFrame DEF AddCostItem, row
<1>6. ASSUME NEW c \in ChangeIds, NEW price \in Amounts, ProposeReduction(c, price)
      PROVE  PriceInv'
  <2> DEFINE new == Stored[price]
  <2>1. /\ finalPrice' = new /\ status' = status /\ finalPrice \in Amounts
        /\ changes'[c] = [status |-> "approved", previous |-> finalPrice,
                          new |-> new, decidedBy |-> "technician"]
        /\ \A d \in ChangeIds \ {c} : changes'[d] = changes[d]
        /\ changes[c].status = "unused" /\ Pending = {}
    BY <1>6 DEF ProposeReduction, ProposeGuard, TypeOK
  <2>2. Stored[finalPrice] = finalPrice
    BY DEF PriceInv, PricesAreStored
  <2>3. new \in Amounts /\ Stored[new] = new /\ new <= finalPrice
    BY <1>6, <2>1, <2>2, StoredOrder DEF ProposeReduction, AutoApproved
  <2>4. Pending' = {}
    BY <2>1 DEF Pending
  <2>5. Consented \subseteq Consented'
    BY <2>1, ConsentGrows
  <2>6. PICK p \in Consented : finalPrice <= p
    BY DEF PriceInv, NeverAboveConsent
  <2>7. Consented \subseteq Nat
    BY QuotedPriceAssumption, AmountsAssumption DEF Consented, TypeOK, PriceChange
  <2>8. p \in Consented' /\ new <= p
    <3>1. new \in Nat /\ finalPrice \in Nat /\ p \in Nat
      BY <2>1, <2>3, <2>6, <2>7, AmountsAssumption
    <3> HIDE DEF new
    <3> QED
      BY <2>3, <2>5, <2>6, <3>1
  <2>9. PendingBlocksWork' /\ PendingIsCurrent'
    BY <2>4 DEF PendingBlocksWork, PendingIsCurrent
  <2>10. IncreasesAreDecided'
    <3>1. ~(new > finalPrice)
      <4>1. new \in Nat /\ finalPrice \in Nat
        BY <2>1, <2>3, AmountsAssumption
      <4> HIDE DEF new
      <4> QED
        BY <2>3, <4>1
    <3> QED
      BY <2>1, <3>1 DEF IncreasesAreDecided, PriceInv
  <2>11. ApprovedWithinConsent'
    BY <2>1, <2>5, <2>8 DEF ApprovedWithinConsent, PriceInv
  <2>12. PricesAreStored'
    BY <2>1, <2>3 DEF PricesAreStored, PriceInv
  <2> QED
    BY <2>1, <2>8, <2>9, <2>10, <2>11, <2>12 DEF PriceInv, NeverAboveConsent
<1>7. ASSUME NEW c \in ChangeIds, NEW price \in Amounts, ProposeIncrease(c, price)
      PROVE  PriceInv'
  <2> DEFINE new == Stored[price]
  <2>1. /\ finalPrice' = finalPrice /\ status' = "waiting_customer"
        /\ finalPrice \in Amounts
        /\ changes'[c] = [status |-> "pending", previous |-> finalPrice,
                          new |-> new, decidedBy |-> "none"]
        /\ \A d \in ChangeIds \ {c} : changes'[d] = changes[d]
        /\ changes[c].status = "unused" /\ Pending = {}
    BY <1>7 DEF ProposeIncrease, ProposeGuard, TypeOK, SetStatus
  <2>2. price > finalPrice
    BY <1>7, <2>1, AmountsAssumption
    DEF ProposeIncrease, ProposeGuard, AutoApproved
  <2>3. Stored[finalPrice] = finalPrice
    BY DEF PriceInv, PricesAreStored
  <2>4. new \in Amounts /\ Stored[new] = new /\ new >= finalPrice
    BY <2>1, <2>2, <2>3, StoredOrder
  <2>5. Pending' = {c}
    BY <2>1 DEF Pending
  <2>6. Consented \subseteq Consented'
    BY <2>1, ConsentGrows
  <2>7. PendingBlocksWork'
    BY <2>1, <2>5
    DEF PendingBlocksWork, BLOCKED_BY_PENDING_PRICE, TERMINAL_REPAIR_STATUSES
  <2>8. PendingIsCurrent'
    BY <2>1, <2>4, <2>5 DEF PendingIsCurrent
  <2>9. IncreasesAreDecided'
    BY <2>1 DEF IncreasesAreDecided, PriceInv
  <2>10. NeverAboveConsent' /\ ApprovedWithinConsent'
    BY <2>1, <2>6 DEF NeverAboveConsent, ApprovedWithinConsent, PriceInv
  <2>11. PricesAreStored'
    BY <2>1, <2>4 DEF PricesAreStored, PriceInv
  <2> QED
    BY <2>7, <2>8, <2>9, <2>10, <2>11 DEF PriceInv
<1>8. ASSUME NEW c \in ChangeIds, ApproveChange(c) PROVE PriceInv'
  <2>1. /\ finalPrice' = changes[c].new /\ status' = status
        /\ changes'[c] = [changes[c] EXCEPT !.status = "approved",
                                            !.decidedBy = "customer"]
        /\ \A d \in ChangeIds \ {c} : changes'[d] = changes[d]
        /\ c \in Pending /\ changes[c] \in PriceChange
    BY <1>8 DEF ApproveChange, Decided, Undecided, TypeOK
  <2>2. /\ changes'[c].status = "approved" /\ changes'[c].decidedBy = "customer"
        /\ changes'[c].new = changes[c].new /\ changes[c].new \in Nat
    BY <2>1, AmountsAssumption DEF PriceChange
  <2>3. Pending' = {}
    <3>1. \A d \in Pending : d = c
      BY <2>1 DEF PriceInv, PendingBlocksWork
    <3>2. \A d \in ChangeIds \ {c} : changes'[d] = changes[d]
      BY <2>1
    <3>3. changes'[c].status # "pending"
      BY <2>2
    <3> QED
      BY <3>1, <3>2, <3>3, DecidingClears
  <2>4. finalPrice' \in Consented' /\ finalPrice' <= finalPrice'
    <3>1. changes'[c].new \in Consented'
      BY <2>2 DEF Consented
    <3> QED
      BY <2>1, <2>2, <3>1
  <2>5. Consented \subseteq Consented'
    BY <2>1, ConsentGrows DEF Pending
  <2>6. PendingBlocksWork' /\ PendingIsCurrent'
    BY <2>3 DEF PendingBlocksWork, PendingIsCurrent
  <2>7. IncreasesAreDecided'
    BY <2>1, <2>2 DEF IncreasesAreDecided, PriceInv
  <2>8. ApprovedWithinConsent'
    BY <2>1, <2>2, <2>4, <2>5 DEF ApprovedWithinConsent, PriceInv
  <2>9. PricesAreStored'
    <3>1. \A d \in ChangeIds : changes'[d].new = changes[d].new
      BY <2>1, <2>2
    <3> QED
      BY <2>1, <3>1 DEF PricesAreStored, PriceInv
  <2> QED
    BY <2>4, <2>6, <2>7, <2>8, <2>9 DEF PriceInv, NeverAboveConsent
<1>9. ASSUME NEW c \in ChangeIds, RejectChange(c) PROVE PriceInv'
  <2>1. /\ finalPrice' = finalPrice
        /\ changes'[c] = [changes[c] EXCEPT !.status = "rejected",
                                            !.decidedBy = "customer"]
        /\ \A d \in ChangeIds \ {c} : changes'[d] = changes[d]
        /\ c \in Pending /\ changes[c] \in PriceChange
    BY <1>9 DEF RejectChange, Decided, Undecided, TypeOK
  <2>2. changes'[c].status = "rejected" /\ changes'[c].new = changes[c].new
    BY <2>1 DEF PriceChange
  <2>3. Pending' = {}
    <3>1. \A d \in Pending : d = c
      BY <2>1 DEF PriceInv, PendingBlocksWork
    <3>2. \A d \in ChangeIds \ {c} : changes'[d] = changes[d]
      BY <2>1
    <3>3. changes'[c].status # "pending"
      BY <2>2
    <3> QED
      BY <3>1, <3>2, <3>3, DecidingClears
  <2>4. Consented \subseteq Consented'
    BY <2>1, ConsentGrows DEF Pending
  <2>5. NeverAboveConsent' /\ ApprovedWithinConsent'
    BY <2>1, <2>2, <2>4 DEF NeverAboveConsent, ApprovedWithinConsent, PriceInv
  <2>6. PendingBlocksWork' /\ PendingIsCurrent'
    BY <2>3 DEF PendingBlocksWork, PendingIsCurrent
  <2>7. IncreasesAreDecided'
    BY <2>1, <2>2 DEF IncreasesAreDecided, PriceInv
  <2>8. PricesAreStored'
    <3>1. \A d \in ChangeIds : changes'[d].new = changes[d].new
      BY <2>1, <2>2
    <3> QED
      BY <2>1, <3>1 DEF PricesAreStored, PriceInv
  <2> QED
    BY <2>5, <2>6, <2>7, <2>8 DEF PriceInv
<1>10. ASSUME NEW price \in Amounts, NEW texts \in SUBSET NoteFields,
              Complete(price, texts)
       PROVE  PriceInv'
  <2>1. changes' = changes /\ finalPrice' = price /\ Pending = {}
    BY <1>10 DEF Complete, CanClose
  <2>2. price = finalPrice \/ HasApprovedPrice(price)
    BY <1>10 DEF Complete, ApprovedPrices
  <2>3. Consented' = Consented /\ Pending' = {}
    BY <2>1 DEF Consented, Pending
  <2>4. NeverAboveConsent'
    BY <2>1, <2>2, <2>3
    DEF NeverAboveConsent, ApprovedWithinConsent, HasApprovedPrice, PriceInv
  <2>5. PricesAreStored'
    BY <2>1, <2>2 DEF PricesAreStored, HasApprovedPrice, PriceInv
  <2> QED
    BY <2>1, <2>3, <2>4, <2>5
    DEF PriceInv, PendingBlocksWork, PendingIsCurrent, IncreasesAreDecided,
        ApprovedWithinConsent
<1>11. CASE NotRepairable
  <2>1. UNCHANGED <<changes, finalPrice>> /\ Pending = {}
    BY <1>11 DEF NotRepairable, CanClose
  <2> QED
    BY <2>1
    DEF PriceInv, PendingBlocksWork, PendingIsCurrent, IncreasesAreDecided,
        NeverAboveConsent, PricesAreStored, ApprovedWithinConsent, Consented,
        Pending
<1>12. ASSUME NEW who \in {"customer", "technician"}, Cancel(who) PROVE PriceInv'
  <2>1. /\ finalPrice' = finalPrice
        /\ \A c \in Pending : /\ changes'[c].status = "rejected"
                              /\ changes'[c].new = changes[c].new
        /\ \A c \in ChangeIds \ Pending : changes'[c] = changes[c]
    BY <1>12 DEF Cancel, RejectPending, TypeOK, PriceChange, Pending
  <2>2. Pending' = {}
    BY <2>1 DEF Pending
  <2>3. Consented \subseteq Consented'
    BY <2>1, ConsentGrows DEF Pending
  <2>4. NeverAboveConsent' /\ ApprovedWithinConsent'
    BY <2>1, <2>3 DEF NeverAboveConsent, ApprovedWithinConsent, PriceInv
  <2> QED
    BY <2>1, <2>2, <2>4
    DEF PriceInv, PendingBlocksWork, PendingIsCurrent, IncreasesAreDecided,
        PricesAreStored
<1>13. ASSUME NEW k \in CancelCalls, RequestCancelCheck(k) PROVE PriceInv'
  BY <1>13, PriceInvFrame DEF RequestCancelCheck, row, children
<1>14. ASSUME NEW k \in CancelCalls, RequestCancelCommit(k) PROVE PriceInv'
  BY <1>14, PriceInvFrame DEF RequestCancelCommit, row, children
<1>15. ASSUME NEW k \in QuotationCalls, QuotationCommit(k) PROVE PriceInv'
  BY <1>15, PriceInvFrame DEF QuotationCommit, row, children
<1>16. CASE UNCHANGED vars
  BY <1>16, PriceInvFrame DEF vars, row, children
<1> QED
  BY <1>1, <1>2, <1>3, <1>4, <1>5, <1>6, <1>7, <1>8, <1>9, <1>10, <1>11, <1>12,
     <1>13, <1>14, <1>15, <1>16
  DEF Next, TechnicianStep, CustomerStep, RivalStep, CancelByCustomer,
      CancelByTechnician

LEMMA PriceInvariant == Spec => [](TypeOK /\ PriceInv)
  BY InitTypeOK, StepTypeOK, InitPriceInv, StepPriceInv, PTL DEF Spec

(* No interleaving of proposals, decisions, transitions and closes charges   *)
(* more than the customer agreed to.                                         *)
THEOREM ConsentBoundsThePrice == Spec => []NeverAboveConsent
  BY PriceInvariant, PTL DEF PriceInv

(* While a change waits for the customer, nobody works on the device and the *)
(* price it was computed from does not move.                                 *)
THEOREM PendingChangeIsSafe ==
  Spec => [](PendingBlocksWork /\ PendingIsCurrent /\ IncreasesAreDecided)
  BY PriceInvariant, PTL DEF PriceInv

-----------------------------------------------------------------------------
(* The closure                                                               *)

(* A request the lock holder read as ended has not been reopened since, but  *)
(* by a quotation that was on its way.                                       *)
LoadedRequestEnded ==
    loaded \in {"completed", "cancelled"} => RequestSettled

ClosureInv ==
    /\ ClosureIsCoherent
    /\ LoadedRequestEnded
    /\ RepairedIsDocumented
    /\ HistoryMatches

LEMMA InitClosureInv == Init => ClosureInv
  BY DEF Init, ClosureInv, ClosureIsCoherent, LoadedRequestEnded, IsClosed,
         RepairedIsDocumented, HistoryMatches, TERMINAL_REPAIR_STATUSES

(* What closing with a report leaves behind.                                 *)
LEMMA CloseWithReportEffect ==
  ASSUME NEW outcome \in {"repaired", "not_repairable"}, TypeOK, ClosureInv,
         ~IsClosed, CloseWithReport(outcome), loaded' = "unlocked",
         UNCHANGED quoting
  PROVE  ClosureIsCoherent' /\ LoadedRequestEnded'
         /\ lastStatus' = status' /\ status' \in statusEvents'
         /\ statusEvents' = statusEvents \cup {"completed"}
<1>1. /\ status' = "completed" /\ lastStatus' = "completed"
      /\ statusEvents' = statusEvents \cup {"completed"}
      /\ result' = outcome /\ reports' = 1 /\ conversation' = "archived"
  BY DEF CloseWithReport, SetStatus, ArchiveConversation, ClosureInv,
         ClosureIsCoherent, IsClosed, TERMINAL_REPAIR_STATUSES
<1>2. RequestSettled'
  BY DEF CloseWithReport, SetRequest, ClosureInv, LoadedRequestEnded,
         RequestSettled
<1> QED
  BY <1>1, <1>2 DEF ClosureIsCoherent, IsClosed, LoadedRequestEnded,
                    TERMINAL_REPAIR_STATUSES

(* Moving an open order to another open status keeps the closure coherent.   *)
LEMMA OpenStepEffect ==
  ASSUME TypeOK, ClosureInv, ~IsClosed, ~IsClosed',
         UNCHANGED <<result, reports, conversation>>, loaded' = "unlocked"
  PROVE  ClosureIsCoherent' /\ LoadedRequestEnded' /\ RepairedIsDocumented'
  BY DEF ClosureInv, ClosureIsCoherent, IsClosed, LoadedRequestEnded,
         RepairedIsDocumented, TERMINAL_REPAIR_STATUSES, TypeOK, RepairResult

(* A step that writes none of the variables of the closure.                  *)
LEMMA ClosureFrame ==
  ASSUME ClosureInv, UNCHANGED <<row, events, reports, conversation>>,
         \/ UNCHANGED request /\ loaded' \in {request, loaded, "unlocked"}
         \/ request' = "cancelled" /\ UNCHANGED loaded,
         UNCHANGED quoting
  PROVE  ClosureInv'
  BY DEF ClosureInv, ClosureIsCoherent, IsClosed, LoadedRequestEnded,
         RequestSettled, RepairedIsDocumented, HistoryMatches, row, events

LEMMA StepClosureInv == TypeOK /\ ClosureInv /\ [Next]_vars => ClosureInv'
<1> SUFFICES ASSUME TypeOK, ClosureInv, [Next]_vars PROVE ClosureInv'
  OBVIOUS
<1> USE DEF Commit, CommitOpen, calls
<1>1. CASE Lock
  BY <1>1, ClosureFrame DEF Lock, children, others
<1>2. CASE Refused
  BY <1>2, ClosureFrame DEF Refused, children, others
<1>3. ASSUME NEW new \in RepairStatus, TransitionStatus(new) PROVE ClosureInv'
  <2>1. ~IsClosed'
    BY <1>3 DEF TransitionStatus, SetStatus, IsClosed, RepairStatus, TypeOK,
                ALLOWED_STATUS_TRANSITIONS, TERMINAL_REPAIR_STATUSES
  <2>2. HistoryMatches'
    BY <1>3 DEF TransitionStatus, SetStatus, ClosureInv, HistoryMatches, TypeOK
  <2> QED
    BY <1>3, <2>1, <2>2, OpenStepEffect DEF TransitionStatus, children, ClosureInv
<1>4. ASSUME NEW fields \in SUBSET NoteFields, UpdateDetails(fields)
      PROVE  ClosureInv'
  <2>1. ~IsClosed' /\ HistoryMatches'
    BY <1>4 DEF UpdateDetails, IsClosed, events, ClosureInv, HistoryMatches
  <2> QED
    BY <1>4, <2>1, OpenStepEffect DEF UpdateDetails, children, others, ClosureInv
<1>5. CASE AddCostItem
  BY <1>5, ClosureFrame DEF AddCostItem, others
<1>6. ASSUME NEW c \in ChangeIds, NEW price \in Amounts, ProposeReduction(c, price)
      PROVE  ClosureInv'
  <2>1. ~IsClosed' /\ HistoryMatches'
    BY <1>6 DEF ProposeReduction, ProposeGuard, IsClosed, events, ClosureInv,
                HistoryMatches
  <2> QED
    BY <1>6, <2>1, OpenStepEffect
    DEF ProposeReduction, ProposeGuard, others, ClosureInv
<1>7. ASSUME NEW c \in ChangeIds, NEW price \in Amounts, ProposeIncrease(c, price)
      PROVE  ClosureInv'
  <2>1. ~IsClosed'
    BY <1>7 DEF ProposeIncrease, ProposeGuard, SetStatus, IsClosed,
                TERMINAL_REPAIR_STATUSES
  <2>2. HistoryMatches'
    BY <1>7 DEF ProposeIncrease, SetStatus, events, ClosureInv, HistoryMatches,
                TypeOK
  <2> QED
    BY <1>7, <2>1, <2>2, OpenStepEffect
    DEF ProposeIncrease, ProposeGuard, others, ClosureInv
<1>8. ASSUME NEW c \in ChangeIds, ApproveChange(c) PROVE ClosureInv'
  <2>1. ~IsClosed' /\ HistoryMatches'
    BY <1>8 DEF ApproveChange, IsClosed, events, ClosureInv, HistoryMatches
  <2> QED
    BY <1>8, <2>1, OpenStepEffect DEF ApproveChange, others, ClosureInv
<1>9. ASSUME NEW c \in ChangeIds, RejectChange(c) PROVE ClosureInv'
  <2>1. ~IsClosed'
    BY <1>9 DEF RejectChange, SetStatus, IsClosed, TERMINAL_REPAIR_STATUSES
  <2>2. HistoryMatches'
    BY <1>9 DEF RejectChange, SetStatus, events, ClosureInv, HistoryMatches, TypeOK
  <2> QED
    BY <1>9, <2>1, <2>2, OpenStepEffect DEF RejectChange, others, ClosureInv
<1>10. ASSUME NEW price \in Amounts, NEW texts \in SUBSET NoteFields,
              Complete(price, texts)
       PROVE  ClosureInv'
  <2>1. /\ ~IsClosed /\ loaded' = "unlocked" /\ received /\ received' = received
        /\ UNCHANGED quoting /\ notes' = NoteFields /\ CloseWithReport("repaired")
    BY <1>10 DEF Complete, CanClose, TextsRecorded
  <2>2. ClosureIsCoherent' /\ LoadedRequestEnded'
        /\ lastStatus' = status' /\ status' \in statusEvents'
        /\ statusEvents' = statusEvents \cup {"completed"}
    BY <2>1, CloseWithReportEffect
  <2> QED
    BY <2>1, <2>2 DEF ClosureInv, RepairedIsDocumented, HistoryMatches
<1>11. CASE NotRepairable
  <2>1. /\ ~IsClosed /\ loaded' = "unlocked" /\ received' = received
        /\ UNCHANGED quoting /\ CloseWithReport("not_repairable")
    BY <1>11 DEF NotRepairable
  <2>2. ClosureIsCoherent' /\ LoadedRequestEnded'
        /\ lastStatus' = status' /\ status' \in statusEvents'
        /\ statusEvents' = statusEvents \cup {"completed"}
    BY <2>1, CloseWithReportEffect
  <2>3. result' = "not_repairable"
    BY <2>1 DEF CloseWithReport
  <2> QED
    BY <2>1, <2>2, <2>3 DEF ClosureInv, RepairedIsDocumented, HistoryMatches
<1>12. ASSUME NEW who \in {"customer", "technician"}, Cancel(who)
       PROVE  ClosureInv'
  <2>1. /\ status' = "cancelled" /\ result' = "cancelled"
        /\ lastStatus' = "cancelled" /\ received' = received
        /\ statusEvents' = statusEvents \cup {"cancelled"}
        /\ conversation' = "archived" /\ loaded' = "unlocked"
        /\ reports' = reports /\ reports = 0
    BY <1>12 DEF Cancel, SetStatus, ArchiveConversation, ClosureInv,
                 ClosureIsCoherent, IsClosed, TERMINAL_REPAIR_STATUSES
  <2>2. RequestSettled'
    BY <1>12 DEF Cancel, SetRequest, ClosureInv, LoadedRequestEnded,
                 RequestSettled
  <2>3. HistoryMatches' /\ RepairedIsDocumented'
    BY <2>1 DEF ClosureInv, HistoryMatches, RepairedIsDocumented
  <2>4. ClosureIsCoherent' /\ LoadedRequestEnded'
    BY <2>1, <2>2 DEF ClosureIsCoherent, LoadedRequestEnded, IsClosed,
                      TERMINAL_REPAIR_STATUSES
  <2> QED
    BY <2>3, <2>4 DEF ClosureInv
<1>13. ASSUME NEW k \in CancelCalls, RequestCancelCheck(k) PROVE ClosureInv'
  BY <1>13, ClosureFrame DEF RequestCancelCheck, children, others
<1>14. ASSUME NEW k \in CancelCalls, RequestCancelCommit(k) PROVE ClosureInv'
  BY <1>14, ClosureFrame DEF RequestCancelCommit, children
<1>15. ASSUME NEW k \in QuotationCalls, QuotationCommit(k) PROVE ClosureInv'
  <2>1. /\ UNCHANGED <<row, events, reports, conversation, loaded>>
        /\ request' = "quoted" /\ quoting' # QuotationCalls
    BY <1>15 DEF QuotationCommit, children
  <2> QED
    BY <2>1 DEF ClosureInv, ClosureIsCoherent, IsClosed, LoadedRequestEnded,
                RequestSettled, RepairedIsDocumented, HistoryMatches, row, events
<1>16. CASE UNCHANGED vars
  BY <1>16, ClosureFrame DEF vars, children, others
<1> QED
  BY <1>1, <1>2, <1>3, <1>4, <1>5, <1>6, <1>7, <1>8, <1>9, <1>10, <1>11, <1>12,
     <1>13, <1>14, <1>15, <1>16
  DEF Next, TechnicianStep, CustomerStep, RivalStep, CancelByCustomer,
      CancelByTechnician

(* The five tables a closure writes agree in every reachable state, and the  *)
(* history tells the status the order has.                                   *)
THEOREM ClosureIsAtomic ==
  Spec => [](ClosureIsCoherent /\ RepairedIsDocumented /\ HistoryMatches)
<1>1. TypeOK /\ ClosureInv /\ [Next]_vars => (TypeOK /\ ClosureInv)'
  BY StepTypeOK, StepClosureInv
<1>2. ClosureInv => ClosureIsCoherent /\ RepairedIsDocumented /\ HistoryMatches
  BY DEF ClosureInv
<1> QED
  BY <1>1, <1>2, InitTypeOK, InitClosureInv, PTL DEF Spec

-----------------------------------------------------------------------------
(* What a step may never do                                                  *)

(* Every handler of the order refuses a closed one, so that nothing touches  *)
(* it again, however late the call.                                          *)
THEOREM ClosedStaysClosed == Spec => ClosedIsFinal
<1>1. [Next]_vars =>
        [IsClosed => UNCHANGED <<row, events, remarked, children, conversation>>]_vars
  BY DEF Next, TechnicianStep, CustomerStep, RivalStep, Lock, Refused,
         TransitionStatus, UpdateDetails, AddCostItem, ProposeReduction,
         ProposeIncrease, ProposeGuard, ApproveChange, RejectChange, Complete,
         NotRepairable, CancelByCustomer, CancelByTechnician, Cancel,
         RequestCancelCheck, RequestCancelCommit, QuotationCommit, CommitOpen,
         row, events, children, others
<1> QED
  BY <1>1, PTL DEF Spec, ClosedIsFinal

(* A decided change is never decided again, nor its amounts rewritten.       *)
THEOREM DecisionsStand == Spec => DecisionsAreFinal
<1> DEFINE Keeps == \A c \in ChangeIds :
                        changes[c].status \in {"approved", "rejected"}
                            => changes'[c] = changes[c]
<1>1. TypeOK /\ [Next]_vars => [Keeps]_vars
  <2> SUFFICES ASSUME TypeOK, [Next]_vars PROVE Keeps
    OBVIOUS
  <2>1. ASSUME NEW c \in ChangeIds, NEW price \in Amounts,
               ProposeReduction(c, price) \/ ProposeIncrease(c, price)
        PROVE  Keeps
    BY <2>1 DEF ProposeReduction, ProposeIncrease, ProposeGuard, TypeOK
  <2>2. ASSUME NEW c \in ChangeIds, ApproveChange(c) \/ RejectChange(c)
        PROVE  Keeps
    BY <2>2 DEF ApproveChange, RejectChange, Undecided, Decided, Pending, TypeOK
  <2>3. ASSUME NEW who, Cancel(who) PROVE Keeps
    BY <2>3 DEF Cancel, RejectPending, Pending
  <2>4. CASE UNCHANGED changes
    BY <2>4
  <2> QED
    BY <2>1, <2>2, <2>3, <2>4
    DEF Next, TechnicianStep, CustomerStep, RivalStep, Lock, Refused,
        TransitionStatus, UpdateDetails, AddCostItem, Complete, NotRepairable,
        CancelByCustomer, CancelByTechnician, RequestCancelCheck,
        RequestCancelCommit, QuotationCommit, children, vars
<1> QED
  BY <1>1, TypeCorrect, PTL DEF Spec, DecisionsAreFinal

-----------------------------------------------------------------------------
(* The order implements its contract                                         *)

(* A step that neither adds nor drops a customer's approval.                 *)
LEMMA ConsentKept ==
  ASSUME \A c \in ChangeIds :
            \/ changes'[c] = changes[c]
            \/ /\ changes[c].status # "approved"
               /\ changes'[c].status # "approved" \/ changes'[c].decidedBy # "customer"
  PROVE  Consented' = Consented
  BY DEF Consented

LEMMA OpenHasNoResult ==
  ASSUME TypeOK, ClosureInv, ~IsClosed
  PROVE  result = "none" /\ reports = 0 /\ conversation = "open"
  BY DEF TypeOK, ClosureInv, ClosureIsCoherent, IsClosed, RepairResult,
         ConversationStatus, TERMINAL_REPAIR_STATUSES

LEMMA ContractInitHolds == Init => Contract!ContractInit
  BY DEF Init, Contract!ContractInit, Consented, NoChange

(* A step that keeps the variables the contract is about.                    *)
LEMMA ContractStutter ==
  ASSUME UNCHANGED <<result, finalPrice, reports, conversation>>,
         Consented' = Consented
  PROVE  UNCHANGED Contract!contract
  BY DEF Contract!contract

LEMMA ContractStep ==
  TypeOK /\ PriceInv /\ ClosureInv /\ [Next]_vars
      => [Contract!ContractNext]_(Contract!contract)
<1> SUFFICES ASSUME TypeOK, PriceInv, ClosureInv, [Next]_vars
             PROVE  Contract!ContractNext \/ UNCHANGED Contract!contract
  OBVIOUS
<1> USE DEF Commit, CommitOpen
<1>1. ASSUME UNCHANGED <<result, finalPrice, changes, reports, conversation>>
      PROVE  UNCHANGED Contract!contract
  BY <1>1, ContractStutter DEF Consented
<1>2. CASE \/ Lock \/ Refused \/ AddCostItem
           \/ \E new \in RepairStatus : TransitionStatus(new)
           \/ \E fields \in SUBSET NoteFields : UpdateDetails(fields)
           \/ \E k \in CancelCalls : RequestCancelCheck(k) \/ RequestCancelCommit(k)
           \/ RivalStep
           \/ UNCHANGED vars
  BY <1>1, <1>2
  DEF Lock, Refused, AddCostItem, TransitionStatus, UpdateDetails, vars, row,
      RequestCancelCheck, RequestCancelCommit, RivalStep, QuotationCommit,
      children, others
<1>3. ASSUME NEW c \in ChangeIds, NEW price \in Amounts, ProposeReduction(c, price)
      PROVE  Contract!Lower
  <2>1. /\ ~IsClosed /\ finalPrice' = Stored[price] /\ price < finalPrice
        /\ UNCHANGED <<result, reports, conversation>>
        /\ finalPrice \in Amounts /\ Stored[finalPrice] = finalPrice
    BY <1>3 DEF ProposeReduction, ProposeGuard, AutoApproved, others, TypeOK,
                PriceInv, PricesAreStored
  <2>2. finalPrice' \in Amounts /\ finalPrice' <= finalPrice
    BY <2>1, StoredOrder
  <2>3. Consented' = Consented
    <3>1. /\ changes[c].status # "approved"
          /\ changes'[c].decidedBy # "customer"
          /\ \A d \in ChangeIds \ {c} : changes'[d] = changes[d]
      BY <1>3 DEF ProposeReduction, ProposeGuard, TypeOK
    <3> QED
      BY <3>1, ConsentKept
  <2> QED
    BY <2>1, <2>2, <2>3, OpenHasNoResult DEF Contract!Lower
<1>4. ASSUME NEW c \in ChangeIds, NEW price \in Amounts, ProposeIncrease(c, price)
      PROVE  UNCHANGED Contract!contract
  <2>1. /\ changes[c].status # "approved" /\ changes'[c].status # "approved"
        /\ \A d \in ChangeIds \ {c} : changes'[d] = changes[d]
        /\ UNCHANGED <<result, finalPrice, reports, conversation>>
    BY <1>4 DEF ProposeIncrease, ProposeGuard, TypeOK, others
  <2> QED
    BY <2>1, ConsentKept, ContractStutter
<1>5. ASSUME NEW c \in ChangeIds, ApproveChange(c) PROVE Contract!Agree
  <2>1. /\ ~IsClosed /\ finalPrice' = changes[c].new
        /\ UNCHANGED <<result, reports, conversation>>
        /\ changes[c].status = "pending"
        /\ changes'[c].status = "approved" /\ changes'[c].decidedBy = "customer"
        /\ changes'[c].new = changes[c].new
        /\ \A d \in ChangeIds \ {c} : changes'[d] = changes[d]
    BY <1>5 DEF ApproveChange, Undecided, Decided, Pending, TypeOK, PriceChange,
                others
  <2>2. Consented' = Consented \cup {finalPrice'}
    BY <2>1 DEF Consented
  <2>3. finalPrice' \in Amounts
    BY <2>1 DEF TypeOK, PriceChange
  <2> QED
    BY <2>1, <2>2, <2>3, OpenHasNoResult DEF Contract!Agree
<1>6. ASSUME NEW c \in ChangeIds, RejectChange(c)
      PROVE  UNCHANGED Contract!contract
  <2>1. /\ changes[c].status # "approved" /\ changes'[c].status # "approved"
        /\ \A d \in ChangeIds \ {c} : changes'[d] = changes[d]
        /\ UNCHANGED <<result, finalPrice, reports, conversation>>
    BY <1>6 DEF RejectChange, Undecided, Decided, Pending, TypeOK, PriceChange,
                others
  <2> QED
    BY <2>1, ConsentKept, ContractStutter
<1>7. ASSUME NEW outcome \in {"repaired", "not_repairable"}, ~IsClosed,
             CloseWithReport(outcome), UNCHANGED changes,
             finalPrice' \in ApprovedPrices
      PROVE  Contract!Finish
  <2>1. result' = outcome /\ reports' = 1 /\ conversation' = "archived"
    BY <1>7, OpenHasNoResult DEF CloseWithReport, ArchiveConversation
  <2>2. Consented' = Consented
    BY <1>7 DEF Consented
  <2>3. finalPrice' \in Amounts
    BY <1>7 DEF ApprovedPrices, TypeOK
  <2>4. \E p \in Consented : finalPrice' <= p
    BY <1>7 DEF ApprovedPrices, HasApprovedPrice, PriceInv, NeverAboveConsent,
                ApprovedWithinConsent
  <2> QED
    BY <1>7, <2>1, <2>2, <2>3, <2>4, OpenHasNoResult
    DEF Contract!Finish, Contract!WithinAgreed
<1>8. ASSUME NEW price \in Amounts, NEW texts \in SUBSET NoteFields,
             Complete(price, texts)
      PROVE  Contract!Finish
  BY <1>7, <1>8 DEF Complete
<1>9. ASSUME NotRepairable PROVE Contract!Finish
  BY <1>7, <1>9 DEF NotRepairable, ApprovedPrices
<1>10. ASSUME NEW who \in {"customer", "technician"}, Cancel(who)
       PROVE  Contract!WalkAway
  <2>1. /\ ~IsClosed /\ UNCHANGED <<finalPrice, reports>>
        /\ result' = "cancelled" /\ conversation' = "archived"
    BY <1>10 DEF Cancel, ArchiveConversation
  <2>2. \A c \in ChangeIds :
            \/ changes'[c] = changes[c]
            \/ changes[c].status # "approved" /\ changes'[c].status # "approved"
    BY <1>10 DEF Cancel, RejectPending, Pending, TypeOK, PriceChange
  <2>3. Consented' = Consented
    BY <2>2, ConsentKept
  <2> QED
    BY <2>1, <2>3, OpenHasNoResult DEF Contract!WalkAway
<1> QED
  BY <1>2, <1>3, <1>4, <1>5, <1>6, <1>8, <1>9, <1>10
  DEF Next, TechnicianStep, CustomerStep, CancelByCustomer, CancelByTechnician,
      Contract!ContractNext

(* Every behaviour of the order is one the contract with its parties allows. *)
THEOREM OrderImplementsContract == Spec => ImplementsContract
<1>1. TypeOK /\ PriceInv /\ ClosureInv /\ [Next]_vars
        => (TypeOK /\ PriceInv /\ ClosureInv)'
  BY StepTypeOK, StepPriceInv, StepClosureInv
<1> QED
  BY <1>1, InitTypeOK, InitPriceInv, InitClosureInv, ContractInitHolds,
     ContractStep, PTL
  DEF Spec, ImplementsContract, Contract!ContractSpec

-----------------------------------------------------------------------------
(* Reception                                                                 *)

Increased == \E c \in ChangeIds : /\ changes[c].status # "unused"
                                  /\ changes[c].decidedBy # "technician"

(* Changes that were not the technician's alone stay so until a cancellation.*)
LEMMA IncreasedStays ==
  ASSUME TypeOK, [Next]_vars, Increased, status' # "cancelled"
  PROVE  Increased'
<1>1. PICK c \in ChangeIds : changes[c].status # "unused"
                             /\ changes[c].decidedBy # "technician"
  BY DEF Increased
<1>2. CASE UNCHANGED changes
  BY <1>1, <1>2 DEF Increased
<1>3. ASSUME NEW d \in ChangeIds, NEW price \in Amounts,
             ProposeReduction(d, price) \/ ProposeIncrease(d, price)
      PROVE  Increased'
  <2>1. d # c
    BY <1>1, <1>3 DEF ProposeReduction, ProposeIncrease, ProposeGuard
  <2>2. changes'[c] = changes[c]
    BY <1>3, <2>1 DEF ProposeReduction, ProposeIncrease, TypeOK
  <2> QED
    BY <1>1, <2>2 DEF Increased
<1>4. ASSUME NEW d \in ChangeIds, ApproveChange(d) \/ RejectChange(d)
      PROVE  Increased'
  <2>1. changes'[c].status # "unused" /\ changes'[c].decidedBy # "technician"
    BY <1>1, <1>4 DEF ApproveChange, RejectChange, Decided, TypeOK, PriceChange
  <2> QED
    BY <2>1 DEF Increased
<1>5. ASSUME NEW who, Cancel(who) PROVE FALSE
  BY <1>5 DEF Cancel, SetStatus
<1> QED
  BY <1>2, <1>3, <1>4, <1>5
  DEF Next, TechnicianStep, CustomerStep, CancelByCustomer, CancelByTechnician,
      Lock, Refused, TransitionStatus, UpdateDetails, AddCostItem, Complete,
      NotRepairable, CloseWithReport, RequestCancelCheck, RequestCancelCommit,
      RivalStep, QuotationCommit, children, vars

(* The status leaves awaiting_receipt by the reception or an increase only.  *)
LEMMA ReceptionStep ==
  ASSUME TypeOK, OnlyAnIncreaseSkipsReception, [Next]_vars
  PROVE  OnlyAnIncreaseSkipsReception'
<1> SUFFICES ASSUME status' \notin {"awaiting_receipt", "cancelled"}, ~received'
             PROVE  Increased'
  BY DEF OnlyAnIncreaseSkipsReception, Increased
<1>1. ASSUME NEW c \in ChangeIds, NEW price \in Amounts,
             ProposeIncrease(c, price)
      PROVE  Increased'
  <2>1. changes'[c].status = "pending" /\ changes'[c].decidedBy = "none"
    BY <1>1 DEF ProposeIncrease, TypeOK
  <2> QED
    BY <2>1 DEF Increased
<1>2. ASSUME NEW new \in RepairStatus, TransitionStatus(new)
      PROVE  status # "awaiting_receipt" /\ ~received
  <2>1. status' = new /\ received' = (received \/ new = "received")
        /\ new \in ALLOWED_STATUS_TRANSITIONS[status]
    BY <1>2 DEF TransitionStatus, SetStatus
  <2>2. ALLOWED_STATUS_TRANSITIONS["awaiting_receipt"] = {"received"}
    BY DEF ALLOWED_STATUS_TRANSITIONS, RepairStatus
  <2> QED
    BY <2>1, <2>2
<1>3. ASSUME NEW c \in ChangeIds, RejectChange(c)
      PROVE  Increased'
  <2>1. changes'[c].status = "rejected" /\ changes'[c].decidedBy = "customer"
    BY <1>3 DEF RejectChange, Decided, TypeOK, PriceChange
  <2> QED
    BY <2>1 DEF Increased
<1>4. CASE UNCHANGED <<status, received>>
  BY <1>4, IncreasedStays DEF OnlyAnIncreaseSkipsReception, Increased
<1>5. ASSUME NEW price, NEW texts, Complete(price, texts) PROVE FALSE
  BY <1>5 DEF Complete, CanClose
<1>6. ASSUME NotRepairable PROVE FALSE
  BY <1>6 DEF NotRepairable, CanClose
<1>7. ASSUME NEW who, Cancel(who) PROVE FALSE
  BY <1>7 DEF Cancel, SetStatus
<1>8. ASSUME NEW new \in RepairStatus, TransitionStatus(new) PROVE Increased'
  BY <1>2, <1>8, IncreasedStays DEF OnlyAnIncreaseSkipsReception, Increased,
     TransitionStatus, SetStatus, CommitOpen, IsClosed, TERMINAL_REPAIR_STATUSES
<1> QED
  BY <1>1, <1>3, <1>4, <1>5, <1>6, <1>7, <1>8
  DEF Next, TechnicianStep, CustomerStep, CancelByCustomer, CancelByTechnician,
      Lock, Refused, UpdateDetails, AddCostItem, ProposeReduction,
      ApproveChange, RequestCancelCheck, RequestCancelCommit, RivalStep,
      QuotationCommit, row, vars

(* An order past its reception was received, or an increase took it there.   *)
THEOREM ReceptionIsSkippedByIncreases == Spec => []OnlyAnIncreaseSkipsReception
<1>1. Init => OnlyAnIncreaseSkipsReception
  BY DEF Init, OnlyAnIncreaseSkipsReception
<1> QED
  BY <1>1, InitTypeOK, StepTypeOK, ReceptionStep, PTL DEF Spec

(* Every reachable state has the values its columns admit, and its five      *)
(* tables agree with each other, with the history and with what was done.    *)
THEOREM ClosuresAreWhole == Spec => []ClosureIsWhole
  BY TypeCorrect, ClosureIsAtomic, PTL DEF ClosureIsWhole

(* What the customer pays was agreed to, and what he is asked about stands   *)
(* while he decides.                                                         *)
THEOREM PricesAreAgreed == Spec => []PriceIsAgreed
  BY ConsentBoundsThePrice, PendingChangeIsSafe, PTL DEF PriceIsAgreed

(* A closed order and a decided change are never touched again.              *)
THEOREM PastIsNotRewritten == Spec => PastStands
  BY ClosedStaysClosed, DecisionsStand DEF PastStands

-----------------------------------------------------------------------------
(* The figures                                                               *)

(* Each figure is a query over one or two columns: that they agree is a      *)
(* matter of the columns agreeing.                                           *)
LEMMA FiguresOfACoherentOrder ==
  ASSUME TypeOK, ClosureIsCoherent, PendingBlocksWork
  PROVE  FiguresAddUp
<1> USE DEF ActiveOrder, CompletedOrder, RepairedOrder, TERMINAL_REPAIR_STATUSES,
            ClosureIsCoherent
<1>1. ActiveOrder <=> ByResult = {}
  BY DEF ByResult, RepairResult, TypeOK
<1>2. RepairedOrder => CompletedOrder
  OBVIOUS
<1>3. CompletedOrder => RepairedOrder \/ ByResult = {"not_repairable"}
  BY DEF ByResult
<1>4. ByStatus = {"cancelled"} <=> ByResult = {"cancelled"}
  <2>1. ByStatus = {"cancelled"} <=> status = "cancelled"
    BY DEF ByStatus
  <2>2. ByResult = {"cancelled"} <=> result = "cancelled"
    BY DEF ByResult
  <2> QED
    BY <2>1, <2>2
<1>5. Earnings > 0 => reports > 0
  <2>1. CASE RepairedOrder
    BY <2>1
  <2>2. CASE ~RepairedOrder
    BY <2>2 DEF Earnings
  <2> QED
    BY <2>1, <2>2
<1>6. PendingPriceChanges # {} => ActiveOrder
  BY DEF PendingPriceChanges, PendingBlocksWork
<1> QED
  BY <1>1, <1>2, <1>3, <1>4, <1>5, <1>6 DEF FiguresAddUp, Stats, Summary, Dashboard

(* The screens of the technician, of the customer and of the administrator   *)
(* agree about an order, whatever handler closed it.                         *)
THEOREM FiguresAgree == Spec => []FiguresAddUp
  BY FiguresOfACoherentOrder, TypeCorrect, ClosureIsAtomic, PendingChangeIsSafe, PTL

-----------------------------------------------------------------------------
(* The migration                                                             *)

(* A status an order left behind is in its history, and the first status is  *)
(* never come back to.                                                       *)
AwaitedHistory == status = "awaiting_receipt" => statusEvents = {"awaiting_receipt"}

(* An order all of whose events have a status was never written to but by    *)
(* its transitions, the first of which is its reception, and its            *)
(* cancellation.                                                             *)
Unwritten ==
    /\ notes = {} /\ reports = 0
    /\ \A c \in ChangeIds : changes[c].status = "unused"
    /\ status = "awaiting_receipt" \/ IsClosed \/ "received" \in statusEvents

MigrationInv == AwaitedHistory /\ (remarked = FALSE => Unwritten)

LEMMA AwaitedStep ==
  ASSUME TypeOK, AwaitedHistory, [Next]_vars
  PROVE  AwaitedHistory'
<1> SUFFICES ASSUME status' = "awaiting_receipt"
             PROVE  UNCHANGED <<status, statusEvents>>
  BY DEF AwaitedHistory
<1>1. ASSUME NEW new \in RepairStatus, TransitionStatus(new) PROVE FALSE
  <2>1. status' = new /\ new \in ALLOWED_STATUS_TRANSITIONS[status]
    BY <1>1 DEF TransitionStatus, SetStatus
  <2>2. "awaiting_receipt" \notin ALLOWED_STATUS_TRANSITIONS[status]
    BY DEF ALLOWED_STATUS_TRANSITIONS, RepairStatus, TypeOK
  <2> QED
    BY <2>1, <2>2
<1>2. ASSUME NEW c, NEW price, ProposeIncrease(c, price)
      PROVE  UNCHANGED <<status, statusEvents>>
  BY <1>2 DEF ProposeIncrease, SetStatus, events
<1>3. ASSUME NEW c, RejectChange(c) PROVE UNCHANGED <<status, statusEvents>>
  BY <1>3 DEF RejectChange, SetStatus, events
<1>4. ASSUME NEW price, NEW texts, Complete(price, texts) PROVE FALSE
  BY <1>4 DEF Complete, CloseWithReport, SetStatus
<1>5. ASSUME NotRepairable PROVE FALSE
  BY <1>5 DEF NotRepairable, CloseWithReport, SetStatus
<1>6. ASSUME NEW who, Cancel(who) PROVE FALSE
  BY <1>6 DEF Cancel, SetStatus
<1> QED
  BY <1>1, <1>2, <1>3, <1>4, <1>5, <1>6
  DEF Next, TechnicianStep, CustomerStep, RivalStep, CancelByCustomer,
      CancelByTechnician, Lock, Refused, UpdateDetails, AddCostItem,
      ProposeReduction, ApproveChange, RequestCancelCheck, RequestCancelCommit,
      QuotationCommit, row, events, vars

LEMMA UnwrittenStep ==
  ASSUME TypeOK, MigrationInv, [Next]_vars, remarked' = FALSE
  PROVE  Unwritten'
<1> USE DEF Commit, CommitOpen
<1>1. CASE UNCHANGED <<row, events, remarked, changes, reports>>
  BY <1>1 DEF MigrationInv, Unwritten, IsClosed, row, events
<1>2. ASSUME NEW new \in RepairStatus, TransitionStatus(new) PROVE Unwritten'
  <2>1. /\ Unwritten /\ ~IsClosed /\ UNCHANGED <<notes, reports, changes>>
        /\ statusEvents' = statusEvents \cup {new}
        /\ new \in ALLOWED_STATUS_TRANSITIONS[status]
    BY <1>2 DEF TransitionStatus, SetStatus, MigrationInv, children
  <2>2. ALLOWED_STATUS_TRANSITIONS["awaiting_receipt"] = {"received"}
    BY DEF ALLOWED_STATUS_TRANSITIONS, RepairStatus
  <2>3. "received" \in statusEvents'
    BY <2>1, <2>2 DEF Unwritten
  <2> QED
    BY <2>1, <2>3 DEF Unwritten
<1>3. ASSUME NEW who, Cancel(who) PROVE Unwritten'
  <2>1. Unwritten /\ UNCHANGED <<notes, reports>> /\ IsClosed'
    BY <1>3 DEF Cancel, SetStatus, IsClosed, TERMINAL_REPAIR_STATUSES, MigrationInv
  <2>2. \A c \in ChangeIds : changes'[c].status = "unused"
    BY <1>3, <2>1 DEF Cancel, RejectPending, Pending, Unwritten
  <2> QED
    BY <2>1, <2>2 DEF Unwritten
<1> QED
  BY <1>1, <1>2, <1>3
  DEF Next, TechnicianStep, CustomerStep, RivalStep, CancelByCustomer,
      CancelByTechnician, Lock, Refused, UpdateDetails, AddCostItem,
      ProposeReduction, ProposeIncrease, ApproveChange, RejectChange, Complete,
      NotRepairable, CloseWithReport, RequestCancelCheck, RequestCancelCommit,
      QuotationCommit, Remark, children, vars

(* The order still awaited and never written to: one event, and the row the  *)
(* acceptance left.  There the two maps, which are not inverse of each       *)
(* other, are.                                                               *)
LEMMA RoundTripOfAnAwaitedOrder ==
  ASSUME TypeOK, ClosureIsCoherent, HistoryMatches, MigrationInv,
         status = "awaiting_receipt", ~remarked
  PROVE  /\ GoesThrough
         /\ {Downgraded.status} \cup Downgraded.history \subseteq OldStatus
         /\ RoundTrip = [Present EXCEPT !.costItems = 0]
<1>1. /\ reports = 0 /\ notes = {} /\ statusEvents = {"awaiting_receipt"}
      /\ \A c \in ChangeIds : changes[c].status = "unused"
  BY DEF MigrationInv, AwaitedHistory, Unwritten, TypeOK
<1>2. ~IsClosed /\ result = "none" /\ received = FALSE
  BY <1>1 DEF IsClosed, TERMINAL_REPAIR_STATUSES, TypeOK, ClosureIsCoherent,
              RepairResult, HistoryMatches
<1>3. GoesThrough
  BY <1>1, <1>2 DEF GoesThrough, RefusedNotices, NotifiedStatuses
<1>4. STATUS_MAP_DOWN("awaiting_receipt") = "pending"
  BY DEF STATUS_MAP_DOWN
<1>5. STATUS_MAP("pending") = "awaiting_receipt"
  BY DEF STATUS_MAP
<1>6. /\ Downgraded.status = "pending" /\ Downgraded.history = {"pending"}
      /\ Downgraded.total_amount = finalPrice
  BY <1>1, <1>4 DEF Downgraded
<1>7. UpgradedHistory(Downgraded) = {"awaiting_receipt"}
  BY <1>5, <1>6 DEF UpgradedHistory
<1>8. UpgradedOrder(Downgraded) =
          [status |-> "awaiting_receipt", result |-> "none",
           finalPrice |-> finalPrice, received |-> FALSE, notes |-> {}]
  BY <1>5, <1>6 DEF UpgradedOrder
<1>9. {c \in ChangeIds : changes[c].status # "unused"} = {}
  BY <1>1
<1> DEFINE Accepted == [status |-> "awaiting_receipt", result |-> "none",
                        finalPrice |-> finalPrice, received |-> FALSE, notes |-> {}]
           As(items) == [order |-> Accepted, history |-> {"awaiting_receipt"},
                         changes |-> {}, costItems |-> items, reports |-> 0]
<1>10. RoundTrip = [Present EXCEPT !.costItems = 0]
  <2>1. Present = As(costItems)
    BY <1>1, <1>2, <1>9 DEF Present
  <2>2. RoundTrip = As(0)
    BY <1>7, <1>8 DEF RoundTrip, UpgradedChildren
  <2> HIDE DEF Accepted
  <2>3. [As(costItems) EXCEPT !.costItems = 0] = As(0)
    OBVIOUS
  <2> QED
    BY <2>1, <2>2, <2>3
<1>11. {Downgraded.status} \cup Downgraded.history \subseteq OldStatus
  BY <1>6 DEF OldStatus
<1> QED
  BY <1>3, <1>10, <1>11

(* Once the workshop is at work on a single order, there is no way back; and *)
(* an order that does go back and forth loses its cost items, nothing else.  *)
THEOREM NoWayBackFromWork == Spec => []OnlyUntouchedOrdersGoBack
<1>1. Init => MigrationInv
  BY DEF Init, MigrationInv, AwaitedHistory, Unwritten, NoChange
<1>2. TypeOK /\ MigrationInv /\ [Next]_vars => MigrationInv'
  BY AwaitedStep, UnwrittenStep DEF MigrationInv
<1>3. TypeOK /\ ClosureIsCoherent /\ HistoryMatches /\ MigrationInv
        => OnlyUntouchedOrdersGoBack
  <2> SUFFICES ASSUME TypeOK, ClosureIsCoherent, HistoryMatches, MigrationInv
               PROVE  OnlyUntouchedOrdersGoBack
    OBVIOUS
  <2>1. GoesThrough => status = "awaiting_receipt" /\ ~remarked
    BY DEF GoesThrough, RefusedNotices, NotifiedStatuses, MigrationInv, Unwritten,
           TypeOK
  <2> QED
    BY <2>1, RoundTripOfAnAwaitedOrder DEF OnlyUntouchedOrdersGoBack
<1> QED
  BY <1>1, <1>2, <1>3, InitTypeOK, StepTypeOK, ClosureIsAtomic, PTL DEF Spec

-----------------------------------------------------------------------------
(* The report in its two stores, for any number of closing calls and of      *)
(* faults.  The row lock ties the two together: only its holder uploads or   *)
(* commits, and it does neither once the order is closed.                    *)

(* The attempt in its transaction holds the lock, and the order is open as   *)
(* long as it has something to commit.                                       *)
LockIsHeld ==
    /\ \A a \in Attempts : InTransaction(a) <=> holder = a
    /\ \A a \in Attempts : step[a] = "uploaded"
                               => orderStatus = "open" /\ document \in {a, None}
    /\ orderStatus # "completed" => report = None

(* Without faults, a PDF that has no row has an attempt that will delete it  *)
(* or commit it.                                                             *)
OrphanIsOwned ==
    report = None /\ document # None /\ faults = 0 =>
        \E a \in pending : step[a] \in {"uploaded", "failed"}

ReportInv ==
    StorageTypeOK /\ LockIsHeld /\ DocumentMatchesReport /\ OrphanIsOwned

-----------------------------------------------------------------------------
LEMMA StorageInitHolds == StorageInit => ReportInv
<1>. SUFFICES ASSUME StorageInit PROVE ReportInv
  OBVIOUS
<1>. USE NoneAssumption, FaultsAssumption DEF StorageInit
<1>1. StorageTypeOK
  <2>1. faults \in 0..MaxFaults
    OBVIOUS
  <2>2. step \in [Attempts -> Steps]
    BY DEF Steps
  <2>. QED
    BY <2>1, <2>2 DEF StorageTypeOK
<1>2. LockIsHeld
  BY DEF LockIsHeld, InTransaction
<1>3. document = None
  OBVIOUS
<1>4. DocumentMatchesReport
  BY <1>3 DEF DocumentMatchesReport
<1>5. OrphanIsOwned
  BY <1>3 DEF OrphanIsOwned
<1>. QED
  BY <1>1, <1>2, <1>4, <1>5 DEF ReportInv

LEMMA FaultsAreNat == StorageTypeOK /\ Fault => faults' \in 0..MaxFaults /\ faults' > 0
<1>. QED
  BY FaultsAssumption DEF StorageTypeOK, Fault

(* What a step of attempt a has to show of the lock and of the two stores.   *)
LEMMA LateIsBoolean ==
  ASSUME StorageTypeOK, NEW a \in Attempts, LockOrder(a) PROVE late' \in BOOLEAN
  BY Zenon DEF LockOrder

LEMMA StorageTypeHolds ==
  ASSUME ReportInv, NEW a \in Attempts, Proceed(a) \/ Crash(a)
  PROVE  StorageTypeOK'
<1>. USE NoneAssumption DEF ReportInv, Goto, Steps, Unlock
<1>1. CASE LockOrder(a)
  BY <1>1, LateIsBoolean DEF LockOrder, StorageTypeOK
<1>2. CASE AlreadyClosed(a)
  BY <1>2 DEF AlreadyClosed, StorageTypeOK
<1>3. CASE Upload(a)
  BY <1>3 DEF Upload, SaveAt, RememberKey, StorageTypeOK
<1>4. CASE UploadFails(a)
  BY <1>4, FaultsAreNat DEF UploadFails, SaveAt, StorageTypeOK
<1>5. CASE CommitReport(a) \/ CommitUnknown(a)
  BY <1>5 DEF CommitReport, CommitUnknown, Committed, StorageTypeOK
<1>6. CASE Fail(a)
  BY <1>6 DEF Fail, StorageTypeOK
<1>7. CASE Cleanup(a)
  BY <1>7, FaultsAreNat DEF Cleanup, StorageTypeOK
<1>8. CASE Crash(a)
  BY <1>8, FaultsAreNat DEF Crash, StorageTypeOK
<1>. QED
  BY <1>1, <1>2, <1>3, <1>4, <1>5, <1>6, <1>7, <1>8 DEF Proceed

LEMMA LockHolds ==
  ASSUME ReportInv, NEW a \in Attempts, Proceed(a) \/ Crash(a)
  PROVE  LockIsHeld'
<1>. USE NoneAssumption DEF ReportInv, LockIsHeld, StorageTypeOK, Goto, Steps, Unlock,
                            InTransaction
<1>1. CASE LockOrder(a)
  BY <1>1 DEF LockOrder
<1>2. CASE AlreadyClosed(a)
  BY <1>2 DEF AlreadyClosed
<1>3. CASE Upload(a)
  BY <1>3 DEF Upload, SaveAt, IsOpen
<1>4. CASE UploadFails(a)
  BY <1>4 DEF UploadFails, SaveAt, IsOpen
<1>5. CASE CommitReport(a) \/ CommitUnknown(a)
  BY <1>5 DEF CommitReport, CommitUnknown, Committed
<1>6. CASE Fail(a)
  BY <1>6 DEF Fail
<1>7. CASE Cleanup(a)
  BY <1>7 DEF Cleanup
<1>8. CASE Crash(a)
  BY <1>8 DEF Crash
<1>. QED
  BY <1>1, <1>2, <1>3, <1>4, <1>5, <1>6, <1>7, <1>8 DEF Proceed

(* An upload needs an open order, which has no report; a commit is made by   *)
(* the attempt that uploaded last, and a deletion leaves no document.        *)
LEMMA MatchHolds ==
  ASSUME ReportInv, NEW a \in Attempts, Proceed(a) \/ Crash(a)
  PROVE  DocumentMatchesReport'
<1>. USE NoneAssumption DEF ReportInv, LockIsHeld, StorageTypeOK, DocumentMatchesReport
<1>1. CASE Upload(a) \/ UploadFails(a)
  BY <1>1 DEF Upload, UploadFails, IsOpen
<1>2. CASE CommitReport(a) \/ CommitUnknown(a)
  BY <1>2 DEF CommitReport, CommitUnknown, Committed
<1>3. CASE LockOrder(a) \/ AlreadyClosed(a) \/ Fail(a) \/ Crash(a)
  BY <1>3 DEF LockOrder, AlreadyClosed, Fail, Crash
<1>4. CASE Cleanup(a)
  BY <1>4 DEF Cleanup
<1>. QED
  BY <1>1, <1>2, <1>3, <1>4 DEF Proceed

LEMMA OrphanHolds ==
  ASSUME ReportInv, NEW a \in Attempts, Proceed(a) \/ Crash(a)
  PROVE  OrphanIsOwned'
<1>. USE NoneAssumption, FaultsAreNat
     DEF ReportInv, StorageTypeOK, OrphanIsOwned, Goto, Steps
<1>1. CASE LockOrder(a)
  BY <1>1 DEF LockOrder
<1>2. CASE AlreadyClosed(a)
  BY <1>2 DEF AlreadyClosed
<1>3. CASE Upload(a)
  BY <1>3 DEF Upload, RememberKey
<1>4. CASE UploadFails(a)
  BY <1>4 DEF UploadFails
<1>5. CASE CommitReport(a) \/ CommitUnknown(a)
  BY <1>5 DEF CommitReport, CommitUnknown, Committed
<1>6. CASE Fail(a)
  BY <1>6 DEF Fail
<1>7. CASE Cleanup(a)
  BY <1>7 DEF Cleanup
<1>8. CASE Crash(a)
  BY <1>8 DEF Crash
<1>. QED
  BY <1>1, <1>2, <1>3, <1>4, <1>5, <1>6, <1>7, <1>8 DEF Proceed

(* Cancelling needs the lock to be free and the order open.                  *)
LEMMA CancelHolds == ReportInv /\ CancelOrder => ReportInv'
<1>. SUFFICES ASSUME ReportInv, CancelOrder PROVE ReportInv'
  OBVIOUS
<1>. USE NoneAssumption DEF ReportInv, CancelOrder
<1>1. StorageTypeOK'
  BY DEF StorageTypeOK
<1>2. LockIsHeld'
  <2>1. \A a \in Attempts : ~InTransaction(a)
    BY DEF LockIsHeld
  <2>2. \A a \in Attempts : step'[a] # "uploaded"
    BY <2>1 DEF InTransaction
  <2>3. report' = None
    BY DEF LockIsHeld, IsOpen
  <2>. QED
    BY <2>1, <2>2, <2>3 DEF LockIsHeld, InTransaction
<1>3. DocumentMatchesReport' /\ OrphanIsOwned'
  BY DEF DocumentMatchesReport, OrphanIsOwned
<1>. QED
  BY <1>1, <1>2, <1>3

LEMMA ReportStep == ReportInv /\ [StorageNext]_storageVars => ReportInv'
<1>. SUFFICES ASSUME ReportInv, [StorageNext]_storageVars PROVE ReportInv'
  OBVIOUS
<1>1. CASE UNCHANGED storageVars
  BY <1>1 DEF storageVars, ReportInv, StorageTypeOK, LockIsHeld, InTransaction,
              DocumentMatchesReport, OrphanIsOwned
<1>2. ASSUME NEW a \in Attempts, Proceed(a) \/ Crash(a) PROVE ReportInv'
  BY <1>2, StorageTypeHolds, LockHolds, MatchHolds, OrphanHolds DEF ReportInv
<1>. QED
  BY <1>1, <1>2, CancelHolds DEF StorageNext

LEMMA ReportInvariant == StorageSpec => []ReportInv
<1>. QED
  BY ReportStep, StorageInitHolds, PTL DEF StorageSpec

-----------------------------------------------------------------------------
(* The stores keep their types, and the PDF is always that of the committed  *)
(* close, whatever fails, crashes or is retried.                             *)
THEOREM DocumentIsTheReports == StorageSpec => []StorageTypeOK /\ []DocumentMatchesReport
<1>1. ReportInv => StorageTypeOK /\ DocumentMatchesReport
  BY DEF ReportInv
<1>. QED
  BY <1>1, ReportInvariant, PTL

(* No PDF is left without a row unless a fault kept its attempt from         *)
(* deleting it.                                                              *)
THEOREM NoSilentOrphans == StorageSpec => []OrphansNeedAFault
<1>1. ReportInv => OrphansNeedAFault
  <2>. SUFFICES ASSUME ReportInv, NoneUnderWay, report = None, document # None
                PROVE  faults > 0
    BY DEF OrphansNeedAFault
  <2>1. \A a \in pending : step[a] \in {"idle", "ended"}
    BY DEF NoneUnderWay, ReportInv, StorageTypeOK
  <2>2. faults # 0
    BY <2>1 DEF ReportInv, OrphanIsOwned
  <2>. QED
    BY <2>2, FaultsAssumption DEF ReportInv, StorageTypeOK
<1>. QED
  BY <1>1, ReportInvariant, PTL

(* A closed order stays as it was closed.                                    *)
THEOREM ClosedOnceHolds == StorageSpec => ClosedOnce
<1>1. ReportInv /\ [StorageNext]_storageVars =>
        (orderStatus # "open" => UNCHANGED <<orderStatus, report>>)
  <2>. SUFFICES ASSUME ReportInv, [StorageNext]_storageVars, orderStatus # "open"
                PROVE  UNCHANGED <<orderStatus, report>>
    OBVIOUS
  <2>1. ASSUME NEW a \in Attempts, Proceed(a) \/ Crash(a)
        PROVE  UNCHANGED <<orderStatus, report>>
    <3>1. ~(CommitReport(a) \/ CommitUnknown(a))
      BY DEF CommitReport, CommitUnknown, Committed, ReportInv, LockIsHeld
    <3>. QED
      BY <2>1, <3>1 DEF Proceed, LockOrder, AlreadyClosed, Upload, UploadFails,
                        Fail, Cleanup, Crash
  <2>2. ~CancelOrder
    BY DEF CancelOrder, IsOpen
  <2>. QED
    BY <2>1, <2>2 DEF StorageNext, storageVars
<1>. QED
  BY <1>1, ReportInvariant, PTL DEF StorageSpec, ClosedOnce

-----------------------------------------------------------------------------
(* Attempts whose clean-up is never late: while one is in its transaction no *)
(* other has anything left to delete, and none is left to delete when the    *)
(* order is closed.                                                          *)
NothingToDelete == \A b \in pending : step[b] # "failed"

KeptInv ==
    /\ ReportInv
    /\ \A a \in Attempts : step[a] \in {"idle", "locked"} => a \notin pending
    /\ \A a \in Attempts : step[a] = "uploaded" => document = a
    /\ holder # None \/ report # None => NothingToDelete
    /\ report # None => document # None

LEMMA LateStays ==
  ASSUME [StorageNext]_storageVars, ~late' PROVE ~late
<1>1. ASSUME NEW a \in Attempts, LockOrder(a) PROVE ~late
  BY <1>1, Zenon DEF LockOrder
<1>. QED
  BY <1>1 DEF StorageNext, Proceed, storageVars, CancelOrder, AlreadyClosed, Upload, UploadFails,
     CommitReport, CommitUnknown, Fail, Cleanup, Crash

LEMMA KeptStep ==
  ASSUME KeptInv, ReportInv', NEW a \in Attempts, Proceed(a) \/ Crash(a), ~late'
  PROVE  KeptInv'
<1>. USE NoneAssumption DEF KeptInv, NothingToDelete, Goto, Steps, Unlock
<1>. step \in [Attempts -> Steps] /\ pending \subseteq Attempts
  BY DEF ReportInv, StorageTypeOK
<1>h. /\ \A b \in Attempts : InTransaction(b) <=> holder = b
      /\ step[a] = "uploaded" => report = None
  BY DEF ReportInv, LockIsHeld
<1>1. CASE LockOrder(a)
  <2>1. NothingToDelete
    BY <1>1 DEF LockOrder
  <2>. QED
    BY <1>1, <2>1 DEF LockOrder
<1>2. CASE AlreadyClosed(a)
  BY <1>2, <1>h DEF AlreadyClosed, InTransaction
<1>3. CASE Upload(a)
  <2>1. report = None /\ \A b \in Attempts \ {a} : step[b] # "uploaded"
    BY <1>3, <1>h DEF Upload, IsOpen, ReportInv, LockIsHeld, InTransaction
  <2>. QED
    BY <1>3, <1>h, <2>1 DEF Upload, SaveAt, RememberKey, InTransaction
<1>4. CASE UploadFails(a)
  <2>1. report = None /\ \A b \in Attempts \ {a} : step[b] # "uploaded"
    BY <1>4, <1>h DEF UploadFails, IsOpen, ReportInv, LockIsHeld, InTransaction
  <2>. QED
    BY <1>4, <1>h, <2>1 DEF UploadFails, InTransaction
<1>5. CASE CommitReport(a)
  BY <1>5, <1>h DEF CommitReport, Committed, InTransaction
<1>6. CASE Fail(a)
  BY <1>6, <1>h DEF Fail, InTransaction
<1>7. CASE Cleanup(a)
  <2>1. a \in pending => report = None /\ holder = None
    BY <1>7 DEF Cleanup
  <2>2. a \in pending => \A b \in Attempts : step[b] # "uploaded"
    BY <2>1, <1>h DEF InTransaction
  <2>. QED
    BY <1>7, <1>h, <2>1, <2>2 DEF Cleanup, InTransaction
<1>8. CASE Crash(a)
  BY <1>8, <1>h DEF Crash, InTransaction
<1>. QED
  BY <1>1, <1>2, <1>3, <1>4, <1>5, <1>6, <1>7, <1>8 DEF Proceed, CommitUnknown

(* A closed order keeps its PDF as long as every clean-up is over before the *)
(* next attempt begins and no reply of a commit is lost.                     *)
THEOREM ReportIsNotLost == StorageSpec => []ReportIsKept
<1>. DEFINE Inv == ReportInv /\ (~late => KeptInv)
<1>1. StorageInit => Inv
  BY StorageInitHolds, NoneAssumption DEF KeptInv, StorageInit, NothingToDelete
<1>2. Inv /\ [StorageNext]_storageVars => Inv'
  <2>. SUFFICES ASSUME Inv, [StorageNext]_storageVars PROVE Inv'
    OBVIOUS
  <2>1. ReportInv'
    BY ReportStep
  <2>2. ASSUME ~late' PROVE KeptInv'
    <3>1. KeptInv
      BY <2>2, LateStays
    <3>2. CASE UNCHANGED storageVars
      BY <2>1, <3>1, <3>2 DEF storageVars, KeptInv, NothingToDelete
    <3>3. CASE CancelOrder
      <4>1. report = None /\ document' = document /\ report' = report
        BY <3>3 DEF CancelOrder, IsOpen, ReportInv, LockIsHeld
      <4>. QED
        BY <2>1, <3>1, <3>3, <4>1 DEF CancelOrder, KeptInv, NothingToDelete
    <3>. QED
      BY <2>1, <2>2, <3>1, <3>2, <3>3, KeptStep DEF StorageNext
  <2>. QED
    BY <2>1, <2>2
<1>3. Inv => ReportIsKept
  BY DEF KeptInv, ReportIsKept
<1>. QED
  BY <1>1, <1>2, <1>3, PTL DEF StorageSpec

(* Row and object of a report belong together, but for the reasons that      *)
(* ReportHasItsDocument names.                                               *)
THEOREM ReportsHaveTheirDocuments == StorageSpec => []ReportHasItsDocument
  BY DocumentIsTheReports, NoSilentOrphans, ReportIsNotLost, PTL
  DEF ReportHasItsDocument
=============================================================================
