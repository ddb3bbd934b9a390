------------------------------- MODULE Quoting -------------------------------
(****************************************************************************)
(* One repair request from its publication to the end of the order born      *)
(* from it: technicians quote and withdraw, the customer accepts a quotation *)
(* or cancels the request, the order's handlers write the request back.      *)
(*                                                                           *)
(* Every HTTP call runs in a database session of its own: it reads, checks   *)
(* what it read, and commits later, so a call is two or more steps and the   *)
(* calls interleave.  Only accept locks the request row, and what it checks  *)
(* under the lock is what it read BEFORE it: the second get_detail returns   *)
(* the objects the session already holds and does not refresh them.          *)
(* The lock (SELECT ... FOR UPDATE) holds back every write of the row and    *)
(* the INSERT of a quotation, whose foreign key needs a share of it.         *)
(****************************************************************************)
EXTENDS FiniteSets

CONSTANTS
    Technicians,  \* verified technicians whose specialties fit the request
    Calls,        \* HTTP calls that can be in progress at the same time
    Nobody        \* no technician, and no holder of the row lock

ASSUME NobodyAssumption == Nobody \notin Technicians \cup Calls

VARIABLES
    request,        \* repair_requests.status
    assigned,       \* repair_requests.assigned_technician_id
    quotation,      \* quotations.status of each technician, "none": no row
    orders,         \* the technicians an order of this request belongs to
    closed,         \* the order is completed or cancelled
    conversations,  \* the technicians with a conversation about the request
    told,           \* technicians notified that their quotation was accepted
    announced,      \* technicians whose quotation the customer was notified of
    holder,         \* the call that holds the lock of the request row
    call,           \* what each call in progress has read
    crossed         \* history: an acceptance was not alone before its commit

tables  == <<request, assigned, quotation, orders, closed, conversations>>
notices == <<told, announced>>
vars    == <<tables, notices, holder, call, crossed>>

RequestStatus == {"open", "quoted", "accepted", "in_progress", "completed",
                  "cancelled"}
ACCEPTING == {"open", "quoted"}
QuotationStatus == {"pending", "accepted", "rejected", "withdrawn"}

(* A call: the operation, its step, the technician it is about, the statuses *)
(* of the quotation and the request as it read them, and for accept the      *)
(* other quotations it found pending.                                        *)
Call == [op     : {"idle", "create", "withdraw", "accept", "cancel", "order"},
         step   : {"read", "locked", "notify"},
         tech   : Technicians \cup {Nobody},
         offer  : QuotationStatus \cup {"none"},
         seen   : RequestStatus,
         others : SUBSET Technicians]

Idle == [op |-> "idle", step |-> "read", tech |-> Nobody, offer |-> "none",
         seen |-> "open", others |-> {}]

TypeOK ==
    /\ request \in RequestStatus
    /\ assigned \in Technicians \cup {Nobody}
    /\ quotation \in [Technicians -> QuotationStatus \cup {"none"}]
    /\ orders \subseteq Technicians
    /\ closed \in BOOLEAN
    /\ conversations \subseteq Technicians
    /\ told \subseteq Technicians
    /\ announced \subseteq Technicians
    /\ holder \in Calls \cup {Nobody}
    /\ call \in [Calls -> Call]
    /\ crossed \in BOOLEAN

(* RepairRequestService.create                                               *)
Init ==
    /\ request = "open" /\ assigned = Nobody
    /\ quotation = [t \in Technicians |-> "none"]
    /\ orders = {} /\ closed = FALSE /\ conversations = {}
    /\ told = {} /\ announced = {}
    /\ holder = Nobody
    /\ call = [k \in Calls |-> Idle]
    /\ crossed = FALSE

-----------------------------------------------------------------------------
(* Steps of a call                                                           *)

Uncommitted(j) == call[j].op # "idle" /\ call[j].step # "notify"

(* The first read of a call: what its checks will be made on.                *)
Begin(k, op, t) ==
    /\ call[k].op = "idle"
    /\ call' = [call EXCEPT ![k] =
            [op |-> op, step |-> "read", tech |-> t,
             offer |-> IF t = Nobody THEN "none" ELSE quotation[t],
             seen |-> request, others |-> {}]]
    /\ crossed' = (crossed \/ \E j \in Calls :
                       Uncommitted(j) /\ "accept" \in {op, call[j].op})
    /\ UNCHANGED <<tables, notices, holder>>

At(k, op, step) == call[k].op = op /\ call[k].step = step

End(k) == call' = [call EXCEPT ![k] = Idle]
ThenNotify(k) == call' = [call EXCEPT ![k].step = "notify"]

(* A write of the request row, or an INSERT that refers to it, waits for the *)
(* lock to be free.                                                          *)
RowFree == holder = Nobody

(* COMMIT and ROLLBACK both end the transaction and with it the lock.        *)
MutKeepLock(k) == UNCHANGED holder

Release(k) == holder' = IF holder = k THEN Nobody ELSE holder

(* A check failed, a constraint did, or the process died: the transaction    *)
(* rolls back.  After the first commit only the notification is lost.        *)
Abort(k) ==
    /\ call[k].op # "idle"
    /\ End(k)
    /\ Release(k)
    /\ UNCHANGED <<tables, notices, crossed>>

-----------------------------------------------------------------------------
(* POST /quotations: one row per technician and request, a unique constraint *)
CreateRead(k, t) ==
    /\ request \in ACCEPTING
    /\ quotation[t] = "none"
    /\ Begin(k, "create", t)

MutNoStatus(seen) == "pending"

QuotedStatus(seen) == IF seen = "open" THEN "quoted" ELSE request

CreateCommit(k) ==
    /\ At(k, "create", "read")
    /\ RowFree
    /\ quotation[call[k].tech] = "none"
    /\ quotation' = [quotation EXCEPT ![call[k].tech] = "pending"]
    /\ request' = QuotedStatus(call[k].seen)
    /\ ThenNotify(k)
    /\ UNCHANGED <<assigned, orders, closed, conversations, notices, holder,
                   crossed>>

CreateNotify(k) ==
    /\ At(k, "create", "notify")
    /\ announced' = announced \cup {call[k].tech}
    /\ End(k)
    /\ UNCHANGED <<tables, told, holder, crossed>>

-----------------------------------------------------------------------------
(* POST /quotations/{id}/withdraw                                            *)
Withdrawable(t) == quotation[t] = "pending"

WithdrawRead(k, t) ==
    /\ Withdrawable(t)
    /\ Begin(k, "withdraw", t)

WithdrawCommit(k) ==
    /\ At(k, "withdraw", "read")
    /\ quotation' = [quotation EXCEPT ![call[k].tech] = "withdrawn"]
    /\ End(k)
    /\ UNCHANGED <<request, assigned, orders, closed, conversations, notices,
                   holder, crossed>>

-----------------------------------------------------------------------------
(* POST /quotations/{id}/accept                                              *)
AcceptRead(k, t) ==
    /\ quotation[t] # "none"
    /\ Begin(k, "accept", t)

(* The checks made after the lock was taken, on the objects read before.     *)
MutOfferOnly(k) == call[k].offer = "pending"

Acceptable(k) == call[k].offer = "pending" /\ call[k].seen \in ACCEPTING

(* list_for_request, a fresh read of the other rows.                         *)
MutRejectNone(t) == {}

OtherPending(t) == {u \in Technicians \ {t} : quotation[u] = "pending"}

AcceptLock(k) ==
    /\ At(k, "accept", "read")
    /\ RowFree
    /\ Acceptable(k)
    /\ holder' = k
    /\ call' = [call EXCEPT ![k].step = "locked",
                            ![k].others = OtherPending(call[k].tech)]
    /\ UNCHANGED <<tables, notices, crossed>>

(* The unique constraint of orders.request_id: IntegrityError, and Abort.    *)
MutOrdersNotUnique == TRUE

RequestHasNoOrder == orders = {}

AwardedStatus == request' = "accepted"

AcceptCommit(k) ==
    LET winner == call[k].tech IN
    /\ At(k, "accept", "locked")
    /\ RequestHasNoOrder
    /\ quotation' = [t \in Technicians |->
            IF t = winner THEN "accepted"
            ELSE IF t \in call[k].others THEN "rejected" ELSE quotation[t]]
    /\ AwardedStatus
    /\ assigned' = winner
    /\ orders' = orders \cup {winner}
    /\ conversations' = conversations \cup {winner}
    /\ Release(k)
    /\ ThenNotify(k)
    /\ UNCHANGED <<closed, notices, crossed>>

MutNotifiesEarly(k) == At(k, "accept", "locked") \/ At(k, "accept", "notify")

Accepted(k) == At(k, "accept", "notify")

AcceptNotify(k) ==
    /\ Accepted(k)
    /\ told' = told \cup {call[k].tech}
    /\ End(k)
    /\ UNCHANGED <<tables, announced, holder, crossed>>

-----------------------------------------------------------------------------
(* POST /repair-requests/{id}/cancel                                         *)
CancelRead(k) ==
    /\ request \notin {"completed", "cancelled"}
    /\ Begin(k, "cancel", Nobody)

CancelCommit(k) ==
    /\ At(k, "cancel", "read")
    /\ RowFree
    /\ request' = "cancelled"
    /\ End(k)
    /\ UNCHANGED <<assigned, quotation, orders, closed, conversations, notices,
                   holder, crossed>>

-----------------------------------------------------------------------------
(* The handlers of the order, one at a time under the lock of the order row  *)
(* (RepairOrder has them in full): what they do to the request.              *)
OrderRead(k) ==
    /\ orders # {} /\ ~closed
    /\ \A j \in Calls : call[j].op # "order"
    /\ Begin(k, "order", Nobody)

OrderProgress(k) ==
    /\ At(k, "order", "read")
    /\ call[k].seen = "accepted"
    /\ RowFree
    /\ request' = "in_progress"
    /\ End(k)
    /\ UNCHANGED <<assigned, quotation, orders, closed, conversations, notices,
                   holder, crossed>>

OrderClose(k, outcome) ==
    /\ At(k, "order", "read")
    /\ RowFree
    /\ request' = IF call[k].seen = outcome THEN request ELSE outcome
    /\ closed' = TRUE
    /\ End(k)
    /\ UNCHANGED <<assigned, quotation, orders, conversations, notices, holder,
                   crossed>>

-----------------------------------------------------------------------------
Start(k) ==
    \/ \E t \in Technicians :
          CreateRead(k, t) \/ WithdrawRead(k, t) \/ AcceptRead(k, t)
    \/ CancelRead(k) \/ OrderRead(k)

Continue(k) ==
    \/ CreateCommit(k) \/ CreateNotify(k)
    \/ WithdrawCommit(k)
    \/ AcceptLock(k) \/ AcceptCommit(k) \/ AcceptNotify(k)
    \/ CancelCommit(k)
    \/ OrderProgress(k)
    \/ \E outcome \in {"completed", "cancelled"} : OrderClose(k, outcome)

Next == \E k \in Calls : Start(k) \/ Continue(k) \/ Abort(k)

Spec == Init /\ [][Next]_vars

(* A call that has started goes on; a lock that keeps becoming free is       *)
(* granted in the end (the lock queue of the database is first come, first   *)
(* served).  Nobody has to start a call, and only a call that cannot go on,  *)
(* because a check or a constraint fails, is sure to be aborted.             *)
MustFail(k) ==
    \/ At(k, "create", "read") /\ quotation[call[k].tech] # "none"
    \/ At(k, "accept", "read") /\ ~Acceptable(k)
    \/ At(k, "accept", "locked") /\ orders # {}

Fairness == \A k \in Calls :
    /\ WF_vars(MustFail(k) /\ Abort(k))
    /\ SF_vars(Continue(k))

FairSpec == Spec /\ Fairness

-----------------------------------------------------------------------------
(* Safety, whatever calls overlap                                            *)

(* The award is one transaction: order, assigned technician, conversation    *)
(* and accepted quotation always name the same, single technician.  Of two   *)
(* acceptances that both passed their checks on stale objects the second     *)
(* leaves nothing behind, not even the statuses it had already written.      *)
AwardIsCoherent ==
    /\ orders = (IF assigned = Nobody THEN {} ELSE {assigned})
    /\ conversations = orders
    /\ \A t \in Technicians : quotation[t] = "accepted" => t \in orders
    /\ \A t \in orders : quotation[t] \in {"accepted", "withdrawn"}

(* Notifications are committed after what they announce: whoever is told of  *)
(* a quotation or of an acceptance finds it in the tables.                   *)
NoticesAreTrue ==
    /\ told \subseteq orders
    /\ \A t \in announced : quotation[t] # "none"

(* Once a technician has the order, no later acceptance, cancellation or     *)
(* closure gives it, or the conversation, to another.                        *)
AwardIsFinal ==
    [][orders # {} => UNCHANGED <<orders, assigned, conversations>>]_vars

(* Whatever calls overlap, the award is one transaction and nobody is told   *)
(* of what did not happen.                                                   *)
AwardIsWhole == TypeOK /\ AwardIsCoherent /\ NoticesAreTrue

(* Liveness: every call comes to an end; the lock is never held for ever and *)
(* nobody waits for it for ever.                                             *)
CallsReturn == \A k \in Calls : call[k].op # "idle" ~> call[k].op = "idle"

-----------------------------------------------------------------------------
(* What the repository says of an award                                      *)

(* README: when a quotation is accepted "las demas quedan rejected", "la     *)
(* solicitud pasa a accepted"; create refuses from then on and withdraw      *)
(* takes pending quotations only.  So the winner stands, the others are      *)
(* refused and the request stays awarded: as long as every acceptance is     *)
(* alone until its commit, whatever creations, withdrawals, cancellations    *)
(* and calls of the order overlap before and after it.  A quotation created  *)
(* while an acceptance is under way stays pending and takes the request back *)
(* to quoted; one withdrawn meanwhile may be the winner's.                   *)
AwardIsComplete ==
    ~crossed /\ orders # {} =>
        /\ request \notin ACCEPTING
        /\ \A t \in Technicians : quotation[t] # "pending"
        /\ \A t \in orders : quotation[t] = "accepted"

(* accept refuses a request that is not open or quoted: no order is opened   *)
(* on one its customer has cancelled.  An acceptance that overlaps another,  *)
(* or the cancellation, does open one: it checks what it read before.        *)
CancelledIsNotAwarded ==
    [][~crossed /\ request = "cancelled" => orders' = orders]_vars

(* An award is for good: it is not given to another, and none is made on     *)
(* what the customer had already taken back.                                 *)
AwardIsForGood == AwardIsFinal /\ CancelledIsNotAwarded
=============================================================================
