---------------------------- MODULE RequestPrivacy ----------------------------
(****************************************************************************)
(* Who reads what of a repair request, its quotations, its order and its     *)
(* conversation, in the states the calls of Quoting leave behind.            *)
(*                                                                           *)
(* Three policies decide it, each on its own rows: RepairRequestAccess on    *)
(* the assigned technician and the status of the request, OrderAccess on the *)
(* technician of the order, ConversationService on the participants.  The    *)
(* lists do not ask them: they select rows by conditions of their own.  All  *)
(* is evaluated when a call reads, so it is predicates of the state.         *)
(****************************************************************************)
EXTENDS Quoting

Customer == "customer"  \* the owner of the request
Another  == "another"   \* a user with no part in it

ASSUME CustomerAssumption ==
    {Customer, Another} \cap (Technicians \cup {Nobody}) = {}

Roles == {"customer", "technician", "admin"}

(* Anybody may be given any roles (PATCH /admin/users/{id}), and the owner   *)
(* of a request may have a technician's profile too.                         *)
Viewers ==
    {v \in [id : Technicians \cup {Customer, Another}, roles : SUBSET Roles,
            technician : BOOLEAN] : v.id \in Technicians => v.technician}

(* The codes the policies ask for.                                           *)
ROLE_PERMISSIONS(role) ==
    IF role = "admin" THEN {"repair_request:moderate", "order:read_all", "admin:orders"}
                      ELSE {}

Codes(v) == UNION {ROLE_PERMISSIONS(r) : r \in v.roles}

Requires(code, v) == code \in Codes(v)

-----------------------------------------------------------------------------
(* repair_requests/privacy.py                                                *)

Moderates(v) == "repair_request:moderate" \in Codes(v)

MutByQuotation(v) ==
    v.id = Customer \/ Moderates(v) \/
    v.id \in {t \in Technicians : quotation[t] = "accepted"}

CanSeeAddress(v) == v.id = Customer \/ Moderates(v) \/ v.id = assigned

MutWhoQuoted(v) ==
    CanSeeAddress(v) \/ v.id \in {t \in Technicians : quotation[t] # "none"}

CanView(v) == CanSeeAddress(v) \/ (v.technician /\ request \in ACCEPTING)

(* GET /repair-requests/available: technicians, but never its owner; and     *)
(* never with the address.  A request of no specialty, in nobody's district, *)
(* is in everybody's list at most.                                           *)
PublishedTo(v) == v.id # Customer /\ request \in ACCEPTING

Available(v) == v.technician /\ PublishedTo(v)

(* GET /repair-requests/mine and GET /admin/requests show it with the        *)
(* address, without asking the policy.                                       *)
Mine(v) == v.id = Customer

Moderated(v) == Requires("repair_request:moderate", v)

(* GET /quotations/request/{id}: whose quotations are shown.                 *)
QuotationsShown(v) ==
    {t \in Technicians : /\ quotation[t] # "none"
                         /\ v.id = Customer \/ Moderates(v) \/ v.id = t}

-----------------------------------------------------------------------------
(* orders/access.py and orders/read.py: there is nothing to read before the  *)
(* award.                                                                    *)

IsAdmin(v) == Codes(v) \cap {"order:read_all", "admin:orders"} # {}

IsAssigned(v) == v.id \in orders

OrderViewer(v) == orders # {} /\ (v.id = Customer \/ IsAdmin(v) \/ IsAssigned(v))

OrderShowsAddress(v) == OrderViewer(v)

ShowsInternal(v) == orders # {} /\ (IsAdmin(v) \/ IsAssigned(v))

CustomerProfile(v) == ShowsInternal(v)

CanManage(v) == IsAssigned(v)

(* GET /orders: all, or else those of the technician's profile, or else      *)
(* those of the customer.                                                    *)
OrdersOfTechnician(v) == orders \cap {v.id}

OrdersOfCustomer(v) == IF v.id = Customer THEN orders ELSE {}

MutEverybodysOrders(v) ==
    (IsAdmin(v) \/ v.technician \/ v.id = Customer) /\ orders # {}

OrderListed(v) ==
    {} # IF IsAdmin(v) THEN orders
         ELSE IF v.technician THEN OrdersOfTechnician(v)
         ELSE OrdersOfCustomer(v)

(* GET /admin/orders                                                         *)
OrderAdministered(v) == Requires("admin:orders", v) /\ OrderListed(v)

-----------------------------------------------------------------------------
(* conversations/service.py: an administrator has no part in any.            *)

Participates(v) ==
    conversations # {} /\ "admin" \notin v.roles
                       /\ (v.id = Customer \/ v.id \in conversations)

ConversationListed(v) ==
    /\ "admin" \notin v.roles
    /\ v.id \in conversations \/ (v.id = Customer /\ conversations # {})

-----------------------------------------------------------------------------
(* Properties                                                                *)

(* The policies agree on the technicians, whatever calls overlap and         *)
(* whatever roles were given but the administrator's: the one who has the    *)
(* order, also when the request was cancelled behind it or the quotation     *)
(* withdrawn, opens the request with its address, reads and manages the      *)
(* order, learns who the customer is and writes to him; no other technician  *)
(* does any of it, in any status of the request.                             *)
AddressFollowsTheOrder ==
    \A v \in Viewers :
        v.id \in Technicians /\ "admin" \notin v.roles =>
            LET works == v.id \in orders IN
            /\ CanSeeAddress(v) <=> works
            /\ OrderShowsAddress(v) <=> works
            /\ ShowsInternal(v) <=> works
            /\ CustomerProfile(v) <=> works
            /\ CanManage(v) <=> works
            /\ Participates(v) <=> works
            /\ works => CanView(v)

(* An award that was alone ends the publication: the request is in nobody's  *)
(* list, and the technicians who lost can no longer open it.  (One created   *)
(* while an acceptance is under way publishes it again: see AwardIsComplete.)*)
AwardedIsPrivate ==
    ~crossed /\ orders # {} =>
        \A v \in Viewers :
            /\ ~Available(v)
            /\ CanView(v) => v.id = Customer \/ Moderates(v) \/ v.id \in orders

(* The lists agree with the policies they do not ask: everybody is listed    *)
(* what they may open, and nothing else, and with the address only if they   *)
(* would see it; and who has the order still finds the quotation it rests    *)
(* on.  The exception is the order of a customer who has also a technician's *)
(* profile, and whom GET /orders takes for a technician only.                *)
ListsAgree ==
    \A v \in Viewers :
        /\ Mine(v) \/ Moderated(v) => CanSeeAddress(v)
        /\ CanSeeAddress(v) => Mine(v) \/ Moderated(v) \/ IsAssigned(v)
        /\ OrderAdministered(v) => OrderViewer(v)
        /\ OrderListed(v) => OrderViewer(v)
        /\ OrderViewer(v) => OrderListed(v) \/ (v.id = Customer /\ v.technician)
        /\ (ConversationListed(v) <=> Participates(v))
        /\ Available(v) => CanView(v)
        /\ IsAssigned(v) => v.id \in QuotationsShown(v)

(* Policies, lists and the statuses they read agree on who sees a request,   *)
(* its address, its order and its conversation, in every state that          *)
(* overlapping calls lead to.                                                *)
OnlyThePartiesSee == AddressFollowsTheOrder /\ AwardedIsPrivate /\ ListsAgree
=============================================================================
