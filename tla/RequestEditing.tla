---------------------------- MODULE RequestEditing ----------------------------
(****************************************************************************)
(* What PATCH /repair-requests/{id} edits of one request, and the            *)
(* constraints between the columns: budgets in order, an address for a       *)
(* repair at home, a district of the department.  An update reads the row,   *)
(* merges what the customer sent into the object it read, checks the merged  *)
(* object, and commits; the UPDATE writes only the columns whose value       *)
(* differs from the one that was READ.  Nothing is locked between the read   *)
(* and the write.                                                            *)
(****************************************************************************)
EXTENDS Integers

CONSTANTS
    Amounts,       \* budgets
    Districts,     \* districts a request may be in
    DepartmentOf,  \* the department of each district
    Payloads,      \* what a customer sends: columns and their values
    Calls,         \* PATCH calls that can be in progress at the same time
    None           \* NULL

ASSUME AmountsAssumption == Amounts \subseteq Nat /\ None \notin Amounts

Columns == {"budget_min", "budget_max", "modality", "address", "district",
            "department"}

Row == [budget_min : Amounts \cup {None}, budget_max : Amounts \cup {None},
        modality : {"home", "workshop"}, address : BOOLEAN,
        district : Districts \cup {None},
        department : {DepartmentOf[d] : d \in Districts} \cup {None}]

Empty == [f \in {} |-> None]

(* What the schema of a payload takes: some of the columns, each with a      *)
(* value it may hold; the department comes with the district, and a district *)
(* is one of the catalogue.                                                  *)
PayloadIsWellFormed(p) ==
    /\ p = [f \in DOMAIN p |-> p[f]]
    /\ DOMAIN p \subseteq Columns \ {"department"}
    /\ \A f \in DOMAIN p : p[f] \in {r[f] : r \in Row}
    /\ "district" \in DOMAIN p => p["district"] \in Districts

VARIABLES
    row,     \* the columns of the request
    status,  \* repair_requests.status
    named,   \* the payload each call came with
    write,   \* the columns the UPDATE of each call is going to set
    busy,    \* the calls that have read the row and not committed yet
    overlapped  \* something began while an update was in progress

vars == <<row, status, named, write, busy, overlapped>>

EDITABLE_STATUSES == {"open", "quoted"}

RequestStatus == EDITABLE_STATUSES \cup {"accepted", "cancelled"}

-----------------------------------------------------------------------------
(* What update checks                                                        *)

BudgetsInOrder(r) ==
    r.budget_min # None /\ r.budget_max # None => r.budget_min <= r.budget_max

HomeHasAddress(r) == r.modality = "home" => r.address

(* GeoService.resolve checks it of what the customer sent.                   *)
DistrictFits(r) ==
    r.district # None => r.department = DepartmentOf[r.district]

Coherent(r) == BudgetsInOrder(r) /\ HomeHasAddress(r) /\ DistrictFits(r)

MutForgetsBudgets(r) == HomeHasAddress(r)

Accepted(r) == BudgetsInOrder(r) /\ HomeHasAddress(r)

MutClearsUnset(r, p) ==
    [f \in Columns |-> IF f \in DOMAIN p THEN p[f] ELSE None]

(* setattr of what was sent; a district brings its department.               *)
Merge(r, p) ==
    [f \in Columns |->
        IF f \in DOMAIN p THEN p[f]
        ELSE IF f = "department" /\ "district" \in DOMAIN p
             THEN DepartmentOf[p["district"]]
        ELSE r[f]]

MutWholeRow(r, n) == n

(* The UPDATE of the unit of work.                                           *)
Changes(r, n) == [f \in {g \in Columns : n[g] # r[g]} |-> n[f]]

Store(r, w) == [f \in Columns |-> IF f \in DOMAIN w THEN w[f] ELSE r[f]]

-----------------------------------------------------------------------------
(* RepairRequestService.create                                               *)
Init ==
    /\ row \in {r \in Row : Coherent(r)}
    /\ status = "open"
    /\ named = [k \in Calls |-> Empty]
    /\ write = [k \in Calls |-> Empty]
    /\ busy = {}
    /\ overlapped = FALSE

Begin == overlapped' = (overlapped \/ busy # {})

MutEditable == TRUE

IsEditable == status \in EDITABLE_STATUSES

(* A payload that is refused leaves nothing behind.                          *)
UpdateRead(k) ==
    /\ k \notin busy
    /\ Begin
    /\ IsEditable
    /\ \E p \in Payloads :
        /\ PayloadIsWellFormed(p)
        /\ Accepted(Merge(row, p))
        /\ named' = [named EXCEPT ![k] = p]
        /\ write' = [write EXCEPT ![k] = Changes(row, Merge(row, p))]
    /\ busy' = busy \cup {k}
    /\ UNCHANGED <<row, status>>

UpdateCommit(k) ==
    /\ k \in busy
    /\ row' = Store(row, write[k])
    /\ busy' = busy \ {k}
    /\ named' = [named EXCEPT ![k] = Empty]
    /\ write' = [write EXCEPT ![k] = Empty]
    /\ UNCHANGED <<status, overlapped>>

(* Commits of the other handlers of the request: a quotation, its            *)
(* acceptance, the cancellation.                                             *)
StatusMoves ==
    /\ Begin
    /\ IF status = "open" THEN status' \in {"quoted", "accepted", "cancelled"}
       ELSE status = "quoted" /\ status' \in {"accepted", "cancelled"}
    /\ UNCHANGED <<row, named, write, busy>>

Next == StatusMoves \/ \E k \in Calls : UpdateRead(k) \/ UpdateCommit(k)

Spec == Init /\ [][Next]_vars

-----------------------------------------------------------------------------
TypeOK ==
    /\ row \in Row
    /\ status \in RequestStatus
    /\ busy \subseteq Calls
    /\ overlapped \in BOOLEAN
    /\ \A k \in Calls : \A f \in DOMAIN write[k] : \E r \in Row : write[k][f] = r[f]

(* Two edits of different fields both take effect: a column changes only by  *)
(* a call that names it, whatever the other calls had read.                  *)
OnlyNamedColumnsChange ==
    [][\A f \in Columns : row'[f] # row[f] =>
           \E k \in busy : \/ f \in DOMAIN named[k]
                           \/ f = "department" /\ "district" \in DOMAIN named[k]]_vars

(* What update refuses is in no row as long as no two calls overlap.  When   *)
(* they do, each checks its fields against values the other replaces: the    *)
(* budgets may cross, a repair at home lose its address, a district end in   *)
(* another department.                                                       *)
SerialEditsAreCoherent == ~overlapped => Coherent(row)

(* What the technician's offer was for stays: an awarded or cancelled        *)
(* request is not edited.  An update that read the request before its award  *)
(* is committed after it, but nothing else is.                               *)
AwardedIsNotEdited ==
    [][row' # row => overlapped \/ status \in EDITABLE_STATUSES]_vars

(* Every row is one that update would have accepted, unless calls overlap.   *)
RowIsCoherent == TypeOK /\ SerialEditsAreCoherent

(* Overlapping edits merge field by field, and the award ends them.          *)
EditsMergeUntilTheAward == OnlyNamedColumnsChange /\ AwardedIsNotEdited
=============================================================================
