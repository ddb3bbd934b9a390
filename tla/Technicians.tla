------------------------------ MODULE Technicians ------------------------------
(****************************************************************************)
(* The public side of the technicians: the profile they edit, the reviews    *)
(* whose average it carries, and the search that widens from the district    *)
(* of the visitor to its department.                                         *)
(*                                                                           *)
(* Editing reads the row, checks the merged object and writes the columns    *)
(* that differ from what it READ.  A review inserts its row, computes the    *)
(* average of what its transaction sees, and stores the result.  A search    *)
(* asks for a page and for a total, level by level, each with a statement of *)
(* its own.  Nothing of this locks anything.                                 *)
(****************************************************************************)
EXTENDS Integers, FiniteSets, Functions

CONSTANTS
    Technicians,
    Places,        \* districts, with the province and department of each
    Addresses,     \* of workshops
    Payloads,      \* what each technician may send in PATCH /technicians/me
    Orders,        \* completed orders
    TechnicianOf,  \* whose they are
    Ratings,       \* the stars a customer may give
    Named,         \* technicians whose name the words of a search match
    SomeoneNamed,  \* whether they match the name of any user
    Calls,         \* calls in progress at the same time
    None           \* NULL

Location == {"district", "province", "department"}

ASSUME PlacesAssumption ==
    /\ Places \subseteq [Location -> STRING]
    /\ \A p, q \in Places :
          /\ p.district = q.district => p = q
          /\ p.province = q.province => p.department = q.department

ASSUME OrdersAssumption ==
    /\ TechnicianOf \in [Orders -> Technicians] /\ IsFiniteSet(Orders)
    /\ Ratings \subseteq 1 .. 5
    /\ None \notin Addresses
    /\ Named \subseteq Technicians /\ (Named # {} => SomeoneNamed)

Columns == {"home", "workshop", "address"} \cup Location

Values(f) ==
    CASE f \in {"home", "workshop"} -> BOOLEAN
      [] f = "address"              -> Addresses \cup {None}
      [] f \in Location             -> {p[f] : p \in Places}

(* The columns of a payload that are set; a location is sent whole, and is   *)
(* looked up.                                                                *)
ASSUME PayloadsAssumption ==
    \A t \in Technicians : \A p \in Payloads[t] :
        /\ DOMAIN p \subseteq Columns /\ DOMAIN p \cap Location \in {{}, Location}
        /\ \A f \in DOMAIN p \ Location : p[f] \in Values(f)

VARIABLES
    row,        \* the columns of each technician
    reviews,    \* the stars given for each order, 0: no review
    rating,     \* rating_avg, in hundredths, and rating_count
    call,       \* what each call holds
    overlapped  \* calls during which another one committed what they rest on

vars == <<row, reviews, rating, call, overlapped>>

Idle == [at |-> "idle"]

-----------------------------------------------------------------------------
(* Modality and place                                                        *)

MutNoAddress(r) == r.home \/ r.workshop

(* validate_service_modality: refused otherwise.                             *)
Offers(r) == (r.home \/ r.workshop) /\ (r.workshop => r.address # None)

(* ... and it never keeps the address of a workshop nobody runs.             *)
Normal(r) == IF r.workshop THEN r ELSE [r EXCEPT !.address = None]

Valid(r) == (r.home \/ r.workshop) /\ (r.workshop <=> r.address # None)

PlaceOf(r) == Restrict(r, Location)

MutAnyPlace(p) == TRUE

(* GeoService.resolve, of what was sent                                      *)
Resolved(p) == "district" \in DOMAIN p => PlaceOf(p) \in Places

Merge(r, p) == Normal([f \in Columns |-> IF f \in DOMAIN p THEN p[f] ELSE r[f]])

Changes(r, n) == Restrict(n, {f \in Columns : n[f] # r[f]})

Store(r, w) == [f \in Columns |-> IF f \in DOMAIN w THEN w[f] ELSE r[f]]

-----------------------------------------------------------------------------
(* Ratings                                                                   *)

MutSum(s, n) == 100 * s

(* round(average, 2); no exact half arises below eight reviews.              *)
Hundredths(s, n) == IF n = 0 THEN 0 ELSE (200 * s + n) \div (2 * n)

Reviewed(t, given) == {o \in Orders : TechnicianOf[o] = t /\ given[o] # 0}

(* The stars of a technician, each by the order it was given for.            *)
Stars(t, given) == UNION {{o} \X (1 .. given[o]) : o \in Reviewed(t, given)}

(* AVG and COUNT over the reviews of a technician                            *)
Stats(t, given) ==
    LET n == Cardinality(Reviewed(t, given))
    IN [avg |-> Hundredths(Cardinality(Stars(t, given)), n), count |-> n]

-----------------------------------------------------------------------------
TypeOK ==
    /\ \A t \in Technicians :
          DOMAIN row[t] = Columns /\ \A f \in Columns : row[t][f] \in Values(f)
    /\ reviews \in [Orders -> Ratings \cup {0}]
    /\ rating \in [Technicians -> [avg : 0 .. 500, count : Nat]]
    /\ \A c \in Calls : call[c].at \in {"idle", "edit", "review", "counted",
                                        "search", "page"}
    /\ overlapped \subseteq Calls

(* Registration checks a profile as editing does.                            *)
Init ==
    /\ \E place \in Places :
          row = [t \in Technicians |->
              [f \in Columns |-> CASE f = "home" -> TRUE
                                   [] f = "workshop" -> FALSE
                                   [] f = "address" -> None
                                   [] OTHER -> place[f]]]
    /\ reviews = [o \in Orders |-> 0]
    /\ rating = [t \in Technicians |-> [avg |-> 0, count |-> 0]]
    /\ call = [c \in Calls |-> Idle]
    /\ overlapped = {}

Goes(c, to) == call' = [call EXCEPT ![c] = to]

(* The end of call c, and the calls whose reading its commit made old.       *)
Ends(c, others) ==
    /\ Goes(c, Idle)
    /\ overlapped' = (overlapped \cup others) \ {c}

Abandon(c) ==
    /\ call[c] # Idle
    /\ Ends(c, {})
    /\ UNCHANGED <<row, reviews, rating>>

-----------------------------------------------------------------------------
(* PATCH /technicians/me                                                     *)

EditRead(c, t) ==
    /\ call[c] = Idle
    /\ \E p \in Payloads[t] :
        /\ Resolved(p)
        /\ LET new == Merge(row[t], p)
           IN Offers(new) /\ Goes(c, [at |-> "edit", of |-> t, write |-> Changes(row[t], new)])
    /\ UNCHANGED <<row, reviews, rating, overlapped>>

EditCommit(c) ==
    /\ call[c].at = "edit"
    /\ row' = [row EXCEPT ![call[c].of] = Store(@, call[c].write)]
    /\ Ends(c, {k \in Calls : \/ call[k].at = "edit" /\ call[k].of = call[c].of
                              \/ call[k].at \in {"search", "page"}})
    /\ UNCHANGED <<reviews, rating>>

-----------------------------------------------------------------------------
(* POST /reviews                                                             *)

(* get_by_order finds no review; the technician is loaded with the order.    *)
ReviewRead(c, o, stars) ==
    /\ call[c] = Idle /\ reviews[o] = 0
    /\ Goes(c, [at |-> "review", order |-> o, stars |-> stars,
                seen |-> rating[TechnicianOf[o]]])
    /\ UNCHANGED <<row, reviews, rating, overlapped>>

(* reviews.order_id is unique: an insert waits for one under way and fails   *)
(* when that commits.                                                        *)
InsertFree(c) ==
    \A k \in Calls \ {c} : call[k].at = "counted" => call[k].order # call[c].order

MutOverwrites(c) == TRUE

Inserted(c) == reviews[call[c].order] = 0

MutWithoutOwn(c) == reviews

(* The insert is flushed before the average is taken.                        *)
Flushed(c) == [reviews EXCEPT ![call[c].order] = call[c].stars]

ReviewInsert(c) ==
    /\ call[c].at = "review" /\ InsertFree(c)
    /\ IF Inserted(c)
       THEN /\ Goes(c, [at |-> "counted", order |-> call[c].order,
                        stars |-> call[c].stars, seen |-> call[c].seen,
                        stats |-> Stats(TechnicianOf[call[c].order], Flushed(c))])
            /\ UNCHANGED overlapped
       ELSE Ends(c, {})
    /\ UNCHANGED <<row, reviews, rating>>

(* Only a column that differs from what was loaded is written.               *)
ReviewCommit(c) ==
    LET o == call[c].order
        t == TechnicianOf[o]
        Column(f, old) ==
            IF call[c].stats[f] = call[c].seen[f] THEN old ELSE call[c].stats[f]
    IN /\ call[c].at = "counted"
       /\ reviews' = [reviews EXCEPT ![o] = call[c].stars]
       /\ rating' = [rating EXCEPT ![t] =
              [avg |-> Column("avg", @.avg), count |-> Column("count", @.count)]]
       /\ Ends(c, {k \in Calls : call[k].at \in {"review", "counted"}
                                 /\ TechnicianOf[call[k].order] = t})
       /\ UNCHANGED row

-----------------------------------------------------------------------------
(* GET /technicians, with the place of the visitor and maybe some words      *)

MutWidestFirst == <<"department", "province", "district">>

Levels == <<"district", "province", "department">>

Around(place, n) ==
    {t \in Technicians : row[t][Levels[n]] = place[Levels[n]]}

Found(place, n, words) ==
    IF words THEN Around(place, n) \cap Named ELSE Around(place, n)

(* The words filter the page by the name of its technician, but the total,   *)
(* which joins no user, by the existence of any user of such a name.         *)
Counted(place, n, words) ==
    IF words /\ ~SomeoneNamed THEN {} ELSE Around(place, n)

Search(c, place, words) ==
    /\ call[c] = Idle
    /\ Goes(c, [at |-> "search", place |-> place, words |-> words, level |-> 1])
    /\ UNCHANGED <<row, reviews, rating, overlapped>>

SearchPage(c) ==
    /\ call[c].at = "search"
    /\ Goes(c, [at |-> "page", place |-> call[c].place, words |-> call[c].words,
                level |-> call[c].level,
                items |-> Found(call[c].place, call[c].level, call[c].words)])
    /\ UNCHANGED <<row, reviews, rating, overlapped>>

Settles(c) ==
    \/ Counted(call[c].place, call[c].level, call[c].words) # {}
    \/ call[c].level = 3

SearchWidens(c) ==
    /\ call[c].at = "page" /\ ~Settles(c)
    /\ Goes(c, [at |-> "search", place |-> call[c].place, words |-> call[c].words,
                level |-> call[c].level + 1])
    /\ UNCHANGED <<row, reviews, rating, overlapped>>

(* The page of the last level asked for; none with a total of zero.          *)
SearchAnswers(c) ==
    /\ call[c].at = "page" /\ Settles(c)
    /\ Ends(c, {})
    /\ UNCHANGED <<row, reviews, rating>>

Next ==
    \E c \in Calls :
        \/ \E t \in Technicians : EditRead(c, t)
        \/ EditCommit(c)
        \/ \E o \in Orders, n \in Ratings : ReviewRead(c, o, n)
        \/ ReviewInsert(c) \/ ReviewCommit(c)
        \/ \E p \in Places, w \in BOOLEAN : Search(c, p, w)
        \/ SearchPage(c) \/ SearchWidens(c) \/ SearchAnswers(c)
        \/ Abandon(c)

Spec == Init /\ [][Next]_vars

-----------------------------------------------------------------------------
(* Properties                                                                *)

(* "Debe existir al menos una modalidad", and "nunca se guarda una dirección *)
(* huérfana": whatever overlapping edits left behind, an edit that overlaps  *)
(* no other one leaves a profile that can be offered.                        *)
EditAloneIsValid ==
    [][\A c \in Calls \ overlapped :
          EditCommit(c) => Valid(row'[call[c].of])]_vars

(* A place is stored in three columns, each written only when it differs:    *)
(* as long as no two edits of a technician overlap, its province and its     *)
(* department are those of its district.                                     *)
MoveAloneIsCoherent ==
    [][\A c \in Calls \ overlapped :
          EditCommit(c) => \/ PlaceOf(row'[call[c].of]) \in Places
                           \/ PlaceOf(row[call[c].of]) \notin Places]_vars

(* An edit alone leaves a profile that can be offered, in a place that       *)
(* exists.                                                                   *)
EditAloneIsWhole == EditAloneIsValid /\ MoveAloneIsCoherent

(* Whatever overlapping reviews made of the stored average and count, the    *)
(* next review that overlaps no other one of the technician puts both right. *)
ReviewAlonePutsRight ==
    [][\A c \in Calls \ overlapped :
          ReviewCommit(c) => LET t == TechnicianOf[call[c].order]
                             IN rating'[t] = Stats(t, reviews')]_vars

(* Overlapping reviews may lose one from the count, never add one; and a     *)
(* technician with reviews is never shown without any.                       *)
CountIsOfReviews ==
    \A t \in Technicians :
        /\ rating[t].count <= Stats(t, reviews).count
        /\ rating[t].count = 0 => Stats(t, reviews).count = 0

(* A review stands: of two of the same order one is refused, and it leaves   *)
(* neither its stars nor a count behind.                                     *)
ReviewsStand == [][\A o \in Orders : reviews[o] # 0 => reviews'[o] = reviews[o]]_vars

(* What is shown of a technician's reviews, after any overlap of them.       *)
ShownReviewsExist == TypeOK /\ CountIsOfReviews

(* Reviews are kept, and the next one alone puts right what overlapping ones *)
(* made of the average and the count.                                        *)
ReviewsAddUp == ReviewsStand /\ ReviewAlonePutsRight

(* A search that no edit overlapped passes nobody over: no narrower level    *)
(* had anyone to show, and its page is empty only when the department has    *)
(* nobody either, or when the words are somebody's name elsewhere.           *)
NobodyNearerIsPassedOver ==
    [][\A c \in Calls \ overlapped : SearchAnswers(c) =>
          LET k == call[c]
              Near(f) == {t \in Technicians : row[t][f] = k.place[f] /\
                                              (k.words => t \in Named)}
          IN /\ Levels[k.level] # "district" => Near("district") = {}
             /\ Levels[k.level] = "department" => Near("province") = {}
             /\ k.items = {} => (k.words \/ Near("department") = {})]_vars
=============================================================================
