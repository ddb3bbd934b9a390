--------------------------- MODULE TechniciansProofs ---------------------------
(****************************************************************************)
(* The profiles, the reviews and the searches, for any number of            *)
(* technicians, places, orders and calls; and the catalogue their places    *)
(* are of, for any data files.                                              *)
(****************************************************************************)
EXTENDS PlacesCatalogue, FiniteSetTheorems, TLAPS

-----------------------------------------------------------------------------
(* What the calls hold                                                       *)

Rated == [avg : 0 .. 500, count : Nat]

Profile(r) ==
    /\ r = [f \in Columns |-> r[f]]
    /\ \A f \in Columns : r[f] \in Values(f)

RowInv ==
    /\ row = [t \in Technicians |-> row[t]]
    /\ \A t \in Technicians : Profile(row[t])
    /\ call = [c \in Calls |-> call[c]]

(* Stored in the row it was made from, an edit is a valid profile, in a      *)
(* place that exists unless it keeps one that does not.                      *)
EditInv ==
    \A c \in Calls : call[c].at = "edit" =>
        LET w == call[c].write
            old == row[call[c].of]
        IN /\ call[c].of \in Technicians
           /\ DOMAIN w \subseteq Columns
           /\ \A f \in DOMAIN w : w[f] \in Values(f)
           /\ c \notin overlapped =>
                 /\ Valid(Store(old, w))
                 /\ PlaceOf(Store(old, w)) \in Places \/ PlaceOf(old) \notin Places

Reviews(c) == call[c].at \in {"review", "counted"}

TheirTechnician(c) == TechnicianOf[call[c].order]

(* A call that reviews knows a rating that was the technician's, and that    *)
(* was no later reset.                                                       *)
ReviewInv ==
    \A c \in Calls : Reviews(c) =>
        /\ call[c].order \in Orders /\ call[c].stars \in Ratings
        /\ call[c].seen \in Rated
        /\ call[c].seen.count # 0 => rating[TheirTechnician(c)].count # 0
        /\ c \notin overlapped => call[c].seen = rating[TheirTechnician(c)]

(* The rows two calls have inserted are of two orders; the count of each is  *)
(* of reviews that stand or that it is about to commit, and its figures are  *)
(* those of all of them as long as nothing overlapped.                       *)
CountedInv ==
    \A c \in Calls : call[c].at = "counted" =>
        LET t == TheirTechnician(c)
        IN /\ reviews[call[c].order] = 0
           /\ InsertFree(c)
           /\ call[c].stats \in Rated
           /\ call[c].stats.count \in 1 .. Cardinality(Reviewed(t, Flushed(c)))
           /\ c \notin overlapped => call[c].stats = Stats(t, Flushed(c))

Nearby(rows, k, f) ==
    {t \in Technicians : rows[t][f] = k.place[f] /\ (k.words => t \in Named)}

(* Past a level there is nobody to show on it, and a page is of its level.   *)
PassesNobody(rows, k) ==
    /\ k.level > 1 => Nearby(rows, k, "district") = {}
    /\ k.level > 2 => Nearby(rows, k, "province") = {}
    /\ k.at = "page" => k.items = Nearby(rows, k, Levels[k.level])

SearchInv ==
    \A c \in Calls : call[c].at \in {"search", "page"} =>
        /\ call[c].place \in Places /\ call[c].words \in BOOLEAN
        /\ call[c].level \in 1 .. 3
        /\ c \notin overlapped => PassesNobody(row, call[c])

-----------------------------------------------------------------------------
(* Profiles                                                                  *)

LEMMA ColumnsOfALocation == Location \subseteq Columns
BY DEF Columns

LEMMA ValuesOfColumns ==
  /\ "home" \in Columns /\ Values("home") = BOOLEAN
  /\ "workshop" \in Columns /\ Values("workshop") = BOOLEAN
  /\ "address" \in Columns /\ Values("address") = Addresses \cup {None}
<1>1. "home" \in Columns /\ "workshop" \in Columns /\ "address" \in Columns
  BY DEF Columns
<1>2. /\ "home" \in {"home", "workshop"} /\ "workshop" \in {"home", "workshop"}
      /\ "address" \notin {"home", "workshop"}
      /\ "home" # "address" /\ "workshop" # "address"
      /\ {"home", "workshop", "address"} \cap Location = {}
  BY DEF Location
<1>3. Values("home") = BOOLEAN /\ Values("workshop") = BOOLEAN
  BY <1>2, Zenon DEF Values
<1>4. Values("address") = Addresses \cup {None}
  BY <1>2, Zenon DEF Values
<1> QED
  BY <1>1, <1>3, <1>4

(* The columns that differ, stored in the row they were compared with.       *)
LEMMA ChangesMakeTheDifference ==
  ASSUME NEW r, NEW n, n = [f \in Columns |-> n[f]]
  PROVE  Store(r, Changes(r, n)) = n
<1> DEFINE w == Changes(r, n)
<1>1. DOMAIN w = {f \in Columns : n[f] # r[f]}
  BY DEF Changes, Restrict
<1>2. \A f \in DOMAIN w : w[f] = n[f]
  BY DEF Changes, Restrict
<1>3. \A f \in Columns : (IF f \in DOMAIN w THEN w[f] ELSE r[f]) = n[f]
  BY <1>1, <1>2
<1> HIDE DEF w
<1>4. Store(r, w) = [f \in Columns |-> n[f]]
  BY <1>3 DEF Store
<1> QED
  BY <1>4 DEF w

LEMMA StoreKeepsProfile ==
  ASSUME NEW r, Profile(r), NEW w, DOMAIN w \subseteq Columns,
         \A f \in DOMAIN w : w[f] \in Values(f)
  PROVE  Profile(Store(r, w))
<1>1. \A f \in Columns : Store(r, w)[f] = IF f \in DOMAIN w THEN w[f] ELSE r[f]
  BY DEF Store
<1>2. Store(r, w) = [f \in Columns |-> Store(r, w)[f]]
  BY DEF Store
<1> QED
  BY <1>1, <1>2 DEF Profile

(* Whatever a technician sends, the merged profile that passes the check can *)
(* be offered, and stands in the place that was looked up or in the old one. *)
LEMMA MergeIsWhole ==
  ASSUME NEW r, Profile(r), NEW t \in Technicians, NEW p \in Payloads[t],
         Resolved(p), Offers(Merge(r, p))
  PROVE  /\ Profile(Merge(r, p))
         /\ Valid(Merge(r, p))
         /\ PlaceOf(Merge(r, p)) \in Places \/ PlaceOf(r) \notin Places
<1> DEFINE m == [f \in Columns |-> IF f \in DOMAIN p THEN p[f] ELSE r[f]]
           n == Normal(m)
<1>1. n = Merge(r, p)
  BY DEF Merge
<1>2. /\ DOMAIN p \subseteq Columns /\ DOMAIN p \cap Location \in {{}, Location}
      /\ \A f \in DOMAIN p \ Location : p[f] \in Values(f)
  BY PayloadsAssumption
<1>3. "district" \in DOMAIN p => PlaceOf(p) \in Places
  BY DEF Resolved
<1>4. "district" \in Location /\ None \in Values("address")
  BY DEF Location, Values
<1>5. \A f \in Columns : m[f] \in Values(f)
  <2> SUFFICES ASSUME NEW f \in Columns PROVE m[f] \in Values(f)
    OBVIOUS
  <2>1. CASE f \notin DOMAIN p
    BY <2>1 DEF Profile
  <2>2. CASE f \in DOMAIN p /\ f \notin Location
    BY <2>2, <1>2
  <2>3. CASE f \in DOMAIN p /\ f \in Location
    <3>1. PlaceOf(p) \in Places
      BY <2>3, <1>2, <1>3, <1>4
    <3>2. PlaceOf(p)[f] = p[f]
      BY <2>3 DEF PlaceOf, Restrict
    <3>3. Values(f) = {q[f] : q \in Places}
      BY <2>3 DEF Values, Location
    <3> QED
      BY <2>3, <3>1, <3>2, <3>3
  <2> QED
    BY <2>1, <2>2, <2>3
<1>6. /\ n = [f \in Columns |-> n[f]]
      /\ \A f \in Columns \ {"address"} : n[f] = m[f]
      /\ n["address"] = IF m["workshop"] THEN m["address"] ELSE None
  BY DEF Normal, Columns
<1>7. Profile(n)
  BY <1>4, <1>5, <1>6 DEF Profile
<1>8. Valid(n)
  <2>1. (n.home \/ n.workshop) /\ (n.workshop => n.address # None)
    BY <1>1 DEF Offers
  <2>2. n.workshop \in BOOLEAN
    <3> HIDE DEF n
    <3> QED
      BY <1>7, ValuesOfColumns DEF Profile
  <2>3. m.workshop <=> n.workshop
    BY <1>6 DEF Columns
  <2> QED
    BY <1>6, <2>1, <2>2, <2>3 DEF Valid
<1>9. \A f \in Location : n[f] = m[f]
  BY <1>6, ColumnsOfALocation DEF Location
<1>10. PlaceOf(n) \in Places \/ PlaceOf(r) \notin Places
  <2> HIDE DEF n
  <2>1. PlaceOf(n) = [f \in Location |-> m[f]]
    BY <1>9 DEF PlaceOf, Restrict
  <2>2. CASE "district" \in DOMAIN p
    <3>1. Location \subseteq DOMAIN p
      BY <2>2, <1>2, <1>4
    <3>2. \A f \in Location : m[f] = p[f]
      BY <3>1, ColumnsOfALocation
    <3>3. PlaceOf(n) = PlaceOf(p)
      BY <2>1, <3>2 DEF PlaceOf, Restrict
    <3> QED
      BY <2>2, <1>3, <3>3
  <2>3. CASE "district" \notin DOMAIN p
    <3>1. DOMAIN p \cap Location = {}
      BY <2>3, <1>2, <1>4
    <3>2. \A f \in Location : m[f] = r[f]
      BY <3>1, ColumnsOfALocation
    <3>3. PlaceOf(n) = PlaceOf(r)
      BY <2>1, <3>2 DEF PlaceOf, Restrict
    <3> QED
      BY <3>3
  <2> QED
    BY <2>2, <2>3
<1> QED
  BY <1>1, <1>7, <1>8, <1>10

-----------------------------------------------------------------------------
(* Ratings                                                                   *)

Given == [Orders -> Ratings \cup {0}]

(* Five stars at most for each review: an average of at most 500 hundredths. *)
LEMMA AverageIsBounded ==
  ASSUME NEW s \in Nat, NEW n \in Nat, s <= n * 5
  PROVE  Hundredths(s, n) \in 0 .. 500
<1>1. CASE n = 0
  BY <1>1 DEF Hundredths
<1>2. CASE n # 0
  <2> DEFINE x == 200 * s + n
             y == 2 * n
             q == x \div y
  <2>1. x \in Nat /\ y \in Nat /\ y > 0 /\ 2 * x <= 2002 * n
    BY <1>2
  <2>2. 2 * x < 1002 * y
    BY <1>2, <2>1
  <2>3. q \in Int /\ q >= 0 /\ q <= 500
    <3> HIDE DEF x, y
    <3>1. q \in Int /\ y * q <= x /\ x < y * (q + 1)
      BY <2>1
    <3>2. q >= 0
      BY <3>1, <2>1
    <3>3. q <= 500
      <4> SUFFICES ASSUME q >= 501 PROVE FALSE
        BY <3>1
      <4> HIDE DEF q
      <4>1. y * q >= y * 501
        BY <2>1, <3>1
      <4> QED
        BY <4>1, <3>1, <2>1, <2>2
    <3> QED
      BY <3>1, <3>2, <3>3
  <2>4. Hundredths(s, n) = q
    BY <1>2 DEF Hundredths
  <2> QED
    BY <2>3, <2>4
<1> QED
  BY <1>1, <1>2

LEMMA ReviewedIsFinite ==
  ASSUME NEW t, NEW given
  PROVE  /\ IsFiniteSet(Reviewed(t, given))
         /\ Cardinality(Reviewed(t, given)) \in Nat
         /\ Cardinality(Reviewed(t, given)) = 0 <=> Reviewed(t, given) = {}
<1>1. IsFiniteSet(Orders) /\ Reviewed(t, given) \in SUBSET Orders
  BY OrdersAssumption DEF Reviewed
<1>2. IsFiniteSet(Reviewed(t, given))
  BY <1>1, FS_Subset
<1>3. Cardinality(Reviewed(t, given)) \in Nat
  BY <1>2, FS_CardinalityType
<1>4. Cardinality(Reviewed(t, given)) = 0 <=> Reviewed(t, given) = {}
  BY <1>2, FS_EmptySet
<1> QED
  BY <1>2, <1>3, <1>4

LEMMA StarsAreBounded ==
  ASSUME NEW t, NEW given \in Given
  PROVE  /\ Cardinality(Stars(t, given)) \in Nat
         /\ Cardinality(Stars(t, given)) <= Cardinality(Reviewed(t, given)) * 5
<1> DEFINE R == Reviewed(t, given)
<1>1. IsFiniteSet(1 .. 5) /\ Cardinality(1 .. 5) = 5
  <2>1. IsFiniteSet(1 .. 5) /\ Cardinality(1 .. 5) = IF 1 > 5 THEN 0 ELSE 5 - 1 + 1
    <3> 1 \in Int /\ 5 \in Int
      OBVIOUS
    <3> QED
      BY FS_Interval, Zenon
  <2> QED
    BY <2>1
<1>2. IsFiniteSet(R)
  BY ReviewedIsFinite
<1>3. IsFiniteSet(R \X (1 .. 5)) /\ Cardinality(R \X (1 .. 5)) = Cardinality(R) * 5
  BY <1>1, <1>2, FS_Product
<1>4. Stars(t, given) \in SUBSET (R \X (1 .. 5))
  <2>1. ASSUME NEW o \in R PROVE {o} \X (1 .. given[o]) \subseteq R \X (1 .. 5)
    <3>1. given[o] \in 1 .. 5
      BY OrdersAssumption DEF Reviewed, Given
    <3>2. 1 .. given[o] \subseteq 1 .. 5
      BY <3>1
    <3> QED
      BY <3>2
  <2> QED
    BY <2>1 DEF Stars
<1>5. IsFiniteSet(Stars(t, given)) /\ Cardinality(Stars(t, given)) <= Cardinality(R \X (1 .. 5))
  BY <1>3, <1>4, FS_Subset
<1>6. Cardinality(Stars(t, given)) \in Nat
  BY <1>5, FS_CardinalityType
<1> QED
  BY <1>3, <1>5, <1>6

LEMMA StatsAreRated ==
  ASSUME NEW t, NEW given \in Given
  PROVE  /\ Stats(t, given) \in Rated
         /\ Stats(t, given).count = Cardinality(Reviewed(t, given))
<1>1. /\ Cardinality(Reviewed(t, given)) \in Nat
      /\ Cardinality(Stars(t, given)) \in Nat
      /\ Cardinality(Stars(t, given)) <= Cardinality(Reviewed(t, given)) * 5
  BY ReviewedIsFinite, StarsAreBounded
<1>2. Hundredths(Cardinality(Stars(t, given)), Cardinality(Reviewed(t, given))) \in 0 .. 500
  BY <1>1, AverageIsBounded
<1> QED
  BY <1>1, <1>2 DEF Stats, Rated

(* Only the reviews of a technician's own orders count.                      *)
LEMMA StatsAreOfOwnOrders ==
  ASSUME NEW t, NEW a, NEW b,
         \A o \in Orders : TechnicianOf[o] = t => a[o] = b[o]
  PROVE  Reviewed(t, a) = Reviewed(t, b) /\ Stats(t, a) = Stats(t, b)
<1>1. Reviewed(t, a) = Reviewed(t, b)
  BY DEF Reviewed
<1>2. \A o \in Reviewed(t, b) : {o} \X (1 .. a[o]) = {o} \X (1 .. b[o])
  BY DEF Reviewed
<1>3. Stars(t, a) = Stars(t, b)
  BY <1>1, <1>2 DEF Stars
<1> QED
  BY <1>1, <1>3 DEF Stats

LEMMA MoreReviewsCountMore ==
  ASSUME NEW t, NEW a, NEW b, \A o \in Orders : a[o] # 0 => b[o] # 0
  PROVE  Cardinality(Reviewed(t, a)) <= Cardinality(Reviewed(t, b))
<1>1. Reviewed(t, a) \in SUBSET Reviewed(t, b) /\ IsFiniteSet(Reviewed(t, b))
  BY ReviewedIsFinite DEF Reviewed
<1> QED
  BY <1>1, FS_Subset

-----------------------------------------------------------------------------
(* The steps of one call                                                     *)

CallStep(c) ==
    \/ \E t \in Technicians : EditRead(c, t)
    \/ EditCommit(c)
    \/ \E o \in Orders, n \in Ratings : ReviewRead(c, o, n)
    \/ ReviewInsert(c) \/ ReviewCommit(c)
    \/ \E p \in Places, w \in BOOLEAN : Search(c, p, w)
    \/ SearchPage(c) \/ SearchWidens(c) \/ SearchAnswers(c)
    \/ Abandon(c)

LEMMA CallGoes ==
  ASSUME RowInv, NEW c \in Calls, NEW x, Goes(c, x)
  PROVE  /\ call'[c] = x
         /\ \A k \in Calls \ {c} : call'[k] = call[k]
         /\ call' = [k \in Calls |-> call'[k]]
BY DEF RowInv, Goes

LEMMA CallEnds ==
  ASSUME RowInv, NEW c \in Calls, NEW others, Ends(c, others)
  PROVE  call'[c].at = "idle" /\ overlapped \ {c} \subseteq overlapped'
<1>1. call'[c] = Idle
  BY CallGoes DEF Ends
<1> QED
  BY <1>1 DEF Ends, Idle

LEMMA OtherCallsStay ==
  ASSUME RowInv, NEW c \in Calls, CallStep(c)
  PROVE  /\ \A k \in Calls \ {c} : call'[k] = call[k]
         /\ call' = [k \in Calls |-> call'[k]]
         /\ overlapped \ {c} \subseteq overlapped'
<1>1. /\ \A k \in Calls \ {c} : call'[k] = call[k]
      /\ call' = [k \in Calls |-> call'[k]]
  <2>1. \E x : call' = [call EXCEPT ![c] = x]
    <3>1. ASSUME NEW t, EditRead(c, t) PROVE \E x : call' = [call EXCEPT ![c] = x]
      BY <3>1 DEF EditRead, Goes
    <3>2. CASE EditCommit(c) \/ Abandon(c) \/ SearchAnswers(c) \/ ReviewCommit(c)
      BY <3>2 DEF EditCommit, Abandon, SearchAnswers, ReviewCommit, Ends, Goes
    <3>3. CASE ReviewInsert(c)
      BY <3>3 DEF ReviewInsert, Ends, Goes
    <3>4. ASSUME NEW o, NEW n, ReviewRead(c, o, n)
          PROVE \E x : call' = [call EXCEPT ![c] = x]
      BY <3>4 DEF ReviewRead, Goes
    <3>5. ASSUME NEW q, NEW w, Search(c, q, w) PROVE \E x : call' = [call EXCEPT ![c] = x]
      BY <3>5 DEF Search, Goes
    <3>6. CASE SearchPage(c) \/ SearchWidens(c)
      BY <3>6 DEF SearchPage, SearchWidens, Goes
    <3> QED
      BY <3>1, <3>2, <3>3, <3>4, <3>5, <3>6 DEF CallStep
  <2> QED
    BY <2>1 DEF RowInv
<1>2. overlapped \ {c} \subseteq overlapped'
  BY DEF CallStep, EditRead, EditCommit, Abandon, SearchAnswers, ReviewCommit, ReviewInsert,
     ReviewRead, Search, SearchPage, SearchWidens, Ends
<1> QED
  BY <1>1, <1>2

(* Where a call goes that is neither of a kind before nor begins it.         *)
LEMMA CallsKeepToTheirKind ==
  ASSUME RowInv, NEW c \in Calls, CallStep(c)
  PROVE  /\ (\A t \in Technicians : ~EditRead(c, t)) => call'[c].at # "edit"
         /\ (\A o \in Orders, n \in Ratings : ~ReviewRead(c, o, n)) /\ ~ReviewInsert(c)
               => call'[c].at \notin {"review", "counted"}
         /\ ~ReviewInsert(c) => call'[c].at # "counted"
         /\ ~(\E p \in Places, w \in BOOLEAN : Search(c, p, w)) /\ ~SearchPage(c)
              /\ ~SearchWidens(c) => call'[c].at \notin {"search", "page"}
<1>1. ASSUME NEW t \in Technicians, EditRead(c, t) PROVE call'[c].at = "edit"
  BY <1>1, CallGoes DEF EditRead
<1>2. CASE EditCommit(c) \/ Abandon(c) \/ SearchAnswers(c) \/ ReviewCommit(c)
  <2>1. call'[c].at = "idle"
    BY <1>2, CallEnds DEF EditCommit, Abandon, SearchAnswers, ReviewCommit
  <2> QED
    BY <2>1
<1>3. CASE ReviewInsert(c)
  <2>1. call'[c].at \in {"idle", "counted"}
    BY <1>3, CallEnds, CallGoes DEF ReviewInsert
  <2> QED
    BY <1>3, <2>1
<1>4. ASSUME NEW o \in Orders, NEW n \in Ratings, ReviewRead(c, o, n)
      PROVE call'[c].at = "review"
  BY <1>4, CallGoes DEF ReviewRead
<1>5. ASSUME NEW q \in Places, NEW w \in BOOLEAN, Search(c, q, w)
      PROVE call'[c].at = "search"
  BY <1>5, CallGoes DEF Search
<1>6. CASE SearchPage(c) \/ SearchWidens(c)
  <2>1. call'[c].at \in {"search", "page"}
    BY <1>6, CallGoes DEF SearchPage, SearchWidens
  <2> QED
    BY <1>6, <2>1
<1> QED
  BY <1>1, <1>2, <1>3, <1>4, <1>5, <1>6 DEF CallStep

(* ... and what it leaves alone.                                             *)
LEMMA TablesOfOthersStay ==
  ASSUME NEW c \in Calls, CallStep(c)
  PROVE  /\ ~EditCommit(c) => row' = row
         /\ ~ReviewCommit(c) => reviews' = reviews /\ rating' = rating
BY DEF CallStep, EditRead, EditCommit, Abandon, SearchAnswers, ReviewCommit, ReviewInsert,
   ReviewRead, Search, SearchPage, SearchWidens

-----------------------------------------------------------------------------
(* Edits                                                                     *)

LEMMA RowStep == RowInv /\ EditInv /\ [Next]_vars => RowInv'
<1> SUFFICES ASSUME RowInv, EditInv, [Next]_vars PROVE RowInv'
  OBVIOUS
<1>1. ASSUME NEW c \in Calls, CallStep(c) PROVE RowInv'
  <2>1. call' = [k \in Calls |-> call'[k]]
    BY <1>1, OtherCallsStay
  <2>2. CASE ~EditCommit(c)
    <3>1. row' = row
      BY <1>1, <2>2, TablesOfOthersStay
    <3> QED
      BY <2>1, <3>1 DEF RowInv
  <2>3. CASE EditCommit(c)
    <3> DEFINE u == call[c].of
               n == Store(row[u], call[c].write)
    <3>1. row' = [row EXCEPT ![u] = n]
      BY <2>3 DEF EditCommit
    <3>2. u \in Technicians /\ Profile(n)
      BY <2>3, StoreKeepsProfile DEF EditCommit, EditInv, RowInv
    <3> HIDE DEF u, n
    <3>3. row' = [t \in Technicians |-> row'[t]]
      BY <3>1 DEF RowInv
    <3>4. \A t \in Technicians : row'[t] = IF t = u THEN n ELSE row[t]
      BY <3>1, <3>2 DEF RowInv
    <3>5. \A t \in Technicians : Profile(row'[t])
      BY <3>2, <3>4 DEF RowInv
    <3> QED
      BY <2>1, <3>3, <3>5 DEF RowInv, Profile
  <2> QED
    BY <2>2, <2>3
<1>2. CASE UNCHANGED vars
  BY <1>2 DEF vars, RowInv, Profile
<1> QED
  BY <1>1, <1>2 DEF Next, CallStep

LEMMA EditStep == RowInv /\ EditInv /\ [Next]_vars => EditInv'
<1> SUFFICES ASSUME RowInv, EditInv, [Next]_vars PROVE EditInv'
  OBVIOUS
<1>1. ASSUME NEW c \in Calls, CallStep(c) PROVE EditInv'
  <2> SUFFICES ASSUME NEW k \in Calls, call'[k].at = "edit"
               PROVE  LET w == call'[k].write
                          old == row'[call'[k].of]
                      IN /\ call'[k].of \in Technicians
                         /\ DOMAIN w \subseteq Columns
                         /\ \A f \in DOMAIN w : w[f] \in Values(f)
                         /\ k \notin overlapped' =>
                               /\ Valid(Store(old, w))
                               /\ \/ PlaceOf(Store(old, w)) \in Places
                                  \/ PlaceOf(old) \notin Places
    BY DEF EditInv
  <2>1. ASSUME k # c, ~EditCommit(c) PROVE row' = row /\ call'[k] = call[k]
                                           /\ (k \notin overlapped' => k \notin overlapped)
    BY <1>1, <2>1, OtherCallsStay, TablesOfOthersStay
  <2>2. CASE k # c /\ ~EditCommit(c)
    BY <2>1, <2>2 DEF EditInv
  <2>3. CASE k # c /\ EditCommit(c)
    <3>1. call'[k] = call[k] /\ (k \notin overlapped' => k \notin overlapped)
      BY <1>1, <2>3, OtherCallsStay
    <3>2. k \notin overlapped' => call[k].of # call[c].of
      BY <2>3, <3>1 DEF EditCommit, Ends
    <3>3. call[k].of # call[c].of => row'[call[k].of] = row[call[k].of]
      <4>1. row' = [row EXCEPT ![call[c].of] = Store(row[call[c].of], call[c].write)]
        BY <2>3 DEF EditCommit
      <4>2. call[k].of \in Technicians
        BY <3>1 DEF EditInv
      <4> QED
        BY <4>1, <4>2 DEF RowInv
    <3> QED
      BY <3>1, <3>2, <3>3 DEF EditInv
  <2>4. CASE k = c
    <3>1. PICK t \in Technicians : EditRead(c, t)
      BY <1>1, <2>4, CallsKeepToTheirKind
    <3>2. PICK p \in Payloads[t] :
             /\ Resolved(p) /\ Offers(Merge(row[t], p))
             /\ Goes(c, [at |-> "edit", of |-> t,
                         write |-> Changes(row[t], Merge(row[t], p))])
      BY <3>1 DEF EditRead
    <3> DEFINE n == Merge(row[t], p)
               w == Changes(row[t], n)
    <3>3. call'[c] = [at |-> "edit", of |-> t, write |-> w]
      BY <3>2, CallGoes
    <3>4. /\ Profile(n) /\ Valid(n)
          /\ PlaceOf(n) \in Places \/ PlaceOf(row[t]) \notin Places
      BY <3>2, MergeIsWhole DEF RowInv
    <3>5. row' = row
      BY <3>1 DEF EditRead
    <3> HIDE DEF n
    <3>6. DOMAIN w \subseteq Columns /\ \A f \in DOMAIN w : w[f] \in Values(f)
      BY <3>4 DEF Changes, Restrict, Profile
    <3>7. Store(row[t], w) = n
      BY <3>4, ChangesMakeTheDifference DEF Profile
    <3> HIDE DEF w
    <3> QED
      BY <2>4, <3>3, <3>4, <3>5, <3>6, <3>7
  <2> QED
    BY <2>2, <2>3, <2>4
<1>2. CASE UNCHANGED vars
  BY <1>2 DEF vars, EditInv
<1> QED
  BY <1>1, <1>2 DEF Next, CallStep

-----------------------------------------------------------------------------
(* Reviews                                                                   *)

(* What a call that has read its order knows when it inserts the row.        *)
LEMMA InsertCounts ==
  ASSUME TypeOK, RowInv, ReviewInv, NEW c \in Calls, Reviews(c)
  PROVE  LET t == TheirTechnician(c)
         IN /\ t \in Technicians
            /\ Flushed(c) \in Given
            /\ Stats(t, Flushed(c)) \in Rated
            /\ Stats(t, Flushed(c)).count = Cardinality(Reviewed(t, Flushed(c)))
            /\ Stats(t, Flushed(c)).count \in 1 .. Cardinality(Reviewed(t, Flushed(c)))
<1> DEFINE t == TheirTechnician(c)
           o == call[c].order
           R == Reviewed(t, Flushed(c))
<1>1. o \in Orders /\ call[c].stars \in Ratings
  BY DEF ReviewInv
<1>2. t \in Technicians
  BY <1>1, OrdersAssumption DEF TheirTechnician
<1>3. Flushed(c) \in Given
  BY <1>1 DEF Flushed, Given, TypeOK
<1>4. Stats(t, Flushed(c)) \in Rated /\ Stats(t, Flushed(c)).count = Cardinality(R)
  BY <1>3, StatsAreRated
<1>5. o \in R
  <2>1. Flushed(c)[o] = call[c].stars /\ call[c].stars # 0
    BY <1>1, OrdersAssumption DEF Flushed, TypeOK
  <2> QED
    BY <1>1, <2>1 DEF Reviewed, TheirTechnician
<1>6. Cardinality(R) \in Nat /\ Cardinality(R) # 0
  BY <1>5, ReviewedIsFinite
<1>7. Cardinality(R) \in 1 .. Cardinality(R)
  BY <1>6
<1> QED
  BY <1>2, <1>3, <1>4, <1>7

(* The figures a commit leaves are the ones it counted, or the ones that     *)
(* were there of a technician who had reviews.                               *)
LEMMA CommitWrites ==
  ASSUME TypeOK, RowInv, ReviewInv, CountedInv, NEW c \in Calls, ReviewCommit(c)
  PROVE  LET t == TheirTechnician(c)
         IN /\ t \in Technicians
            /\ reviews' = Flushed(c) /\ reviews' \in Given
            /\ \A u \in Technicians \ {t} : rating'[u] = rating[u]
            /\ rating' \in [Technicians -> Rated]
            /\ rating'[t].count # 0
            /\ rating'[t].count \in {call[c].stats.count, rating[t].count}
            /\ call[c].stats.count \in 1 .. Cardinality(Reviewed(t, reviews'))
            /\ c \notin overlapped => rating'[t] = Stats(t, reviews')
<1> DEFINE t == TheirTechnician(c)
           old == rating[t]
           stats == call[c].stats
           seen == call[c].seen
           avg == IF stats.avg = seen.avg THEN old.avg ELSE stats.avg
           count == IF stats.count = seen.count THEN old.count ELSE stats.count
<1>1. call[c].at = "counted" /\ Reviews(c)
  BY DEF ReviewCommit, Reviews
<1>2. t \in Technicians /\ Flushed(c) \in Given
  BY <1>1, InsertCounts
<1>3. reviews' = Flushed(c)
  BY DEF ReviewCommit, Flushed
<1>4. rating' = [rating EXCEPT ![t] = [avg |-> avg, count |-> count]]
  BY DEF ReviewCommit, TheirTechnician
<1>5. rating \in [Technicians -> Rated]
  BY DEF TypeOK, Rated
<1>6. /\ stats \in Rated /\ seen \in Rated
      /\ stats.count \in 1 .. Cardinality(Reviewed(t, Flushed(c)))
      /\ seen.count # 0 => old.count # 0
      /\ c \notin overlapped => seen = old /\ stats = Stats(t, Flushed(c))
  BY <1>1 DEF ReviewInv, CountedInv
<1>7. old \in Rated
  BY <1>2, <1>5
<1> HIDE DEF t, old, stats, seen
<1>8. [avg |-> avg, count |-> count] \in Rated
  BY <1>6, <1>7 DEF Rated
<1>9. rating'[t] = [avg |-> avg, count |-> count]
  BY <1>2, <1>4, <1>5
<1>10. /\ rating' \in [Technicians -> Rated]
       /\ \A u \in Technicians \ {t} : rating'[u] = rating[u]
  BY <1>2, <1>4, <1>5, <1>8
<1>11. count # 0 /\ count \in {stats.count, old.count}
  BY <1>6
<1>12. c \notin overlapped => [avg |-> avg, count |-> count] = stats
  <2>1. stats = [avg |-> stats.avg, count |-> stats.count]
    BY <1>6 DEF Rated
  <2> QED
    BY <1>6, <2>1
<1>13. rating'[t].count = count
  BY <1>9
<1> QED
  BY <1>2, <1>3, <1>6, <1>9, <1>10, <1>11, <1>12, <1>13 DEF t, old, stats

LEMMA TypeStep ==
  TypeOK /\ RowInv /\ EditInv /\ ReviewInv /\ CountedInv /\ [Next]_vars => TypeOK'
<1> SUFFICES ASSUME TypeOK, RowInv, EditInv, ReviewInv, CountedInv, [Next]_vars
             PROVE  TypeOK'
  OBVIOUS
<1>1. ASSUME NEW c \in Calls, CallStep(c) PROVE TypeOK'
  <2>1. \A t \in Technicians : Profile(row'[t])
    BY RowStep DEF RowInv, Profile
  <2>2. \A t \in Technicians : DOMAIN row'[t] = Columns
    BY <2>1 DEF Profile
  <2>3. /\ reviews' \in [Orders -> Ratings \cup {0}]
        /\ rating' \in [Technicians -> [avg : 0 .. 500, count : Nat]]
    <3>1. CASE ReviewCommit(c)
      BY <3>1, CommitWrites DEF Given, Rated
    <3>2. CASE ~ReviewCommit(c)
      BY <1>1, <3>2, TablesOfOthersStay DEF TypeOK
    <3> QED
      BY <3>1, <3>2
  <2>4. call'[c].at \in {"idle", "edit", "review", "counted", "search", "page"}
    <3>1. ASSUME NEW t \in Technicians, EditRead(c, t) PROVE call'[c].at = "edit"
      BY <3>1, CallGoes DEF EditRead
    <3>2. CASE EditCommit(c) \/ Abandon(c) \/ SearchAnswers(c) \/ ReviewCommit(c)
      <4>1. call'[c].at = "idle"
        BY <3>2, CallEnds DEF EditCommit, Abandon, SearchAnswers, ReviewCommit
      <4> QED
        BY <4>1
    <3>3. CASE ReviewInsert(c)
      <4>1. call'[c].at \in {"idle", "counted"}
        BY <3>3, CallEnds, CallGoes DEF ReviewInsert
      <4> QED
        BY <4>1
    <3>4. ASSUME NEW o \in Orders, NEW n \in Ratings, ReviewRead(c, o, n)
          PROVE  call'[c].at = "review"
      BY <3>4, CallGoes DEF ReviewRead
    <3>5. ASSUME NEW q \in Places, NEW w \in BOOLEAN, Search(c, q, w)
          PROVE  call'[c].at = "search"
      BY <3>5, CallGoes DEF Search
    <3>6. CASE SearchPage(c) \/ SearchWidens(c)
      <4>1. call'[c].at \in {"search", "page"}
        BY <3>6, CallGoes DEF SearchPage, SearchWidens
      <4> QED
        BY <4>1
    <3> QED
      BY <1>1, <3>1, <3>2, <3>3, <3>4, <3>5, <3>6 DEF CallStep
  <2>5. \A k \in Calls : call'[k].at \in {"idle", "edit", "review", "counted",
                                         "search", "page"}
    BY <1>1, <2>4, OtherCallsStay DEF TypeOK
  <2>6. overlapped' \subseteq Calls
    BY <1>1 DEF TypeOK, CallStep, EditRead, EditCommit, Abandon, SearchAnswers,
       ReviewCommit, ReviewInsert, ReviewRead, Search, SearchPage, SearchWidens, Ends
  <2> QED
    BY <2>1, <2>2, <2>3, <2>5, <2>6 DEF TypeOK, Profile
<1>2. CASE UNCHANGED vars
  BY <1>2 DEF vars, TypeOK
<1> QED
  BY <1>1, <1>2 DEF Next, CallStep

LEMMA ReviewStep ==
  TypeOK /\ RowInv /\ ReviewInv /\ CountedInv /\ [Next]_vars => ReviewInv'
<1> SUFFICES ASSUME TypeOK, RowInv, ReviewInv, CountedInv, [Next]_vars
             PROVE  ReviewInv'
  OBVIOUS
<1>1. ASSUME NEW c \in Calls, CallStep(c) PROVE ReviewInv'
  <2> SUFFICES ASSUME NEW k \in Calls, call'[k].at \in {"review", "counted"}
               PROVE  LET t == TechnicianOf[call'[k].order]
                      IN /\ call'[k].order \in Orders /\ call'[k].stars \in Ratings
                         /\ call'[k].seen \in Rated
                         /\ call'[k].seen.count # 0 => rating'[t].count # 0
                         /\ k \notin overlapped' => call'[k].seen = rating'[t]
    BY DEF ReviewInv, Reviews, TheirTechnician
  <2>1. CASE k # c
    <3>1. call'[k] = call[k] /\ (k \notin overlapped' => k \notin overlapped)
      BY <1>1, <2>1, OtherCallsStay
    <3>2. Reviews(k)
      BY <3>1 DEF Reviews
    <3>3. TechnicianOf[call[k].order] \in Technicians
      BY <3>2, InsertCounts DEF TheirTechnician
    <3>4. CASE ~ReviewCommit(c)
      <4>1. rating' = rating
        BY <1>1, <3>4, TablesOfOthersStay
      <4> QED
        BY <3>1, <3>2, <4>1 DEF ReviewInv, TheirTechnician
    <3>5. CASE ReviewCommit(c)
      <4>1. /\ rating'[TheirTechnician(c)].count # 0
            /\ \A u \in Technicians \ {TheirTechnician(c)} : rating'[u] = rating[u]
        BY <3>5, CommitWrites
      <4>2. TechnicianOf[call[k].order] = TheirTechnician(c) => k \in overlapped'
        BY <2>1, <3>2, <3>5 DEF ReviewCommit, Ends, Reviews, TheirTechnician
      <4> QED
        BY <3>1, <3>2, <3>3, <4>1, <4>2 DEF ReviewInv, TheirTechnician
    <3> QED
      BY <3>4, <3>5
  <2>2. CASE k = c
    <3>1. CASE ReviewInsert(c)
      <4>1. Inserted(c)
        <5>1. ~Inserted(c) => call'[c].at = "idle"
          BY <3>1, CallEnds DEF ReviewInsert
        <5> QED
          BY <2>2, <5>1
      <4>2. /\ call'[c].order = call[c].order /\ call'[c].stars = call[c].stars
            /\ call'[c].seen = call[c].seen
        BY <3>1, <4>1, CallGoes DEF ReviewInsert
      <4>3. Reviews(c) /\ rating' = rating /\ overlapped' = overlapped
        BY <3>1, <4>1 DEF ReviewInsert, Reviews
      <4> QED
        BY <2>2, <4>2, <4>3 DEF ReviewInv, TheirTechnician
    <3>2. CASE ~ReviewInsert(c)
      <4>1. PICK o \in Orders, n \in Ratings : ReviewRead(c, o, n)
        BY <1>1, <2>2, <3>2, CallsKeepToTheirKind
      <4>2. call'[c] = [at |-> "review", order |-> o, stars |-> n,
                        seen |-> rating[TechnicianOf[o]]]
        BY <4>1, CallGoes DEF ReviewRead
      <4>3. rating' = rating /\ rating[TechnicianOf[o]] \in Rated
        BY <4>1, OrdersAssumption DEF ReviewRead, TypeOK, Rated
      <4> QED
        BY <2>2, <4>2, <4>3
    <3> QED
      BY <3>1, <3>2
  <2> QED
    BY <2>1, <2>2
<1>2. CASE UNCHANGED vars
  BY <1>2 DEF vars, ReviewInv, Reviews, TheirTechnician
<1> QED
  BY <1>1, <1>2 DEF Next, CallStep

LEMMA CountedStep ==
  TypeOK /\ RowInv /\ ReviewInv /\ CountedInv /\ [Next]_vars => CountedInv'
<1> SUFFICES ASSUME TypeOK, RowInv, ReviewInv, CountedInv, [Next]_vars
             PROVE  CountedInv'
  OBVIOUS
<1>1. ASSUME NEW c \in Calls, CallStep(c) PROVE CountedInv'
  <2> SUFFICES ASSUME NEW k \in Calls, call'[k].at = "counted"
               PROVE  LET o == call'[k].order
                          t == TechnicianOf[o]
                          given == [reviews' EXCEPT ![o] = call'[k].stars]
                      IN /\ reviews'[o] = 0
                         /\ \A d \in Calls \ {k} : call'[d].at = "counted"
                                                    => call'[d].order # o
                         /\ call'[k].stats \in Rated
                         /\ call'[k].stats.count \in 1 .. Cardinality(Reviewed(t, given))
                         /\ k \notin overlapped' => call'[k].stats = Stats(t, given)
    BY DEF CountedInv, InsertFree, TheirTechnician, Flushed
  <2>1. CASE k = c
    <3>1. ReviewInsert(c)
      BY <1>1, <2>1, CallsKeepToTheirKind
    <3>2. Inserted(c)
      <4>1. ~Inserted(c) => call'[c].at = "idle"
        BY <3>1, CallEnds DEF ReviewInsert
      <4> QED
        BY <2>1, <4>1
    <3>3. /\ call'[c].order = call[c].order /\ call'[c].stars = call[c].stars
          /\ call'[c].stats = Stats(TheirTechnician(c), Flushed(c))
      BY <3>1, <3>2, CallGoes DEF ReviewInsert, TheirTechnician
    <3>4. Reviews(c) /\ InsertFree(c) /\ reviews' = reviews /\ reviews[call[c].order] = 0
      BY <3>1, <3>2 DEF ReviewInsert, Reviews, Inserted
    <3>5. /\ Stats(TheirTechnician(c), Flushed(c)) \in Rated
          /\ Stats(TheirTechnician(c), Flushed(c)).count
                 \in 1 .. Cardinality(Reviewed(TheirTechnician(c), Flushed(c)))
      BY <3>4, InsertCounts
    <3>6. \A d \in Calls \ {c} : call'[d].at = "counted" => call'[d].order # call[c].order
      BY <1>1, <3>4, OtherCallsStay DEF InsertFree
    <3> QED
      BY <2>1, <3>3, <3>4, <3>5, <3>6 DEF TheirTechnician, Flushed
  <2>2. CASE k # c
    <3>1. call'[k] = call[k] /\ (k \notin overlapped' => k \notin overlapped)
      BY <1>1, <2>2, OtherCallsStay
    <3>2. /\ Reviews(k) /\ reviews[call[k].order] = 0 /\ InsertFree(k)
          /\ call[k].stats \in Rated
          /\ call[k].stats.count \in 1 .. Cardinality(Reviewed(TheirTechnician(k), Flushed(k)))
          /\ k \notin overlapped => call[k].stats = Stats(TheirTechnician(k), Flushed(k))
      BY <3>1 DEF CountedInv, Reviews
    <3>3. \A d \in Calls \ {k} : call'[d].at = "counted" => call'[d].order # call[k].order
      <4> SUFFICES ASSUME NEW d \in Calls \ {k}, call'[d].at = "counted"
                   PROVE  call'[d].order # call[k].order
        OBVIOUS
      <4>1. CASE d # c
        BY <1>1, <3>2, <4>1, OtherCallsStay DEF InsertFree
      <4>2. CASE d = c
        <5>1. ReviewInsert(c)
          BY <1>1, <4>2, CallsKeepToTheirKind
        <5>2. Inserted(c)
          <6>1. ~Inserted(c) => call'[c].at = "idle"
            BY <5>1, CallEnds DEF ReviewInsert
          <6> QED
            BY <4>2, <6>1
        <5>3. call'[c].order = call[c].order
          BY <5>1, <5>2, CallGoes DEF ReviewInsert
        <5>4. call[k].order # call[c].order
          BY <2>2, <3>1, <5>1 DEF ReviewInsert, InsertFree
        <5> QED
          BY <4>2, <5>3, <5>4
      <4> QED
        BY <4>1, <4>2
    <3>4. CASE ~ReviewCommit(c)
      <4>1. reviews' = reviews
        BY <1>1, <3>4, TablesOfOthersStay
      <4> QED
        BY <3>1, <3>2, <3>3, <4>1 DEF TheirTechnician, Flushed
    <3>5. CASE ReviewCommit(c)
      <4> DEFINE o == call[k].order
                 t == TechnicianOf[o]
                 p == call[c].order
                 now == [reviews' EXCEPT ![o] = call[k].stars]
      <4>1. call[c].at = "counted" /\ reviews' = [reviews EXCEPT ![p] = call[c].stars]
        BY <3>5 DEF ReviewCommit
      <4>2. o # p /\ o \in Orders /\ p \in Orders /\ reviews \in Given
            /\ call[c].stars \in Ratings
        BY <2>2, <3>2, <4>1 DEF InsertFree, ReviewInv, Reviews, TypeOK, Given
      <4>3. reviews'[o] = 0
        BY <3>2, <4>1, <4>2 DEF Given
      <4>4. \A x \in Orders : Flushed(k)[x] # now[x] => x = p /\ now[x] # 0
        BY <4>1, <4>2, OrdersAssumption DEF Flushed, Given
      <4>5. Cardinality(Reviewed(t, Flushed(k))) <= Cardinality(Reviewed(t, now))
        BY <4>4, MoreReviewsCountMore
      <4>6. call[k].stats.count \in 1 .. Cardinality(Reviewed(t, now))
        <5>1. /\ Cardinality(Reviewed(t, Flushed(k))) \in Nat
              /\ Cardinality(Reviewed(t, now)) \in Nat
          BY ReviewedIsFinite
        <5>2. call[k].stats.count \in 1 .. Cardinality(Reviewed(t, Flushed(k)))
          BY <3>2 DEF TheirTechnician
        <5> HIDE DEF now, t, o
        <5> QED
          BY <4>5, <5>1, <5>2
      <4>7. k \notin overlapped' => TechnicianOf[p] # t
        BY <2>2, <3>1, <3>5 DEF ReviewCommit, Ends
      <4>8. TechnicianOf[p] # t => Stats(t, Flushed(k)) = Stats(t, now)
        <5>1. TechnicianOf[p] # t
                 => \A x \in Orders : TechnicianOf[x] = t => Flushed(k)[x] = now[x]
          BY <4>4
        <5> HIDE DEF now, t, o
        <5> QED
          BY <5>1, StatsAreOfOwnOrders
      <4>9. k \notin overlapped' => call[k].stats = Stats(t, now)
        BY <3>1, <3>2, <4>7, <4>8 DEF TheirTechnician
      <4> QED
        BY <3>1, <3>2, <3>3, <4>3, <4>6, <4>9
    <3> QED
      BY <3>4, <3>5
  <2> QED
    BY <2>1, <2>2
<1>2. CASE UNCHANGED vars
  BY <1>2 DEF vars, CountedInv, InsertFree, TheirTechnician, Flushed
<1> QED
  BY <1>1, <1>2 DEF Next, CallStep

LEMMA CountStep ==
  TypeOK /\ RowInv /\ ReviewInv /\ CountedInv /\ CountIsOfReviews /\ [Next]_vars
     => CountIsOfReviews'
<1> SUFFICES ASSUME TypeOK, RowInv, ReviewInv, CountedInv, CountIsOfReviews, [Next]_vars
             PROVE  CountIsOfReviews'
  OBVIOUS
<1>1. ASSUME NEW c \in Calls, CallStep(c) PROVE CountIsOfReviews'
  <2>1. CASE ~ReviewCommit(c)
    <3>1. reviews' = reviews /\ rating' = rating
      BY <1>1, <2>1, TablesOfOthersStay
    <3> QED
      BY <3>1 DEF CountIsOfReviews
  <2>2. CASE ReviewCommit(c)
    <3> DEFINE t == TheirTechnician(c)
               Count(u, given) == Cardinality(Reviewed(u, given))
    <3>1. /\ t \in Technicians /\ reviews' \in Given
          /\ \A u \in Technicians \ {t} : rating'[u] = rating[u]
          /\ rating' \in [Technicians -> Rated] /\ rating'[t].count # 0
          /\ rating'[t].count \in {call[c].stats.count, rating[t].count}
          /\ call[c].stats.count \in 1 .. Cardinality(Reviewed(t, reviews'))
      BY <2>2, CommitWrites
    <3>2. reviews \in Given /\ \A x \in Orders : reviews[x] # 0 => reviews'[x] # 0
      <4>1. reviews' = Flushed(c) /\ call[c].stars \in Ratings /\ reviews \in Given
        BY <2>2 DEF ReviewCommit, Flushed, ReviewInv, Reviews, TypeOK, Given
      <4> QED
        BY <4>1, OrdersAssumption DEF Flushed, Given
    <3>3. \A u : Stats(u, reviews').count = Count(u, reviews')
      BY <3>1, StatsAreRated
    <3>4. \A u : Stats(u, reviews).count = Count(u, reviews)
      BY <3>2, StatsAreRated
    <3>5. ASSUME NEW u \in Technicians
          PROVE  /\ rating'[u].count <= Count(u, reviews')
                 /\ rating'[u].count = 0 => Count(u, reviews') = 0
      <4>1. /\ rating[u].count <= Count(u, reviews) /\ rating[u].count \in Nat
            /\ rating[u].count = 0 => Count(u, reviews) = 0
        BY <3>4 DEF CountIsOfReviews, TypeOK
      <4>2. Count(u, reviews) \in Nat /\ Count(u, reviews') \in Nat
        BY ReviewedIsFinite
      <4>3. Count(u, reviews) <= Count(u, reviews')
        BY <3>2, MoreReviewsCountMore
      <4>4. CASE u = t
        BY <3>1, <4>1, <4>2, <4>3, <4>4
      <4>5. CASE u # t
        <5>1. Reviewed(u, reviews') = Reviewed(u, reviews)
          <6>1. reviews' = [reviews EXCEPT ![call[c].order] = call[c].stars]
            BY <2>2 DEF ReviewCommit
          <6>2. \A x \in Orders : TechnicianOf[x] = u => reviews[x] = reviews'[x]
            BY <3>2, <4>5, <6>1 DEF Given, TheirTechnician
          <6> QED
            BY <6>2, StatsAreOfOwnOrders
        <5> QED
          BY <3>1, <4>1, <4>5, <5>1
      <4> QED
        BY <4>4, <4>5
    <3> HIDE DEF Count
    <3>6. \A u \in Technicians : /\ rating'[u].count <= Stats(u, reviews').count
                                 /\ rating'[u].count = 0 => Stats(u, reviews').count = 0
      BY <3>3, <3>5
    <3> QED
      BY <3>6 DEF CountIsOfReviews
  <2> QED
    BY <2>1, <2>2
<1>2. CASE UNCHANGED vars
  BY <1>2 DEF vars, CountIsOfReviews
<1> QED
  BY <1>1, <1>2 DEF Next, CallStep

-----------------------------------------------------------------------------
(* Searches                                                                  *)

LEMMA LevelsOfASearch ==
  Levels[1] = "district" /\ Levels[2] = "province" /\ Levels[3] = "department"
BY DEF Levels

LEMMA PageIsOfItsLevel ==
  ASSUME NEW k, k.words \in BOOLEAN
  PROVE  Found(k.place, k.level, k.words) = Nearby(row, k, Levels[k.level])
BY DEF Found, Around, Nearby

(* A total of zero means nobody the search could show: if it is zero because *)
(* the words are nobody's name, they are no technician's either.             *)
LEMMA ZeroMeansNobody ==
  ASSUME NEW k, k.words \in BOOLEAN, Counted(k.place, k.level, k.words) = {}
  PROVE  Nearby(row, k, Levels[k.level]) = {}
<1>1. CASE k.words /\ ~SomeoneNamed
  <2>1. Named = {}
    BY <1>1, OrdersAssumption
  <2> QED
    BY <1>1, <2>1 DEF Nearby
<1>2. CASE ~(k.words /\ ~SomeoneNamed)
  <2>1. Around(k.place, k.level) = {}
    BY <1>2 DEF Counted
  <2> QED
    BY <2>1 DEF Around, Nearby
<1> QED
  BY <1>1, <1>2

LEMMA SearchStep == TypeOK /\ RowInv /\ SearchInv /\ [Next]_vars => SearchInv'
<1> SUFFICES ASSUME TypeOK, RowInv, SearchInv, [Next]_vars PROVE SearchInv'
  OBVIOUS
<1>1. ASSUME NEW c \in Calls, CallStep(c) PROVE SearchInv'
  <2> SUFFICES ASSUME NEW x \in Calls, call'[x].at \in {"search", "page"}
               PROVE  /\ call'[x].place \in Places /\ call'[x].words \in BOOLEAN
                      /\ call'[x].level \in 1 .. 3
                      /\ x \notin overlapped' => PassesNobody(row', call'[x])
    BY DEF SearchInv, PassesNobody, Nearby
  <2>1. CASE x # c
    <3>1. call'[x] = call[x] /\ (x \notin overlapped' => x \notin overlapped)
      BY <1>1, <2>1, OtherCallsStay
    <3>2. CASE EditCommit(c)
      <4>1. x \in overlapped'
        BY <2>1, <3>1, <3>2 DEF EditCommit, Ends
      <4> QED
        BY <3>1, <4>1 DEF SearchInv
    <3>3. CASE ~EditCommit(c)
      <4>1. row' = row
        BY <1>1, <3>3, TablesOfOthersStay
      <4> QED
        BY <3>1, <4>1 DEF SearchInv
    <3> QED
      BY <3>2, <3>3
  <2>2. CASE x = c
    <3>1. ASSUME NEW q \in Places, NEW w \in BOOLEAN, Search(c, q, w)
          PROVE  /\ call'[c].place \in Places /\ call'[c].words \in BOOLEAN
                 /\ call'[c].level \in 1 .. 3 /\ PassesNobody(row', call'[c])
      <4>1. call'[c] = [at |-> "search", place |-> q, words |-> w, level |-> 1]
        BY <3>1, CallGoes DEF Search
      <4> QED
        BY <4>1 DEF PassesNobody
    <3>2. CASE SearchPage(c)
      <4> DEFINE k == call[c]
                 items == Found(k.place, k.level, k.words)
      <4>1. call'[c] = [at |-> "page", place |-> k.place, words |-> k.words,
                        level |-> k.level, items |-> items]
        BY <3>2, CallGoes DEF SearchPage
      <4>2. /\ k.place \in Places /\ k.words \in BOOLEAN /\ k.level \in 1 .. 3
            /\ row' = row /\ overlapped' = overlapped
            /\ c \notin overlapped => PassesNobody(row, k)
        BY <3>2 DEF SearchPage, SearchInv
      <4>3. \A f : Nearby(row, call'[c], f) = Nearby(row, k, f)
        BY <4>1 DEF Nearby
      <4>4. items = Nearby(row, k, Levels[k.level])
        BY <4>2, PageIsOfItsLevel
      <4> HIDE DEF items, k
      <4> QED
        BY <2>2, <4>1, <4>2, <4>3, <4>4 DEF PassesNobody
    <3>3. CASE SearchWidens(c)
      <4> DEFINE k == call[c]
      <4>1. call'[c] = [at |-> "search", place |-> k.place, words |-> k.words,
                        level |-> k.level + 1]
        BY <3>3, CallGoes DEF SearchWidens
      <4>2. /\ k.place \in Places /\ k.words \in BOOLEAN /\ k.level \in 1 .. 3
            /\ row' = row /\ overlapped' = overlapped
            /\ c \notin overlapped => PassesNobody(row, k)
        BY <3>3 DEF SearchWidens, SearchInv
      <4>3. k.level # 3 /\ Counted(k.place, k.level, k.words) = {}
        BY <3>3 DEF SearchWidens, Settles
      <4>4. \A f : Nearby(row, call'[c], f) = Nearby(row, k, f)
        BY <4>1 DEF Nearby
      <4>5. Nearby(row, k, Levels[k.level]) = {}
        BY <4>2, <4>3, ZeroMeansNobody
      <4> HIDE DEF k
      <4> QED
        BY <2>2, <4>1, <4>2, <4>3, <4>4, <4>5, LevelsOfASearch DEF PassesNobody
    <3> QED
      BY <1>1, <2>2, <3>1, <3>2, <3>3, CallsKeepToTheirKind
  <2> QED
    BY <2>1, <2>2
<1>2. CASE UNCHANGED vars
  BY <1>2 DEF vars, SearchInv, PassesNobody, Nearby
<1> QED
  BY <1>1, <1>2 DEF Next, CallStep

-----------------------------------------------------------------------------
(* The invariant                                                             *)

TechniciansInv ==
    TypeOK /\ RowInv /\ EditInv /\ ReviewInv /\ CountedInv /\ CountIsOfReviews /\ SearchInv

LEMMA InitInv == Init => TechniciansInv
<1> SUFFICES ASSUME Init PROVE TechniciansInv
  OBVIOUS
<1>1. PICK place \in Places :
         row = [t \in Technicians |->
                   [f \in Columns |-> CASE f = "home" -> TRUE
                                        [] f = "workshop" -> FALSE
                                        [] f = "address" -> None
                                        [] OTHER -> place[f]]]
  BY DEF Init
<1>2. /\ reviews = [o \in Orders |-> 0]
      /\ rating = [t \in Technicians |-> [avg |-> 0, count |-> 0]]
      /\ call = [c \in Calls |-> Idle] /\ overlapped = {}
  BY DEF Init
<1>3. \A t \in Technicians : Profile(row[t])
  <2>1. ASSUME NEW f \in Columns, NEW t \in Technicians PROVE row[t][f] \in Values(f)
    <3>1. CASE f \in Location
      <4>1. f # "home" /\ f # "workshop" /\ f # "address"
        BY <3>1 DEF Location
      <4>2. row[t][f] = place[f]
        BY <1>1, <4>1
      <4> QED
        BY <3>1, <4>1, <4>2 DEF Values
    <3>2. CASE f = "address"
      BY <1>1, <3>2, ValuesOfColumns
    <3>3. CASE f = "home" \/ f = "workshop"
      BY <1>1, <3>3, ValuesOfColumns
    <3> QED
      BY <3>1, <3>2, <3>3 DEF Columns
  <2> QED
    BY <1>1, <2>1 DEF Profile
<1>4. RowInv
  BY <1>1, <1>2, <1>3 DEF RowInv, Profile
<1>5. [avg |-> 0, count |-> 0] \in [avg : 0 .. 500, count : Nat]
  OBVIOUS
<1>6. TypeOK
  BY <1>2, <1>3, <1>5 DEF TypeOK, Profile, Idle
<1>7. EditInv /\ ReviewInv /\ CountedInv /\ SearchInv
  BY <1>2 DEF EditInv, ReviewInv, Reviews, CountedInv, SearchInv, Idle
<1>8. CountIsOfReviews
  <2>1. reviews \in Given /\ \A t : Reviewed(t, reviews) = {}
    BY <1>2 DEF Given, Reviewed
  <2>2. \A t : Stats(t, reviews).count = 0
    BY <2>1, StatsAreRated, ReviewedIsFinite
  <2> QED
    BY <1>2, <2>2 DEF CountIsOfReviews
<1> QED
  BY <1>4, <1>6, <1>7, <1>8 DEF TechniciansInv

LEMMA TechniciansInvHolds == Spec => []TechniciansInv
<1>1. TechniciansInv /\ [Next]_vars => TechniciansInv'
  BY TypeStep, RowStep, EditStep, ReviewStep, CountedStep, CountStep, SearchStep
  DEF TechniciansInv
<1> QED
  BY <1>1, InitInv, PTL DEF Spec

-----------------------------------------------------------------------------
(* A profile has its columns, a rating is between zero and five, and calls   *)
(* do only what they can.                                                    *)
THEOREM TypeCorrect == Spec => []TypeOK
<1>1. TechniciansInv => TypeOK
  BY DEF TechniciansInv
<1> QED
  BY <1>1, TechniciansInvHolds, PTL

(* Of any number of reviews in any overlap, none is counted that does not    *)
(* stand, and a technician who has some is shown with some.                  *)
THEOREM ReviewsAreShown == Spec => []ShownReviewsExist
<1>1. TechniciansInv => ShownReviewsExist
  BY DEF TechniciansInv, ShownReviewsExist
<1> QED
  BY <1>1, TechniciansInvHolds, PTL

LEMMA EditLeaves ==
  ASSUME TechniciansInv, NEW c \in Calls \ overlapped, EditCommit(c)
  PROVE  /\ Valid(row'[call[c].of])
         /\ PlaceOf(row'[call[c].of]) \in Places \/ PlaceOf(row[call[c].of]) \notin Places
<1>1. row' = [row EXCEPT ![call[c].of] = Store(row[call[c].of], call[c].write)]
  BY DEF EditCommit
<1>2. call[c].of \in Technicians
  BY DEF EditCommit, TechniciansInv, EditInv
<1>3. row'[call[c].of] = Store(row[call[c].of], call[c].write)
  BY <1>1, <1>2 DEF TechniciansInv, RowInv
<1> QED
  BY <1>3 DEF EditCommit, TechniciansInv, EditInv

(* An edit of a profile that overlaps no other one of it leaves it with a    *)
(* modality, with an address exactly when there is a workshop, and in a      *)
(* place of the catalogue, whatever any number of overlapping edits left     *)
(* before it.                                                                *)
THEOREM EditsAloneAreWhole == Spec => EditAloneIsWhole
<1>1. TechniciansInv /\ [Next]_vars
         => [\A c \in Calls \ overlapped :
                EditCommit(c) => Valid(row'[call[c].of])]_vars
  BY EditLeaves
<1>2. TechniciansInv /\ [Next]_vars
         => [\A c \in Calls \ overlapped :
                EditCommit(c) => \/ PlaceOf(row'[call[c].of]) \in Places
                                 \/ PlaceOf(row[call[c].of]) \notin Places]_vars
  BY EditLeaves
<1>3. Spec => EditAloneIsValid
  BY <1>1, TechniciansInvHolds, PTL DEF Spec, EditAloneIsValid
<1>4. Spec => MoveAloneIsCoherent
  BY <1>2, TechniciansInvHolds, PTL DEF Spec, MoveAloneIsCoherent
<1> QED
  BY <1>3, <1>4 DEF EditAloneIsWhole

(* A review stands, and one that overlaps no other of its technician leaves  *)
(* the average and the count of all of them, whatever overlapping ones had   *)
(* made of both.                                                             *)
THEOREM ReviewsAreAddedUp == Spec => ReviewsAddUp
<1>1. TechniciansInv /\ [Next]_vars
         => [\A o \in Orders : reviews[o] # 0 => reviews'[o] = reviews[o]]_vars
  <2> SUFFICES ASSUME TechniciansInv, NEW c \in Calls, CallStep(c),
                      NEW o \in Orders, reviews[o] # 0
               PROVE  reviews'[o] = reviews[o]
    BY DEF Next, CallStep
  <2>1. CASE ReviewCommit(c)
    <3>1. reviews[call[c].order] = 0
      BY <2>1 DEF ReviewCommit, TechniciansInv, CountedInv
    <3>2. reviews' = [reviews EXCEPT ![call[c].order] = call[c].stars]
      BY <2>1 DEF ReviewCommit
    <3> QED
      BY <3>1, <3>2 DEF TechniciansInv, TypeOK
  <2>2. CASE ~ReviewCommit(c)
    BY <2>2, TablesOfOthersStay
  <2> QED
    BY <2>1, <2>2
<1>2. TechniciansInv /\ [Next]_vars
         => [\A c \in Calls \ overlapped :
                ReviewCommit(c) => LET t == TechnicianOf[call[c].order]
                                   IN rating'[t] = Stats(t, reviews')]_vars
  BY CommitWrites DEF TechniciansInv, TheirTechnician
<1>3. Spec => ReviewsStand
  BY <1>1, TechniciansInvHolds, PTL DEF Spec, ReviewsStand
<1>4. Spec => ReviewAlonePutsRight
  BY <1>2, TechniciansInvHolds, PTL DEF Spec, ReviewAlonePutsRight
<1> QED
  BY <1>3, <1>4 DEF ReviewsAddUp

(* A search during which no edit is committed answers with the nearest       *)
(* level that has anyone to show.                                            *)
THEOREM NobodyIsPassedOver == Spec => NobodyNearerIsPassedOver
<1>1. TechniciansInv /\ [Next]_vars
         => [\A c \in Calls \ overlapped : SearchAnswers(c) =>
                LET k == call[c]
                    Near(f) == {t \in Technicians : row[t][f] = k.place[f] /\
                                                    (k.words => t \in Named)}
                IN /\ Levels[k.level] # "district" => Near("district") = {}
                   /\ Levels[k.level] = "department" => Near("province") = {}
                   /\ k.items = {} => (k.words \/ Near("department") = {})]_vars
  <2> SUFFICES ASSUME TechniciansInv, NEW c \in Calls \ overlapped, SearchAnswers(c)
               PROVE  LET k == call[c]
                      IN /\ Levels[k.level] # "district" => Nearby(row, k, "district") = {}
                         /\ Levels[k.level] = "department" => Nearby(row, k, "province") = {}
                         /\ k.items = {} => (k.words \/ Nearby(row, k, "department") = {})
    BY DEF Nearby
  <2> DEFINE k == call[c]
  <2>1. k.at = "page" /\ k.level \in 1 .. 3 /\ k.words \in BOOLEAN /\ PassesNobody(row, k)
    BY DEF SearchAnswers, TechniciansInv, SearchInv
  <2>2. k.level = 1 \/ k.level = 2 \/ k.level = 3
    BY <2>1
  <2>3. k.items = {} /\ ~k.words => k.level = 3
    <3>1. k.items = {} /\ ~k.words => Counted(k.place, k.level, k.words) = {}
      <4>1. k.items = Found(k.place, k.level, k.words)
        BY <2>1, PageIsOfItsLevel DEF PassesNobody
      <4> QED
        BY <4>1 DEF Found, Counted
    <3> QED
      BY <3>1 DEF SearchAnswers, Settles
  <2> QED
    BY <2>1, <2>2, <2>3, LevelsOfASearch DEF PassesNobody
<1> QED
  BY <1>1, TechniciansInvHolds, PTL DEF Spec, NobodyNearerIsPassedOver

-----------------------------------------------------------------------------
(* The catalogue.  A table keeps the rows it has, so that all of it follows  *)
(* from what one catalogue is and what seeding adds to it.                   *)

LEMMA NothingBefore ==
  ASSUME NEW f, f = [x \in DOMAIN f |-> f[x]]
  PROVE  Adding(<<>>, f) = f
<1>1. DOMAIN <<>> = {}
  OBVIOUS
<1> QED
  BY <1>1 DEF Adding

(* What a data file is made of.                                              *)
IsCatalogue(g) ==
    /\ g = [departments |-> g.departments, department |-> g.department,
            province |-> g.province, above |-> g.above]
    /\ g.department \in [DOMAIN g.department -> g.departments]
    /\ g.province \in [DOMAIN g.province -> DOMAIN g.department]
    /\ g.above = [x \in DOMAIN g.province |-> g.department[g.province[x]]]

LEMMA DataFilesAreCatalogues ==
  ASSUME NEW g \in DataFiles
  PROVE  /\ IsCatalogue(g)
         /\ g.departments \subseteq DepartmentCodes
         /\ DOMAIN g.department \subseteq ProvinceCodes
         /\ DOMAIN g.province \subseteq DistrictCodes
<1>1. PICK T \in SUBSET DepartmentCodes :
        /\ g \in [departments : {T},
                  department : Partial(ProvinceCodes, T),
                  province : Partial(DistrictCodes, ProvinceCodes),
                  above : Partial(DistrictCodes, T)]
        /\ Coherent(g)
  BY DEF DataFiles, FilesOf
<1>2. /\ g = [departments |-> g.departments, department |-> g.department,
              province |-> g.province, above |-> g.above]
      /\ g.departments = T
      /\ g.department \in Partial(ProvinceCodes, T)
      /\ g.province \in Partial(DistrictCodes, ProvinceCodes)
  BY <1>1
<1>3. PICK D \in SUBSET ProvinceCodes : g.department \in [D -> T]
  BY <1>2 DEF Partial
<1>4. PICK E \in SUBSET DistrictCodes : g.province \in [E -> ProvinceCodes]
  BY <1>2 DEF Partial
<1>5. g.department \in [DOMAIN g.department -> g.departments]
  BY <1>1, <1>3 DEF Coherent, Range
<1>6. g.province \in [DOMAIN g.province -> DOMAIN g.department]
  BY <1>1, <1>4 DEF Coherent, Range
<1> QED
  BY <1>1, <1>2, <1>3, <1>4, <1>5, <1>6 DEF IsCatalogue, Coherent

LEMMA SeededOnce ==
  ASSUME NEW g, IsCatalogue(g)
  PROVE  Seeded(Empty, g) = g
<1>1. /\ Adding(<<>>, g.department) = g.department
      /\ Adding(<<>>, g.province) = g.province
      /\ Adding(<<>>, g.above) = g.above
  BY NothingBefore DEF IsCatalogue
<1>2. Seeded(Empty, g) =
        [departments |-> {} \cup g.departments,
         department |-> Adding(<<>>, g.department),
         province |-> Adding(<<>>, g.province), above |-> Adding(<<>>, g.above)]
  BY DEF Seeded, Empty
<1>3. {} \cup g.departments = g.departments
  OBVIOUS
<1> QED
  BY <1>1, <1>2, <1>3 DEF IsCatalogue

(* A file that moves no province of the catalogue adds to it what it lacks.  *)
LEMMA SeedingAdds ==
  ASSUME NEW g, IsCatalogue(g), NEW h, IsCatalogue(h),
         \A p \in DOMAIN g.department \cap DOMAIN h.department :
            g.department[p] = h.department[p]
  PROVE  /\ IsCatalogue(Seeded(g, h))
         /\ Seeded(Seeded(g, h), g) = Seeded(g, h)
         /\ DOMAIN Seeded(g, h).province = DOMAIN g.province \cup DOMAIN h.province
<1> DEFINE s == Seeded(g, h)
<1>1. /\ s = [departments |-> s.departments, department |-> s.department,
              province |-> s.province, above |-> s.above]
      /\ s.departments = g.departments \cup h.departments
      /\ s.department = Adding(g.department, h.department)
      /\ s.province = Adding(g.province, h.province)
      /\ s.above = Adding(g.above, h.above)
  BY DEF Seeded
<1> HIDE DEF s
<1>2. /\ DOMAIN s.department = DOMAIN g.department \cup DOMAIN h.department
      /\ DOMAIN s.province = DOMAIN g.province \cup DOMAIN h.province
      /\ DOMAIN s.above = DOMAIN s.province
  BY <1>1 DEF Adding, IsCatalogue
<1>3. /\ \A p \in DOMAIN g.department : s.department[p] = g.department[p]
      /\ \A p \in DOMAIN h.department : s.department[p] = h.department[p]
  BY <1>1 DEF Adding
<1>4. s.department \in [DOMAIN s.department -> s.departments]
  <2>1. \A p \in DOMAIN s.department : s.department[p] \in s.departments
    BY <1>1, <1>2, <1>3 DEF IsCatalogue
  <2> QED
    BY <1>1, <2>1 DEF Adding
<1>5. /\ \A x \in DOMAIN g.province : s.province[x] = g.province[x] /\ s.above[x] = g.above[x]
      /\ \A x \in DOMAIN h.province \ DOMAIN g.province :
            s.province[x] = h.province[x] /\ s.above[x] = h.above[x]
  BY <1>1 DEF Adding, IsCatalogue
<1>6. s.province \in [DOMAIN s.province -> DOMAIN s.department]
  <2>1. \A x \in DOMAIN s.province : s.province[x] \in DOMAIN s.department
    BY <1>2, <1>5 DEF IsCatalogue
  <2> QED
    BY <1>1, <2>1 DEF Adding
<1>7. s.above = [x \in DOMAIN s.province |-> s.department[s.province[x]]]
  <2>1. \A x \in DOMAIN s.province : s.above[x] = s.department[s.province[x]]
    <3>1. ASSUME NEW x \in DOMAIN g.province
          PROVE  s.above[x] = s.department[s.province[x]]
      BY <1>3, <1>5 DEF IsCatalogue
    <3>2. ASSUME NEW x \in DOMAIN h.province \ DOMAIN g.province
          PROVE  s.above[x] = s.department[s.province[x]]
      BY <1>3, <1>5 DEF IsCatalogue
    <3> QED
      BY <1>2, <3>1, <3>2
  <2>2. s.above = [x \in DOMAIN s.province |-> s.above[x]]
    BY <1>1, <1>2 DEF Adding
  <2> QED
    BY <2>1, <2>2
<1>8. IsCatalogue(s)
  BY <1>1, <1>4, <1>6, <1>7 DEF IsCatalogue
<1>9. Seeded(s, g) = s
  <2>1. s.departments \cup g.departments = s.departments
    BY <1>1
  <2>2. /\ Adding(s.department, g.department) = s.department
        /\ Adding(s.province, g.province) = s.province
        /\ Adding(s.above, g.above) = s.above
    <3>1. s.department = [x \in DOMAIN s.department |-> s.department[x]]
      BY <1>4
    <3>2. s.province = [x \in DOMAIN s.province |-> s.province[x]]
      BY <1>6
    <3>3. s.above = [x \in DOMAIN s.above |-> s.above[x]]
      BY <1>1 DEF Adding
    <3>4. /\ DOMAIN s.department \cup DOMAIN g.department = DOMAIN s.department
          /\ DOMAIN s.province \cup DOMAIN g.province = DOMAIN s.province
          /\ DOMAIN s.above \cup DOMAIN g.above = DOMAIN s.above
      BY <1>2 DEF IsCatalogue
    <3> QED
      BY <3>1, <3>2, <3>3, <3>4 DEF Adding
  <2> QED
    BY <1>1, <2>1, <2>2 DEF Seeded
<1> QED
  BY <1>2, <1>8, <1>9 DEF s

(* Every district of a catalogue is offered in the lists, and accepted and   *)
(* stored as it is chosen from them.                                         *)
LEMMA OfferedIsAccepted ==
  ASSUME NEW g, IsCatalogue(g)
  PROVE  /\ DOMAIN g.province =
              UNION {ListDistricts(g, p) :
                  p \in UNION {ListProvinces(g, d) : d \in g.departments}}
         /\ \A d \in g.departments : \A p \in ListProvinces(g, d) :
               \A x \in ListDistricts(g, p) :
                   Accepted(g, d, p, x) /\ StoredAs(g, x) = <<d, p, x>>
<1>1. ASSUME NEW x \in DOMAIN g.province
      PROVE  /\ g.department[g.province[x]] \in g.departments
             /\ g.province[x] \in ListProvinces(g, g.department[g.province[x]])
             /\ x \in ListDistricts(g, g.province[x])
  BY DEF IsCatalogue, ListProvinces, ListDistricts
<1>2. \A p : ListDistricts(g, p) \subseteq DOMAIN g.province
  BY DEF ListDistricts
<1>3. ASSUME NEW d \in g.departments, NEW p \in ListProvinces(g, d),
             NEW x \in ListDistricts(g, p)
      PROVE  Accepted(g, d, p, x) /\ StoredAs(g, x) = <<d, p, x>>
  BY DEF IsCatalogue, ListProvinces, ListDistricts, Accepted, StoredAs
<1> QED
  BY <1>1, <1>2, <1>3

(* Seeding one data file after another, whatever is in them.                 *)
LEMMA SeedingHolds == SeedingKeepsItWhole
<1> SUFFICES ASSUME NEW first \in DataFiles, NEW second \in DataFiles,
                    \A p \in DOMAIN first.department \cap DOMAIN second.department :
                       first.department[p] = second.department[p]
             PROVE  LET g == Seeded(Seeded(Empty, first), second) IN
                    /\ Coherent(g) /\ Seeded(g, first) = g
                    /\ DOMAIN first.province \cup DOMAIN second.province =
                           UNION {ListDistricts(g, p) :
                               p \in UNION {ListProvinces(g, d) : d \in g.departments}}
                    /\ \A d \in g.departments : \A p \in ListProvinces(g, d) :
                          \A x \in ListDistricts(g, p) :
                              Accepted(g, d, p, x) /\ StoredAs(g, x) = <<d, p, x>>
  BY DEF SeedingKeepsItWhole
<1> DEFINE g == Seeded(Seeded(Empty, first), second)
<1>1. g = Seeded(first, second)
  BY SeededOnce, DataFilesAreCatalogues
<1>2. /\ IsCatalogue(g) /\ Seeded(g, first) = g
      /\ DOMAIN g.province = DOMAIN first.province \cup DOMAIN second.province
  BY <1>1, SeedingAdds, DataFilesAreCatalogues
<1> HIDE DEF g
<1>3. Coherent(g)
  BY <1>2 DEF IsCatalogue, Coherent, Range
<1>4. /\ DOMAIN g.province =
            UNION {ListDistricts(g, p) :
                p \in UNION {ListProvinces(g, d) : d \in g.departments}}
      /\ \A d \in g.departments : \A p \in ListProvinces(g, d) :
            \A x \in ListDistricts(g, p) :
                Accepted(g, d, p, x) /\ StoredAs(g, x) = <<d, p, x>>
  BY <1>2, OfferedIsAccepted
<1>5. /\ Coherent(g) /\ Seeded(g, first) = g
      /\ DOMAIN first.province \cup DOMAIN second.province =
             UNION {ListDistricts(g, p) :
                 p \in UNION {ListProvinces(g, d) : d \in g.departments}}
      /\ \A d \in g.departments : \A p \in ListProvinces(g, d) :
            \A x \in ListDistricts(g, p) :
                Accepted(g, d, p, x) /\ StoredAs(g, x) = <<d, p, x>>
  BY <1>2, <1>3, <1>4
<1> QED
  BY <1>5 DEF g
LEMMA ShippedIsACatalogue ==
  /\ IsCatalogue(Shipped) /\ Seeded(Empty, Shipped) = Shipped
  /\ DOMAIN Shipped.province = DistrictCodes
  /\ \A x \in DistrictCodes : /\ Shipped.province[x] \in ProvinceCodes
                              /\ Shipped.above[x] \in DepartmentCodes
                              /\ Shipped.above[x] = Shipped.department[Shipped.province[x]]
<1>1. Shipped \in DataFiles /\ DOMAIN Shipped.province = DistrictCodes
  BY ShippedAssumption
<1>2. /\ IsCatalogue(Shipped) /\ Shipped.departments \subseteq DepartmentCodes
      /\ DOMAIN Shipped.department \subseteq ProvinceCodes
  BY <1>1, DataFilesAreCatalogues
<1> QED
  BY <1>1, <1>2, SeededOnce DEF IsCatalogue

(* What migration 3715a0d52953 finds for the text of a district and a city.  *)
LEMMA BackfillHolds == BackfillStaysInTheDepartment
<1> SUFFICES ASSUME NEW x \in DistrictCodes,
                    NEW city \in {NameOf[Shipped.above[x]], NameOf[Shipped.province[x]]}
             PROVE  LET homonyms == {y \in DistrictCodes : NameOf[y] = NameOf[x] /\
                                        Shipped.above[y] = Shipped.above[x]}
                        found == Backfill(Seeded(Empty, Shipped), NameOf[x], city)
                    IN found # {} /\ found \subseteq homonyms
  BY DEF BackfillStaysInTheDepartment
<1> DEFINE homonyms == {y \in DistrictCodes : NameOf[y] = NameOf[x] /\
                            Shipped.above[y] = Shipped.above[x]}
           byDepartment == {y \in DistrictCodes : NameOf[y] = NameOf[x] /\
                                NameOf[Shipped.above[y]] = city}
           byProvince == {y \in DistrictCodes : NameOf[y] = NameOf[x] /\
                              NameOf[Shipped.province[y]] = city}
           found == IF byDepartment # {} THEN byDepartment ELSE byProvince
<1>1. Backfill(Seeded(Empty, Shipped), NameOf[x], city) = found
  BY ShippedIsACatalogue DEF Backfill, Matching
<1>2. \A d, e \in DepartmentCodes : NameOf[d] = NameOf[e] => d = e
  BY ShippedAssumption
<1>3. \A p, q \in ProvinceCodes : NameOf[p] = NameOf[q] => p = q
  BY ShippedAssumption
<1>4. ASSUME NEW p \in ProvinceCodes, NEW d \in DepartmentCodes,
             NameOf[p] = NameOf[d], Shipped.department[p] # d,
             NEW q \in ListProvinces(Shipped, d),
             NEW y \in ListDistricts(Shipped, p), NEW z \in ListDistricts(Shipped, q)
      PROVE  NameOf[y] # NameOf[z]
  BY <1>4, ShippedAssumption
<1>5. \A y \in DistrictCodes : /\ Shipped.province[y] \in ProvinceCodes
                               /\ Shipped.above[y] \in DepartmentCodes
                               /\ Shipped.above[y] = Shipped.department[Shipped.province[y]]
                               /\ y \in ListDistricts(Shipped, Shipped.province[y])
                               /\ Shipped.province[y] \in ListProvinces(Shipped, Shipped.above[y])
  BY ShippedIsACatalogue DEF ListDistricts, ListProvinces, IsCatalogue
<1>6. ASSUME city = NameOf[Shipped.above[x]]
      PROVE  found # {} /\ found \subseteq homonyms
  <2>1. x \in byDepartment
    BY <1>6
  <2>2. byDepartment \subseteq homonyms
    BY <1>2, <1>5, <1>6
  <2> QED
    BY <2>1, <2>2
<1>7. ASSUME city = NameOf[Shipped.province[x]]
      PROVE  found # {} /\ found \subseteq homonyms
  <2>1. x \in byProvince
    BY <1>7
  <2>2. byProvince \subseteq homonyms
    BY <1>3, <1>5, <1>7
  <2>3. ASSUME NEW y \in byDepartment PROVE y \in homonyms
    <3>1. CASE Shipped.above[y] = Shipped.above[x]
      BY <3>1
    <3>2. CASE Shipped.above[y] # Shipped.above[x]
      BY <1>4, <1>5, <1>7, <3>2
    <3> QED
      BY <3>1, <3>2
  <2> QED
    BY <2>1, <2>2, <2>3
<1>8. found # {} /\ found \subseteq homonyms
  BY <1>6, <1>7
<1> QED
  BY <1>1, <1>8

(* The data file made of the places says of each what it is.                 *)
LEMMA FileOfPlacesIsACatalogue ==
  /\ IsCatalogue(FileOfPlaces)
  /\ DOMAIN FileOfPlaces.province = {p.district : p \in Places}
  /\ DOMAIN FileOfPlaces.department = {p.province : p \in Places}
  /\ \A p \in Places : /\ FileOfPlaces.province[p.district] = p.province
                       /\ FileOfPlaces.department[p.province] = p.department
<1> DEFINE F == FileOfPlaces
<1>1. /\ F = [departments |-> F.departments, department |-> F.department,
              province |-> F.province, above |-> F.above]
      /\ F.departments = {p.department : p \in Places}
      /\ F.department = ByName("province", "department")
      /\ F.province = ByName("district", "province")
      /\ F.above = ByName("district", "department")
  BY DEF FileOfPlaces
<1> HIDE DEF F
<1>2. /\ DOMAIN F.department = {p.province : p \in Places}
      /\ DOMAIN F.province = {p.district : p \in Places}
      /\ DOMAIN F.above = {p.district : p \in Places}
  <2>1. \A f, a : DOMAIN ByName(f, a) = {p[f] : p \in Places}
    BY DEF ByName
  <2> QED
    BY <1>1, <2>1
<1>3. ASSUME NEW p \in Places
      PROVE  /\ F.province[p.district] = p.province
             /\ F.department[p.province] = p.department
             /\ F.above[p.district] = p.department
  <2>1. ASSUME NEW f, NEW a
        PROVE  \E q \in Places : q[f] = p[f] /\ ByName(f, a)[p[f]] = q[a]
    BY DEF ByName
  <2>2. \A q \in Places : /\ p.district = q.district => p = q
                          /\ p.province = q.province => p.department = q.department
    BY PlacesAssumption
  <2>3. F.province[p.district] = p.province
    BY <1>1, <2>1, <2>2
  <2>4. F.department[p.province] = p.department
    BY <1>1, <2>1, <2>2
  <2>5. F.above[p.district] = p.department
    BY <1>1, <2>1, <2>2
  <2> QED
    BY <2>3, <2>4, <2>5
<1>4. /\ F.department = [x \in DOMAIN F.department |-> F.department[x]]
      /\ F.province = [x \in DOMAIN F.province |-> F.province[x]]
      /\ F.above = [x \in DOMAIN F.above |-> F.above[x]]
  BY <1>1 DEF ByName
<1>5. /\ \A x \in DOMAIN F.department : F.department[x] \in F.departments
      /\ \A x \in DOMAIN F.province :
            /\ F.province[x] \in DOMAIN F.department
            /\ F.above[x] = F.department[F.province[x]]
  BY <1>1, <1>2, <1>3
<1>6. IsCatalogue(F)
  BY <1>1, <1>2, <1>4, <1>5 DEF IsCatalogue
<1> QED
  BY <1>2, <1>3, <1>6 DEF F

LEMMA PlacesAreAccepted ==
  ASSUME NEW r
  PROVE  LET p == PlaceOf(r)
         IN p \in Places <=> Accepted(Seeded(Empty, FileOfPlaces),
                                     p.department, p.province, p.district)
<1> DEFINE p == PlaceOf(r)
           F == FileOfPlaces
<1>1. Seeded(Empty, F) = F
  BY FileOfPlacesIsACatalogue, SeededOnce
<1>2. p = [f \in Location |-> p[f]]
  BY DEF PlaceOf, Restrict
<1> HIDE DEF p
<1>3. ASSUME p \in Places
      PROVE  Accepted(F, p.department, p.province, p.district)
  BY <1>3, FileOfPlacesIsACatalogue DEF Accepted, IsCatalogue
<1>4. ASSUME Accepted(F, p.department, p.province, p.district)
      PROVE  p \in Places
  <2>1. PICK q \in Places : q.district = p.district
    BY <1>4, FileOfPlacesIsACatalogue DEF Accepted
  <2>2. q.province = p.province /\ q.department = p.department
    BY <1>4, <2>1, FileOfPlacesIsACatalogue DEF Accepted
  <2>3. q = [f \in Location |-> q[f]]
    BY PlacesAssumption
  <2>4. q = p
    BY <1>2, <2>1, <2>2, <2>3 DEF Location
  <2> QED
    BY <2>4
<1> QED
  BY <1>1, <1>3, <1>4 DEF p

(* For any data files the catalogue is whole after every seeding, what the   *)
(* lists offer is accepted and stored as chosen, legacy texts are placed in  *)
(* their department, and of the places that profiles are stored with it      *)
(* holds just those that exist.                                              *)
THEOREM CatalogueIsWhole == Spec => []CatalogueStaysWhole
<1>1. CatalogueStaysWhole
  BY SeedingHolds, BackfillHolds, PlacesAreAccepted
  DEF CatalogueStaysWhole, PlacesAreOfTheCatalogue
<1> QED
  BY <1>1, PTL
=============================================================================
