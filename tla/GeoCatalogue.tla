----------------------------- MODULE GeoCatalogue -----------------------------
(****************************************************************************)
(* The catalogue of departments, provinces and districts: how seed_geo adds  *)
(* a data file to the tables, what the three lists of a form offer of them,  *)
(* and how migration 3715a0d52953 finds the district of a text written       *)
(* before there was a catalogue.                                             *)
(*                                                                           *)
(* A table maps the code of a row to what the row refers to, and a district  *)
(* refers to its department a second time.  Names are compared by the        *)
(* migration only, without case and surrounding blanks.                      *)
(****************************************************************************)
EXTENDS Functions

CONSTANTS
    DepartmentCodes, ProvinceCodes, DistrictCodes,
    Shipped,  \* what the data file of the repository says, of these codes
    NameOf    \* the name each code has in it

Partial(S, T) == UNION {[D -> T] : D \in SUBSET S}

Empty == [departments |-> {}, department |-> <<>>, province |-> <<>>, above |-> <<>>]

(* The foreign keys hold, and the two ways from a district to a department   *)
(* lead to the same one.                                                     *)
Coherent(g) ==
    /\ Range(g.department) \subseteq g.departments
    /\ Range(g.province) \subseteq DOMAIN g.department
    /\ g.above = [x \in DOMAIN g.province |-> g.department[g.province[x]]]

(* A file names each row's parents, by code, and is coherent in itself.      *)
FilesOf(departments) ==
    {g \in [departments : {departments},
            department : Partial(ProvinceCodes, departments),
            province : Partial(DistrictCodes, ProvinceCodes),
            above : Partial(DistrictCodes, departments)] : Coherent(g)}

DataFiles == UNION {FilesOf(D) : D \in SUBSET DepartmentCodes}

-----------------------------------------------------------------------------
(* seed_geo: a row whose code is there stays as it is.                       *)
Adding(table, new) ==
    [x \in DOMAIN table \cup DOMAIN new |->
        IF x \in DOMAIN table THEN table[x] ELSE new[x]]

MutMovesDistricts(g, data) ==
    [departments |-> g.departments \cup data.departments,
     department |-> Adding(g.department, data.department),
     province |-> Adding(data.province, g.province),
     above |-> Adding(g.above, data.above)]

Seeded(g, data) == [departments |-> g.departments \cup data.departments,
                    department |-> Adding(g.department, data.department),
                    province |-> Adding(g.province, data.province),
                    above |-> Adding(g.above, data.above)]

(* GET /geo: all departments, the provinces of one, the districts of one.    *)
ListProvinces(g, d) == {p \in DOMAIN g.department : g.department[p] = d}

ListDistricts(g, p) == {x \in DOMAIN g.province : g.province[x] = p}

(* GeoService.resolve looks at the parents, not at the department that the   *)
(* district names itself; that one is what its callers store.                *)
Accepted(g, d, p, x) ==
    /\ d \in g.departments
    /\ p \in DOMAIN g.department /\ g.department[p] = d
    /\ x \in DOMAIN g.province /\ g.province[x] = p

StoredAs(g, x) == <<g.above[x], g.province[x], x>>

-----------------------------------------------------------------------------
(* _backfill_geo_from_text, of a text with a district and a city: first as   *)
(* the department, then as the province.  Of several districts that match,   *)
(* UPDATE ... FROM takes any; with none the columns stay NULL.               *)
MutDistrictAlone(g, district, city, parent) ==
    {x \in DOMAIN g.province : NameOf[x] = district}

Matching(g, district, city, parent) ==
    {x \in DOMAIN g.province : NameOf[x] = district /\ NameOf[parent[x]] = city}

Backfill(g, district, city) ==
    LET byDepartment == Matching(g, district, city, g.above)
    IN IF byDepartment # {} THEN byDepartment
                            ELSE Matching(g, district, city, g.province)

(* What is so of the file of the repository.                                 *)
ASSUME ShippedAssumption ==
    LET Unique(S) == \A a, b \in S : NameOf[a] = NameOf[b] => a = b
        Districts(p) == {NameOf[x] : x \in ListDistricts(Shipped, p)}
    IN /\ Shipped \in DataFiles /\ DOMAIN Shipped.province = DistrictCodes
       /\ Unique(DepartmentCodes) /\ Unique(ProvinceCodes)
       /\ \A p \in ProvinceCodes : Unique(ListDistricts(Shipped, p))
       /\ \A p \in ProvinceCodes, d \in DepartmentCodes :
             NameOf[p] = NameOf[d] /\ Shipped.department[p] # d =>
                 \A q \in ListProvinces(Shipped, d) : Districts(p) \cap Districts(q) = {}

-----------------------------------------------------------------------------
(* The catalogue stays whole when it is seeded with one data file after      *)
(* another ("idempotente"): going back to the first changes nothing, every   *)
(* district of either is offered in the lists, and what a form offers is     *)
(* accepted and stored as it was chosen.  This needs that the newer file     *)
(* moves no province, whose old row would stay beside its new districts.     *)
SeedingKeepsItWhole ==
    \A first, second \in DataFiles :
        (\A p \in DOMAIN first.department \cap DOMAIN second.department :
            first.department[p] = second.department[p]) =>
                LET g == Seeded(Seeded(Empty, first), second) IN
                /\ Coherent(g) /\ Seeded(g, first) = g
                /\ DOMAIN first.province \cup DOMAIN second.province =
                       UNION {ListDistricts(g, p) :
                           p \in UNION {ListProvinces(g, d) : d \in g.departments}}
                /\ \A d \in g.departments : \A p \in ListProvinces(g, d) :
                      \A x \in ListDistricts(g, p) :
                          Accepted(g, d, p, x) /\ StoredAs(g, x) = <<d, p, x>>

(* A text that names a district of the catalogue, with its department or its *)
(* province as the city, is given a district of that name in that            *)
(* department, and its own one unless the department has two: the shipped    *)
(* file has thirteen such pairs, Miraflores of Lima and of Yauyos one.       *)
BackfillStaysInTheDepartment ==
    \A x \in DistrictCodes :
        \A city \in {NameOf[Shipped.above[x]], NameOf[Shipped.province[x]]} :
            LET homonyms == {y \in DistrictCodes : NameOf[y] = NameOf[x] /\
                                 Shipped.above[y] = Shipped.above[x]}
                found == Backfill(Seeded(Empty, Shipped), NameOf[x], city)
            IN found # {} /\ found \subseteq homonyms
=============================================================================
