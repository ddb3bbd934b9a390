---------------------------- MODULE PlacesCatalogue ----------------------------
(****************************************************************************)
(* The places of the technicians' profiles and the catalogue they are of.    *)
(****************************************************************************)
EXTENDS Technicians, GeoCatalogue

(* The places as a data file, whose codes are their names.                   *)
ByName(field, above) ==
    [x \in {p[field] : p \in Places} |->
        (CHOOSE p \in Places : p[field] = x)[above]]

FileOfPlaces ==
    [departments |-> {p.department : p \in Places},
     department |-> ByName("province", "department"),
     province |-> ByName("district", "province"),
     above |-> ByName("district", "department")]

(* Of all that technicians are stored with, the catalogue holds just the     *)
(* places that exist: a place mixed by two edits is offered in no list.      *)
PlacesAreOfTheCatalogue ==
    \A t \in Technicians :
        LET p == PlaceOf(row[t])
        IN p \in Places <=> Accepted(Seeded(Empty, FileOfPlaces),
                                    p.department, p.province, p.district)

(* The catalogue stays whole when it is seeded again, legacy texts are       *)
(* placed within it, and profiles are measured by it.                        *)
CatalogueStaysWhole ==
    SeedingKeepsItWhole /\ BackfillStaysInTheDepartment /\ PlacesAreOfTheCatalogue
=============================================================================
