----------------------------- MODULE MCTechnicians -----------------------------
(* A small instance of Technicians: one technician changes how it works, the *)
(* other one where; three districts of two provinces of one department.      *)
EXTENDS PlacesCatalogue, TLC

CONSTANTS t1, t2, c1, c2

Place(d, p) == "district" :> d @@ "province" :> p @@ "department" :> "Lima"

ThreePlaces == {Place("Lince", "Lima"), Place("Surco", "Lima"), Place("Huaral", "Huaral")}

Ways ==
    {("home" :> b) : b \in BOOLEAN} \cup
    {("workshop" :> FALSE), ("workshop" :> TRUE @@ "address" :> "Av. Brasil"),
     ("address" :> None), ("home" :> FALSE @@ "workshop" :> TRUE)}

TwoTechnicians == {t1, t2}
TheirPayloads == (t1 :> Ways) @@ (t2 :> ThreePlaces \cup {Place("Lince", "Huaral")})
TwoOrders == {"o1", "o2"}
OfTheFirst == [o \in TwoOrders |-> t1]
TwoCalls == {c1, c2}
OneAddress == {"Av. Brasil"}
TheSecond == {t2}

(* A piece of the catalogue, by the first digits of its codes: Miraflores is *)
(* a district of two provinces of Lima and of one of Arequipa.               *)
ThreeDistricts == {"1501 Miraflores", "1510 Miraflores", "0401 Miraflores"}
ShippedPiece ==
    [departments |-> {"15", "04"},
     department |-> "1501" :> "15" @@ "1510" :> "15" @@ "0401" :> "04",
     province |-> "1501 Miraflores" :> "1501" @@ "1510 Miraflores" :> "1510" @@
                  "0401 Miraflores" :> "0401",
     above |-> "1501 Miraflores" :> "15" @@ "1510 Miraflores" :> "15" @@
               "0401 Miraflores" :> "04"]
ShippedNames ==
    "15" :> "Lima" @@ "04" :> "Arequipa" @@
    "1501" :> "Lima" @@ "1510" :> "Yauyos" @@ "0401" :> "Arequipa" @@
    [x \in ThreeDistricts |-> "Miraflores"]

Symmetry == Permutations(Calls)
=============================================================================
