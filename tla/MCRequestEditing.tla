--------------------------- MODULE MCRequestEditing ---------------------------
(* Small instances of RequestEditing: two amounts, two districts of one      *)
(* department and one of another, payloads of one or two fields, and two     *)
(* that the schema refuses.                                                  *)
EXTENDS RequestEditing, TLC

CONSTANTS k1, k2

TwoAmounts == {1, 2}
ThreeDistricts == {"lima", "lince", "cusco"}
DepartmentOfDistrict == [d \in ThreeDistricts |->
    IF d = "cusco" THEN "Cusco" ELSE "Lima"]

OneField ==
    {("budget_min" :> a) : a \in TwoAmounts} \cup
    {("budget_max" :> a) : a \in TwoAmounts} \cup
    {("modality" :> m) : m \in {"home", "workshop"}} \cup
    {("address" :> b) : b \in BOOLEAN} \cup
    {("district" :> d) : d \in ThreeDistricts}

SomePayloads == OneField \cup
    {("district" :> "atlantis"), ("department" :> "Cusco"),
     ("budget_min" :> None), ("budget_min" :> 1 @@ "budget_max" :> 1),
     ("modality" :> "workshop" @@ "address" :> FALSE)}

TwoCalls == {k1, k2}

Symmetry == Permutations(Calls)
=============================================================================
