--------------------------- MODULE RegisteredPhones ---------------------------
(****************************************************************************)
(* The phones of the rows of SignIn are what normalize_phone makes of a      *)
(* form's text: the validators of the forms store nothing else.              *)
(****************************************************************************)
EXTENDS SignIn, PhoneNumbers

ASSUME PhonesAssumption ==
    \A p \in Phones : p \in Numbers /\ p # Invalid /\ NormalizePhone(p) = p

PhonesOfOthers(c) ==
    {users[d].phone : d \in {x \in Calls \ {c} : Live(x)}} \ {Nobody}

Before == 2  \* rows of others that the migration comes to first, at most

(* Application and migration agree on every text, and the column the         *)
(* migration would fill from the phones of the users holds each of them, in  *)
(* the form in which the application looks it up, whichever rows come first. *)
PhonesAreFoundAgain ==
    /\ BackfillAgrees
    /\ \A c \in Calls : Live(c) /\ users[c].phone # Nobody =>
          \A rows \in SeqOf(PhonesOfOthers(c), Before) :
             BackfilledColumn(Append(rows, users[c].phone))[Len(rows) + 1]
                = NormalizePhone(users[c].phone)
=============================================================================
