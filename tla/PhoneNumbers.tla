---------------------------- MODULE PhoneNumbers ----------------------------
(****************************************************************************)
(* The two programs that bring a phone number to its canonical form: the     *)
(* application's normalize_phone, and the copy that migration 3715a0d52953   *)
(* ran over the numbers stored before.  A number is what is left of it when  *)
(* everything but digits is dropped; of the digits, only those that the two  *)
(* programs tell apart are here.                                             *)
(****************************************************************************)
EXTENDS SequencesExt

CONSTANT NationalDigits  \* digits of a Peruvian mobile number: 9

ASSUME NationalDigitsAssumption == NationalDigits \in Nat \ {0}

Digits  == {0, 1, 5, 9}
Country == <<5, 1>>
Trunk   == <<0, 0>>
Invalid == <<>>

Numbers == SeqOf(Digits, NationalDigits + 4)

Drop(n, d) == SubSeq(d, n + 1, Len(d))

IsNational(d) == Len(d) = NationalDigits /\ Head(d) = 9

(* normalize_phone                                                           *)
WithoutTrunk(d) == IF IsPrefix(Trunk, d) THEN Drop(2, d) ELSE d

WithoutCountry(d) ==
    IF Len(d) > NationalDigits /\ IsPrefix(Country, d) THEN Drop(2, d) ELSE d

NormalizePhone(d) ==
    LET national == WithoutCountry(WithoutTrunk(d))
    IN IF IsNational(national) THEN national ELSE Invalid

(* _normalize_phone of the migration                                         *)
MutAnyPrefix(d) ==
    LET national == CASE Len(d) = NationalDigits + 4 -> Drop(4, d)
                      [] Len(d) = NationalDigits + 2 -> Drop(2, d)
                      [] OTHER -> d
    IN IF IsNational(national) THEN national ELSE Invalid

Backfilled(d) ==
    LET national ==
            CASE Len(d) = NationalDigits + 4 /\ IsPrefix(Trunk \o Country, d) -> Drop(4, d)
              [] Len(d) = NationalDigits + 2 /\ IsPrefix(Country, d) -> Drop(2, d)
              [] OTHER -> d
    IN IF IsNational(national) THEN national ELSE Invalid

(* _backfill_phone_normalized: of several rows of one number, the first.     *)
BackfilledColumn(rows) ==
    [i \in DOMAIN rows |->
        IF \E j \in 1 .. i - 1 : Backfilled(rows[j]) = Backfilled(rows[i])
        THEN Invalid ELSE Backfilled(rows[i])]

-----------------------------------------------------------------------------
(* What the migration stored is what the application computes from the same  *)
(* text, so that its lookups find it; it left out one form the application   *)
(* takes, a national number behind 00.  And the unique index it creates at   *)
(* the end finds no number twice, in whatever forms it was written.          *)
BackfillAgrees ==
    /\ \A d \in Numbers :
          Backfilled(d) # NormalizePhone(d) <=>
              IsPrefix(Trunk, d) /\ IsNational(Drop(2, d))
    /\ \A d, e, f \in {n \in Numbers : Backfilled(n) # Invalid} :
          LET column == BackfilledColumn(<<d, e, f>>)
          IN \A i, j \in 1 .. 3 :
                i # j /\ column[i] # Invalid => column[i] # column[j]
=============================================================================
