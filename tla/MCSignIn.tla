------------------------------- MODULE MCSignIn -------------------------------
(* A small instance of SignIn, and the numbers its users' phones come from.  *)
EXTENDS RegisteredPhones, TLC

CONSTANTS b1, b2, f1, f2, c1, c2, p1, p2, e1, e2

TwoBrowsers == {b1, b2}
TwoFlows == {f1, f2}
TwoCalls == {c1, c2}
OnePerson == {p1}
TwoPeople == {p1, p2}
TwoEmails == {e1, e2}
OnePhone == {<<9, 1, 5>>}

Symmetry ==
    Permutations(Browsers) \cup Permutations(Flows) \cup Permutations(Calls)
        \cup Permutations(People) \cup Permutations(Emails)
=============================================================================
