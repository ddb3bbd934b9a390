\* Two sign-ins and two registrations, in two browsers.
CONSTANTS
    b1 = b1
    b2 = b2
    f1 = f1
    f2 = f2
    c1 = c1
    c2 = c2
    p1 = p1
    p2 = p2
    e1 = e1
    e2 = e2
    Nobody = Nobody
    Browsers <- TwoBrowsers
    Flows <- TwoFlows
    Calls <- TwoCalls
    People <- OnePerson
    Emails <- TwoEmails
    Phones <- OnePhone
    NationalDigits = 3
SPECIFICATION Spec
SYMMETRY Symmetry
INVARIANTS
    AccountsAreSingle
    SessionsAreOfOneHand
    BurntNeedsAReason
    PhonesAreFoundAgain
CHECK_DEADLOCK FALSE
