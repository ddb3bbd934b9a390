\* Five calls of one user, in any order and any overlap.
CONSTANTS
    c1 = c1
    c2 = c2
    c3 = c3
    c4 = c4
    c5 = c5
    Nobody = Nobody
    Calls <- FiveCalls
SPECIFICATION Spec
SYMMETRY Symmetry
INVARIANTS
    PasswordRules
    OneSuccessor
PROPERTY RevokedStaysRevoked
\* Every call has ended: nothing is left to do.
CHECK_DEADLOCK FALSE
