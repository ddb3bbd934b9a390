\* Two PATCH calls that overlap, or do not.
CONSTANTS
    k1 = k1
    k2 = k2
    None = None
    Amounts <- TwoAmounts
    Districts <- ThreeDistricts
    DepartmentOf <- DepartmentOfDistrict
    Payloads <- SomePayloads
    Calls <- TwoCalls
SPECIFICATION Spec
SYMMETRY Symmetry
INVARIANT RowIsCoherent
PROPERTY EditsMergeUntilTheAward
\* An awarded or cancelled request is not edited any more.
CHECK_DEADLOCK FALSE
