\* Two technicians and two calls that overlap in every way, and both end.
\* A request that is cancelled with no quotation is the end of the story.
CONSTANTS
    t1 = t1
    t2 = t2
    k1 = k1
    k2 = k2
    Technicians <- TwoTechnicians
    Calls <- TwoCalls
    Nobody = Nobody
SPECIFICATION FairSpec
INVARIANTS
    AwardIsWhole
    AwardIsComplete
    OnlyThePartiesSee
PROPERTIES
    AwardIsForGood
    CallsReturn
CHECK_DEADLOCK FALSE
