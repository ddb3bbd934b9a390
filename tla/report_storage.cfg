\* Three closing calls and a cancellation, with two faults and lost replies.
CONSTANTS
    a1 = a1
    a2 = a2
    a3 = a3
    None = None
    Attempts <- ThreeAttempts
    MaxFaults = 2
    LostReplies = TRUE
SPECIFICATION StorageFairSpec
INVARIANT ReportHasItsDocument
PROPERTIES
    ClosedOnce
    AttemptsEnd
\* Every call has returned and the order is closed: nothing is left to do.
CHECK_DEADLOCK FALSE
