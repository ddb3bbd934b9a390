\* Two messages, of which a listing holds one.
CONSTANTS
    c1 = c1
    c2 = c2
    Calls <- TwoCalls
    By <- WhoseCall
    Reader = "technician"
    Limit = 1
    AtOnce = 1
    Nobody = Nobody
SPECIFICATION Spec
INVARIANTS
    MessagesReachTheirReader
    WhatIsToldIsStored
PROPERTIES
    HistoryStands
    EveryMessageIsAnnounced
