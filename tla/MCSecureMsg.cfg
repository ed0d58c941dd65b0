SPECIFICATION SmsgSpec
CONSTANTS
    a = a
    b = b
    Node <- MCNode
    Message <- MCMessage
    Old <- MCOld
    Author <- MCAuthor
    NoPeer = NoPeer
    NoMessage = NoMessage
    BunchSize = 2
    LockTime = 2
    MaxInFlight = 2
    Faulty <- MCFaulty
    MaxFaults = 1
INVARIANT BucketsExact
PROPERTY MessagesSpread
CHECK_DEADLOCK FALSE
