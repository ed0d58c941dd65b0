SPECIFICATION SmsgSpec
CONSTANTS
    a = a
    b = b
    Node <- MCNode
    Message <- MCMessage
    Old <- MCOld
    Author <- MCAuthor
    NoPeer = NoPeer
    NoMessage = NoMessage
    BunchSize = 500
    LockTime = 3
    MaxInFlight = 2
    Faulty <- MCFaulty
    MaxFaults = 0
CHECK_DEADLOCK FALSE
INVARIANT LocksOrdered
