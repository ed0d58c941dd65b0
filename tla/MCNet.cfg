SPECIFICATION NetSpec
CONSTANTS
    a = a
    b = b
    o = o
    NoNode = NoNode
    Inbound <- MCInbound
    Outbound <- MCOutbound
    Callable <- MCCallable
    MaxInbound = 1
    MaxMsgs = 1
    MaxRefs = 2
INVARIANT RefsExact
PROPERTY DisconnectedDeleted
