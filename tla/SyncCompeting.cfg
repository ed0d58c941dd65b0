SPECIFICATION FairSyncSpec
CONSTANTS
    g = g  b1 = b1  b2 = b2  b3 = b3  c1 = c1  f = f
    Block <- ForkBlock
    Genesis = g
    NoBlock = NoBlock
    Prev <- ForkPrev
    Chain <- ForkChain
    Work <- ForkWork
    HeaderOk <- ForkHeaderOk
    CheckOk <- ForkBlock
    nTime <- SiblingTime
    CheckDepth = 1
    PeerHeights = {1, 5}
    MAXIMUM_ARRAY_OF_BLOCKS = 4
    SYNCH_BLOCK_BUFFER_SIZE = 3
    NearTip = 2
    MatchHeight = 0
    MaxCrashes = 0
    MaxShutdowns = 0
    MaxFaults = 0
PROPERTIES
    CompetingResolved
