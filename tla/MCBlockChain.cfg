SPECIFICATION FairSpec
CONSTANTS
    g = g  a1 = a1  a2 = a2  a3 = a3  c1 = c1  c2 = c2
    Block <- MCBlock
    Genesis = g
    NoBlock = NoBlock
    Prev <- MCPrev
    Chain <- MCChain
    Work <- MCWork
    HeaderOk <- MCBlock
    CheckOk <- MCCheckOk
    CheckDepth = 1
    MaxCrashes = 2
    MaxShutdowns = 2
    MaxFaults = 2
INVARIANTS
    TypeOK
    DiskConsistent
    MemoryMatchesDisk
    PnextOnlyOnMainChain
    TxRecordsMatchLinks
    StraysCounted
PROPERTIES
    AppendOnly
    StrayStaysOut
    CommittedComesBack
    ImplementsDurableChain
