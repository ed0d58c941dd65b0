SPECIFICATION AddrSpec
CONSTANTS
    h1 = h1  h2 = h2  h3 = h3  h4 = h4  p = p  q = q
    Service <- MCService
    Source <- MCSource
    Ip <- MCIp
    NewBucketOf <- MCNewBucketOf
    TriedBucketOf <- MCTriedBucketOf
    NewBucketCount = 2
    TriedBucketCount = 1
    NewBucketSize = 1
    TriedBucketSize = 2
    BucketsPerAddress = 2
    InspectOnEvict = 2
    GetAddrPct = 75
    GetAddrMax = 2
    MaxTime = 1
    MaxIds = 4
SYMMETRY MCSymmetry
INVARIANTS
    AddrTypeOK
    IndexesAgree
    CheckPasses
    BucketsBounded
PROPERTIES
    TriedKept
    RestartKeeps
