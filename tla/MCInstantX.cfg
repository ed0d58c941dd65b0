SPECIFICATION IXFairSpec
CONSTANTS
    c = c
    t1 = t1
    t2 = t2
    m1 = m1
    m2 = m2
    NoTx = NoTx
    Me = m1
    Masternode <- MCMasternode
    Vote <- MCVote
    OwnTx <- MCOwnTx
    Required = 2
    Tx <- MCTx
    Spends <- MCSpends
    Recorded <- MCRecorded
    StandardTx <- MCTx
    FeeOk <- MCFeeOk
    Large <- MCNone
    DarksendTx <- MCNone
    LockTx <- MCLockTx
    RawTx <- MCRawTx
    MaxOrphans = 0
    MaxBlockTx = 1
INVARIANT
    VotesCountedOnce
PROPERTIES
    LockNeedsVotes
    RecordsRemoved
    ImplementsMempool
