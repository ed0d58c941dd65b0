SPECIFICATION MempoolSpec
CONSTANTS
    c = c
    t1 = t1
    t2 = t2
    t3 = t3
    t4 = t4
    t5 = t5
    NoTx = NoTx
    Tx <- MCTx
    Spends <- MCSpends
    Recorded <- MCRecorded
    StandardTx <- MCTx
    FeeOk <- MCFeeOk
    Large <- MCLarge
    DarksendTx <- MCDarksendTx
    LockTx <- MCLockTx
    RawTx <- MCRawTx
    MaxOrphans = 1
    MaxBlockTx = 2
INVARIANTS
    MempoolTypeOK
    PoolExact
    OrphansExact
    PoolParentsRecorded
