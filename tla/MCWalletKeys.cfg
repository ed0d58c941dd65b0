SPECIFICATION KeysSpec
CONSTANTS
    miner = miner
    sender = sender
    NoHolder = NoHolder
    Holder <- MCHolder
    PoolSize = 1
    MaxKey = 7
INVARIANTS
    KeysRecoverable
    KeptKeysGone
    WalletLoads
