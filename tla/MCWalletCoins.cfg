SPECIFICATION CoinsSpec
CONSTANTS
    f1 = f1
    f2 = f2
    both = both
    send = send
    change = change
    copy = copy
    coinstake = coinstake
    Tx <- MCTx
    Ins <- MCIns
    First <- MCFirst
    Stake <- MCStake
    Own <- MCOwn
    Ours <- MCOurs
    Sender = {s1, s2}
    NoTx = NoTx
    MaxDeaths = 2
INVARIANTS
    SpendsKnown
    MarksExplained
    RelayedSurvive
