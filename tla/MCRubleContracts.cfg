SPECIFICATION FairSpec

CONSTANTS
    k1 = k1  k2 = k2
    Wallets <- MCWallets
    Contracts <- MCContracts
    Opening <- MCOpening
    Blocked <- MCBlocked
    Eod = Eod  EodUpdate = EodUpdate  NoWallet = NoWallet  NoOne = NoOne  NoCall = NoCall
    NoContract = NoContract  NoRow = NoRow
    Requests = {r1, r2, r3}
    Calls <- MCCalls
    MaxRuns = 2

INVARIANTS
    MoneyLostOnlyByStaleRow
    TransfersNeverDeadlock

PROPERTIES
    SettledOnce
    EverythingEnds
