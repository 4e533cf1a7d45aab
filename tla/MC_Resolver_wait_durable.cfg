\* Wait returning no error, read against the store.
CONSTANTS
    k1 = k1
    k2 = k2
    t1 = t1
    t2 = t2
    o1 = o1
    o2 = o2
    r1 = r1
    r2 = r2
    Keys <- MCKeys
    Workers <- MCWorkers
    Hash <- MCHash
    Txns <- MCTxns
    StartVer <- MCStartVer
    Decision <- MCDecisionCommit
    TxnKeys <- MCTxnKeys
    TxnOp <- MCTxnOp
    TTL <- MCTTL
    InitLocked <- MCInitLocked
    LatePrewrite <- MCLatePrewrite
    Owners <- MCOwners
    OwnerTxn <- MCOwnerTxn
    Readers <- MCReadersCommit
    ReaderTarget <- MCReaderTarget
    ChanCap = 2
    MaxVer = 5
    MaxNow = 6
    ReadFaults = FALSE
    CloseEnabled = FALSE

SPECIFICATION FairSpec
INVARIANT WaitImpliesDurable
CHECK_DEADLOCK FALSE
