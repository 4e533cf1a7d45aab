CONSTANTS
    c1 = c1
    c2 = c2
    c3 = c3
    Keys = {1, 2, 3}
    Slots = {0, 1}
    SlotOf <- MCSlotOf
    Callers <- MCCallers
    TxnKeys <- MCTxnKeys
    Rounds = 1
    LockChanSize = 1
    CheckInterval = 0
    Expire = 1
    CloseEnabled = TRUE
    None = None
SPECIFICATION FairSpec
CHECK_DEADLOCK FALSE
INVARIANT TypeOK
INVARIANT GrantHoldsAllKeys
INVARIANT GrantedNotSuperseded
PROPERTY AllLockCallsReturn
