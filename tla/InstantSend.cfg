SPECIFICATION Spec
CONSTANTS
    t1 = t1 t2 = t2 c1 = c1 coin = coin g = g a1 = a1 b1 = b1
    Tx = {t1, t2, c1} Coin = {coin}
    Inputs <- ConflictInputs
    Winner <- ConflictWinner
    Block = {g, a1, b1} Genesis = g
    Parent <- ShortParent
    Contents <- ShortContents
    Confirmations = 2 KeepLock = 1 ChainLocksOn = TRUE StartSynced = TRUE Serial = TRUE Restarts = 0
    NoTx = NoTx NoBlock = NoBlock
INVARIANTS StrangerLockWins MempoolRespectsLocks LockedParentRetried
CONSTRAINT ChildLockOnce
CHECK_DEADLOCK FALSE
