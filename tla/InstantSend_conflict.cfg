SPECIFICATION Spec
CONSTANTS
    t1 = t1 t2 = t2 c1 = c1 coin = coin g = g a1 = a1 b1 = b1
    Tx = {t1, t2} Coin = {coin}
    Inputs <- PairInputs
    Winner <- PairWinner
    Block = {g, a1, b1} Genesis = g
    Parent <- ShortParent
    Contents <- ShortContents
    Confirmations = 2 KeepLock = 1 ChainLocksOn = TRUE StartSynced = TRUE Serial = TRUE Restarts = 0
    NoTx = NoTx NoBlock = NoBlock
INVARIANT LockWins
CHECK_DEADLOCK FALSE
