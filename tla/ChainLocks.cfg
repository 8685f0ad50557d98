CONSTANTS
  g = g
  a1 = a1
  a2 = a2
  b1 = b1
  b2 = b2
  NoBlock = NoBlock
  NoSig = NoSig
  Genesis = g
  Block = {g, a1, b1, b2}
  Parent <- ShortParent
  CLSig <- LockA1
  Incomplete = {a1}
  SignHeightOffset = 1
SPECIFICATION LiveSpec
INVARIANTS
  BestLockIsLinked
  ActiveChainNotFailed
PROPERTIES
  LockedNeverReplaced
  LockedChainWins
