SPECIFICATION LiveSpec
CONSTANTS
  c1 = c1
  c2 = c2
  c3 = c3
  None = None
  Client = {c1, c2}
  Coin <- TwoCoins
  MinParticipants = 2
  MaxParticipants = 3
  Scenarios <- All
INVARIANTS MixedInTurns KeysKept
PROPERTIES SessionEnds CoinsUnlocked
ACTION_CONSTRAINT ReadIdle
CHECK_DEADLOCK FALSE
