SPECIFICATION Spec
CONSTANTS
  p1 = p1
  p2 = p2
  p3 = p3
  p4 = p4
  Member = {p1, p2, p3}
  MinSize = 2
  BadVotes = 2
  Errors <- AllErrors
  Rewound = {p1}
  MaxLost = 1
INVARIANTS TypeOK OneKey SignersHoldShares SameVerdict DroppedOnlyByDropped
ACTION_CONSTRAINT InTurn
CHECK_DEADLOCK FALSE
