CONSTANTS
  n1 = n1
  n2 = n2
  n3 = n3
  n4 = n4
  n5 = n5
  n6 = n6
  q1 = q1
  q2 = q2
  i1 = i1
  m1 = m1
  m2 = m2
  v1 = v1
  v2 = v2
  Node = {n1, n2, n3, n4}
  Faulty = {}
  Quorum = {q1}
  Members <- OneQuorumMembers
  Valid <- OneQuorumMembers
  Vvec <- SomeVvec
  SkShare <- SomeSkShare
  Threshold = 2
  Id = {i1}
  Msg = {m1, m2}
  View = {v1}
  Mined <- OneQuorumMined
  Active <- OneQuorumActive
  Selected <- OneQuorumSelected
  NoMsg = NoMsg
  NoRec = NoRec
  NoQuorum = NoQuorum
SPECIFICATION LiveSpec
CHECK_DEADLOCK FALSE
PROPERTY AgreedIsRecovered
