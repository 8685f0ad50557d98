CONSTANTS
  n1 = n1
  n2 = n2
  n3 = n3
  n4 = n4
  n5 = n5
  n6 = n6
  q1 = q1
  q2 = q2
  i1 = i1
  m1 = m1
  m2 = m2
  v1 = v1
  v2 = v2
  Node = {n1, n2, n3}
  Faulty = {n3}
  Quorum = {q1}
  Members <- OneQuorumMembers
  Valid <- OneQuorumMembers
  Vvec <- OneQuorumMembers
  SkShare <- OneQuorumMembers
  Threshold = 3
  Id = {i1}
  Msg = {m1, m2}
  View = {v1, v2}
  Mined <- ReorgMined
  Active <- OneQuorumActive
  Selected <- OneQuorumSelected
  NoMsg = NoMsg
  NoRec = NoRec
  NoQuorum = NoQuorum
SPECIFICATION Spec
SYMMETRY Sym
CONSTRAINT UntilVoteErased
INVARIANTS UniqueRecoveredPerQuorum StoredIsRecoverable ShareFollowsVote
PROPERTY ImplementsOracle
