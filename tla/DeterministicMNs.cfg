SPECIFICATION Spec
CONSTANTS
  m1 = m1
  m2 = m2
  m3 = m3
  Mn = {m1, m2, m3}
  None = None
  Before <- InOrder
  FirstHeight = 5
  MinConf = 1
  SnapshotPeriod = 4
  CacheSize = 2
  Scenarios <- AllScenarios
INVARIANTS
  ListsAgree
  
  PaidInTurn
  
