SPECIFICATION LiveSpec
CONSTANTS
  t1 = t1
  t2 = t2
  t3 = t3
  Threads <- MCThreads
  MapperSets <- MCMapperSets
  Cookies = {c1}
  MaxObjs = 2
  MaxCalls = 7
  None = None
INVARIANTS
  TypeOK
  RefCountExact
  UsedNotFreed
  ReleaseNotMissed
  MappingNotLeaked
  SoleMappingStays
PROPERTIES
  ReleaseReturns
CHECK_DEADLOCK FALSE
