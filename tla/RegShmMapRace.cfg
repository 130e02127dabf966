SPECIFICATION Spec
CONSTANTS
  Threads = {t1, t2}
  MapperSets = {{t1, t2}}
  Cookies = {c1}
  MaxObjs = 1
  None = None
INVARIANTS
  MappedWhileUsed
CHECK_DEADLOCK FALSE
