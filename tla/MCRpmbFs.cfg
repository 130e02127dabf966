SPECIFICATION Spec
CONSTANTS
  Names = {n1, n2}
  v1 = v1
  v2 = v2
  Vals <- MCVals
  Contents <- MCContents
  Bufs <- MCBufs
  Zero = Zero
  MaxAddr = 6
  MaxLen = 2
  TmpBlock = 1
  CacheEntries = 2
  RdEntries = 1
  Allow = {}
  None = None
VIEW View
SYMMETRY Symmetry
INVARIANTS
  
  CacheFresh
  CreateExact

  
