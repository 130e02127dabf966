SPECIFICATION Spec
CONSTANTS
  Threads = {t1, t2}
  Names = {n1, n2}
  Fnos = {0, 1, 2}
  Vers = {1, 2, 3, 4, 5, 6, 7, 8, 9}
  Pobjs = {1, 2, 3, 4, 5}
  Uses <- EnumUses
  Lost = Lost
  None = None
VIEW View
SYMMETRY Symmetry
INVARIANTS
  EnumDirhValid
CHECK_DEADLOCK FALSE
