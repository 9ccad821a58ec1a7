SPECIFICATION Spec
CONSTANTS
  a = a
  b = b
  x = x
  y = y
  n1 = n1
  n2 = n2
  n3 = n3
  Bare = Bare
  Id = {a, x, y}
  Name = {n1, n2}
  Vault <- OneFile
  Budgets <- OneFileBudgets
  Windows <- Outside
SYMMETRY Spare
INVARIANTS
  NothingLost
  Baseline
  UniquePaths
  LastRungFree
  ConflictNeedsBoth
