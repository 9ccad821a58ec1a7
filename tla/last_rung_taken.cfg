SPECIFICATION Spec
CONSTANTS
  a = a
  b = b
  x = x
  y = y
  n1 = n1
  n2 = n2
  n3 = n3
  Bare = Bare
  Id = {a, b, x, y}
  Name = {n1}
  Vault <- OneFile
  Budgets <- LateTwice
  Windows <- AtStarts
SYMMETRY Spare
INVARIANTS
  LastRungFree
