SPECIFICATION Spec
CONSTANTS
  a = a
  b = b
  x = x
  y = y
  n1 = n1
  n2 = n2
  n3 = n3
  Bare = Bare
  Id = {a, b, x}
  Name = {n1, n2, n3}
  Vault <- TwoFiles
  Budgets <- TwoFileBudgets
  Windows <- Outside
INVARIANTS
  MoveKeepsIdentity
  Rebuilt
