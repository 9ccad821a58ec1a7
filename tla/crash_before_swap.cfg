SPECIFICATION Spec
CONSTANTS
  a = a
  b = b
  x = x
  y = y
  n1 = n1
  n2 = n2
  n3 = n3
  Bare = Bare
  Id = {a}
  Name = {n1}
  Vault <- OneFile
  Budgets <- Editing
  Windows <- CrashBeforeSwap
INVARIANTS
  NothingLost
