SPECIFICATION Spec
CONSTANTS
  v = v
  w = w
  t1 = t1
  t2 = t2
  None = None
  Vault = {v, w}
  Ident <- Copies
  Default = v
  Envs = {None}
  Main = main
  Worker = {t1, t2}
  Request = {r1}
  CancelAt <- NotAtInstall
SYMMETRY Alike
INVARIANTS
  NoSpill
  Alone
  MarkerCovers
  Settled
PROPERTIES
  OneVaultAtATime
