SPECIFICATION Spec
CONSTANTS
  v = v
  w = w
  t1 = t1
  t2 = t2
  None = None
  Vault = {v, w}
  Ident <- Copies
  Default = v
  Envs = {v}
  Main = main
  Worker = {t1}
  Request = {}
  CancelAt <- NotAtInstall
INVARIANTS
  NoSpill
