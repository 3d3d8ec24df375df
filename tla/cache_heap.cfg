SPECIFICATION Spec
CONSTANTS
  Threads = {t1, t2}
  Getters = {t1, t2}
  Closers = {}
  Keys = {ka, kb, kc}
  Values = {v1, v2}
  TTLs = {1}
  MaxEntries = 2
  Elements = {e1, e2}
  Root = root
  Janitor = janitor
  Nil = nil
  Horizon = 0
INVARIANTS NoNilDereference StoreIntegrity
CHECK_DEADLOCK FALSE
SYMMETRY Symmetry
