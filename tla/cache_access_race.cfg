SPECIFICATION HSpec
CONSTANTS
  Threads = {t1, t2}
  Getters = {t1, t2}
  Closers = {}
  Keys = {ka, kb, kc}
  Values = {v1}
  TTLs = {0}
  MaxEntries = 2
  Elements = {e1, e2, e3}
  Root = root
  Janitor = janitor
  Nil = nil
  Horizon = 0
PROPERTIES EvictionRespectsAccess
