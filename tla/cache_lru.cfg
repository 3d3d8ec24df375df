SPECIFICATION FairSpec
CONSTANTS
  Threads = {t1, t2}
  Getters = {t1}
  Closers = {t2}
  Keys = {ka, kb, kc}
  Values = {v1}
  TTLs = {0}
  MaxEntries = 2
  Elements = {e1, e2, e3}
  Root = root
  Janitor = janitor
  Nil = nil
  Horizon = 2
INVARIANTS RingMatchesMap
PROPERTIES ImplementsLRU SetReturns CleanupWorks
