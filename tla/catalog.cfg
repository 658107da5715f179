SPECIFICATION CatFairSpec
CONSTANTS
  t1 = t1 t2 = t2 t3 = t3 s1 = s1 s2 = s2
  Keys = {t1, t2, t3}
  Vals = {s1, s2}
  Sessions = {s1, s2}
  NoSession = NoSession
  Hash <- NameHash
  InitCap = 2
  MaxCap = 4
  NoValue = NoValue
INVARIANTS CatTypeOK AckedStays MutexHeld
PROPERTIES LockReleased
CHECK_DEADLOCK FALSE
