SPECIFICATION Spec
CONSTANTS
  l1 = l1
  t1 = t1
  t2 = t2
  NotHeld = NotHeld
  Levels = {l1}
  MaxSize = 1
  Seeders = {t1, t2}
  CachedSnapshots = TRUE
  MaxChanges = 2
  MaxFailures = 1
  MaxDrops = 1
INVARIANTS
  TypeOK
  NothingStranded
  HeldLevelsHaveIds
PROPERTY Repaired
