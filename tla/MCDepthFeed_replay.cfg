SPECIFICATION Spec
CONSTANTS
  l1 = l1
  t1 = t1
  NotHeld = NotHeld
  Levels = {l1}
  MaxSize = 1
  Seeders = {t1}
  CachedSnapshots = FALSE
  MaxChanges = 2
  MaxFailures = 0
  MaxDrops = 0
INVARIANT NewestValueKept
