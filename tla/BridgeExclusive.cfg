SPECIFICATION Spec
CONSTANTS
  Tasks = {t1, t2}
  Plain = {}
  AnyBoot = {}
  NoCmd = NoCmd
  CommandTTL = 2
  DedupTTL = 2
  MaxTime = 1
  MaxBoots = 1
SYMMETRY TaskSymmetry
INVARIANT TaskExclusive
CHECK_DEADLOCK FALSE
