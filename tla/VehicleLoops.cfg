SPECIFICATION AllFairSpec
CONSTANTS
  Tasks = {t1, t2}
  Plain = {s1, e1}
  AnyBoot = {e1}
  NoCmd = NoCmd
  CommandTTL = 1
  DedupTTL = 1
  MaxTime = 2
  MaxBoots = 2
  RcMaxGens = 3
  RcMaxFaults = 1
INVARIANTS ForwardedOnce LockHasOwner FreeWhenTold
PROPERTIES Concluded RcRecovers 
CHECK_DEADLOCK FALSE
