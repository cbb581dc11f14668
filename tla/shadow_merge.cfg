SPECIFICATION Spec
CONSTANTS
  Patches <- TwoPatches
  Threads = {t1, t2}
  MaxQueue = 2
INVARIANT DesiredMerges
CHECK_DEADLOCK FALSE
