SPECIFICATION FairSpec
CONSTANTS
  Patches <- OnePatch
  Threads = {t1, t2}
  MaxQueue = 2
INVARIANTS TypeOK AppliedOnce PublishedOnce
PROPERTIES AbsentEndsOffline ReportsPrevail
CHECK_DEADLOCK FALSE
