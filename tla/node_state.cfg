SPECIFICATION Spec
CONSTANTS
  MaxAddr = 2
  MaxMessages = 4
  MaxCrashes = 2
  MaxFaults = 1
INVARIANTS LedShowsModel Persisted AddressSaved
PROPERTIES StageNeverBack
CHECK_DEADLOCK FALSE
