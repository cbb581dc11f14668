SPECIFICATION FairSpec
CONSTANTS
  NumNodes = 1
  MaxRetries = 1
  Paired = {1}
  Booting = TRUE
  Faults = {"loss", "post", "task"}
  MaxFaults = 2
  MaxCommands = 1
  MaxConnects = 1
  MaxAddr = 1
  MaxRestarts = 0
PROPERTY PendingEnds
CHECK_DEADLOCK FALSE
