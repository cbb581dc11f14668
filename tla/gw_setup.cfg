SPECIFICATION Spec
CONSTANTS
  NumNodes = 1
  MaxRetries = 1
  Paired = {}
  Booting = FALSE
  Faults = {"loss", "refuse", "send"}
  MaxFaults = 1
  MaxCommands = 1
  MaxConnects = 0
  MaxAddr = 2
  MaxRestarts = 1
INVARIANTS Subscribed SetupCompletes
CHECK_DEADLOCK FALSE
