SPECIFICATION WindowSpec
CONSTANTS
  NumNodes = 1
  MaxRetries = 1
  Paired = {1}
  Booting = TRUE
  Faults = {"manager", "radio", "recover"}
  MaxFaults = 1
  MaxCommands = 1
  MaxConnects = 1
  MaxAddr = 1
  MaxRestarts = 1
  MaxOutages = 1
INVARIANTS WindowTypeOK WindowRecovered NoOrphan
CHECK_DEADLOCK FALSE
