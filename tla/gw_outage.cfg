SPECIFICATION FairWindowSpec
CONSTANTS
  NumNodes = 1
  MaxRetries = 1
  Paired = {1}
  Booting = TRUE
  Faults = {"manager", "radio", "recover"}
  MaxFaults = 1
  MaxCommands = 0
  MaxConnects = 3
  MaxAddr = 1
  MaxRestarts = 0
  MaxOutages = 2
CHECK_DEADLOCK FALSE
PROPERTY PublishesAgain
