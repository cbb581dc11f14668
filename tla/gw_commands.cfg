SPECIFICATION Spec
CONSTANTS
  NumNodes = 2
  MaxRetries = 1
  Paired = {1, 2}
  Booting = FALSE
  Faults = {"loss", "post", "task"}
  MaxFaults = 1
  MaxCommands = 2
  MaxConnects = 0
  MaxAddr = 1
  MaxRestarts = 0
INVARIANTS TypeOK NoOrphan AckedAtMostOnce Converged
PROPERTIES AckTruthful LedgerSpec
CHECK_DEADLOCK FALSE
