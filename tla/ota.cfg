SPECIFICATION FairSpec
CONSTANTS
  MaxVersion = 2
  Faults = {"offline", "task", "download", "nvs", "loss", "crash", "publish"}
  MaxFaults = 1
  Http = {"h1"}
  MaxRollouts = 2
INVARIANTS TypeOK OnlineMeansConfirmed SentOnce
PROPERTIES SuccessByNewFirmware RunningRecorded RolloutCompletes
CHECK_DEADLOCK FALSE
