SPECIFICATION FairSpec
CONSTANTS
  NumLights = 2
  Http = {"h1", "h2"}
  Commands <- MCCommands
  MaxRequests = 2
  MaxEdits = 1
  MaxFaults = 1
INVARIANTS TypeOK AnsweredExactlyOnce
PROPERTIES RuleEnforced
CHECK_DEADLOCK FALSE
