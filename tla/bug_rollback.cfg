SPECIFICATION Spec
CONSTANTS
  MaxCandidates = 3
  Content <- AllPass
  Requests = {"request1"}
  Workers = {}
  Adapter = "memory"
  Attempts = 3
  MaxFaults = 0
PROPERTIES RollbackRestoresPrevious
CHECK_DEADLOCK FALSE
