SPECIFICATION MCFairSpec
CONSTANTS
  MaxCandidates = 2
  Content <- AllPass
  Requests = {"request1", "request2"}
  Workers = {"worker1"}
  Adapter = "postgres"
  Attempts = 2
  MaxFaults = 1
INVARIANTS TypeOK AtMostOneActive
PROPERTIES QueuedDraftsAreEvaluated
CHECK_DEADLOCK FALSE
