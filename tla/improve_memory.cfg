SPECIFICATION Spec
CONSTANTS
  MaxCandidates = 3
  Content <- OneShort
  Requests = {"request1", "request2"}
  Workers = {"worker1"}
  Adapter = "memory"
  Attempts = 3
  MaxFaults = 1
INVARIANTS ActiveWasChosen NotWithoutActive
PROPERTIES ActiveStays
CHECK_DEADLOCK FALSE
