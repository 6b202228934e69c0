SPECIFICATION MCSpec
CONSTANTS
  d1 = d1  k1 = k1  k2 = k2  a1 = a1  a2 = a2
  None = None
  MaxRuns = 2
  MaxExecutions = 3
  MaxCache = 1
  Device = {d1}
  CmdId = {c1, c2}
  Requests <- ReadRequests
  Creates = {"create1"}
  Decides = {}
  Reads = {}
  Hellos = {"hello1"}
  Reports = {"report1"}
  Adapter = "postgres"
  Advertises <- MCAdvertises
  MaxLifetime = 2
  MaxNow = 1
  MaxFaults = 1
  Faults = {"restart"}
SYMMETRY Symmetry
INVARIANTS OutcomeWasExecuted
PROPERTIES RerunsOnlyOnceEvicted
CHECK_DEADLOCK FALSE
