SPECIFICATION Spec
CONSTANTS
  d1 = d1  k1 = k1  k2 = k2  a1 = a1  a2 = a2
  None = None
  Device = {d1}
  CmdId = {"c1"}
  Requests <- TrashRequest
  Creates = {"create1"}
  Decides = {"decide1", "decide2"}
  Reads = {}
  Hellos = {}
  Reports = {}
  Adapter = "postgres"
  Advertises <- MCAdvertises
  MaxLifetime = 2
  MaxNow = 1
  MaxFaults = 0
  Faults = {}
PROPERTIES OneTimeDecision
CHECK_DEADLOCK FALSE
