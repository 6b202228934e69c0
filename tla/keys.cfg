SPECIFICATION FairSpec
CONSTANTS
  d1 = d1  k1 = k1  k2 = k2  a1 = a1  a2 = a2
  None = None
  Device = {d1}
  CmdId = {"c1", "c2"}
  Requests <- TrashRequest
  Creates = {"create1", "create2"}
  Decides = {"decide1"}
  Reads = {"read1"}
  Hellos = {}
  Reports = {}
  Adapter = "postgres"
  Advertises <- MCAdvertises
  MaxLifetime = 2
  MaxNow = 1
  MaxFaults = 1
  Faults = {"restart", "query_error"}
INVARIANTS OneCommandPerKey
PROPERTIES Settles
CHECK_DEADLOCK FALSE
