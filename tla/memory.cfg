SPECIFICATION FairSpec
CONSTANTS
  d1 = d1  k1 = k1  k2 = k2  a1 = a1  a2 = a2
  None = None
  Device = {d1}
  CmdId = {"c1", "c2"}
  Requests <- PairRequests
  Creates = {"create1"}
  Decides = {"decide1"}
  Reads = {"read1"}
  Hellos = {"hello1"}
  Reports = {"report1"}
  Adapter = "memory"
  Advertises <- MCAdvertises
  MaxLifetime = 2
  MaxNow = 2
  MaxFaults = 0
  Faults = {}
INVARIANTS SentStandsOnApproval ResultsAgree RetryIsRecognised
PROPERTIES TerminalIsFinal OneTimeDecision FollowsLifecycle Settles
CHECK_DEADLOCK FALSE
