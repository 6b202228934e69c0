SPECIFICATION Spec
CONSTANTS
  Path = {notes, todo}
  Requests = {request1, request2}
  Adapter = "postgres"
  MaxVersions = 3
  MaxNow = 2
  MaxFaults = 1
SYMMETRY Symmetry
INVARIANTS TypeOK BranchesAreFlagged ConflictIsReal BranchesAreLogged
CHECK_DEADLOCK FALSE
