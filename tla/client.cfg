SPECIFICATION MCSpec
CONSTANTS
  Server = {A, B}
  NoServer = NoServer
  Writes = {w}
  Polls = {p}
  c1 = c1
  c2 = c2
  c3 = c3
  notes = notes
  photo = photo
  Command = {c1, c2, c3}
  Path = {notes, photo}
  KindOf <- Kinds
  PathOf <- Paths
  MaxCache = 1
  MaxRuns = 3
  MaxKills = 1
INVARIANTS SessionTyped StoredOnceWhereSent DoneIsRecorded NativeTyped FilesAreWhole SuccessHadEffect
PROPERTIES SessionSettles RecentNeverReruns
CHECK_DEADLOCK FALSE
