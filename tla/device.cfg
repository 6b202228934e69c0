SPECIFICATION MCFairSpec
CONSTANTS
  Socket = {s1, s2, s3}
  Adapter = "postgres"
  None = None
  r1 = r1
  r2 = r2
  r3 = r3
  Registration = {r1, r2, r3}
  Folded <- FoldedNames
  Store = "postgres"
INVARIANTS TypeOK OpenSocketIsRegistered AnsweredNameIsTaken
PROPERTIES PresenceRecovers
CHECK_DEADLOCK FALSE
