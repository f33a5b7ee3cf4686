SPECIFICATION LessFairSpec
CONSTANTS
  Record = {1}
  Task = {t1, t2}
  Admin = {a1}
  MaxAttempts = 2
  Cap = 2
CHECK_DEADLOCK FALSE
INVARIANTS
  TypeOK
  TroubleShows
PROPERTIES
  Delivers
  PendingIsTaken
