SPECIFICATION FairSpec
CONSTANTS
  Record = {1}
  Task = {t1}
  Admin = {}
  MaxAttempts = 2
  Cap = 2
CHECK_DEADLOCK FALSE
PROPERTY EventuallySettled
