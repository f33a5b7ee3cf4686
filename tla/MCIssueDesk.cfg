SPECIFICATION MCSpec
CONSTANTS
  PageSlot = {"list", "click"}
  Null = Null
  Wish = {toIssue, toTransfer}
  TransferWish = {toTransfer}
  MaxNotes = 2
  MaxJobs = 2
  MaxApprovals = 1
  MaxFaults = 1
INVARIANTS DeskTypeOK SessionIsExplained NotesAreTrue
PROPERTIES RequestsSettle
