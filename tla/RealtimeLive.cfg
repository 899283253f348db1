\* Three events at a time of a message, edits and deletes as Slack sends them.
SPECIFICATION LiveSpec
CONSTANTS
  Messages = {1}
  Admitted = {1}
  Channels = {c1}
  Workers = {w1}
  Tasks = {t1, t2, t3}
  EditsCarryText = FALSE
  Faults = {}
  MaxAttempts = 2
  MaxRev = 1
  MaxThread = 3
  MaxDuplicates = 3
  MaxCrashes = 0
  NoEntry = NoEntry
  NoSource = NoSource
INVARIANTS NoStrayCopies
PROPERTIES EventuallyTracked
CHECK_DEADLOCK FALSE
