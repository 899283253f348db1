\* Edits as Slack sends them, one event at a time: none is stored.
SPECIFICATION Spec
CONSTANTS
  Messages = {1, 2}
  Admitted = {1}
  Channels = {c1}
  Workers = {w1}
  Tasks = {t1}
  EditsCarryText = FALSE
  Faults = {}
  MaxAttempts = 2
  MaxRev = 3
  MaxThread = 2
  MaxDuplicates = 0
  MaxCrashes = 0
  NoEntry = NoEntry
  NoSource = NoSource
SYMMETRY Symmetry
INVARIANT EditsStored
CHECK_DEADLOCK FALSE
