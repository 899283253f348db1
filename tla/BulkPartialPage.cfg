\* A later page of conversations.history fails.
SPECIFICATION BulkSpec
CONSTANTS
  c1 = c1
  c2 = c2
  Messages = {1, 2}
  Admitted = {}
  Channels = {c1}
  Workers = {w1}
  Tasks = {t1}
  EditsCarryText = TRUE
  Faults = {}
  MaxAttempts = 1
  MaxRev = 1
  MaxThread = 0
  MaxDuplicates = 0
  MaxCrashes = 0
  Runs = {r1}
  ChannelOf <- OneChannel
  Readable = {1, 2}
  Second <- OwnSecond
  BatchSize = 1
  FetchCap = 3
  BulkFaults = {"page"}
  MaxUploads = 4
  NoEntry = NoEntry
  NoSource = NoSource
SYMMETRY Symmetry
INVARIANTS WatermarkCovers
CHECK_DEADLOCK FALSE
