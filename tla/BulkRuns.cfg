\* Two overlapping passes over one channel, two messages in one second, faults and a crash.
SPECIFICATION BulkSpec
CONSTANTS
  c1 = c1
  c2 = c2
  Messages = {1, 2}
  Admitted = {}
  Channels = {c1}
  Workers = {w1}
  Tasks = {t1}
  EditsCarryText = TRUE
  Faults = {}
  MaxAttempts = 1
  MaxRev = 1
  MaxThread = 0
  MaxDuplicates = 0
  MaxCrashes = 1
  Runs = {r1, r2}
  ChannelOf <- OneChannel
  Readable = {1, 2}
  Second <- SameSecond
  BatchSize = 2
  FetchCap = 3
  BulkFaults = {"page", "partial", "noNames", "noResults"}
  MaxUploads = 3
  NoEntry = NoEntry
  NoSource = NoSource
SYMMETRY Symmetry
INVARIANTS BulkTypeOK WatermarkCoversRead SuccessesRecorded
PROPERTIES WatermarkNeverBack
CHECK_DEADLOCK FALSE
