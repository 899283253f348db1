\* One pass beside the realtime path: replies and deletes, faults and a crash.
SPECIFICATION BulkSpec
CONSTANTS
  c1 = c1
  c2 = c2
  Messages = {1, 2}
  Admitted = {1}
  Channels = {c1}
  Workers = {w1}
  Tasks = {t1}
  EditsCarryText = TRUE
  Faults = {}
  MaxAttempts = 1
  MaxRev = 1
  MaxThread = 1
  MaxDuplicates = 0
  MaxCrashes = 1
  Runs = {r1}
  ChannelOf <- OneChannel
  Readable = {1, 2}
  Second <- OwnSecond
  BatchSize = 1
  FetchCap = 3
  BulkFaults = {"upload", "lostAnswer", "raise"}
  MaxUploads = 3
  NoEntry = NoEntry
  NoSource = NoSource
SYMMETRY Symmetry
INVARIANT WatermarkCoversRead
PROPERTY KeysNotLost
CHECK_DEADLOCK FALSE
