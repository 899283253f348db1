\* Liveness: passes catch up with what realtime ignored, failed at or lost.
SPECIFICATION BulkLiveSpec
CONSTANTS
  c1 = c1
  c2 = c2
  Messages = {1, 2}
  Admitted = {2}
  Channels = {c1, c2}
  Workers = {w1}
  Tasks = {t1}
  EditsCarryText = TRUE
  Faults = {"upload", "raise", "save"}
  MaxAttempts = 2
  MaxRev = 1
  MaxThread = 0
  MaxDuplicates = 0
  MaxCrashes = 1
  Runs = {r1}
  ChannelOf <- TwoChannels
  Readable = {1, 2}
  Second <- OwnSecond
  BatchSize = 1
  FetchCap = 3
  BulkFaults = {}
  MaxUploads = 8
  NoEntry = NoEntry
  NoSource = NoSource
PROPERTY SafetyNet
CHECK_DEADLOCK FALSE
