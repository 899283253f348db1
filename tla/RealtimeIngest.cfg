\* Two workers, two tasks at a time; every fault and a crash.
SPECIFICATION Spec
CONSTANTS
  Messages = {1}
  Admitted = {1}
  Channels = {c1}
  Workers = {w1, w2}
  Tasks = {t1, t2}
  EditsCarryText = TRUE
  Faults = {"upload", "lostAnswer", "noIds", "delete", "fetch", "raise", "save"}
  MaxAttempts = 1
  MaxRev = 2
  MaxThread = 1
  MaxDuplicates = 1
  MaxCrashes = 1
  NoEntry = NoEntry
  NoSource = NoSource
SYMMETRY Symmetry
INVARIANTS InFlightOwned TrackedIsLive
PROPERTY NoDataHole
CHECK_DEADLOCK FALSE
