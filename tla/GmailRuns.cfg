\* Two overlapping runs, a blocked label; every failure, an expired history, a label put
\* on later, a crash.
SPECIFICATION GmailSpec
CONSTANTS
  Mails = {m1}
  Labels = {a, b}
  Blocked = {b}
  Unindexable = {}
  Runs = {r1, r2}
  Cap = 4
  PageCap = 2
  Faults = {"list", "fetch", "raise", "lost", "soft", "state", "map", "profile"}
  ManualRuns = FALSE
  MaxRelabels = 1
  MaxFaults = 1
  MaxExpiries = 1
  MaxCrashes = 1
INVARIANTS WatermarkCovers
CHECK_DEADLOCK FALSE
