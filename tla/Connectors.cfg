\* Safety of the connectors, each on its own.
SPECIFICATION ConnectorsSpec
CONSTANTS
  t1 = t1
  c1 = c1
  w1 = w1
  g1 = g1
  l1 = l1
  \* EventDedupe: two workers, a working database, restarts and cleanup
  Workers = {p1, p2}
  Events = {e1}
  SeenTTL = 3
  SeenMax = 0
  Retain = 3
  RetryWindow = 2
  MaxDeliveries = 4
  MaxHandling = 1
  Outages = FALSE
  MaxRestarts = 2
  MaxTime = 8
  \* SlackConnection: three requests at a time, Slack and Supabase may fail
  Teams = {t1, t2}
  Channels = {c1, c2}
  TeamOf <- FirstIsT1
  Callers = {q1, q2, q3}
  Failures = TRUE
  MaxTokens = 2
  \* Selection: two saves that overlap, with a bot list or without, and fail
  Items = {i1, i2}
  Savers = {s1, s2}
  MaxGroup = 2
  \* GmailConnection: two callbacks and a run; reads and writes of the row fail
  Callbacks = {k1, k2}
  Users = {"ingest"}
  TokenFailures = {"read", "write"}
  MaxConnects = 3
  MaxTokenExpiries = 1
  MaxCallFailures = 0
  MaxMinted = 3
  \* GmailSync: a budget of one mail, a blocked label, a label put on later, manual runs
  Mails = {m1, m2}
  Labels = {a, b}
  Blocked = {b}
  Unindexable = {}
  Runs = {r1}
  Cap = 1
  PageCap = 2
  Faults = {"list", "raise", "fetch", "soft", "profile"}
  ManualRuns = TRUE
  MaxRelabels = 1
  MaxFaults = 2
  MaxExpiries = 0
  MaxCrashes = 0
  \* Scheduler: the startup job and the interval's; changes and a restart
  Of <- OwnerOf
  Slack = {w1}
  Gmail = {g1}
  Feeds = {c1, c2, l1}
  Bad = {}
  Broken = {}
  Jobs = {"interval", "startup"}
  MaxChanges = 3
  MaxSweepFaults = 1
  MaxStarts = 1
SYMMETRY Symmetry
INVARIANTS Types ChannelsFollowInstall SavesTakeEffect ReadersSeeOldOrNew
INVARIANTS CopiesPerLabel SelectionIsFresh
PROPERTIES ImplementsEventClaim RefreshTokenKept
CHECK_DEADLOCK FALSE
