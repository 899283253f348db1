\* Liveness, and safety where nothing is to be lost on the way.
SPECIFICATION ProgressSpec
CONSTANTS
  office = office
  w1 = w1
  w2 = w2
  g1 = g1
  c1 = c1
  c2 = c2
  c3 = c3
  l1 = l1
  \* EventDedupe: the database may fail, nobody restarts, the cache holds one of two events
  Workers = {p1}
  Events = {e1, e2}
  SeenTTL = 2
  SeenMax = 1
  Retain = 2
  RetryWindow = 1
  MaxDeliveries = 3
  MaxHandling = 1
  Outages = TRUE
  MaxRestarts = 0
  MaxTime = 4
  \* StateFile: three writers under the lock
  Writers = {f1, f2, f3}
  Updates = {u1, u2, u3}
  NoWriter = NoWriter
  HasFcntl = TRUE
  \* Scheduler: w2 always raises, c2 always fails; one job, one restart
  Of <- OwnerOf
  Slack = {w1, w2}
  Gmail = {g1}
  Feeds = {c1, c2, c3, l1}
  Bad = {c2}
  Broken = {w2}
  Jobs = {"interval"}
  MaxChanges = 3
  MaxSweepFaults = 1
  MaxStarts = 1
  \* GmailSync: one run after the other, each failure the code makes up for
  Mails = {m1}
  Labels = {a, b}
  Blocked = {}
  Unindexable = {}
  Runs = {r1}
  Cap = 4
  PageCap = 2
  Faults = {"list", "fetch", "raise", "lost", "soft", "state", "map", "profile"}
  MaxRelabels = 0
  ManualRuns = FALSE
  MaxFaults = 1
  MaxExpiries = 1
  MaxCrashes = 1
  \* GmailConnection: two callbacks, a run and a picker; Supabase works
  Callbacks = {k1, k2}
  Users = {"ingest", "picker"}
  TokenFailures = {}
  MaxConnects = 2
  MaxTokenExpiries = 1
  MaxCallFailures = 1
  MaxMinted = 3
  \* ChatClient: two questions, two clears, a slow token, failures
  MaxTurns = 2
  MaxClears = 2
  Failures = TRUE
  \* RateLimiter: a second has two ticks; the limit stays
  Clients = {user}
  ClientOf <- OneAddress
  Threads = {t1, t2}
  Limits = {2}
  Window = 4
  TicksPerSecond = 2
  Delay = 1
  MaxNow = 8
PROPERTIES OutageDegrades ImplementsAtomicUpdates WritersFinish SweepsReachAll
PROPERTIES EventuallyStored TokensRenew ChatSettles RetryAdmits
CHECK_DEADLOCK FALSE
