\* Safety of the way from a question to its answer, each component on its own.
SPECIFICATION Spec
CONSTANTS
  \* RateLimiter: two threads, limits that change, a lock that is waited for
  office = office
  Clients = {u1}
  ClientOf <- OneAddress
  Threads = {t1, t2}
  Limits = {1, 2}
  Window = 3
  TicksPerSecond = 1
  Delay = 1
  MaxNow = 8
  \* QueryAnswers: two requests at a time, two questions of two workspaces for a cache of one
  Requests = {r1, r2}
  Questions = {q1, q2}
  Workspaces = {a, b}
  SourceKinds = {}
  Conversations = {k1}
  TTL = 2
  Size = 1
  Slow = 1
  MaxClock = 4
  \* Recall: responses of up to three snippets, with and without memories
  Responses <- Lists
  MemoryLists <- MemoLists
  Entries <- StateEntries
  Asks <- AllAsks
  KindOfKey <- SlackOrGmail
  \* MemoryStore: a message, its edit and a mention that clashes, in one source, two workers (a realtime refusal ends like a failure)
  Sources = {"s1"}
  Workers = {w1, w2}
  Failures = TRUE
  Paths = {"batch"}
  Texts <- Plans
  \* AliasMap
  Ids <- AllIds
  Names <- AllNames
  Pairs <- AllPairs
  Order <- ReprOrder
SYMMETRY Symmetry
INVARIANTS WithinLimit CacheIsSound SourcesAreSound MemoryIsFaithful RootIsLeast
CHECK_DEADLOCK FALSE
