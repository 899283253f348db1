# Second Brain: TLA+ models

The program answers questions about a team's Slack and Gmail. A FastAPI backend
(`src/backend`) ingests messages into HydraDB, a document store with search,
keeps its own record of what it uploaded, extracts structured memories from it
and answers with an LLM; a React client (`src/frontend`) asks, saves and shares
answers and chooses what is ingested. These modules model what happens when
deliveries are repeated, requests and passes overlap, calls fail, processes die
and answers arrive late.

## 1. Inventory

| Part | State | Operations | Talks to | What makes it correct |
| --- | --- | --- | --- | --- |
| Webhook and dedupe (`main.slack_events`, `realtime_ingest._event_already_seen`, `supabase_client.claim_slack_event_id`) | per-process cache `_seen_event_ids`; table `slack_event_seen`; background tasks | receive, look in cache, claim, queue, clean up | Slack, Supabase, realtime | an event is handled at most once, never dropped by everybody; an outage degrades to once per process |
| Realtime ingestion (`realtime_ingest.py`) | `_in_flight` per process | message, reply, edit, delete of a message, delete of a reply | Slack, HydraDB, state file | the record names live documents; edits leave no hole; what is stored follows Slack |
| Ingestion state (`ingestion/ingestion_state.py`) | `data/ingestion_state.json`, its `.lock` and `.tmp` | `locked()`, `save_locked()`, `mark_uploaded`, `remove`, watermarks | file system | no lost update as long as it can be read, no torn file, no lock kept |
| Bulk ingestion (`slack_oauth.run_workspace_ingest`, `ingestion/ingest_slack.py`, `slack_client.py`) | a copy of the state per pass | read channel, upload batches, record, save, advance watermark | Slack, HydraDB, state file | the watermark passes no message that was read and not taken; polling catches up |
| HydraDB client, retry (`hydradb_client.py`, `retry.py`) | none | upload, delete, recall; retry with backoff | HydraDB | a failure is reported, deletes never raise |
| Scheduler (`scheduler.py`) | two jobs; rows of `workspaces` | sweep over Slack, then Gmail | bulk, Gmail, Supabase | a failing workspace does not stop the sweep; what is ingested is selected |
| Gmail connector (`gmail_oauth.py`) | `gmail_connections`, `gmail_labels`, `gmail_ingestion_state` | connect, refresh a token, disconnect, list labels, ingest by history or in full | Google, HydraDB, Supabase | the history watermark covers what was uploaded; a refresh token is not lost |
| Slack OAuth, selection (`slack_oauth.py`, `supabase_client.py`) | `slack_installations`, `slack_channels` | connect, refresh the picker, save a selection, disconnect | Slack, Supabase | what is saved takes effect; rows go with their installation |
| Rate limiter (`rate_limit.py`) | a deque of times per client | hit | routes | limits hold in every window, whoever waits is admitted |
| Query cache and query routes (`query_cache.py`, `main.query`, `query_stream`) | TTL cache | look up, recall, answer, store | recall, LLM | an answer is to the question that was asked, of who may see it, and not older than the TTL |
| Recall and search (`recall.py`, `search_utils.py`) | none | join, filter, dedupe, rank, number, clean | HydraDB, state file, memory | citations resolve; signals weigh as stated |
| Structured memory (`memory_store.py`, `memory_extraction.py`, `memory_intelligence.py`) | `extracted_memories` | extract, upsert, list, merge people | Supabase | what is remembered was said; one class per person |
| Chats, saved answers, share links (`supabase_client.py`, `main.py`) | rows | create, list, delete, share, revoke | Supabase | an answer saved is on the panel and in the rows; withdrawn links are not served |
| Frontend (`App.jsx`, `api.js`, `WorkspaceContext.jsx`, `SlackSettings.jsx`, `GmailSettings.jsx`) | React state and refs | submit, stop, clear, save, share, pick | routes | a late answer does not spoil what came after it |
| Analytics, authentication, operations | append-only rows; none | | | see section 6 |

What is hard here: the same message may be under way several times (Slack's
retries, an edit or a delete that follows a post, a polling pass), in several
threads and processes; the call to HydraDB lies between the look at the record
and its change; watermarks are never moved back, so whatever they pass without a
record is lost; one user action is several Supabase statements without a
transaction; credentials are read, used over the network and written back; and
the client sends requests whose answers it does not order. `PROJECT.json` lists
each hazard at its line.

## 2. Modules

| Module | Models | Abstracts |
| --- | --- | --- |
| `EventClaim` | abstract: hand each event over at most once, run the handler at most once per hand-over | |
| `EventDedupe` | the webhook: cache, claim row, fail-open, background queue, cleanup, restarts, clock | the payload |
| `AtomicUpdates` | abstract: every update of the file is one step applied to all earlier ones, unless its writer could not read them | |
| `StateFile` | `locked()` / `save_locked()` / `_save()` step by step: flock, load, truncate `.tmp`, write, rename, unlock; reads that fail, exceptions and crashes | the content of the file is the set of updates in it |
| `IngestionState` | the value of the state file: entries, watermarks, merge rules | display fields |
| `RealtimeIngest` | the tasks of `process_slack_event` from gate to `finally`, `_in_flight`, HydraDB's documents, what users do in Slack | a text is its revision, a thread a counter; the gates are the set `Admitted` |
| `BulkIngest` | polling passes beside `RealtimeIngest` (it extends it): own copy of the state, batches, what an answer says of each file, recording by file name, merge, watermark | reading a channel is one step |
| `GmailSync` | `run_workspace_gmail_ingest` label by label: history, fallback, listing, profile, fetch, upload, watermark; crashes | a mail is a name; which mails give a document is a constant |
| `GmailConnection` | OAuth callbacks, token refresh after a 401, write-back, disconnect | tokens are numbers |
| `SlackConnection` | install, reconnect, picker refresh, revoke and delete | the signed OAuth state |
| `Selection` | saving a selection update by update, refreshes and readers between (channels and labels) | one workspace or connection |
| `Scheduler` | start-up, interval and manual jobs, both sweeps, the rows they read | an ingestion stores what is pending or fails |
| `RateLimiter` | `hit()`, clock read apart from the lock, changing limit, who is counted | one bucket |
| `QueryAnswers` | both query routes around the cache | the text and the filters that are in the key are "the question", the workspace and the sources beside it its scope; an answer is what it answers and when it was recalled |
| `Recall` | `prepare_recall_context`, ranking in each mode, numbering, citation clean-up, as functions on sequences; a comprehension and a sort say which positions they take | words are counts of matching terms |
| `MemoryStore` | extraction and the batch upsert in the realtime and the batch paths | a text is its set of matched phrases |
| `AliasMap` | `build_alias_map`: rules and union-find | labels and counts |
| `ChatClient` | submit, stream, stop, clear, session creation, mirroring | tokens of an answer |
| `SavedAnswers` | save, swap of ids, remove, list, share, revoke, public page, each of which may fail | limits |
| `LabelPicker` | the Gmail panel and its routes | a save is one write (see `Selection`) |
| `ChannelPicker` | the Slack panel, its routes, and the workspace a request goes to | likewise |
| `RealtimeIngestProofs`, `BulkIngestProofs`, `SyncProofs` (`StateFile`, `Scheduler`, `GmailSync`), `ConnectorProofs` (`EventDedupe`, `Selection`, `SlackConnection`, `GmailConnection`), `MCConnectorsProofs` (their composition), `AnswersProofs` (`RateLimiter`, `MemoryStore`, `Recall`, `AliasMap`, `QueryAnswers`), `ClientProofs` (`SavedAnswers`, `LabelPicker`, `ChannelPicker`, `ChatClient`) | theorems, see section 4 | |
| `NumberSets` | least and greatest elements of sets of numbers | |
| `MC...` | symmetry, and values of constants that are functions or sets of data | |

How they compose. `StateFile` shows that a locked section of the state file is one
atomic update as long as the file can be read; `RealtimeIngest` and `BulkIngest` use
that and make each `with _state_lock` block and each `save_locked()` one step.
`EventDedupe` shows how often an event may reach the handler; `RealtimeIngest` delivers
each Slack event once and redelivers up to `MaxDuplicates` of them, which is what the
dedupe still lets through during an outage. `BulkIngest` runs with the realtime tasks
and shares `entries` and `docs` with them. `Scheduler` says which passes run and over
what list; `BulkIngest` and `GmailSync` are what one pass does, and are checked with
overlapping passes because `Scheduler` shows that passes overlap. `Selection` shows what
a reader may get while a save is under way; `LabelPicker` and `ChannelPicker` take a
save as one write and look at the client's side of it. `GmailSync` assumes that Gmail
can be called; `GmailConnection` is about that.

Each specification module has its own `Spec` over its own variables, so most
components share no state in these models. `MCConnectors`, `MCAnswers`,
`MCProgress` and `MCClient` therefore check several side by side: a variable
`part`, chosen at the start, says which of them moves in a behaviour, the others
stay as they begin. The behaviours of such a sum are those of its parts, so this
loses nothing, and a run with another set `Parts` (a definition of the module)
checks one component alone.

### State and code

* `EventDedupe`: `seen[w]` is `_seen_event_ids`, `rows` the table, `queue[w]`
  the `BackgroundTasks` of worker `w`; `handed`, `local` and `runs` are history.
  `slack_events` is a coroutine that makes its two synchronous calls without
  awaiting, so one worker is in one claim at a time (`req[w]`). A `Restart`
  loses everything but `rows`.
* `RealtimeIngest`: `task[t]` is one run of `process_slack_event` with its local
  variables: `pc` says before which block it is (`start`: routing, `ingest`:
  entering `_ingest_standalone` or `_ingest_thread`, `upload`, `record`,
  `release`: the `finally`, `reread` and `drop`: the two halves of
  delete-after-re-upload, `purge` and `remove`: a delete). `oldSource` and
  `oldStamp` are `old_source_id` and `old_uploaded_at`. `entries` is the
  `entries` part of the file and `docs` what HydraDB holds, with each document's
  id, key and the revision it was built from.
* `BulkIngest`: `run[r]` is a pass with its `IngestionState` instance (`mem`,
  `memMarks`), the channels left (`todo`), the channel at hand and its files, `results`
  the outcomes of the last batch and `answer` how much the answer says of them. `marks`
  is the `channels` part of the file; `accepted` and `missed` are history: what HydraDB
  took, and what a fetch left out. `run_workspace_ingest` and the CLI's `main` share
  these steps; the CLI lets an exception in an upload end the process, which is
  `CrashRun`.
* `StateFile`: `pc[w]` walks through `locked()`; `Torn` is a cut-off JSON file,
  which `_load` takes for an empty one, as it does any file it cannot read (`LoadFails`);
  `blind` are the updates of writers whose read failed.
* `GmailSync`: `clock` is the mailbox's history id; `added[m]` and `tagged[m][l]` say
  when a mail arrived and when it got a label. `run[r]` is one
  `run_workspace_gmail_ingest` with its locals: the labels left, the budget left,
  `seen`, the watermarks it read at its start, the label at hand with its ids, `newId`
  and the documents that are ready. `marks` are the rows of `gmail_ingestion_state`.
  `docs` counts copies; `missed` and `passed` are history: mails a run did no more than
  count as failed, and mails below a watermark of whose run no answer contained them.
* `GmailConnection`: `conn` is the row, with its refresh and access token; `grants`
  and what Google still accepts are Google's; a callback and a use of the
  connection (a run, a picker) keep what they read in their own records.
* `SlackConnection`: `install` is the row of `slack_installations`, `channelRows`
  those of `slack_channels` with the id of the installation they belong to, `live`
  the tokens Slack accepts; `serving[p]` is one request and what it has read.
* `Selection`: `selected` and `bots` are the two flags of the rows `known`;
  `save[s]` walks through the four updates; `group` is history: what the saves since a
  moment without any have asked for.
* `Scheduler`: `job[j]` is a pass with the rows it found and the items it has
  left; `queued` says whether the start-up run is still to come; `stamped` are the
  workspaces marked as synced.
* `RateLimiter`: `hits` is the deque of a client, `calls[t]` the `hit()` a thread
  executes with the clock reading it took before the lock; `log` and `told` are
  history.
* `QueryAnswers`: `cache` is the `TTLCache`, `given` the last answer somebody got.
* `Recall`: `ask` is a question with its mode and filters, `response` HydraDB's
  chunks, `context` the numbered sources the LLM sees, `shown` those of the UI.
* `MemoryStore`: `task[w]` is one ingestion on its way to `extract_and_persist`;
  `rows` the table, `said` and `persisted` history.
* `AliasMap`: `parent` is the dictionary of `_UnionFind`, `left` what the rule at
  hand (`phase`) has still to join, in any order.
* `ChatClient`: per turn its `bubble`, `stream` and `session` promise; `current` is
  `currentSessionIdRef`, `active` is `activeStreamRef`, `posts` the messages on
  their way.
* `SavedAnswers`: `panel` is what the client lists and `rows` the table; a
  temporary id is the negative of the row it will become; `strayed` is history: the answers
  of which a request failed or was overtaken.
* `LabelPicker`, `ChannelPicker`: what is on screen (account or workspace, list,
  ticks), the requests under way with what they carry, and the server's rows.

### Simplifications

* `uploaded_at` and the source id of an upload are the same number. Both are
  compared only for being those of the same upload.
* A realtime step that reads Slack, uploads or deletes is atomic; the state is
  re-read where the code re-reads it.
* A document whose upload got no answer is an `Orphan`: its id is 0, since nobody
  can ever name or delete it, and all orphans of a key are one. The client posts
  again (`Repost`, `RepostBatch`) or gives up (`Upload`, `LoseBatch`); that it posts at
  most three times is left out, since an orphan is stored only once.
* A fetch of a thread that fails on a later page yields revision 0, a document
  that is current for no state of the thread.
* Gmail is one mailbox of one connection; a batch is one upload; attempts of one
  call are one call that succeeded or was given up.
* Supabase executes one statement at a time; a request of several statements may
  fail between any two.
* React runs one handler at a time and the network answers in any order. A user
  does whatever the page lets him do, while anything is loading, too.
* Reads of the state file succeed outside `StateFile`: what a failed one does to the
  file is shown there and not again beside each writer.
* In `Recall` a chunk has a document, a count of keyword and subject hits and a
  header; in `MemoryStore` a text is the set of phrases its patterns match.

## 3. Runs

Twelve runs; what shares an environment shares a run. A property that is a
conjunction names the parts it is made of in its module.

| Run | Environment | Checks | States |
| --- | --- | --- | --- |
| `RealtimeIngest` | all faults: failed calls, unanswered uploads, crashes, redeliveries | `InFlightOwned`, `TrackedIsLive`, `NoDataHole` | 4,302,558 |
| `RealtimeLive` | three replies, three duplicates, edits and deletes without a text; no crash; weak fairness of tasks | `NoStrayCopies`, `EventuallyTracked` | 315,719 |
| `BulkRuns` | two passes over one channel, two messages of one second; failing pages, partial answers, answers without names or results, a crash | `BulkTypeOK`, `WatermarkCoversRead`, `SuccessesRecorded`, `WatermarkNeverBack` | 5,040,850 |
| `BulkRealtime` | one pass with refused batches, lost answers and exceptions beside a realtime task | `WatermarkCoversRead`, `KeysNotLost` | 4,425,925 |
| `BulkLive` | uploads accepted; weak fairness of passes and tasks | `SafetyNet` | 207,288 |
| `GmailRuns` | two overlapping runs, every failure, expiry, relabelling, a crash | `WatermarkCovers` | 3,739,573 |
| `Connectors` | six connectors side by side, each with its failures | `Types`, `ChannelsFollowInstall`, `SavesTakeEffect`, `ReadersSeeOldOrNew`, `CopiesPerLabel`, `SelectionIsFresh`, `ImplementsEventClaim`, `RefreshTokenKept` | 1,369,976 |
| `Answers` | five components of the way to an answer | `WithinLimit`, `CacheIsSound`, `SourcesAreSound`, `MemoryIsFaithful`, `RootIsLeast` | 3,295,304 |
| `Progress` | seven components under fairness | `OutageDegrades`, `ImplementsAtomicUpdates`, `WritersFinish`, `SweepsReachAll`, `EventuallyStored`, `TokensRenew`, `ChatSettles`, `RetryAdmits` | 307,663 |
| `Client` | the browser's side and the rows it writes; requests that fail, slow tokens, a user who waits for nothing | `TurnIsWhole`, `SavedAgree`, `LabelsAgree`, `ChannelsAgree` | 4,814,202 |
| `BulkPartialPage` | a later page of a channel fails | `WatermarkCovers`: violated, see section 5 | |
| `RealtimeEdits` | events one at a time, edits without a text of their own | `EditsStored`: violated, see section 5 | |

`OutageDegrades` is `[]OncePerProcess /\ EventuallyRuns`; `SafetyNet` is `CatchesUp`
and `InFlightDrains`; `CacheIsSound` is `AnswersTypeOK`, `AnswersOwnQuestion` and
`StaleForTTL`; `SourcesAreSound` is `CitationsResolve`, `OncePerDocument`,
`MemoriesCrowdOutNothing` and `RecencyBreaksTies`; `MemoryIsFaithful` is
`MemoriesWereSaid` and `Remembered`; `SweepsReachAll` is `PendingStored` and
`ChannelsAppear`; `ChatSettles` is `ReturnsToIdle` and `BubblesSettle`; `TurnIsWhole` is
`TurnInOneSession`, `AbortReaches` and `BubblesAlive`; `SavedAgree` is `OnceOnPanel`,
`Reconciles` and `WithdrawnNotServed`; `LabelsAgree` is `ScreenIsOneList`, `NewestIsActive`
and `NewestTicks`; `ChannelsAgree` is `WholeChannelList`, `SavedWhereShown` and
`ChannelTicksPersisted`; `Types` is the type invariants of five of the connectors.

### Bounds

Two workers and one event are enough for every race of the claim: workers share
only the row of that event. `Retain` (3) equals `RetryWindow` plus `MaxHandling`,
the tightest value the assumption allows (24 h against 1 h in the code), so a
cleanup that is one unit early would show. Two tasks are the least that race and
show every pairwise overlap; three are used where a duplicate, a reply and the
original meet. One message suffices where properties speak of one key at a time;
two are used where order matters (watermark, admission). `MaxAttempts` 1 in the
run with all faults makes a failed task end; the runs with 2 exercise the retry.
`MaxUploads` bounds what batches store.
In `BulkRuns` the two messages share a second and a batch, the least that can be
confused by name; `BulkRealtime` has batches of one, so that one is refused and the next
accepted.

One mail, two labels (one of them blocked) and two runs show what one run or failure can
do to another's watermark; a label put on later moves the history on without a new mail.
`Connectors` has two mails and a budget (`Cap`) of 1, which cuts every listing. Three
requests (`Callers`) let a disconnect, a reconnect and a picker overlap. Two channels
and two savers tell an old selection from a new one, from a mixture and from both; a
group has at most two saves (`MaxGroup`). In `Answers` the limiter has two threads and
limits of 1 and 2 in a window of 3 ticks; the cache has one place for two questions of
two workspaces (which stand for whatever the key lacks: the sources are not varied
besides); memories are of one source with three texts, one of which calls the same words
by two types, and two workers; `Recall` goes through every list of up to three of six
snippets, with five lists of memories, in every mode, filter and bias; `AliasMap`
through every set of the aliases and pairs of two people who share a first name, a third
one and two Slack ids, in every order of the rules. In `Client` three questions and one
clear let a stream outlive the conversation it belongs to; two accounts or workspaces
are the least that can be confused; two answers and two saves let a reply meet another
answer in its place. All bounds are conjuncts of guards.

`CHECK_DEADLOCK FALSE` in every configuration: with bounded deliveries, edits,
requests and uploads the system may rightly stop when everything is done.

### Fairness

Weak fairness only. A request or task that started goes on (`WorkerStep`, `RunTask`,
`TaskStep`): threads of a pool are scheduled, and every call has a timeout. A pass is
started at every interval and goes on (`RunStep`, `Fire`, `JobStep`, `Start`), which is
APScheduler's interval job. A writer of the state file goes on. In `GmailConnection` the
scheduler's use of the connection begins again and again, its calls are answered and
end. In `ChatClient` a stream gets its token, ends or breaks, and its callbacks run;
nothing makes a user ask or stop. In `RateLimiter` nothing is fair: `RetryAdmits` is
about what the next call gets. Nothing forces Slack to send, users to write, processes
to crash or calls to fail or succeed, with these exceptions: `SafetyNet` assumes that
bulk uploads are accepted (`BulkFaults = {}`), and `Progress` allows a bounded number of
faults per behaviour in `GmailSync`, `GmailConnection` and `Scheduler` besides the
things that never work (`Bad`, `Broken`). `OutageDegrades` holds without assuming that
Supabase ever answers. In `Progress` the fairness of a part is owed only by behaviours
in which that part moves.

### Mutants

Each property of a passing run has a mutant in the module it is about ("Mutant
of ..."): the definition as a plausible mistake would have it, e.g. an upsert
that writes the flags, a `finally` that is skipped, a stamp that is not compared, a
watermark that looks at the last batch only, a history read that starts one record
late. Each is found by that property. A conjunction has one for each part of it;
`PROJECT.json` names one of them.

## 4. Proofs

All with TLAPS, for every value of the constants under the named assumptions of the
modules. A theorem that needs more says so (`ASSUME ... PROVE`, or a hypothesis in its
statement); each such hypothesis is named and justified here, and the run of the
property satisfies it. None is there to keep the cases of section 5 away: a property
says itself which of them it is not about. The invariants below were checked with TLC
before they were proved. A module with several components has one part for each.

### Realtime path (`RealtimeIngestProofs`)

* `TypeCorrect`; `KeysAreOwned`: ownership (`OwnInv`) is inductive by itself with
  types.
* `TrackedStaysLive` and `NoHole` need `IdInv`: ids that somebody knows are unique,
  above 0 and below `nextId`, a task about to record has a stored document that
  nobody is about to delete, an entry's source id is that of its upload or unknown,
  and the old id a task is going to delete differs from the one its key is tracked
  under when it deletes it. From these, deleting the old document of a superseded
  entry never removes the last one. Both are about the realtime path by itself
  (`Spec`): beside a polling pass `TrackedIsLive` fails.
* `NoStrays`, for `OneProcess`: one worker in which nothing fails, messages that are
  not edited; any number of tasks, threads and duplicate deliveries. Two workers do
  not share `_in_flight`, a lost answer leaves an orphan, and an edit that overlaps
  the first upload leaves the older document, so none of the three can go.
  `StrayInv` adds to `OwnInv` and `IdInv` that only message events are about single
  messages (`OnlyFirstUploads`) and that while one of them is between upload and
  record the file does not name the message, a document being the file's or that
  task's (`UploadedOnce`).

### Polling (`BulkIngestProofs`), beside any tasks of the realtime path

* `BulkTypeCorrect`; `MarksGrow` and `KeysKept` follow from what a merge does, however
  old the copy that is merged (`MergesKeep`).
* `SuccessesAreRecorded`: results are matched by file name, so what an answer names is
  recorded under that name, and an answer that only counts records the whole batch.
  `BookInv` says that this is so of the last batch of each pass (`NamesRecorded`), and that
  a channel whose watermark is about to move has no file left and none refused.
* `WatermarksCover`, without further hypotheses. `Settled` are the messages that HydraDB has
  taken, that are tracked, or that a fetch left out. `CoverInv` states coverage four
  times: of the file, of each pass's copy of entries and watermarks, of what a pass has
  fetched (settled, or still under way in its files, unless the channel has failed), and it
  needs that a delete on its way is of a message that is gone from Slack
  (`DeletesAreReal`). The second is why merging the watermark of one copy with the entries
  of another is sound: whatever a copy's watermark passes is tracked in that copy or
  settled, and the merge keeps it.

### Background (`SyncProofs`)

* `SchedulerTypeCorrect`, `FreshCorrect`: a pass keeps in `allowed` all that has
  been selected since it began, and its items are among that (`FInv`).
* `GmailTypeCorrect`; `GInv` says besides the types that each arrival has a history
  id of its own, watermarks and what runs read of them are not ahead of the
  mailbox, and what a run is at fits its budget (`GoodRun`).
* `GmailMarksCover`, for any number of overlapping runs, any caps, failures, expiries,
  relabelling and crashes. For each mail that is owed to a label, `CoverInv` says of every
  run that it read a watermark below the mail, and that when it comes to the label or is
  at it, it has the mail in its hands, was not told of it (`unread`) or will not write a
  watermark that passes it (`Passes`).
* `GmailCopies`, for one run at a time, as long as nothing has failed: what the run read
  of the watermarks is still so (`ReadsFresh`), and copies are counted by the labels
  whose watermark has passed the mail, or is about to (`CopiesFit`).
* `FileTypeCorrect`; with `HasFcntl = TRUE`, `ReplaceComplete` and `FileIsAtomic` (the
  protocol refines `AtomicUpdates`). The inductive invariant adds to `FileTypeOK` that
  at most one writer is in the section (`Exclusive`), that its copy is the file plus its
  update, or its update alone if its read failed (`CopyFresh`, `TmpFresh`, `Unread`),
  and that an update is one writer's and not yet in the file while pending (`OwnUpdate`,
  `Disjoint`, `NotYet`), which makes a rename exactly one new update. `AtomicUpdates`
  lets a writer that could not read the file start it over, and nobody else.

### Connectors (`ConnectorProofs`, `MCConnectorsProofs`)

* `DedupeTypeCorrect`, `HandedOnce`, `ClaimRefined`. The invariant relates the clock,
  the row and the history: an event that was handed over still has its row as long
  as Slack may retry it or a slow request may still claim it (that is where
  `RetentionAssumption` enters), and only one worker holds the answer "first".
* `OncePerProcessHolds` says the same of one process whatever the database does, if
  `RetryWindow < SeenTTL`, on which its definition depends: what a process has in its
  hands or has handed over stands in its cache, with a time no earlier than the
  first delivery, until Slack's retries are over (`TakenOnce`); eviction drops only
  what is older than that (`EvictedAt`).
* `SelectionTypeCorrect`, `ReadersCorrect` and `SavesTakeEffectCorrect`, for any number of
  saves that overlap and fail. `SInv` says of a group of saves what each of them that has
  passed its first update, or its second, has reached whatever the others do: what all
  want is selected, nothing is that none wants (`SelectionReached`; `BotsReached` for the
  opt-ins), and that what is under way is among what was asked for (`AsksKnown`).
* `ConnectionTypeCorrect`, `ChannelsFollowCorrect`, `IdKeptCorrect`, for any number of
  overlapping requests. `CInv` says besides the types that every channel row
  carries the id of the installation there is (`RowsFollow`: the cascade of the
  foreign key keeps it through a disconnect, the conflict on the workspace through
  a reconnect), and that the tokens that requests and the row hold were issued
  (`TokensIssued`).
* `RefreshTokenCorrect`, for any number of overlapping callbacks and users and any failing
  reads and writes. `KInv` says that what a callback read is still the stored token as
  long as nothing has overtaken it (`fresh`) and the row is there (`ReadIsStored`,
  `NotYetFresh`), and that rows in use have an id (`RowsHaveIds`), so that a run cannot
  write to a row that was deleted.
* `ConnectorsTypeCorrect` composes them: a step of `ConnectorsNext` is a step or a stutter
  of each part, so that the conjunction of the parts' invariants is inductive.

### Answers (`AnswersProofs`)

* `LimitHolds`, for any threads and limits. The deque is neither sorted nor
  complete: a thread appends a time it read up to `Delay` before, and pruning stops at the
  first time that is young enough. `LInv` therefore maps each place of a
  client's deque to a hit in the log that is at most `Delay` later, such that no hit
  of the window that remains is missed (`DequesCount`); a full deque then bounds the
  log.
* `RetryHolds`, for a limit that stays: what a client was told is no earlier than the moment
  at which enough of its hits are pruned (`PromisesHold`), since no hit of its
  own comes in between.
* `MemoryFaithfulCorrect`: an ingestion works on a text its source has shown, and its
  upsert is one statement. The upsert of a text that calls the same words by two types has
  two rows with one key, and Postgres refuses it as a whole: such a text leaves nothing,
  and the promise that what was sent is kept is made for the others.
* `CacheSoundCorrect`, for any questions, workspaces, sources, requests, TTL and size.
  `AInv` bounds the expiry of an entry by the time its snippets were recalled plus
  `Slow` and the TTL (`CacheOK`), and the age of what a request is about to give
  (`RequestsOK`); room for one more is made by counting what lives (`RoomOK`).

* `SourcesSoundCorrect`, for any responses, memories, state, filters and modes, if a
  document has one key wherever it is found (`OneKey`, an assumption of `Recall`: it is
  what a stable key is, and TLC evaluates it for the instance). The state is
  a function of what was asked and returned (`RInv`), so the proof is about lists: a
  comprehension and a stable sort each take a list's elements from different places
  (`Sub`, with `AtList` and `SortedByList`), and whoever has k - 1 before it in the
  order of the keys is k-th (`SortedPlaces`). Citations then lead back through three
  such maps to one source. Memories crowd nothing out because whatever is ranked
  before a snippet that passes the filters has a place of its own among HydraDB's
  (`SnippetsFirst`), and recency cannot outweigh a tenth of the weakest signal
  (`TenfoldOrder`).
* `RootLeastCorrect`, for any ids, names and joins in any order. `AliasInv` says that
  each parent is less than its child (`Forest`: so every path ends, at the least of its
  tree), that joined signatures have one root (`Agree`), and that whatever set of
  signatures no join leaves also contains the roots of its members (`Stays`). Path
  compression keeps every root (`FoundKeepsRoots`); a union moves exactly one tree
  (`UnitedRoots`).

What `find`, a set of joined signatures or a sort computes needs induction. It is
done with sets of numbers: `NatInduct` says that a set with 0 and the successors of its
members has all numbers, proved from the least one it lacks, and each use defines the
set of the numbers for which the claim holds. Recursion is therefore over numbers only:
`Iterated` in `AliasMap`, and in `Recall` no recursion at all (a sort is given by how
many positions come before each).

### Client (`ClientProofs`)

All without further hypotheses: for any user, any order of replies and any failing requests.

* `SavedAgreeCorrect`, for any answers, members and readers. `AInv` follows each answer
  that no failure or overtaking request has touched from save to reply (`OnItsWay`), on
  the panel (`Arrived`) and to its mark (`PlainOK`), and says of a list under way which
  answers nothing has happened to since it was asked for (`CalmOK`): those it may replace.
  `LinksFollow` says that a reader who comes after a link was withdrawn finds it revoked.
* `LabelsAgreeCorrect`, for any accounts and labels. Loads are numbered. `BInv` says that
  each list on its way is of one account (`Lists`), that the newest is the active
  account's (`NewestIsActive`), and that its ticks are what is stored unless a save that
  the panel gave up took effect meanwhile (`TicksFollow`).
* `ChannelsAgreeCorrect`, for any workspaces and channels, switches at any time and slow
  tokens. `PInv` says that the panel has one request under way (`OneOwn`), what it
  carries beside what is on screen (`ListReq`, `SaveReq`), and to which workspace it
  goes if none was made active meanwhile.
* `TurnCorrect` (the messages of a turn are in one session, whatever is cleared or late)
  and `TurnWholeCorrect`, with tokens as slow as they may be. `MInv` ties each message to
  the session its turn knows, which does not change once known; `SInv` says that a stream
  nobody has aborted is the active one, which holds because only the `finally` of the
  active stream clears the ref, and that a bubble that streams has its request.

### Checked by TLC only

* All liveness: `EventuallyTracked`, `SafetyNet`, `OutageDegrades` (its safety half is
  proved), `WritersFinish`, `SweepsReachAll`,
  `EventuallyStored`, `TokensRenew`, `ChatSettles`. Fairness and `ENABLED` are out of the
  prover's reach.

Every safety invariant and action property that a run checks is stated by a theorem.

Some of what the theorems state is not run any more because a refinement or a
conjunction that is run implies it (`AtMostOnce`, `ReplaceIsComplete`, the type
invariants that `Types` collects); `IdKept` is proved only.

## 5. Where code and documentation differ

Two runs show a disagreement. `BulkPartialPage`: `fetch_channel_messages` returns
the newest pages when a later one fails, and the watermark jumps over the rest,
though `ingest_slack.py:596` says the old watermark is kept so that "the next run
re-fetches the failed window". `RealtimeEdits`: `_process_slack_payload_inner` calls
`is_noise` on the outer event, and `is_noise` drops what has no text
(`ingestion/normalize.py:38`), so an edit or a delete whose event has no text of its own is
dropped, against `realtime_ingest.py:428` "Edit/delete events carry no top-level text;
exempt them before the empty-text guard so they reach the handlers below". `RealtimeLive` lets them be
dropped, too; `RealtimeIngest` and the polling runs look at the handlers behind that guard
and take such events to have a text (`EditsCarryText`).

The same modules show more. Each line names the configuration to start from, what to
change and the definition to check in it; in most, the run's own constants will do, and the
property that the run checks says what is left.

| What happens | From | Change | Violated |
| --- | --- | --- | --- |
| A delete without a text is dropped, too, and its document stays (`realtime_ingest.py:428`, as above). | `RealtimeEdits` | none | `DeletedMessageRemoved` |
| Two replies handled at a time each fetch the thread; the one that fetched first may record last (`realtime_ingest.py:450`: the "stored markdown always represents the current thread state"). | `RealtimeEdits` | `EditsCarryText = TRUE`, `Tasks = {t1, t2}` | `ThreadIsCurrent` |
| An edit is dropped while the post it edits is in flight. | `RealtimeEdits` | `EditsCarryText = TRUE`, `Tasks = {t1, t2}` | `EditsStored` |
| A delete overtakes the upload of its message, which is stored afterwards. | `RealtimeEdits` | `EditsCarryText = TRUE`, `Tasks = {t1, t2}` | `DeletedMessageRemoved` |
| Deleting the parent of a thread removes the message's document, not the thread's (`realtime_ingest.py:725` "Standalone message or thread parent: delete from HydraDB and remove from state"). | `RealtimeEdits` | `EditsCarryText = TRUE` | `DeletedParentRemoved` |
| Two edits of one message handled at a time leave a document nobody tracks. | `RealtimeLive` | `EditsCarryText = TRUE`, `MaxRev = 2` | `NoStrayCopies` |
| `slack_client.py:120` stops at a number of messages, the newest, and the watermark passes the rest. | `BulkPartialPage` | `BulkFaults = {}`, `FetchCap = 1` | `WatermarkCovers` |
| File names carry the time to the second: of two messages of one second one hides the other's result (`ingest_slack.py:403` "Map HydraDB's per-file results back to the prepared files"). And results without a name, as `hydradb_client.py:83` documents them, are skipped (`ingest_slack.py:426`). | `BulkRuns` | none | `EverySuccessRecorded` |
| Neither counts as a failure, so the watermark passes what is in HydraDB and not in the state file (`ingest_slack.py:596` "Advance the watermark ONLY if every file in this channel uploaded OK"): its edits and deletes find no entry. | `BulkRuns` | none | `WatermarkTracks` |
| A pass that began before a realtime edit or delete merges the entry from before over it. | `BulkRealtime` | none | `TrackedIsLive` |
| A writer whose read of the file fails goes on with an empty state and renames it over the full one (`ingestion_state.py:261` "reloads the state file from disk to incorporate any concurrent writes"). | `Progress` | none | `NoLostUpdates` |
| Without `fcntl` the section is open to threads of one process, too (`ingestion_state.py:272` "Single-process deployments are safe either way"). | `Progress` | `HasFcntl = FALSE` | `ReplaceIsComplete` |
| The history is asked for `messageAdded` only, so a mail that gets the label later is passed over (`gmail_oauth.py:483` "ADDED (or labelAdded for the label we're tracking)"). | `GmailRuns` | `Faults = {}` | `EveryMailCovered` |
| A fetch that fails is counted, and the watermark passes the mail (`gmail_oauth.py:397` "the retry layer above us can re-call"). | `Progress` | none | `EveryMailCovered` |
| A manual run reads the history, too (`gmail_oauth.py:869` "always gets the most-recent N messages"). | `Connectors` | none | `ManualRunStoresRecent` |
| A history that is cut at the run's budget keeps the oldest mails, yet the watermark is the mailbox's newest id. | `GmailRuns` | `Mails = {m1, m2}`, `Cap = 1`, `Faults = {}`, `MaxRelabels = 0` | `EveryMailCovered` |
| A mail with two labels enters `seen_message_ids_this_run` before its upload (`gmail_oauth.py:984` "the same id under two labels in one sweep"). If the upload under one label raises, the other label's watermark passes the mail; two overlapping runs, each failing under one label, lose it. | `GmailRuns` | `Blocked = {}`, `Faults = {"raise"}`, `MaxFaults = 2` | `EveryMailCovered` |
| A mail that arrives between the listing and the profile is in neither, and below the watermark. | `GmailRuns` | `Faults = {}`, `MaxRelabels = 0` | `EveryMailCovered` |
| Two saves of a selection interleave and leave a mixture (`supabase_client.py:2165` "Two updates (one for True, one for False) so the database stays consistent"). | `Connectors` | none | `SelectionIsOneSaved` |
| A save without a bot list leaves the bot flag of what it unselects (`supabase_client.py:1203` "unselected channels can never carry a stale True"). | `Connectors` | none | `UnselectedCarryNoTrue` |
| Disconnect revokes the token it read and deletes by workspace: a token stored in between goes unrevoked (`main.py:2018` "Revoke with Slack first"). | `Connectors` | none | `DeletedWereRevoked` |
| Connecting another team keeps the row's id and with it the old team's channels (`main.py:1866` "so the user always sees the current state of their Slack workspace"). | `Connectors` | none | `PickerShowsTeam` |
| The limit is counted before the user is known, hence by address (`rate_limit.py:90` "a single user is throttled across workspaces"). | `Answers` | `Clients = {u1, u2}` | `ThrottledAlone` |
| `max_instances` is per job id; start-up and interval are two jobs (`scheduler.py:347` "never run two ingestions in parallel"). | `Connectors` | none | `OnePassAtATime` |
| One channel that always fails keeps a workspace unsynced for ever (`scheduler.py:175` "A partial failure (some channels OK, others bad) still counts"). | `Progress` | none | `PartialRunsCount` |
| The key of the answer cache lacks the workspace and the sources a question is limited to: an answer from one workspace's messages is served in another (`query_cache.py:4` "Keyed by the full set of request parameters"; `main.py:428`: different filters "get different cache slots"). | `Answers` | none | `IdenticalRequestsOnly` |
| A text that calls the same words by two types ("@Rahul" is a person and a project) has two rows with one key, and Postgres refuses the upsert of all its memories (`memory_extraction.py:71` "safe to call any number of extractors"). | `Answers` | none | `AnyExtractorsAreSafe` |
| A matching person and a matching channel weigh as much as a keyword (`search_utils.py:209` "never override raw relevance"). | `Answers` | none | `BiasNeverOverrides` |
| Snippets are deduped by document before they are ranked: the one with the keyword may go (`recall.py:1053` "Fall back to semantic order if no exact matches exist"). | `Answers` | none | `ExactFindsMatch` |
| Memories are extracted from files HydraDB refused, too (`slack_oauth.py:477` "from every Slack doc we just uploaded"). | `Answers` | none | `OnlyUploaded` |
| Extracting an edited text adds rows beside those of the old one (`memory_store.py:221` "re-extraction normally just upserts on top of existing rows"). | `Answers` | none | `ReextractionIsFine` |
| People named beside a Slack id join after first names were merged (`memory_intelligence.py:199` "Two candidates -> no merge"). | `Answers` | none | `TwoCandidatesNoMerge` |
| Two Slack ids beside one name become one person (`memory_intelligence.py:18` "ambiguity always means "do not merge""). | `Answers` | none | `IdsApart` |
| A callback without a refresh token whose read of the row failed writes a blank one; one that was overtaken writes back what it read (`supabase_client.py:1881` "preserve the previously-stored one"). | `Connectors` | none | `BlankPreserves` |
| The `finally` of a stopped stream takes the flag of the one begun since (`App.jsx:911` "`submitting` blocks re-entry"). | `Client` | none | `OneStream` |
| A session whose creation is answered after Clear becomes the next question's (`App.jsx:951` "starts a fresh conversation server-side too"). | `Client` | none | `FreshConversation` |
| Two questions before the first session is there create two (`App.jsx:694` "reuses it for the rest of the conversation"). | `Client` | none | `OneSession` |
| An answer removed before its save was answered stays on the server; one whose save failed stays on the panel; the list asked for at mount replaces a save made meanwhile (`App.jsx:1069` "404 just means it was never persisted"). | `Client` | none | `PanelIsBackend` |
| The reply to a save marks the entry at an index that another answer has by now (`App.jsx:1009` "so the Save button stays in sync"). | `Client` | none | `MarksAgree` |
| The labels of the account chosen before arrive last and stand under the new one (`GmailSettings.jsx:10` "The picker reloads whenever the active connection changes"). | `Client` | none | `PickerShowsActive` |
| What is saved was ticked for the account chosen before. | `Client` | none | `SavedLabelsWereShown` |
| `authHeaders` awaits the token, then reads the workspace (`WorkspaceContext.jsx:30` "workspace-id flips don't disturb live requests"). | `Client` | none | `RequestsKeepWorkspace` |
| A switch neither closes nor reloads the panel: what was ticked for one workspace is saved for the other. | `Client` | none | `SavedChannelsWereShown` |

## 6. Not modelled

* *Analytics* (`analytics_store.py`, `analytics_intelligence.py`): one insert per
  query, never changed, and counts over the rows.
* *Authentication* (`auth.py`, `auth_supabase.py`, `slack_signature.py`): checks of
  keys, tokens and signatures by libraries.
* *Operations* (`health.py`, `startup.py`, `observability.py`, `logging_config.py`,
  `errors.py`, `request_context.py`): nothing that another part relies on, but for
  the user id of the logging context, which is in `RateLimiter`.
* Text: prompts, the rewriting of questions and date phrases, which words match a
  pattern of `memory_extraction.py`, the layout of documents; and the read-only
  aggregates over memories (graph, projects, reconstructions).
* In modelled parts: the signed OAuth state, `FORCE_REINGEST`, the `bot_removed`
  flag, name caches, delays of retries, listing, renaming and deleting chat
  sessions (no caller in the client), local storage, sign-in and the switch of
  workspaces in the chat.

## 7. Plan

Modelled, checked and proved: everything above. What is left:

1. The chat beside a switch of workspaces; the delays of `retry.py`; date phrases
   as an operator checked against a reference definition.
