----------------------------- MODULE BulkIngest -----------------------------
(***************************************************************************)
(* Polling ingestion of Slack channels (slack_oauth.run_workspace_ingest,  *)
(* ingestion/ingest_slack.py) running beside the realtime path: passes     *)
(* started by the scheduler, by /api/slack/ingest or by the CLI work on    *)
(* their own in-memory copy of the state file and merge it back with       *)
(* save_locked().                                                          *)
(*                                                                         *)
(* A pass loads its copy once.  For each selected channel it fetches the   *)
(* messages newer than the watermark of its copy, uploads what its copy    *)
(* does not track in batches, saves after every batch, and advances the    *)
(* watermark when the channel had no failure.  Reading Slack changes       *)
(* nothing shared, so process_channel is one step; each upload and each    *)
(* save is one.  FORCE_REINGEST and memory extraction are left out.        *)
(***************************************************************************)
EXTENDS RealtimeIngest

CONSTANTS Runs,       \* bound: passes under way at a time
          ChannelOf,  \* message -> its channel
          Readable,   \* messages that are neither noise nor an excluded bot's
          Second,     \* message -> the seconds of its ts, used in filenames
          BatchSize,  \* UPLOAD_BATCH_SIZE
          FetchCap,   \* MESSAGES_PER_CHANNEL
          BulkFaults, \* what may go wrong, see AllBulkFaults
          MaxUploads  \* bound: documents stored by batches

AllBulkFaults == {"page",       \* conversations.history fails on some page
                  "upload",     \* a batch is refused
                  "partial",    \* some files of a batch are refused
                  "lostAnswer", \* a batch is stored, its answer is lost
                  "noNames",    \* results that do not name their files
                  "noResults",  \* an answer without per-file results
                  "raise"}      \* a channel is given up, an upload raises

ASSUME ChannelAssumption == ChannelOf \in [Messages -> Channels]
ASSUME SecondAssumption  == Second \in [Messages -> Nat]
ASSUME BulkAssumption ==
  /\ Readable \subseteq Messages /\ BulkFaults \subseteq AllBulkFaults
  /\ BatchSize \in Nat \ {0} /\ FetchCap \in Nat \ {0} /\ MaxUploads \in Nat /\ Channels # {}

VARIABLES marks,    \* the per-channel watermarks of the state file
          run,      \* the passes
          accepted, \* history: keys of the files HydraDB accepted in a batch
          missed    \* history: messages a watermark passed unread

history  == <<accepted, missed>>
bulkVars == <<marks, run, history>>
allVars  == <<vars, bulkVars>>

-----------------------------------------------------------------------------
\* unread: what a fetch left out; files: what is still to upload; results:
\* the outcomes of the last batch, as its answer reports them.
File   == [key : Keys, rev : Nat]
Result == [key : Keys, id : Nat, ok : BOOLEAN]
Answers == {"named", "nameless", "bare"}
Pass == [pc : {"channel", "batch", "save", "advance"}, todo : SUBSET Channels,
            mem : Entries, memMarks : Marks, chan : Channels,
            newest : Messages \cup {NoMark}, unread : SUBSET Messages, files : SUBSET File,
            results : SUBSET Result, answer : Answers, failed : BOOLEAN]

NoRun == [pc |-> "none"]

BulkTypeOK ==
  /\ TypeOK
  /\ marks \in Marks
  /\ run \in [Runs -> Pass \cup {NoRun}]
  /\ accepted \in SUBSET Keys /\ missed \in SUBSET Messages

BulkInit ==
  /\ Init
  /\ marks = EmptyMarks
  /\ run = [r \in Runs |-> NoRun]
  /\ accepted = {} /\ missed = {}

DocKey(m) == IF thread[m] > 0 THEN ThreadKey(m) ELSE MsgKey(m)

\* The n newest messages of a set.
Newest(S, n) == {m \in S : Cardinality({x \in S : x > m}) < n}

\* Mutant of History: the first new message is skipped.
HistoryLater(c, oldest) ==
  {m \in Messages : ChannelOf[m] = c /\ Exists(m) /\ m > oldest + 1}

\* conversations.history with oldest=...: newer than the watermark.
History(c, oldest) == {m \in Messages : ChannelOf[m] = c /\ Exists(m) /\ m > oldest}

\* fetch_channel_messages: newest first, at most FetchCap; an error on a
\* later page ends the fetch with what was collected so far.
Fetched(c, oldest) ==
  {Newest(History(c, oldest), n) :
     n \in IF "page" \in BulkFaults THEN 0 .. FetchCap ELSE {FetchCap}}

\* Mutant of LastTs: None for a channel without news.
LastTsOrNone(S) == IF S = {} THEN NoSource ELSE CHOOSE m \in S : \A x \in S : x <= m

LastTs(S) == IF S = {} THEN NoMark ELSE CHOOSE m \in S : \A x \in S : x <= m

\* On to the next channel; nothing of this one is looked at again.
NextChannel(p) == [p EXCEPT !.pc = "channel", !.newest = NoMark, !.unread = {},
                            !.files = {}, !.results = {}, !.answer = "bare",
                            !.failed = FALSE]

-----------------------------------------------------------------------------
StartRun(r) ==
  /\ run[r] = NoRun
  /\ run' = [run EXCEPT ![r] =
               [pc |-> "channel", todo |-> Channels, mem |-> entries, memMarks |-> marks,
                chan |-> CHOOSE c \in Channels : TRUE, newest |-> NoMark, unread |-> {},
                files |-> {}, results |-> {}, answer |-> "bare", failed |-> FALSE]]
  /\ UNCHANGED <<vars, marks, history>>

\* process_channel: read the channel, keep what this pass's copy lacks.
ProcessChannel(r, c) ==
  /\ run[r].pc = "channel" /\ c \in run[r].todo
  /\ \E raw \in Fetched(c, run[r].memMarks[c]) :
       LET unread == History(c, run[r].memMarks[c]) \ raw
           wanted == {m \in raw \cap Readable : ~Has(run[r].mem, DocKey(m))}
           files  == {[key |-> DocKey(m), rev |-> Current(DocKey(m))] : m \in wanted}
           pc     == IF files # {} THEN "batch" ELSE IF raw # {} THEN "advance" ELSE "channel"
       IN  run' = [run EXCEPT ![r].pc = pc, ![r].todo = @ \ {c}, ![r].chan = c,
                              ![r].newest = LastTs(raw), ![r].unread = unread,
                              ![r].files = files]
  /\ UNCHANGED <<vars, marks, history>>

\* retry_with_backoff gave up on the channel: dead letter, next channel.
GiveUpChannel(r, c) ==
  /\ "raise" \in BulkFaults
  /\ run[r].pc = "channel" /\ c \in run[r].todo
  /\ run' = [run EXCEPT ![r].todo = @ \ {c}]
  /\ UNCHANGED <<vars, marks, history>>

-----------------------------------------------------------------------------
(* upload_in_batches: upload, record, save, until no file is left.         *)

NextBatch(files) ==
  {f \in files : Cardinality({g \in files : g.key[2] > f.key[2]}) < BatchSize}

\* The files of a batch are numbered in the order they are sent.
IdIn(batch, f) == nextId + Cardinality({g \in batch : g.key[2] > f.key[2]})

Store(batch) ==
  /\ nextId + Cardinality(batch) <= MaxUploads + 1
  /\ docs' = docs \cup {[id |-> IdIn(batch, f), key |-> f.key, rev |-> f.rev] : f \in batch}
  /\ nextId' = nextId + Cardinality(batch)

\* Which files of a batch HydraDB may accept.
Accepted(batch) ==
  IF "partial" \in BulkFaults THEN SUBSET batch
  ELSE {batch} \cup (IF "upload" \in BulkFaults THEN {{}} ELSE {})

\* Mutant of HasFailed: only the last batch of a channel counts.
LastFailed(p, allOk) == ~allOk

\* summarize_upload_response counts the refused files, whatever form the
\* answer has; one keeps the channel's watermark where it is.
HasFailed(p, allOk) == p.failed \/ ~allOk

\* What the answer says of the files: each by its name, each by its id only,
\* or no more than how many were accepted.
AnswerForms == {"named"} \cup (IF "noNames" \in BulkFaults THEN {"nameless"} ELSE {})
                         \cup (IF "noResults" \in BulkFaults THEN {"bare"} ELSE {})

UploadBatch(r) ==
  LET batch == NextBatch(run[r].files) IN
  /\ run[r].pc = "batch"
  /\ \E ok \in Accepted(batch), answer \in AnswerForms :
       /\ Store(ok)
       /\ accepted' = accepted \cup {f.key : f \in ok}
       /\ run' = [run EXCEPT
            ![r].pc = "save", ![r].files = @ \ batch, ![r].answer = answer,
            ![r].failed = HasFailed(run[r], ok = batch),
            ![r].results = {[key |-> f.key, id |-> IF f \in ok THEN IdIn(ok, f) ELSE 0,
                             ok |-> f \in ok] : f \in batch}]
  /\ UNCHANGED <<slack, task, inFlight, entries, crashes, marks, missed>>

StoreOrphans(r) ==
  /\ "lostAnswer" \in BulkFaults
  /\ run[r].pc = "batch"
  /\ docs' = docs \cup {Orphan(f.key) : f \in NextBatch(run[r].files)}
  /\ UNCHANGED <<slack, task, inFlight, entries, nextId, crashes, marks, history>>

\* A batch is stored and its POST times out; the client posts it again ...
RepostBatch(r) == StoreOrphans(r) /\ UNCHANGED run

\* ... or has done so often enough: the batch counts as failed.
LoseBatch(r) ==
  /\ StoreOrphans(r)
  /\ run' = [run EXCEPT
       ![r].pc = "save", ![r].files = @ \ NextBatch(@), ![r].answer = "bare",
       ![r].failed = HasFailed(run[r], FALSE), ![r].results = {}]

\* Filenames carry the ts without its fraction.
Filename(k) == <<k[1], Second[k[2]]>>

Namesakes(results, k) == {x \in results : Filename(x.key) = Filename(k)}

\* Of a set of results, the one whose message is the oldest.
Oldest(results) == CHOOSE x \in results : \A y \in results : x.key[2] <= y.key[2]

\* Mutant of Recorded: an answer without results records nothing.
RecordedIfNamed(mem, results, answer) ==
  [k \in Keys |->
     IF answer = "named" /\ \E x \in results : x.key = k /\ x.ok
     THEN LET x == CHOOSE y \in results : y.key = k
          IN  [source_id |-> x.id, uploaded_at |-> x.id]
     ELSE mem[k]]

\* _record_successful_uploads. Results that name their files: a name stands
\* for the last file of the batch that has it (the oldest message), and its
\* last success gives the source id. Results that do not are skipped. An
\* answer without results, if any file was accepted, records them all.
Recorded(mem, results, answer) ==
  [k \in Keys |->
     LET same  == IF answer = "named" THEN Namesakes(results, k) ELSE results
         last  == Oldest({x \in same : x.ok})
         owner == \E x \in same : x.key = k /\ (answer = "named" => \A y \in same : k[2] <= y.key[2])
     IN  IF answer # "nameless" /\ owner /\ \E x \in same : x.ok
         THEN [source_id |-> IF answer = "named" THEN last.id ELSE NoSource,
               uploaded_at |-> last.id]
         ELSE mem[k]]

\* save_locked merges this pass's copy onto the file as it is now.
SaveLocked(mem, memMarks) ==
  /\ entries' = MergeEntries(mem, entries)
  /\ marks' = MergeMarks(memMarks, marks)

\* Mutant of AfterChannel: the watermark moves whatever failed.
AfterAnyChannel(p) == [p EXCEPT !.pc = "advance"]

\* No file is left: the watermark moves if every file got through.
AfterChannel(p) == IF p.failed THEN NextChannel(p) ELSE [p EXCEPT !.pc = "advance"]

SaveBatch(r) ==
  LET mem   == Recorded(run[r].mem, run[r].results, run[r].answer)
      saved == [run[r] EXCEPT !.mem = mem]
  IN
  /\ run[r].pc = "save"
  /\ SaveLocked(mem, run[r].memMarks)
  /\ run' = [run EXCEPT ![r] =
               IF run[r].files # {} THEN [saved EXCEPT !.pc = "batch"]
               ELSE AfterChannel(saved)]
  /\ UNCHANGED <<slack, task, inFlight, store, crashes, history>>

\* The upload or the save of a batch raises: dead letter, next channel, the
\* watermark kept. What was recorded stays in the copy for the next save.
GiveUpUpload(r) ==
  /\ "raise" \in BulkFaults
  /\ run[r].pc \in {"batch", "save"}
  /\ LET p    == run[r]
         seen == [p EXCEPT !.mem = Recorded(p.mem, p.results, p.answer)]
     IN  run' = [run EXCEPT ![r] = NextChannel(IF p.pc = "save" THEN seen ELSE p)]
  /\ UNCHANGED <<vars, marks, history>>

\* The channel went through without a failure, or had nothing new.
Advance(r) ==
  LET own == SetLastSyncedTs(run[r].memMarks, run[r].chan, run[r].newest) IN
  /\ run[r].pc = "advance"
  /\ SaveLocked(run[r].mem, own)
  /\ missed' = missed \cup run[r].unread
  /\ run' = [run EXCEPT ![r] = NextChannel([@ EXCEPT !.memMarks = own])]
  /\ UNCHANGED <<slack, task, inFlight, store, crashes, accepted>>

EndRun(r) ==
  /\ run[r].pc = "channel" /\ run[r].todo = {}
  /\ run' = [run EXCEPT ![r] = NoRun]
  /\ UNCHANGED <<vars, marks, history>>

\* The process of a pass dies, or saving the watermark raises.
CrashRun(r) ==
  /\ run[r] # NoRun /\ crashes < MaxCrashes
  /\ crashes' = crashes + 1
  /\ run' = [run EXCEPT ![r] = NoRun]
  /\ UNCHANGED <<slack, task, inFlight, entries, store, marks, history>>

RunStep(r) ==
  \/ StartRun(r) \/ UploadBatch(r) \/ RepostBatch(r) \/ LoseBatch(r)
  \/ GiveUpUpload(r) \/ SaveBatch(r) \/ Advance(r) \/ EndRun(r)
  \/ \E c \in Channels : ProcessChannel(r, c) \/ GiveUpChannel(r, c)

BulkNext ==
  \/ Next /\ UNCHANGED bulkVars
  \/ \E r \in Runs : RunStep(r) \/ CrashRun(r)

BulkSpec == BulkInit /\ [][BulkNext]_allVars

\* The scheduler starts a pass at every interval and a pass goes on.
BulkFairness == /\ \A r \in Runs : WF_allVars(RunStep(r))
                /\ \A t \in Tasks : WF_allVars(TaskStep(t) /\ UNCHANGED bulkVars)
BulkLiveSpec == BulkSpec /\ BulkFairness

-----------------------------------------------------------------------------
(* Properties.                                                             *)

(* "We never move the watermark backward", whatever passes with older      *)
(* copies are still saving.                                                *)
WatermarkNeverBack == [][\A c \in Channels : marks'[c] >= marks[c]]_allVars

IsTracked(m)  == Has(entries, MsgKey(m)) \/ Has(entries, ThreadKey(m))
WasAccepted(m) == {MsgKey(m), ThreadKey(m)} \cap accepted # {}
Passed(m)     == Exists(m) /\ m <= marks[ChannelOf[m]]

(* The watermark passes a message only if HydraDB has taken it, or the      *)
(* realtime path tracks it: what is below is never fetched again, so this   *)
(* keeps polling from losing messages when uploads fail, passes overlap or  *)
(* processes die.  False: see the next one.                                 *)
WatermarkCovers == \A m \in Readable : Passed(m) => IsTracked(m) \/ WasAccepted(m)

(* The only messages a watermark passes that nobody took are those a fetch  *)
(* left out when a later page failed or its cap was reached: no refused     *)
(* batch, overlapping pass, early end or crash adds another.                *)
WatermarkCoversRead ==
  \A m \in Readable : Passed(m) => IsTracked(m) \/ WasAccepted(m) \/ m \in missed

(* What the watermark has passed is in the state file.  False: results      *)
(* without names are recorded nowhere and count as no failure, and of two   *)
(* messages of one second only one is recorded.                             *)
WatermarkTracks == \A m \in Readable : Passed(m) /\ m \notin missed => IsTracked(m)

(* A tracked document is forgotten only by the delete handler: neither a   *)
(* merge nor a concurrent pass drops a key another writer saved.           *)
KeysNotLost ==
  [][\A k \in Keys : Has(entries, k) /\ ~Has(entries', k) =>
       \E t \in Tasks : task[t].pc = "remove" /\ MsgKey(task[t].msg) = k]_allVars

(* "Record each successful upload in ingestion_state.json so the next run  *)
(* doesn't re-upload": once a batch is saved, every file HydraDB accepted  *)
(* is in the pass's copy.  False of results that do not name their files,  *)
(* and of two messages of one second, which share a filename.              *)
EverySuccessRecorded ==
  \A r \in Runs :
    run[r] # NoRun /\ run[r].pc \in {"batch", "advance"} =>
      \A x \in run[r].results : x.ok => Has(run[r].mem, x.key)

(* What that comes to: of an answer that says which files were accepted,   *)
(* or only how many, the name of each accepted file is in the copy, though *)
(* perhaps for another message of that second.                         *)
SuccessesRecorded ==
  \A r \in Runs :
    run[r] # NoRun /\ run[r].pc \in {"batch", "advance"} /\ run[r].answer # "nameless" =>
      \A x \in run[r].results :
        x.ok => \E y \in Namesakes(run[r].results, x.key) : Has(run[r].mem, y.key)

(* The safety net: whatever the realtime path missed (events ignored, a    *)
(* worker that crashed), a message in a selected channel is tracked sooner *)
(* or later, as long as Slack and HydraDB answer.                          *)
CatchesUp ==
  \A m \in Readable :
    rev[m] > 0 ~> (m \in gone \/ Has(entries, MsgKey(m)) \/ Has(entries, ThreadKey(m)))

(* Polling is a net for realtime that no failure of the two wears out: what *)
(* it misses is caught up with, and no key is shut out for ever.           *)
SafetyNet == CatchesUp /\ InFlightDrains
=============================================================================
