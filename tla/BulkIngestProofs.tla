-------------------------- MODULE BulkIngestProofs --------------------------
(***************************************************************************)
(* BulkIngest for all sets of messages, channels, tasks and passes: its    *)
(* types, that watermarks and tracked keys are never lost, that reported   *)
(* uploads are recorded, and what a watermark may pass.                    *)
(***************************************************************************)
EXTENDS BulkIngest, RealtimeIngestProofs, NumberSets

USE MessagesAssumption, NoEntryAssumption, NoSourceAssumption, ChannelAssumption,
    SecondAssumption, BulkAssumption

-----------------------------------------------------------------------------
(* Types of passes.                                                        *)

PassPcs == {"channel", "batch", "save", "advance"}

Posted == {m \in Messages : rev[m] > 0}

\* Slack has finitely many messages, and a pass has finitely many files.
BulkTypes ==
  /\ BulkTypeOK /\ IsFiniteSet(Posted)
  /\ \A r \in Runs : run[r] # NoRun => IsFiniteSet(run[r].files)

LEMMA NoRunIsNoPass == NoRun \notin Pass /\ NoRun.pc = "none" /\ \A p \in Pass : p.pc \in PassPcs
BY DEF NoRun, Pass, PassPcs

LEMMA UnderWay ==
  ASSUME BulkTypes, NEW r \in Runs, run[r] # NoRun \/ run[r].pc \in PassPcs
  PROVE  run[r] \in Pass /\ run[r] # NoRun /\ IsFiniteSet(run[r].files)
BY NoRunIsNoPass DEF BulkTypes, BulkTypeOK, PassPcs

LEMMA PassFields ==
  ASSUME NEW p \in Pass
  PROVE  /\ p.pc \in PassPcs /\ p.todo \in SUBSET Channels /\ p.mem \in Entries
         /\ p.memMarks \in Marks /\ p.chan \in Channels /\ p.newest \in Messages \cup {NoMark}
         /\ p.unread \in SUBSET Messages
         /\ p.files \in SUBSET File /\ p.results \in SUBSET Result
         /\ p.answer \in Answers /\ p.failed \in BOOLEAN
BY DEF Pass, PassPcs

\* One pass changes, to p.
LEMMA OneRun ==
  ASSUME BulkTypes, NEW r \in Runs, NEW p \in Pass \cup {NoRun}, p # NoRun => IsFiniteSet(p.files),
         run' = [run EXCEPT ![r] = p]
  PROVE  /\ run' \in [Runs -> Pass \cup {NoRun}]
         /\ \A s \in Runs : run'[s] # NoRun => IsFiniteSet(run'[s].files)
         /\ run'[r] = p /\ \A s \in Runs : s # r => run'[s] = run[s]
BY DEF BulkTypes, BulkTypeOK

LEMMA KeyFacts == ASSUME NEW k \in Keys PROVE k[2] \in Messages /\ k[2] \in Nat
BY DEF Keys

LEMMA HistoryIsFinite ==
  ASSUME BulkTypes, NEW c, NEW oldest
  PROVE  History(c, oldest) \in SUBSET Posted /\ IsFiniteSet(History(c, oldest))
<1>1. History(c, oldest) \in SUBSET Posted
  BY DEF History, Posted, Exists
<1> QED
  BY <1>1, FS_Subset DEF BulkTypes

LEMMA FetchedTypes ==
  ASSUME BulkTypes, NEW c, NEW oldest, NEW raw \in Fetched(c, oldest)
  PROVE  /\ raw \in SUBSET History(c, oldest) /\ raw \in SUBSET Messages /\ IsFiniteSet(raw)
         /\ LastTs(raw) \in Posted \cup {NoMark}
         /\ \A m \in raw : m <= LastTs(raw)
         /\ raw # {} => LastTs(raw) \in raw
<1>1. raw \in SUBSET History(c, oldest) /\ raw \in SUBSET Posted
  BY HistoryIsFinite DEF Fetched, Newest
<1>2. IsFiniteSet(raw) /\ raw \in SUBSET Messages /\ raw \in SUBSET Nat
  BY <1>1, FS_Subset DEF BulkTypes, Posted
<1>3. raw # {} => LastTs(raw) \in raw /\ \A x \in raw : x <= LastTs(raw)
  <2> SUFFICES ASSUME raw # {} PROVE LastTs(raw) \in raw /\ \A x \in raw : x <= LastTs(raw)
    OBVIOUS
  <2>1. \E m \in raw : \A x \in raw : x <= m
    BY <1>2, MaxExists
  <2> QED
    BY <2>1 DEF LastTs
<1>4. raw = {} => LastTs(raw) = NoMark
  BY DEF LastTs
<1> QED
  BY <1>1, <1>2, <1>3, <1>4

LEMMA DocKeys ==
  ASSUME NEW m \in Messages
  PROVE  DocKey(m) \in Keys /\ DocKey(m) \in {MsgKey(m), ThreadKey(m)} /\ DocKey(m)[2] = m
BY KeyTypes DEF DocKey

LEMMA CurrentType == ASSUME TypeOK, NEW k \in Keys PROVE Current(k) \in Nat
BY KeyFacts DEF TypeOK, Current

\* The files of a batch are numbered from nextId on.
LEMMA BatchIds ==
  ASSUME BulkTypes, NEW batch, IsFiniteSet(batch)
  PROVE  /\ nextId + Cardinality(batch) \in Nat
         /\ \A f : IdIn(batch, f) \in Nat
<1>1. nextId \in Nat
  BY DEF BulkTypes, BulkTypeOK, TypeOK
<1>2. ASSUME NEW f PROVE IdIn(batch, f) \in Nat
  <2> DEFINE B == {g \in batch : g.key[2] > f.key[2]}
  <2>1. Cardinality(B) \in Nat
    <3>1. B \in SUBSET batch
      OBVIOUS
    <3> QED BY <3>1, FS_Subset, FS_CardinalityType
  <2> QED BY <1>1, <2>1 DEF IdIn
<1> QED BY <1>1, <1>2, FS_CardinalityType

LEMMA NextBatchTypes ==
  ASSUME NEW files \in SUBSET File, IsFiniteSet(files)
  PROVE  /\ NextBatch(files) \in SUBSET files /\ IsFiniteSet(NextBatch(files))
         /\ IsFiniteSet(files \ NextBatch(files))
<1>1. NextBatch(files) \in SUBSET files /\ files \ NextBatch(files) \in SUBSET files
  BY DEF NextBatch
<1> QED BY <1>1, FS_Subset

\* Every set of results has an oldest message.
LEMMA OldestIs ==
  ASSUME NEW R \in SUBSET Result, R # {}
  PROVE  Oldest(R) \in R /\ \A y \in R : Oldest(R).key[2] <= y.key[2]
<1> DEFINE times == {x.key[2] : x \in R}
<1>1. times \in SUBSET Nat /\ times # {}
  <2>1. \A x \in R : x.key[2] \in Nat
    BY KeyFacts DEF Result
  <2> QED BY <2>1
<1>2. PICK least \in times : \A y \in times : least <= y
  BY <1>1, LeastExists
<1>3. \E x \in R : \A y \in R : x.key[2] <= y.key[2]
  BY <1>2
<1> QED BY <1>3 DEF Oldest

\* The results that decide on a key, and whether that key is recorded.
Same(R, answer, k) == IF answer = "named" THEN Namesakes(R, k) ELSE R
Owns(R, answer, k) ==
  \E x \in Same(R, answer, k) :
    x.key = k /\ (answer = "named" => \A y \in Same(R, answer, k) : k[2] <= y.key[2])

LEMMA RecordedValues ==
  ASSUME NEW mem \in Entries, NEW R \in SUBSET Result, NEW answer \in Answers, NEW k \in Keys
  PROVE  /\ Recorded(mem, R, answer)[k] \in Entry \/ Recorded(mem, R, answer)[k] = mem[k]
         /\ /\ answer # "nameless" /\ Owns(R, answer, k)
            /\ \E x \in Same(R, answer, k) : x.ok
            => Recorded(mem, R, answer)[k] \in Entry
<1> DEFINE same == Same(R, answer, k)
           oks  == {x \in same : x.ok}
           last == Oldest(oks)
           new  == [source_id |-> IF answer = "named" THEN last.id ELSE NoSource,
                    uploaded_at |-> last.id]
           rec  == answer # "nameless" /\ Owns(R, answer, k) /\ \E x \in same : x.ok
<1>1. Recorded(mem, R, answer)[k] = IF rec THEN new ELSE mem[k]
  BY DEF Recorded, Same, Owns
<1>2. ASSUME oks # {} PROVE new \in Entry
  <2>1. oks \in SUBSET Result
    BY DEF Namesakes, Same
  <2>2. last.id \in Nat
    <3> HIDE DEF oks
    <3> QED BY <1>2, <2>1, OldestIs DEF Result
  <2> HIDE DEF last
  <2> QED BY <2>2, SourceIdFacts DEF Entry
<1>3. rec => oks # {}
  OBVIOUS
<1>4. rec = (answer # "nameless" /\ Owns(R, answer, k) /\ \E x \in Same(R, answer, k) : x.ok)
  OBVIOUS
<1> HIDE DEF oks, new, rec
<1> QED BY <1>1, <1>2, <1>3, <1>4

LEMMA RecordedType ==
  ASSUME NEW mem \in Entries, NEW R \in SUBSET Result, NEW answer \in Answers
  PROVE  Recorded(mem, R, answer) \in Entries
<1>1. \A k \in Keys : Recorded(mem, R, answer)[k] \in Entry \cup {NoEntry}
  BY RecordedValues DEF Entries
<1> QED BY <1>1 DEF Recorded, Entries

LEMMA MergeTypes ==
  ASSUME NEW mem \in Entries, NEW e \in Entries, NEW ms \in Marks, NEW d \in Marks,
         NEW c \in Channels, NEW n \in Messages \cup {NoMark}
  PROVE  /\ MergeEntries(mem, e) \in Entries /\ MergeMarks(ms, d) \in Marks
         /\ SetLastSyncedTs(ms, c, n) \in Marks
<1>1. MergeEntries(mem, e) \in Entries
  BY DEF MergeEntries, Entries
<1>2. MergeMarks(ms, d) \in Marks
  BY DEF MergeMarks, Marks
<1>3. n \in Nat
  BY DEF NoMark
<1> QED BY <1>1, <1>2, <1>3 DEF SetLastSyncedTs, Marks

-----------------------------------------------------------------------------
(* What the realtime path does to Slack and to the state file.             *)

\* Messages are posted in the order of their ts, and deleted for good.
LEMMA SlackStep ==
  ASSUME TypeOK, [Next]_vars
  PROVE  /\ gone \subseteq gone'
         /\ \/ Posted' = Posted
            \/ \E m \in Messages : Posted' = Posted \cup {m} /\ \A n \in Posted : n < m
<1> DEFINE Goal == /\ gone \subseteq gone'
                   /\ \/ Posted' = Posted
                      \/ \E m \in Messages : Posted' = Posted \cup {m} /\ \A n \in Posted : n < m
<1>1. ASSUME NEW m \in Messages, UserStep(m) PROVE Goal
  <2>1. CASE Post(m)
    <3>1. gone' = gone /\ \A n \in Posted : n < m
      BY <2>1 DEF Post, Posted
    <3>2. Posted' = Posted \cup {m}
      BY <2>1 DEF Post, Posted, TypeOK
    <3> QED BY <3>1, <3>2
  <2>2. CASE Edit(m)
    BY <2>2 DEF Edit, Posted, TypeOK, Exists
  <2>3. CASE Delete(m)
    BY <2>3 DEF Delete, Posted
  <2>4. CASE Redeliver(m)
    BY <2>4 DEF Redeliver, Posted
  <2>5. ASSUME NEW kind \in Kinds, Discuss(m, kind) PROVE Goal
    BY <2>5 DEF Discuss, Posted
  <2> QED
    BY <1>1, <2>1, <2>2, <2>3, <2>4, <2>5 DEF UserStep
<1>2. ASSUME NEW t \in Tasks, TaskStep(t) PROVE UNCHANGED slack
  BY <1>2 DEF TaskStep, Ignore, ReadOld, Claim, FetchThread, Upload, Repost, Record, Release,
              Reread, DropOld, LookUp, Purge, Remove, Raise
<1>3. ASSUME NEW w \in Workers, Crash(w) PROVE UNCHANGED slack
  BY <1>3 DEF Crash
<1>4. UNCHANGED slack => Goal
  BY DEF slack, Posted
<1>5. UNCHANGED vars => UNCHANGED slack
  BY DEF vars, slack
<1> QED
  BY <1>1, <1>2, <1>3, <1>4, <1>5 DEF Next

\* Only the delete handler forgets a key.
LEMMA EntriesStep ==
  ASSUME TypeOK, [Next]_vars
  PROVE  \A k \in Keys : Has(entries, k) /\ ~Has(entries', k) =>
           \E t \in Tasks : task[t].pc = "remove" /\ MsgKey(task[t].msg) = k
<1> DEFINE Goal == \A k \in Keys : Has(entries, k) /\ ~Has(entries', k) =>
                     \E t \in Tasks : task[t].pc = "remove" /\ MsgKey(task[t].msg) = k
<1>1. ASSUME NEW m \in Messages, UserStep(m) PROVE UNCHANGED entries
  BY <1>1 DEF UserStep, Post, Edit, Delete, Redeliver, Discuss, Deliver
<1>2. ASSUME NEW t \in Tasks, TaskStep(t) PROVE Goal
  <2>1. CASE Record(t)
    <3>1. task[t].upload \in Nat /\ task[t].source \in SourceIds
      BY <2>1, BusyFields DEF Record, PCs, Busy
    <3>2. [source_id |-> task[t].source, uploaded_at |-> task[t].upload] # NoEntry
      BY <3>1 DEF SourceIds
    <3>3. \A k \in Keys : entries'[k] # NoEntry \/ entries'[k] = entries[k]
      BY <2>1, <3>2 DEF Record, MarkUploaded, TypeOK, Entries
    <3> QED
      BY <3>3 DEF Has
  <2>2. CASE Remove(t)
    BY <2>2 DEF Remove, RemoveEntry, TypeOK, Entries, Has
  <2>3. Record(t) \/ Remove(t) \/ UNCHANGED entries
    BY <1>2 DEF TaskStep, Ignore, ReadOld, Claim, FetchThread, Upload, Repost, Release,
                Reread, DropOld, LookUp, Purge, Raise
  <2> QED
    BY <2>1, <2>2, <2>3
<1>3. ASSUME NEW w \in Workers, Crash(w) PROVE UNCHANGED entries
  BY <1>3 DEF Crash
<1> QED
  BY <1>1, <1>2, <1>3 DEF Next, vars

-----------------------------------------------------------------------------
(* What a pass does.                                                       *)

\* The run of r becomes p; what it leaves alone in any case.
Becomes(r, p) ==
  /\ p \in Pass \cup {NoRun} /\ (p # NoRun => IsFiniteSet(p.files))
  /\ run' = [run EXCEPT ![r] = p]
  /\ UNCHANGED <<slack, task, inFlight>>

\* A pass keeps the state file, or merges its copy onto it.
KeepsFile == UNCHANGED <<entries, marks>>

Saves(mem, ms) == mem \in Entries /\ ms \in Marks /\ SaveLocked(mem, ms)

LEMMA ProcessEffect ==
  ASSUME BulkTypes, NEW r \in Runs, NEW c \in Channels, ProcessChannel(r, c)
  PROVE  /\ KeepsFile /\ UNCHANGED <<store, crashes, history>>
         /\ run[r] \in Pass /\ run[r].pc = "channel"
         /\ \E raw \in Fetched(c, run[r].memMarks[c]) :
              LET unread == History(c, run[r].memMarks[c]) \ raw
                  wanted == {m \in raw \cap Readable : ~Has(run[r].mem, DocKey(m))}
                  files  == {[key |-> DocKey(m), rev |-> Current(DocKey(m))] : m \in wanted}
                  pc     == IF files # {} THEN "batch" ELSE IF raw # {} THEN "advance" ELSE "channel"
              IN  Becomes(r, [run[r] EXCEPT !.pc = pc, !.todo = @ \ {c}, !.chan = c,
                                            !.newest = LastTs(raw), !.unread = unread, !.files = files])
<1>1. run[r] \in Pass /\ run[r].pc = "channel" /\ KeepsFile
      /\ UNCHANGED <<store, crashes, history>>
  BY UnderWay DEF ProcessChannel, PassPcs, KeepsFile, vars
<1>2. PICK raw \in Fetched(c, run[r].memMarks[c]) :
        LET unread == History(c, run[r].memMarks[c]) \ raw
            wanted == {m \in raw \cap Readable : ~Has(run[r].mem, DocKey(m))}
            files  == {[key |-> DocKey(m), rev |-> Current(DocKey(m))] : m \in wanted}
            pc     == IF files # {} THEN "batch" ELSE IF raw # {} THEN "advance" ELSE "channel"
        IN  run' = [run EXCEPT ![r].pc = pc, ![r].todo = @ \ {c}, ![r].chan = c,
                               ![r].newest = LastTs(raw), ![r].unread = unread, ![r].files = files]
  BY DEF ProcessChannel
<1> DEFINE unread == History(c, run[r].memMarks[c]) \ raw
           wanted == {m \in raw \cap Readable : ~Has(run[r].mem, DocKey(m))}
           files  == {[key |-> DocKey(m), rev |-> Current(DocKey(m))] : m \in wanted}
           pc     == IF files # {} THEN "batch" ELSE IF raw # {} THEN "advance" ELSE "channel"
           p      == [run[r] EXCEPT !.pc = pc, !.todo = @ \ {c}, !.chan = c,
                                    !.newest = LastTs(raw), !.unread = unread, !.files = files]
<1>0. unread \in SUBSET Messages
  BY HistoryIsFinite DEF Posted
<1>3. /\ IsFiniteSet(wanted) /\ wanted \in SUBSET Messages
      /\ LastTs(raw) \in Messages \cup {NoMark}
  <2>1. raw \in SUBSET Messages /\ IsFiniteSet(raw) /\ LastTs(raw) \in Messages \cup {NoMark}
    BY FetchedTypes DEF Posted
  <2>2. wanted \in SUBSET raw
    OBVIOUS
  <2> QED BY <2>1, <2>2, FS_Subset
<1>4. IsFiniteSet(files) /\ files \in SUBSET File
  <2>1. \A m \in wanted : [key |-> DocKey(m), rev |-> Current(DocKey(m))] \in File
    BY <1>3, DocKeys, CurrentType DEF File, BulkTypes, BulkTypeOK
  <2> DEFINE f == [m \in wanted |-> [key |-> DocKey(m), rev |-> Current(DocKey(m))]]
  <2>2. f \in Surjection(wanted, files)
    BY DEF Surjection
  <2>3. IsFiniteSet(files)
    <3> HIDE DEF f, files, wanted
    <3> QED BY <1>3, <2>2, FS_Surjection
  <2> QED BY <2>1, <2>3
<1>5. p \in Pass /\ p.files = files
  <2>1. pc \in PassPcs /\ run[r].todo \ {c} \in SUBSET Channels
    BY <1>1, PassFields DEF PassPcs
  <2>2. p.files = files
    BY <1>1 DEF Pass
  <2> HIDE DEF files, pc, unread
  <2>3. p \in Pass
    BY <1>0, <1>1, <1>3, <1>4, <2>1 DEF Pass, PassPcs
  <2> QED BY <2>2, <2>3
<1>6. run' = [run EXCEPT ![r] = p]
  BY <1>2
<1>7. UNCHANGED <<slack, task, inFlight>>
  BY DEF ProcessChannel, vars
<1>8. Becomes(r, p)
  <2> HIDE DEF p
  <2> QED BY <1>4, <1>5, <1>6, <1>7 DEF Becomes
<1> QED BY <1>1, <1>8

\* A batch is uploaded, or lost on the way; its answer waits to be recorded.
\* Where no failure is counted, HydraDB has taken every file of it.
LEMMA UploadEffect ==
  ASSUME BulkTypes, NEW r \in Runs, UploadBatch(r) \/ LoseBatch(r)
  PROVE  /\ KeepsFile /\ UNCHANGED <<crashes, missed>> /\ docs' \in SUBSET Doc /\ nextId' \in Nat
         /\ accepted' \in SUBSET Keys /\ accepted \subseteq accepted'
         /\ run[r] \in Pass /\ run[r].pc = "batch"
         /\ \E answer \in Answers, failed \in BOOLEAN, R \in SUBSET Result :
              /\ Becomes(r, [run[r] EXCEPT
                   !.pc = "save", !.files = @ \ NextBatch(@), !.answer = answer,
                   !.failed = failed, !.results = R])
              /\ ~failed => /\ ~run[r].failed
                            /\ \A f \in NextBatch(run[r].files) : f.key \in accepted'
<1> DEFINE batch == NextBatch(run[r].files)
           p(answer, failed, R) == [run[r] EXCEPT
                !.pc = "save", !.files = @ \ batch, !.answer = answer,
                !.failed = failed, !.results = R]
<1>1. run[r] \in Pass /\ run[r].pc = "batch" /\ IsFiniteSet(run[r].files)
  BY UnderWay DEF UploadBatch, LoseBatch, StoreOrphans, PassPcs
<1>2. run[r].files \in SUBSET File
  BY <1>1, PassFields
<1>3. batch \in SUBSET run[r].files /\ batch \in SUBSET File /\ IsFiniteSet(batch)
      /\ IsFiniteSet(run[r].files \ batch)
  BY <1>1, <1>2, NextBatchTypes
<1>4. docs \in SUBSET Doc /\ nextId \in Nat /\ accepted \in SUBSET Keys
  BY DEF BulkTypes, BulkTypeOK, TypeOK
<1>5. ASSUME NEW answer \in Answers, NEW failed \in BOOLEAN, NEW R \in SUBSET Result
      PROVE  p(answer, failed, R) \in Pass /\ p(answer, failed, R).files = run[r].files \ batch
  <2>1. p(answer, failed, R).files = run[r].files \ batch
    BY <1>1 DEF Pass
  <2>2. p(answer, failed, R) \in Pass
    <3>1. run[r].files \ batch \in SUBSET File
      BY <1>2
    <3> HIDE DEF batch
    <3> QED BY <1>1, <3>1 DEF Pass
  <2> QED BY <2>1, <2>2
<1>6. ASSUME NEW answer \in Answers, NEW failed \in BOOLEAN, NEW R \in SUBSET Result,
             run' = [run EXCEPT ![r] = p(answer, failed, R)], UNCHANGED <<slack, task, inFlight>>
      PROVE  Becomes(r, p(answer, failed, R))
  <2> HIDE DEF p
  <2> QED BY <1>3, <1>5, <1>6 DEF Becomes
<1>7. CASE UploadBatch(r)
  <2>1. PICK ok \in Accepted(batch), answer \in AnswerForms :
          /\ Store(ok) /\ accepted' = accepted \cup {f.key : f \in ok}
          /\ run' = [run EXCEPT
               ![r].pc = "save", ![r].files = @ \ batch, ![r].answer = answer,
               ![r].failed = HasFailed(run[r], ok = batch),
               ![r].results = {[key |-> f.key, id |-> IF f \in ok THEN IdIn(ok, f) ELSE 0,
                                ok |-> f \in ok] : f \in batch}]
    BY <1>7 DEF UploadBatch
  <2> DEFINE x(f) == [key |-> f.key, id |-> IF f \in ok THEN IdIn(ok, f) ELSE 0, ok |-> f \in ok]
             R == {x(f) : f \in batch}
             failed == HasFailed(run[r], ok = batch)
  <2>2. ok \in SUBSET batch /\ IsFiniteSet(ok)
    <3>1. ok \in SUBSET batch
      BY DEF Accepted
    <3> QED BY <1>3, <3>1, FS_Subset
  <2>3. \A f \in batch : f.key \in Keys /\ f.rev \in Nat
    BY <1>3 DEF File
  <2>4. \A f \in batch : IdIn(ok, f) \in Nat
    BY <2>2, BatchIds
  <2>5. R \in SUBSET Result
    <3>1. \A f \in batch : x(f) \in Result
      BY <2>3, <2>4 DEF Result
    <3> HIDE DEF x
    <3> QED BY <3>1
  <2>6. failed \in BOOLEAN /\ answer \in Answers
    BY <1>1 DEF HasFailed, Pass, AnswerForms, Answers
  <2>7. docs' \in SUBSET Doc /\ nextId' \in Nat
    <3>1. \A f \in ok : [id |-> IdIn(ok, f), key |-> f.key, rev |-> f.rev] \in Doc
      BY <2>2, <2>3, <2>4 DEF Doc
    <3> QED BY <1>4, <2>1, <2>2, <3>1, BatchIds DEF Store
  <2>8. run' = [run EXCEPT ![r] = p(answer, failed, R)]
    BY <2>1
  <2>9. accepted' \in SUBSET Keys /\ accepted \subseteq accepted'
    BY <1>4, <2>1, <2>2, <2>3
  <2>10. ~failed => ~run[r].failed /\ \A f \in batch : f.key \in accepted'
    <3>1. ~failed => ~run[r].failed /\ ok = batch
      BY DEF HasFailed
    <3> HIDE DEF failed
    <3> QED BY <2>1, <3>1
  <2>11. UNCHANGED <<slack, task, inFlight, crashes, missed>> /\ KeepsFile
    BY <1>7 DEF UploadBatch, KeepsFile
  <2>12. Becomes(r, p(answer, failed, R))
    <3> HIDE DEF R, failed, p
    <3> QED BY <1>6, <2>5, <2>6, <2>8, <2>11
  <2> HIDE DEF R, failed
  <2>13. \E an \in Answers, fd \in BOOLEAN, RR \in SUBSET Result :
           /\ Becomes(r, p(an, fd, RR))
           /\ ~fd => ~run[r].failed /\ \A f \in batch : f.key \in accepted'
    <3> USE <2>5, <2>6
    <3> WITNESS answer \in Answers, failed \in BOOLEAN, R \in SUBSET Result
    <3> QED BY <2>10, <2>12
  <2> QED BY <1>1, <2>7, <2>9, <2>11, <2>13
<1>8. CASE LoseBatch(r)
  <2>1. docs' = docs \cup {Orphan(f.key) : f \in batch} /\ nextId' = nextId
    BY <1>8 DEF LoseBatch, StoreOrphans
  <2>2. docs' \in SUBSET Doc /\ nextId' \in Nat
    BY <1>3, <1>4, <2>1 DEF Orphan, Doc, File
  <2>3. HasFailed(run[r], FALSE) = TRUE /\ "bare" \in Answers
    BY DEF HasFailed, Answers
  <2>4. run' = [run EXCEPT ![r] = p("bare", TRUE, {})]
    BY <1>8, <2>3 DEF LoseBatch
  <2>5. UNCHANGED <<slack, task, inFlight, crashes, history>> /\ KeepsFile
    BY <1>8 DEF LoseBatch, StoreOrphans, KeepsFile
  <2>6. Becomes(r, p("bare", TRUE, {}))
    BY <1>6, <2>3, <2>4, <2>5
  <2>7. \E an \in Answers, fd \in BOOLEAN, RR \in SUBSET Result :
           /\ Becomes(r, p(an, fd, RR))
           /\ ~fd => ~run[r].failed /\ \A f \in batch : f.key \in accepted'
    <3> USE <2>3
    <3> WITNESS "bare" \in Answers, TRUE \in BOOLEAN, {} \in SUBSET Result
    <3> HIDE DEF p
    <3> QED BY <2>6
  <2> QED BY <1>1, <1>4, <2>2, <2>5, <2>7 DEF history
<1> QED BY <1>7, <1>8

\* The pass's copy with the last answers recorded.
RecordedMem(p) == Recorded(p.mem, p.results, p.answer)

\* A batch is saved, or the watermark is.
LEMMA SaveEffect ==
  ASSUME BulkTypes, NEW r \in Runs, SaveBatch(r)
  PROVE  /\ UNCHANGED <<store, crashes, history>> /\ run[r] \in Pass /\ run[r].pc = "save"
         /\ Saves(RecordedMem(run[r]), run[r].memMarks)
         /\ LET saved == [run[r] EXCEPT !.mem = RecordedMem(run[r])] IN
            Becomes(r, IF run[r].files # {} THEN [saved EXCEPT !.pc = "batch"]
                       ELSE IF run[r].failed THEN NextChannel(saved)
                       ELSE [saved EXCEPT !.pc = "advance"])
<1> DEFINE mem == RecordedMem(run[r])
           saved == [run[r] EXCEPT !.mem = mem]
           p == IF run[r].files # {} THEN [saved EXCEPT !.pc = "batch"]
                ELSE IF run[r].failed THEN NextChannel(saved)
                ELSE [saved EXCEPT !.pc = "advance"]
<1>1. run[r] \in Pass /\ run[r].pc = "save" /\ IsFiniteSet(run[r].files)
  BY UnderWay DEF SaveBatch, PassPcs
<1>2. mem \in Entries /\ run[r].memMarks \in Marks
  BY <1>1, PassFields, RecordedType DEF RecordedMem
<1>3. saved \in Pass /\ saved.files = run[r].files /\ saved.failed = run[r].failed
  <2> HIDE DEF mem
  <2> QED BY <1>1, <1>2 DEF Pass
<1>4. p \in Pass /\ IsFiniteSet(p.files)
  <2> HIDE DEF saved
  <2>1. [saved EXCEPT !.pc = "batch"] \in Pass /\ [saved EXCEPT !.pc = "batch"].files = saved.files
    BY <1>3 DEF Pass
  <2>2. [saved EXCEPT !.pc = "advance"] \in Pass
        /\ [saved EXCEPT !.pc = "advance"].files = saved.files
    BY <1>3 DEF Pass
  <2>3. NextChannel(saved) \in Pass /\ NextChannel(saved).files = {}
    BY <1>3 DEF Pass, NextChannel, Answers
  <2> QED BY <1>1, <1>3, <2>1, <2>2, <2>3, FS_EmptySet
<1>5. run' = [run EXCEPT ![r] = p]
  BY <1>3 DEF SaveBatch, AfterChannel, RecordedMem
<1>6. Saves(mem, run[r].memMarks)
  BY <1>2 DEF SaveBatch, Saves, RecordedMem
<1>7. UNCHANGED <<slack, task, inFlight, store, crashes, history>>
  BY DEF SaveBatch
<1>8. Becomes(r, p)
  <2> HIDE DEF p
  <2> QED BY <1>4, <1>5, <1>7 DEF Becomes
<1> QED BY <1>1, <1>6, <1>7, <1>8

LEMMA AdvanceEffect ==
  ASSUME BulkTypes, NEW r \in Runs, Advance(r)
  PROVE  /\ UNCHANGED <<store, crashes, accepted>> /\ run[r] \in Pass /\ run[r].pc = "advance"
         /\ missed' = missed \cup run[r].unread
         /\ LET own == SetLastSyncedTs(run[r].memMarks, run[r].chan, run[r].newest) IN
            /\ Saves(run[r].mem, own)
            /\ Becomes(r, NextChannel([run[r] EXCEPT !.memMarks = own]))
<1> DEFINE own == SetLastSyncedTs(run[r].memMarks, run[r].chan, run[r].newest)
           q == [run[r] EXCEPT !.memMarks = own]
<1>1. run[r] \in Pass /\ run[r].pc = "advance" /\ IsFiniteSet(run[r].files)
  BY UnderWay DEF Advance, PassPcs
<1>2. own \in Marks /\ run[r].mem \in Entries
  <2>1. /\ run[r].memMarks \in Marks /\ run[r].chan \in Channels
        /\ run[r].newest \in Messages \cup {NoMark} /\ run[r].mem \in Entries
    BY <1>1, PassFields
  <2> QED BY <2>1, MergeTypes
<1>3. q \in Pass
  <2> HIDE DEF own
  <2> QED BY <1>1, <1>2 DEF Pass
<1>4. NextChannel(q) \in Pass /\ NextChannel(q).files = {}
  <2> HIDE DEF q
  <2> QED BY <1>3 DEF Pass, NextChannel, Answers
<1>5. run' = [run EXCEPT ![r] = NextChannel(q)]
  BY DEF Advance
<1>6. Saves(run[r].mem, own)
  BY <1>2 DEF Advance, Saves
<1>7. UNCHANGED <<slack, task, inFlight, store, crashes, accepted>> /\ missed' = missed \cup run[r].unread
  BY DEF Advance
<1>8. Becomes(r, NextChannel(q))
  <2> HIDE DEF q
  <2> QED BY <1>4, <1>5, <1>7, FS_EmptySet DEF Becomes
<1> QED BY <1>1, <1>6, <1>7, <1>8

\* A channel is given up, or its upload.
LEMMA GiveUpEffect ==
  ASSUME BulkTypes, NEW r \in Runs, GiveUpUpload(r) \/ \E c \in Channels : GiveUpChannel(r, c)
  PROVE  /\ KeepsFile /\ UNCHANGED <<store, crashes, history>> /\ run[r] \in Pass
         /\ \/ /\ run[r].pc = "channel"
               /\ \E todo \in SUBSET Channels : Becomes(r, [run[r] EXCEPT !.todo = todo])
            \/ Becomes(r, NextChannel(run[r]))
            \/ /\ run[r].pc = "save"
               /\ Becomes(r, NextChannel([run[r] EXCEPT !.mem = RecordedMem(run[r])]))
<1>1. run[r] \in Pass /\ IsFiniteSet(run[r].files)
  BY UnderWay DEF GiveUpUpload, GiveUpChannel, PassPcs
<1>2. KeepsFile /\ UNCHANGED <<store, crashes, history>> /\ UNCHANGED <<slack, task, inFlight>>
  BY DEF GiveUpUpload, GiveUpChannel, KeepsFile, vars
<1>3. ASSUME NEW c \in Channels, GiveUpChannel(r, c)
      PROVE  /\ run[r].pc = "channel"
             /\ \E todo \in SUBSET Channels : Becomes(r, [run[r] EXCEPT !.todo = todo])
  <2> DEFINE todo == run[r].todo \ {c}
             p == [run[r] EXCEPT !.todo = todo]
  <2>1. todo \in SUBSET Channels
    BY <1>1, PassFields
  <2>2. p \in Pass /\ p.files = run[r].files
    <3> HIDE DEF todo
    <3> QED BY <1>1, <2>1 DEF Pass
  <2>3. run' = [run EXCEPT ![r] = p]
    BY <1>3 DEF GiveUpChannel
  <2>4. Becomes(r, p)
    <3> HIDE DEF p
    <3> QED BY <1>1, <1>2, <2>2, <2>3 DEF Becomes
  <2> QED BY <1>3, <2>1, <2>4 DEF GiveUpChannel
<1>4. ASSUME NEW q \in Pass, run' = [run EXCEPT ![r] = NextChannel(q)]
      PROVE  Becomes(r, NextChannel(q))
  <2>1. NextChannel(q) \in Pass /\ NextChannel(q).files = {}
    BY DEF Pass, NextChannel, Answers
  <2> QED BY <1>2, <1>4, <2>1, FS_EmptySet DEF Becomes
<1>5. CASE GiveUpUpload(r)
  <2> DEFINE mem == RecordedMem(run[r])
  <2>1. mem \in Entries
    BY <1>1, PassFields, RecordedType DEF RecordedMem
  <2>2. [run[r] EXCEPT !.mem = mem] \in Pass
    <3> HIDE DEF mem
    <3> QED BY <1>1, <2>1 DEF Pass
  <2>3. CASE run[r].pc = "save"
    <3>1. run' = [run EXCEPT ![r] = NextChannel([run[r] EXCEPT !.mem = mem])]
      BY <1>5, <2>3 DEF GiveUpUpload, RecordedMem
    <3> QED BY <1>1, <1>2, <1>4, <2>2, <2>3, <3>1
  <2>4. CASE run[r].pc # "save"
    <3>1. run' = [run EXCEPT ![r] = NextChannel(run[r])]
      BY <1>5, <2>4 DEF GiveUpUpload
    <3> QED BY <1>1, <1>2, <1>4, <3>1
  <2> QED BY <2>3, <2>4
<1> QED BY <1>1, <1>2, <1>3, <1>5

LEMMA StartEffect ==
  ASSUME BulkTypes, NEW r \in Runs, StartRun(r)
  PROVE  /\ KeepsFile /\ UNCHANGED <<store, crashes, history>>
         /\ \E p \in Pass :
              /\ Becomes(r, p) /\ p.pc = "channel" /\ p.mem = entries /\ p.memMarks = marks
              /\ p.newest = NoMark /\ p.files = {} /\ p.results = {} /\ ~p.failed
<1> DEFINE p == [pc |-> "channel", todo |-> Channels, mem |-> entries, memMarks |-> marks,
                 chan |-> CHOOSE c \in Channels : TRUE, newest |-> NoMark, unread |-> {},
                 files |-> {}, results |-> {}, answer |-> "bare", failed |-> FALSE]
<1>1. entries \in Entries /\ marks \in Marks
  BY DEF BulkTypes, BulkTypeOK, TypeOK
<1>2. (CHOOSE c \in Channels : TRUE) \in Channels
  OBVIOUS
<1>3. p \in Pass /\ p.files = {}
  BY <1>1, <1>2 DEF Pass, Answers
<1>4. run' = [run EXCEPT ![r] = p] /\ UNCHANGED <<slack, task, inFlight, store, crashes, history>> /\ KeepsFile
  BY DEF StartRun, vars, KeepsFile
<1>5. Becomes(r, p)
  <2> HIDE DEF p
  <2> QED BY <1>3, <1>4, FS_EmptySet DEF Becomes
<1>6. /\ p.pc = "channel" /\ p.mem = entries /\ p.memMarks = marks
      /\ p.newest = NoMark /\ p.files = {} /\ p.results = {} /\ ~p.failed
  OBVIOUS
<1> HIDE DEF p
<1> QED BY <1>3, <1>4, <1>5, <1>6

LEMMA EndEffect ==
  ASSUME BulkTypes, NEW r \in Runs, EndRun(r) \/ CrashRun(r)
  PROVE  /\ KeepsFile /\ UNCHANGED <<store, history>> /\ crashes' \in Nat /\ Becomes(r, NoRun)
<1>1. crashes \in Nat
  BY DEF BulkTypes, BulkTypeOK, TypeOK
<1> QED BY <1>1 DEF EndRun, CrashRun, vars, KeepsFile, Becomes

LEMMA RepostEffect ==
  ASSUME BulkTypes, NEW r \in Runs, RepostBatch(r)
  PROVE  /\ KeepsFile /\ UNCHANGED <<slack, task, inFlight, run, crashes, history>>
         /\ docs' \in SUBSET Doc /\ nextId' = nextId
<1>1. run[r] \in Pass /\ IsFiniteSet(run[r].files)
  BY UnderWay DEF RepostBatch, StoreOrphans, PassPcs
<1>2. NextBatch(run[r].files) \in SUBSET File
  BY <1>1, PassFields, NextBatchTypes
<1>3. docs \in SUBSET Doc
  BY DEF BulkTypes, BulkTypeOK, TypeOK
<1> QED BY <1>2, <1>3 DEF RepostBatch, StoreOrphans, KeepsFile, Orphan, Doc, File

\* In sum.
LEMMA RunEffect ==
  ASSUME BulkTypes, NEW r \in Runs, RunStep(r) \/ CrashRun(r)
  PROVE  /\ UNCHANGED <<slack, task, inFlight>>
         /\ docs' \in SUBSET Doc /\ nextId' \in Nat /\ crashes' \in Nat
         /\ accepted' \in SUBSET Keys /\ missed' \in SUBSET Messages
         /\ accepted \subseteq accepted' /\ missed \subseteq missed'
         /\ \/ UNCHANGED run
            \/ \E p \in Pass \cup {NoRun} : Becomes(r, p)
         /\ \/ KeepsFile
            \/ \E mem \in Entries, ms \in Marks : SaveLocked(mem, ms)
<1> DEFINE Goal == /\ UNCHANGED <<slack, task, inFlight>>
                   /\ docs' \in SUBSET Doc /\ nextId' \in Nat /\ crashes' \in Nat
                   /\ accepted' \in SUBSET Keys /\ missed' \in SUBSET Messages
                   /\ accepted \subseteq accepted' /\ missed \subseteq missed'
                   /\ \/ UNCHANGED run
                      \/ \E p \in Pass \cup {NoRun} : Becomes(r, p)
                   /\ \/ KeepsFile
                      \/ \E mem \in Entries, ms \in Marks : SaveLocked(mem, ms)
<1>1. docs \in SUBSET Doc /\ nextId \in Nat /\ crashes \in Nat
      /\ accepted \in SUBSET Keys /\ missed \in SUBSET Messages
  BY DEF BulkTypes, BulkTypeOK, TypeOK
<1>2. UNCHANGED <<store, crashes>> => docs' \in SUBSET Doc /\ nextId' \in Nat /\ crashes' \in Nat
  BY <1>1 DEF store
<1>a. UNCHANGED history => /\ accepted' \in SUBSET Keys /\ missed' \in SUBSET Messages
                           /\ accepted \subseteq accepted' /\ missed \subseteq missed'
  BY <1>1 DEF history
<1>3. ASSUME NEW p, Becomes(r, p)
      PROVE  /\ UNCHANGED <<slack, task, inFlight>>
             /\ \E q \in Pass \cup {NoRun} : Becomes(r, q)
  BY <1>3 DEF Becomes
<1>4. CASE StartRun(r)
  BY <1>2, <1>a, <1>3, <1>4, StartEffect
<1>5. ASSUME NEW c \in Channels, ProcessChannel(r, c) PROVE Goal
  BY <1>2, <1>a, <1>3, <1>5, ProcessEffect
<1>6. ASSUME GiveUpUpload(r) \/ \E c \in Channels : GiveUpChannel(r, c) PROVE Goal
  BY <1>2, <1>a, <1>3, <1>6, GiveUpEffect
<1>7. CASE UploadBatch(r) \/ LoseBatch(r)
  BY <1>1, <1>3, <1>7, UploadEffect
<1>8. CASE RepostBatch(r)
  BY <1>1, <1>a, <1>8, RepostEffect DEF KeepsFile
<1>9. CASE SaveBatch(r)
  BY <1>2, <1>a, <1>3, <1>9, SaveEffect DEF Saves
<1>10. CASE Advance(r)
  <2>1. run[r].unread \in SUBSET Messages
    BY <1>10, AdvanceEffect, PassFields
  <2> QED BY <1>1, <1>2, <1>3, <1>10, <2>1, AdvanceEffect DEF Saves
<1>11. CASE EndRun(r) \/ CrashRun(r)
  <2>1. UNCHANGED store => docs' \in SUBSET Doc /\ nextId' \in Nat
    BY <1>1 DEF store
  <2> QED BY <1>a, <1>3, <1>11, <2>1, EndEffect
<1> QED
  BY <1>4, <1>5, <1>6, <1>7, <1>8, <1>9, <1>10, <1>11 DEF RunStep

LEMMA BulkTypesInit == BulkInit => BulkTypes
<1> SUFFICES ASSUME BulkInit PROVE BulkTypes
  OBVIOUS
<1>1. TypeOK
  BY InitTypeOK DEF BulkInit
<1>2. Posted = {}
  BY DEF BulkInit, Init, Posted
<1>3. /\ marks \in Marks /\ run \in [Runs -> Pass \cup {NoRun}] /\ accepted = {} /\ missed = {}
      /\ \A r \in Runs : run[r] = NoRun
  BY DEF BulkInit, EmptyMarks, Marks, NoMark
<1> QED BY <1>1, <1>2, <1>3, FS_EmptySet DEF BulkTypes, BulkTypeOK

LEMMA BulkTypesStep == BulkTypes /\ [BulkNext]_allVars => BulkTypes'
<1> SUFFICES ASSUME BulkTypes, [BulkNext]_allVars PROVE BulkTypes'
  OBVIOUS
<1>0. TypeOK /\ marks \in Marks /\ entries \in Entries
  BY DEF BulkTypes, BulkTypeOK, TypeOK
<1>1. CASE [Next]_vars /\ UNCHANGED bulkVars
  <2>1. TypeOK'
    BY <1>0, <1>1, TypeStep
  <2>2. IsFiniteSet(Posted')
    <3>1. IsFiniteSet(Posted)
      BY DEF BulkTypes
    <3>2. Posted' = Posted \/ \E m \in Messages : Posted' = Posted \cup {m}
      BY <1>0, <1>1, SlackStep
    <3> QED BY <3>1, <3>2, FS_AddElement
  <2> QED BY <1>1, <2>1, <2>2 DEF BulkTypes, BulkTypeOK, bulkVars, history
<1>2. ASSUME NEW r \in Runs, RunStep(r) \/ CrashRun(r) PROVE BulkTypes'
  <2>1. /\ run' \in [Runs -> Pass \cup {NoRun}]
        /\ \A s \in Runs : run'[s] # NoRun => IsFiniteSet(run'[s].files)
    <3>1. CASE UNCHANGED run
      BY <3>1 DEF BulkTypes, BulkTypeOK
    <3>2. ASSUME NEW p \in Pass \cup {NoRun}, Becomes(r, p)
          PROVE  /\ run' \in [Runs -> Pass \cup {NoRun}]
                 /\ \A s \in Runs : run'[s] # NoRun => IsFiniteSet(run'[s].files)
      BY <3>2, OneRun DEF Becomes
    <3> QED BY <1>2, <3>1, <3>2, RunEffect
  <2>2. entries' \in Entries /\ marks' \in Marks
    <3>1. CASE KeepsFile
      BY <1>0, <3>1 DEF KeepsFile
    <3>2. ASSUME NEW mem \in Entries, NEW ms \in Marks, SaveLocked(mem, ms)
          PROVE  entries' \in Entries /\ marks' \in Marks
      <4>1. MergeEntries(mem, entries) \in Entries /\ MergeMarks(ms, marks) \in Marks
        <5>1. NoMark \in Messages \cup {NoMark} /\ \E c : c \in Channels
          OBVIOUS
        <5> QED BY <1>0, <5>1, MergeTypes
      <4> QED BY <3>2, <4>1 DEF SaveLocked
    <3> QED BY <1>2, <3>1, <3>2, RunEffect
  <2>3. UNCHANGED <<slack, task, inFlight>>
        /\ docs' \in SUBSET Doc /\ nextId' \in Nat /\ crashes' \in Nat
        /\ accepted' \in SUBSET Keys /\ missed' \in SUBSET Messages
    BY <1>2, RunEffect
  <2>4. TypeOK'
    BY <1>0, <2>2, <2>3 DEF TypeOK, slack
  <2>5. Posted' = Posted
    BY <2>3 DEF slack, Posted
  <2> QED BY <2>1, <2>2, <2>3, <2>4, <2>5 DEF BulkTypes, BulkTypeOK
<1> QED BY <1>1, <1>2 DEF BulkNext, allVars, bulkVars

(* Types of the realtime path and of all passes beside it.                 *)
THEOREM BulkTypeCorrect == BulkSpec => []BulkTypeOK
<1>1. BulkTypes => BulkTypeOK
  BY DEF BulkTypes
<1> QED
  BY <1>1, BulkTypesInit, BulkTypesStep, PTL DEF BulkSpec

-----------------------------------------------------------------------------
(* Merging only adds.                                                      *)

LEMMA MergesKeep ==
  ASSUME BulkTypes, NEW mem \in Entries, NEW ms \in Marks, SaveLocked(mem, ms)
  PROVE  /\ \A k \in Keys : Has(entries', k) <=> Has(mem, k) \/ Has(entries, k)
         /\ \A c \in Channels : marks'[c] >= marks[c] /\ marks'[c] \in {ms[c], marks[c]}
<1>1. entries \in Entries /\ marks \in Marks
  BY DEF BulkTypes, BulkTypeOK, TypeOK
<1>2. entries' = MergeEntries(mem, entries) /\ marks' = MergeMarks(ms, marks)
  BY DEF SaveLocked
<1>3. \A k \in Keys : entries'[k] = IF Has(mem, k) THEN mem[k] ELSE entries[k]
  BY <1>2 DEF MergeEntries
<1>4. \A c \in Channels : /\ ms[c] \in Nat /\ marks[c] \in Nat
                          /\ marks'[c] = IF ms[c] # NoMark /\ (marks[c] = NoMark \/ ms[c] > marks[c])
                                         THEN ms[c] ELSE marks[c]
  BY <1>1, <1>2 DEF MergeMarks, Marks
<1>5. \A c \in Channels : marks'[c] >= marks[c] /\ marks'[c] \in {ms[c], marks[c]}
  BY <1>4 DEF NoMark
<1> QED BY <1>3, <1>5 DEF Has

(* No watermark moves backward, however old the copy that is saved.        *)
THEOREM MarksGrow == BulkSpec => WatermarkNeverBack
<1> DEFINE Kept == \A c \in Channels : marks'[c] >= marks[c]
<1>1. BulkTypes /\ [BulkNext]_allVars => [Kept]_allVars
  <2> SUFFICES ASSUME BulkTypes, BulkNext PROVE Kept
    OBVIOUS
  <2>1. \A c \in Channels : marks[c] \in Nat
    BY DEF BulkTypes, BulkTypeOK, Marks
  <2>2. UNCHANGED marks => Kept
    BY <2>1
  <2>3. ASSUME NEW r \in Runs, RunStep(r) \/ CrashRun(r) PROVE Kept
    BY <2>2, <2>3, RunEffect, MergesKeep DEF KeepsFile
  <2> QED BY <2>2, <2>3 DEF BulkNext, bulkVars
<1> QED
  BY <1>1, BulkTypesInit, BulkTypesStep, PTL DEF BulkSpec, WatermarkNeverBack

(* Neither a merge nor a pass drops a key that another writer saved.       *)
THEOREM KeysKept == BulkSpec => KeysNotLost
<1> DEFINE Kept == \A k \in Keys : Has(entries, k) /\ ~Has(entries', k) =>
                     \E t \in Tasks : task[t].pc = "remove" /\ MsgKey(task[t].msg) = k
<1>1. BulkTypes /\ [BulkNext]_allVars => [Kept]_allVars
  <2> SUFFICES ASSUME BulkTypes, BulkNext PROVE Kept
    OBVIOUS
  <2>1. CASE Next /\ UNCHANGED bulkVars
    BY <2>1, EntriesStep DEF BulkTypes, BulkTypeOK
  <2>2. ASSUME NEW r \in Runs, RunStep(r) \/ CrashRun(r) PROVE Kept
    <3>1. UNCHANGED entries \/ \A k \in Keys : Has(entries, k) => Has(entries', k)
      BY <2>2, RunEffect, MergesKeep DEF KeepsFile
    <3> QED BY <3>1
  <2> QED BY <2>1, <2>2 DEF BulkNext
<1> QED
  BY <1>1, BulkTypesInit, BulkTypesStep, PTL DEF BulkSpec, KeysNotLost

-----------------------------------------------------------------------------
(* What a pass knows, and what it has still to do.                         *)

Tracked(e, m) == Has(e, MsgKey(m)) \/ Has(e, ThreadKey(m))

Existing == {m \in Messages : Exists(m)}

\* Of an answer with names, every accepted file's name is in the copy; of one
\* that only counts, every accepted file.
NamesRecorded(p) ==
  \A x \in p.results : x.ok => \E y \in Namesakes(p.results, x.key) : Has(p.mem, y.key)

\* A channel whose watermark is about to move has no failure and no file left;
\* what an answer reports is recorded.
Books(p) ==
  /\ p.pc = "channel" => ~p.failed /\ p.results = {}
  /\ p.pc = "advance" => ~p.failed /\ p.files = {}
  /\ p.pc \in {"batch", "advance"} /\ p.answer # "nameless" => NamesRecorded(p)

\* What HydraDB has taken of a message, or nobody ever read of it.
Settled == {m \in Messages : IsTracked(m) \/ WasAccepted(m) \/ m \in missed}

\* A file of m is still to be uploaded, or its fetch left m out.
Underway(p, m) == m \in p.unread \/ \E f \in p.files : f.key \in {MsgKey(m), ThreadKey(m)}

\* ex: the messages in Slack; po: those that ever were; kn: those settled. What
\* is below the watermarks ms is tracked in the entries mem, or settled.
CopyCovers(mem, ms, kn, ex, po) ==
  /\ \A c \in Channels : ms[c] \in po \cup {NoMark}
  /\ \A m \in Readable \cap ex : m <= ms[ChannelOf[m]] => Tracked(mem, m) \/ m \in kn

\* That is so for the copy of a pass; and what is below the newest message it
\* fetched is tracked, settled or under way, unless the channel has failed.
Covers(p, kn, ex, po) ==
  /\ CopyCovers(p.mem, p.memMarks, kn, ex, po)
  /\ p.newest \in po \cup {NoMark}
  /\ p.pc # "channel" /\ ~p.failed =>
       \A m \in Readable \cap ex :
         ChannelOf[m] = p.chan /\ m <= p.newest =>
           Tracked(p.mem, m) \/ m \in kn \/ Underway(p, m)

BookInv == BulkTypes /\ \A r \in Runs : run[r] # NoRun => Books(run[r])

PassesCover == \A r \in Runs : run[r] # NoRun => Covers(run[r], Settled, Existing, Posted)

DeletesAreReal == \A t \in Tasks : Deleting(t)

\* The state file as it is.
FileCovers == CopyCovers(entries, marks, Settled, Existing, Posted)

(* The inductive invariant behind WatermarkCoversRead.                     *)
CoverInv == BookInv /\ DeletesAreReal /\ PassesCover /\ FileCovers

LEMMA EntryIsTracked == \A x \in Entry : x # NoEntry
BY DEF Entry, SourceIds

LEMMA SettledTracks == \A m \in Messages : Tracked(entries, m) => m \in Settled
BY DEF Settled, IsTracked, Tracked

\* Recording keeps what was there, and records what an answer reports.
LEMMA RecordsKeep ==
  ASSUME NEW mem \in Entries, NEW R \in SUBSET Result, NEW answer \in Answers
  PROVE  \A k \in Keys : Has(mem, k) => Has(Recorded(mem, R, answer), k)
BY RecordedValues, EntryIsTracked DEF Has

LEMMA RecordsNames ==
  ASSUME NEW mem \in Entries, NEW R \in SUBSET Result, NEW answer \in Answers,
         answer # "nameless", NEW x \in R, x.ok
  PROVE  \E y \in Namesakes(R, x.key) : Has(Recorded(mem, R, answer), y.key)
<1> DEFINE k == x.key
<1>0. /\ \A y \in R : y.key \in Keys
      /\ x \in Namesakes(R, k) /\ Namesakes(R, k) \in SUBSET R
  BY DEF Result, Namesakes
<1>1. CASE answer = "named"
  <2> DEFINE o == Oldest(Namesakes(R, k))
  <2>1. o \in Namesakes(R, k) /\ \A y \in Namesakes(R, k) : o.key[2] <= y.key[2]
    <3> HIDE DEF k
    <3> QED BY <1>0, OldestIs
  <2> HIDE DEF o
  <2>2. Filename(o.key) = Filename(k)
    BY <2>1 DEF Namesakes
  <2>3. Namesakes(R, o.key) = Namesakes(R, k)
    BY <2>2 DEF Namesakes
  <2>4. Owns(R, answer, o.key) /\ x \in Same(R, answer, o.key)
    BY <1>0, <1>1, <2>1, <2>3 DEF Owns, Same
  <2>5. Has(Recorded(mem, R, answer), o.key)
    <3>1. o.key \in Keys
      BY <1>0, <2>1
    <3>2. \E y \in Same(R, answer, o.key) : y.ok
      BY <2>4
    <3>3. Recorded(mem, R, answer)[o.key] \in Entry
      BY <2>4, <3>1, <3>2, RecordedValues
    <3> QED BY <3>3, EntryIsTracked DEF Has
  <2> QED BY <2>1, <2>5
<1>2. CASE answer # "named"
  <2>1. Owns(R, answer, k) /\ x \in Same(R, answer, k)
    BY <1>2 DEF Owns, Same
  <2>2. k \in Keys /\ \E y \in Same(R, answer, k) : y.ok
    BY <1>0, <2>1
  <2>3. Recorded(mem, R, answer)[k] \in Entry
    <3> HIDE DEF k
    <3> QED BY <2>1, <2>2, RecordedValues
  <2> QED BY <1>0, <2>3, EntryIsTracked DEF Has
<1> QED BY <1>1, <1>2

\* The fields of a pass after each kind of step.
SameCopy(p, q) == p.mem = q.mem /\ p.memMarks = q.memMarks
SameChannel(p, q) == p.chan = q.chan /\ p.newest = q.newest

LEMMA SaveFields ==
  ASSUME NEW q \in Pass, NEW pc, NEW mem
  PROVE  LET p == [[q EXCEPT !.mem = mem] EXCEPT !.pc = pc] IN
           /\ p.pc = pc /\ p.files = q.files /\ p.failed = q.failed /\ p.results = q.results
           /\ p.answer = q.answer /\ p.unread = q.unread
           /\ p.mem = mem /\ p.memMarks = q.memMarks /\ SameChannel(p, q)
BY DEF Pass, SameChannel

LEMMA SkipFields ==
  ASSUME NEW q \in Pass, NEW todo
  PROVE  LET p == [q EXCEPT !.todo = todo] IN
           /\ p.pc = q.pc /\ p.files = q.files /\ p.failed = q.failed /\ p.results = q.results
           /\ p.answer = q.answer /\ p.unread = q.unread
           /\ SameCopy(p, q) /\ SameChannel(p, q)
BY DEF Pass, SameCopy, SameChannel

AtNextChannel(p) ==
  p.pc = "channel" /\ p.files = {} /\ ~p.failed /\ p.results = {} /\ p.newest = NoMark

LEMMA NextFields ==
  ASSUME NEW q \in Pass
  PROVE  AtNextChannel(NextChannel(q)) /\ SameCopy(NextChannel(q), q)
BY DEF Pass, NextChannel, AtNextChannel, SameCopy

LEMMA NextFieldsMem ==
  ASSUME NEW q \in Pass, NEW mem
  PROVE  LET p == NextChannel([q EXCEPT !.mem = mem]) IN
           AtNextChannel(p) /\ p.mem = mem /\ p.memMarks = q.memMarks
BY DEF Pass, NextChannel, AtNextChannel

LEMMA NextFieldsMarks ==
  ASSUME NEW q \in Pass, NEW ms
  PROVE  LET p == NextChannel([q EXCEPT !.memMarks = ms]) IN
           AtNextChannel(p) /\ p.mem = q.mem /\ p.memMarks = ms
BY DEF Pass, NextChannel, AtNextChannel

LEMMA Become ==
  ASSUME BulkTypes, NEW r \in Runs, NEW p, Becomes(r, p)
  PROVE  run'[r] = p /\ \A s \in Runs : s # r => run'[s] = run[s]
BY DEF Becomes, BulkTypes, BulkTypeOK

LEMMA BetweenChannels ==
  ASSUME NEW p, p.pc = "channel", p.files = {}, p.results = {}, ~p.failed
  PROVE  Books(p)
BY DEF Books, NamesRecorded

LEMMA NextBooks == ASSUME NEW p, AtNextChannel(p) PROVE Books(p)
BY BetweenChannels DEF AtNextChannel

LEMMA ProcessBooks ==
  ASSUME BookInv, NEW r \in Runs, NEW c \in Channels, ProcessChannel(r, c)
  PROVE  Books(run'[r])
<1>0. BulkTypes
  BY DEF BookInv
<1>1. run[r] \in Pass /\ run[r].pc = "channel" /\ run[r] # NoRun
  BY <1>0, ProcessEffect, NoRunIsNoPass
<1>2. PICK pc, todo, newest, unread, files :
        /\ pc = "batch" \/ (pc \in {"advance", "channel"} /\ files = {})
        /\ Becomes(r, [run[r] EXCEPT !.pc = pc, !.todo = todo, !.chan = c,
                                     !.newest = newest, !.unread = unread, !.files = files])
  <2>1. PICK raw \in Fetched(c, run[r].memMarks[c]) :
          LET unread == History(c, run[r].memMarks[c]) \ raw
              wanted == {m \in raw \cap Readable : ~Has(run[r].mem, DocKey(m))}
              files  == {[key |-> DocKey(m), rev |-> Current(DocKey(m))] : m \in wanted}
              pc     == IF files # {} THEN "batch" ELSE IF raw # {} THEN "advance" ELSE "channel"
          IN  Becomes(r, [run[r] EXCEPT !.pc = pc, !.todo = @ \ {c}, !.chan = c,
                                        !.newest = LastTs(raw), !.unread = unread, !.files = files])
    BY <1>0, ProcessEffect
  <2> QED BY <2>1
<1> DEFINE p == [run[r] EXCEPT !.pc = pc, !.todo = todo, !.chan = c,
                               !.newest = newest, !.unread = unread, !.files = files]
<1>3. run'[r] = p
  BY <1>0, <1>2, Become
<1>4. /\ p.pc = pc /\ p.files = files /\ p.results = run[r].results /\ p.failed = run[r].failed
      /\ p.mem = run[r].mem
  BY <1>1 DEF Pass
<1>5. Books(run[r])
  BY <1>1 DEF BookInv
<1> HIDE DEF p
<1> QED BY <1>1, <1>2, <1>3, <1>4, <1>5 DEF Books, NamesRecorded

LEMMA UploadBooks ==
  ASSUME BookInv, NEW r \in Runs, UploadBatch(r) \/ LoseBatch(r)
  PROVE  Books(run'[r])
<1>0. BulkTypes
  BY DEF BookInv
<1>1. PICK answer, failed, R :
        Becomes(r, [run[r] EXCEPT !.pc = "save", !.files = @ \ NextBatch(@), !.answer = answer,
                                  !.failed = failed, !.results = R])
  BY <1>0, UploadEffect
<1>2. run[r] \in Pass
  BY <1>0, UploadEffect
<1> DEFINE p == [run[r] EXCEPT !.pc = "save", !.files = @ \ NextBatch(@), !.answer = answer,
                               !.failed = failed, !.results = R]
<1>3. p.pc = "save" /\ run'[r] = p
  <2>1. p.pc = "save"
    BY <1>2 DEF Pass
  <2>2. Becomes(r, p)
    BY <1>1
  <2> HIDE DEF p
  <2> QED BY <1>0, <2>1, <2>2, Become
<1> HIDE DEF p
<1> QED BY <1>3 DEF Books

LEMMA SaveBooks ==
  ASSUME BookInv, NEW r \in Runs, SaveBatch(r)
  PROVE  Books(run'[r])
<1>0. BulkTypes
  BY DEF BookInv
<1>1. run[r] \in Pass /\ run[r] # NoRun /\ run[r].pc = "save"
  BY <1>0, SaveEffect, NoRunIsNoPass
<1> DEFINE mem == RecordedMem(run[r])
           saved == [run[r] EXCEPT !.mem = mem]
           p == IF run[r].files # {} THEN [saved EXCEPT !.pc = "batch"]
                ELSE IF run[r].failed THEN NextChannel(saved)
                ELSE [saved EXCEPT !.pc = "advance"]
<1>2. run'[r] = p
  <2>1. Becomes(r, p)
    BY <1>0, SaveEffect
  <2> HIDE DEF p
  <2> QED BY <1>0, <2>1, Become
<1>3. ASSUME run[r].answer # "nameless", NEW x \in run[r].results, x.ok
      PROVE  \E y \in Namesakes(run[r].results, x.key) : Has(mem, y.key)
  BY <1>1, <1>3, PassFields, RecordsNames DEF RecordedMem
<1> HIDE DEF mem
<1>4. ASSUME NEW pc \in {"batch", "advance"}, p = [saved EXCEPT !.pc = pc],
             pc = "advance" => ~run[r].failed /\ run[r].files = {}
      PROVE  Books(p)
  <2>1. LET q == [saved EXCEPT !.pc = pc] IN
          /\ q.pc = pc /\ q.files = run[r].files /\ q.failed = run[r].failed
          /\ q.results = run[r].results /\ q.answer = run[r].answer /\ q.mem = mem
    BY <1>1, SaveFields DEF SameChannel
  <2> HIDE DEF saved, p
  <2> QED BY <1>3, <1>4, <2>1 DEF Books, NamesRecorded
<1>5. CASE run[r].files = {} /\ run[r].failed
  <2>1. AtNextChannel(NextChannel(saved))
    BY <1>1, NextFieldsMem
  <2> HIDE DEF saved
  <2> QED BY <1>2, <1>5, <2>1, NextBooks
<1> QED BY <1>2, <1>4, <1>5

LEMMA OtherBooks ==
  ASSUME BookInv, NEW r \in Runs,
         \/ StartRun(r) \/ GiveUpUpload(r) \/ Advance(r) \/ RepostBatch(r)
         \/ EndRun(r) \/ CrashRun(r) \/ \E c \in Channels : GiveUpChannel(r, c)
  PROVE  run'[r] # NoRun => Books(run'[r])
<1>0. BulkTypes
  BY DEF BookInv
<1>1. CASE StartRun(r)
  BY <1>0, <1>1, StartEffect, Become, BetweenChannels
<1>2. CASE GiveUpUpload(r) \/ \E c \in Channels : GiveUpChannel(r, c)
  <2>0. run[r] \in Pass /\ run[r] # NoRun
    BY <1>0, <1>2, GiveUpEffect, NoRunIsNoPass
  <2>1. ASSUME NEW todo \in SUBSET Channels, Becomes(r, [run[r] EXCEPT !.todo = todo])
        PROVE  Books(run'[r])
    <3> DEFINE p == [run[r] EXCEPT !.todo = todo]
    <3>1. run'[r] = p
      BY <1>0, <2>1, Become
    <3>2. /\ p.pc = run[r].pc /\ p.files = run[r].files /\ p.failed = run[r].failed
          /\ p.results = run[r].results /\ p.mem = run[r].mem /\ p.answer = run[r].answer
      BY <2>0, SkipFields DEF SameCopy, SameChannel
    <3> HIDE DEF p
    <3> QED BY <2>0, <3>1, <3>2 DEF BookInv, Books, NamesRecorded
  <2>2. ASSUME NEW mem,
               Becomes(r, NextChannel(run[r])) \/ Becomes(r, NextChannel([run[r] EXCEPT !.mem = mem]))
        PROVE  Books(run'[r])
    <3>1. run'[r] = NextChannel(run[r]) \/ run'[r] = NextChannel([run[r] EXCEPT !.mem = mem])
      BY <1>0, <2>2, Become
    <3> QED BY <2>0, <3>1, NextFields, NextFieldsMem, NextBooks
  <2> QED BY <1>0, <1>2, <2>1, <2>2, GiveUpEffect
<1>3. CASE Advance(r)
  <2>0. run[r] \in Pass
    BY <1>0, <1>3, AdvanceEffect
  <2> DEFINE own == SetLastSyncedTs(run[r].memMarks, run[r].chan, run[r].newest)
  <2>1. run'[r] = NextChannel([run[r] EXCEPT !.memMarks = own])
    BY <1>0, <1>3, AdvanceEffect, Become
  <2> HIDE DEF own
  <2> QED BY <2>0, <2>1, NextFieldsMarks, NextBooks
<1>4. CASE RepostBatch(r)
  BY <1>0, <1>4, RepostEffect DEF BookInv
<1>5. CASE EndRun(r) \/ CrashRun(r)
  BY <1>0, <1>5, EndEffect, Become
<1> QED BY <1>1, <1>2, <1>3, <1>4, <1>5

LEMMA BookInit == BulkInit => BookInv
BY BulkTypesInit DEF BulkInit, BookInv

\* Passes change one at a time.
LEMMA OthersStay ==
  ASSUME BulkTypes, NEW r \in Runs, RunStep(r) \/ CrashRun(r)
  PROVE  \A s \in Runs : s # r => run'[s] = run[s]
<1>1. UNCHANGED run \/ \E p : Becomes(r, p)
  BY RunEffect
<1> QED BY <1>1, Become

LEMMA BookStep == BookInv /\ [BulkNext]_allVars => BookInv'
<1> SUFFICES ASSUME BookInv, [BulkNext]_allVars PROVE BookInv'
  OBVIOUS
<1>1. BulkTypes /\ BulkTypes'
  BY BulkTypesStep DEF BookInv
<1>2. CASE UNCHANGED run
  BY <1>1, <1>2 DEF BookInv
<1>3. ASSUME NEW r \in Runs, RunStep(r) \/ CrashRun(r) PROVE BookInv'
  <2>1. run'[r] # NoRun => Books(run'[r])
    BY <1>3, ProcessBooks, UploadBooks, SaveBooks, OtherBooks DEF RunStep
  <2>2. \A s \in Runs : s # r => run'[s] = run[s]
    BY <1>1, <1>3, OthersStay
  <2>3. \A s \in Runs : run'[s] # NoRun => Books(run'[s])
    BY <2>1, <2>2 DEF BookInv
  <2> QED BY <1>1, <2>3 DEF BookInv
<1> QED BY <1>2, <1>3 DEF BulkNext, allVars, bulkVars

(* Once a batch is saved, the names of all files its answer reports to be  *)
(* accepted are in the pass's copy, whichever messages share them.         *)
THEOREM SuccessesAreRecorded == BulkSpec => []SuccessesRecorded
<1>1. BookInv => SuccessesRecorded
  BY DEF BookInv, Books, NamesRecorded, SuccessesRecorded
<1>2. BookInv /\ [BulkNext]_allVars => BookInv'
  BY BookStep
<1> QED
  BY <1>1, <1>2, BookInit, PTL DEF BulkSpec

-----------------------------------------------------------------------------
(* The realtime path while passes run.                                     *)

\* Where a task step may lead.
Leads(t) ==
  /\ Live(t)
  /\ \A u \in Tasks \ {t} : task'[u] = task[u]
  /\ \/ task'[t] = Idle
     \/ /\ SameEvent(task'[t], task[t])
        /\ task'[t].pc \in {"purge", "remove"} => task[t].kind = "deleted" /\ ~task[t].inThread

LEMMA TaskLeads ==
  ASSUME TypeOK, NEW t \in Tasks, Deleting(t), TaskStep(t)
  PROVE  Leads(t)
<1>1. Live(t) /\ task[t] \in Busy /\ Proceeds(t)
  BY TaskEffects
<1>2. ASSUME \/ task'[t] = Idle
             \/ task'[t].pc \notin {"purge", "remove"}
             \/ task[t].kind = "deleted" /\ ~task[t].inThread
      PROVE  Leads(t)
  BY <1>1, <1>2 DEF Leads, Proceeds
<1>3. \A pc \in PCs \ {"purge", "remove"} : MovesTo(t, pc) => Leads(t)
  BY <1>2 DEF MovesTo
<1>4. Restarts(t) => Leads(t)
  BY <1>2 DEF Restarts
<1>5. CASE Ignore(t) \/ ReadOld(t) \/ FetchThread(t) \/ Raise(t)
  BY <1>2, <1>3, <1>4, <1>5, TaskEffects DEF PCs
<1>6. CASE Claim(t)
  BY <1>1, <1>2, <1>3, <1>6, ReturnEffect, GotoEffect DEF Claim, PCs
<1>7. CASE Upload(t)
  <2>1. ASSUME NEW s, Uploaded(t, s) PROVE task'[t].pc = "record"
    BY <1>1, <2>1 DEF Uploaded, TypeOK, Busy
  <2>2. UploadFailed(t) => task'[t] = Idle \/ MovesTo(t, "release") \/ MovesTo(t, "reread")
    BY <1>1, GotoEffect, ReturnEffect DEF UploadFailed
  <2> QED BY <1>2, <1>3, <1>7, <2>1, <2>2 DEF Upload, PCs
<1>8. CASE Record(t)
  BY <1>1, <1>2, <1>3, <1>8, ReturnEffect, GotoEffect DEF Record, PCs
<1>9. CASE Release(t)
  BY <1>1, <1>2, <1>3, <1>4, <1>9, ReturnEffect, RetriedEffect DEF Release, PCs
<1>10. CASE Reread(t)
  BY <1>1, <1>2, <1>3, <1>10, FinishEffect, GotoEffect DEF Reread, PCs
<1>11. CASE DropOld(t) \/ Remove(t)
  BY <1>1, <1>2, <1>11, FinishEffect DEF DropOld, Remove
<1>12. CASE LookUp(t)
  BY <1>2, <1>12 DEF LookUp
<1>13. CASE Purge(t)
  BY <1>1, <1>2, <1>13 DEF Purge, Deleting
<1>14. CASE Repost(t)
  BY <1>1, <1>2, <1>14 DEF Repost
<1> QED
  BY <1>5, <1>6, <1>7, <1>8, <1>9, <1>10, <1>11, <1>12, <1>13, <1>14, TaskEffects DEF TaskStep

LEMMA DeletesStep ==
  ASSUME TypeOK, DeletesAreReal, [Next]_vars
  PROVE  DeletesAreReal'
<1>1. gone \subseteq gone'
  BY SlackStep
<1>2. ASSUME NEW t \in Tasks, task'[t] = task[t] PROVE Deleting(t)'
  BY <1>1, <1>2 DEF DeletesAreReal, Deleting, Live
<1>3. ASSUME NEW m \in Messages, UserStep(m) PROVE DeletesAreReal'
  <2>0. \E kind \in Kinds, inThread \in BOOLEAN : \E r :
          Deliver(kind, m, inThread, r) /\ (kind = "deleted" /\ ~inThread => m \in gone')
    <3>1. CASE Post(m)
      BY <3>1 DEF Post, Kinds
    <3>2. CASE Edit(m)
      <4>1. (thread[m] > 0) \in BOOLEAN /\ "changed" \in Kinds /\ "changed" # "deleted"
        BY DEF Kinds
      <4>2. Deliver("changed", m, thread[m] > 0, rev[m] + 1)
        BY <3>2 DEF Edit
      <4> QED BY <4>1, <4>2
    <3>3. CASE Delete(m)
      BY <3>3 DEF Delete, Kinds
    <3>4. CASE Redeliver(m)
      BY <3>4 DEF Redeliver, Kinds
    <3>5. ASSUME NEW kind \in Kinds, Discuss(m, kind)
          PROVE  Deliver(kind, m, TRUE, thread[m] + 1)
      BY <3>5 DEF Discuss
    <3> QED BY <1>3, <3>1, <3>2, <3>3, <3>4, <3>5 DEF UserStep
  <2>1. PICK kind \in Kinds, inThread \in BOOLEAN : \E r :
          Deliver(kind, m, inThread, r) /\ (kind = "deleted" /\ ~inThread => m \in gone')
    BY <2>0
  <2>2. PICK t \in Tasks, w \in Workers : \E r :
          task' = [task EXCEPT ![t] = Event(kind, m, inThread, r, w)]
    BY <2>1 DEF Deliver
  <2>3. (\E r : task'[t] = Event(kind, m, inThread, r, w)) /\ \A u \in Tasks : u # t => task'[u] = task[u]
    BY <2>2 DEF TypeOK
  <2>4. Deleting(t)'
    BY <2>1, <2>3 DEF Event, Deleting
  <2> QED BY <1>2, <2>3, <2>4 DEF DeletesAreReal
<1>4. ASSUME NEW t \in Tasks, TaskStep(t) PROVE DeletesAreReal'
  <2>1. Leads(t) /\ Deleting(t)
    BY <1>4, TaskLeads DEF DeletesAreReal
  <2>2. Deleting(t)'
    BY <1>1, <2>1 DEF Leads, Deleting, SameEvent, Live
  <2> QED BY <1>2, <2>1, <2>2 DEF DeletesAreReal, Leads
<1>5. ASSUME NEW w \in Workers, Crash(w) PROVE DeletesAreReal'
  BY <1>1, <1>5 DEF Crash, DeletesAreReal, Deleting, Live
<1>6. CASE UNCHANGED vars
  BY <1>2, <1>6 DEF vars, DeletesAreReal
<1> QED BY <1>3, <1>4, <1>5, <1>6 DEF Next

-----------------------------------------------------------------------------
(* The watermark covers what was tracked.                                  *)

\* Nothing forgets a message that is still there; what is new is newer.
Later(kn, ex, po, kn2, ex2, po2) ==
  /\ po \in SUBSET Messages /\ ex2 \in SUBSET Messages /\ po \subseteq po2
  /\ \A m \in ex2 : \/ m \in ex /\ (m \in kn => m \in kn2)
                    \/ \A n \in po : n < m

LEMMA CopyLater ==
  ASSUME NEW mem, NEW ms, NEW kn, NEW ex, NEW po, NEW kn2, NEW ex2, NEW po2, NEW mem2,
         CopyCovers(mem, ms, kn, ex, po), Later(kn, ex, po, kn2, ex2, po2),
         \A m \in ex \cap ex2 : Tracked(mem, m) => Tracked(mem2, m) \/ m \in kn2
  PROVE  CopyCovers(mem2, ms, kn2, ex2, po2)
<1>0. po \in SUBSET Nat
  BY DEF Later
<1>1. \A c \in Channels : ms[c] \in po \cup {NoMark}
  BY DEF CopyCovers
<1>2. ASSUME NEW m \in Readable \cap ex2, m <= ms[ChannelOf[m]]
      PROVE  Tracked(mem2, m) \/ m \in kn2
  <2>1. m \in Messages /\ m \in Nat \ {0} /\ ChannelOf[m] \in Channels
    OBVIOUS
  <2>2. ms[ChannelOf[m]] \in po \cup {NoMark}
    BY <1>1, <2>1
  <2>3. CASE m \in ex /\ (m \in kn => m \in kn2)
    BY <1>2, <2>1, <2>3 DEF CopyCovers
  <2>4. CASE \A n \in po : n < m
    <3>1. ms[ChannelOf[m]] \in Nat /\ ms[ChannelOf[m]] < m
      <4>1. CASE ms[ChannelOf[m]] = 0
        BY <2>1, <4>1
      <4>2. CASE ms[ChannelOf[m]] \in po
        BY <1>0, <2>4, <4>2
      <4> QED BY <2>2, <4>1, <4>2 DEF NoMark
    <3> QED BY <1>2, <2>1, <3>1
  <2> QED BY <2>3, <2>4 DEF Later
<1> QED BY <1>1, <1>2 DEF CopyCovers, Later

LEMMA CoversLater ==
  ASSUME NEW p, NEW kn, NEW ex, NEW po, NEW kn2, NEW ex2, NEW po2,
         Covers(p, kn, ex, po), Later(kn, ex, po, kn2, ex2, po2)
  PROVE  Covers(p, kn2, ex2, po2)
<1>0. po \in SUBSET Nat
  BY DEF Later
<1>1. CopyCovers(p.mem, p.memMarks, kn2, ex2, po2)
  BY CopyLater DEF Covers
<1>2. ASSUME p.pc # "channel", ~p.failed, NEW m \in Readable \cap ex2,
             ChannelOf[m] = p.chan, m <= p.newest
      PROVE  Tracked(p.mem, m) \/ m \in kn2 \/ Underway(p, m)
  <2>1. m \in Nat \ {0}
    OBVIOUS
  <2>2. p.newest \in po \cup {NoMark}
    BY DEF Covers
  <2>3. CASE m \in ex /\ (m \in kn => m \in kn2)
    BY <1>2, <2>3 DEF Covers
  <2>4. CASE \A n \in po : n < m
    <3>1. p.newest \in Nat /\ p.newest < m
      <4>1. CASE p.newest = 0
        BY <2>1, <4>1
      <4>2. CASE p.newest \in po
        BY <1>0, <2>4, <4>2
      <4> QED BY <2>2, <4>1, <4>2 DEF NoMark
    <3> QED BY <1>2, <2>1, <3>1
  <2> QED BY <2>3, <2>4 DEF Later
<1> QED BY <1>1, <1>2 DEF Covers, Later

\* The step of the realtime path.
LEMMA RealtimeLater ==
  ASSUME TypeOK, DeletesAreReal, [Next]_vars, UNCHANGED history
  PROVE  /\ Later(Settled, Existing, Posted, Settled', Existing', Posted')
         /\ \A m \in Existing \cap Existing' : Tracked(entries, m) => m \in Settled'
<1>1. Posted \subseteq Posted' /\ Posted \in SUBSET Messages /\ Existing' \in SUBSET Messages
  BY SlackStep DEF Posted, Existing
<1>2. ASSUME NEW m \in Existing', m \in Existing \/ ~ \A n \in Posted : n < m
      PROVE  m \in Existing /\ (Tracked(entries, m) => Tracked(entries', m))
  <2>1. m \in Posted' /\ m \notin gone' /\ m \in Messages
    BY DEF Existing, Exists, Posted
  <2>2. m \in Posted
    BY <1>2, <2>1, SlackStep DEF Existing, Exists, Posted
  <2>3. m \in Existing
    BY <2>1, <2>2, SlackStep DEF Existing, Exists, Posted
  <2>4. ASSUME NEW k \in {MsgKey(m), ThreadKey(m)}, Has(entries, k), ~Has(entries', k) PROVE FALSE
    <3>1. k \in Keys /\ k[2] = m
      BY <2>1, KeyTypes
    <3>2. PICK t \in Tasks : task[t].pc = "remove" /\ MsgKey(task[t].msg) = k
      BY <2>4, <3>1, EntriesStep
    <3>3. Live(t) /\ task[t] \in Busy
      BY <3>2, BusyFields DEF PCs
    <3>4. task[t].msg \in gone
      BY <3>2, <3>3 DEF DeletesAreReal, Deleting
    <3>5. task[t].msg = m
      BY <3>1, <3>2, <3>3, KeyTypes DEF Busy
    <3> QED BY <2>1, <3>4, <3>5, SlackStep
  <2> QED BY <2>3, <2>4 DEF Tracked
<1>3. ASSUME NEW m \in Existing', m \in Existing \/ ~ \A n \in Posted : n < m
      PROVE  /\ m \in Existing /\ (m \in Settled => m \in Settled')
             /\ Tracked(entries, m) => m \in Settled'
  <2>1. m \in Messages
    BY <1>1
  <2> QED BY <1>2, <1>3, <2>1 DEF Settled, IsTracked, Tracked, WasAccepted, history
<1> QED BY <1>1, <1>3 DEF Later

\* A step of a pass.
LEMMA RunLater ==
  ASSUME BulkTypes, NEW r \in Runs, RunStep(r) \/ CrashRun(r)
  PROVE  /\ Later(Settled, Existing, Posted, Settled', Existing', Posted')
         /\ Existing' = Existing /\ Posted' = Posted /\ Settled \subseteq Settled'
         /\ \A k \in Keys : Has(entries, k) => Has(entries', k)
<1>1. Existing' = Existing /\ Posted' = Posted
  BY RunEffect DEF slack, Existing, Exists, Posted
<1>2. \A k \in Keys : Has(entries, k) => Has(entries', k)
  BY RunEffect, MergesKeep DEF KeepsFile
<1>3. accepted \subseteq accepted' /\ missed \subseteq missed'
  BY RunEffect
<1>4. Settled \subseteq Settled'
  BY <1>2, <1>3, KeyTypes DEF Settled, IsTracked, WasAccepted
<1>5. Existing \in SUBSET Messages /\ Posted \in SUBSET Messages
  BY DEF Existing, Posted
<1> QED BY <1>1, <1>2, <1>4, <1>5 DEF Later

\* A copy that covers, merged onto a file that does.
LEMMA MergeCovers ==
  ASSUME BulkTypes, FileCovers, Settled \subseteq Settled',
         NEW mem, NEW ms, Saves(mem, ms), CopyCovers(mem, ms, Settled', Existing, Posted)
  PROVE  CopyCovers(entries', marks', Settled', Existing, Posted)
<1>1. /\ \A k \in Keys : Has(entries', k) <=> Has(mem, k) \/ Has(entries, k)
      /\ \A c \in Channels : marks'[c] \in {ms[c], marks[c]}
  BY MergesKeep DEF Saves
<1>2. \A m \in Messages : Tracked(mem, m) \/ Tracked(entries, m) => Tracked(entries', m)
  BY <1>1, KeyTypes DEF Tracked
<1>3. \A c \in Channels : marks'[c] \in Posted \cup {NoMark}
  BY <1>1 DEF CopyCovers, FileCovers
<1>4. ASSUME NEW m \in Readable \cap Existing, m <= marks'[ChannelOf[m]]
      PROVE  Tracked(entries', m) \/ m \in Settled'
  <2>1. m \in Messages /\ ChannelOf[m] \in Channels
    OBVIOUS
  <2>2. m <= ms[ChannelOf[m]] \/ m <= marks[ChannelOf[m]]
    BY <1>1, <1>4, <2>1
  <2> QED BY <1>2, <2>1, <2>2 DEF CopyCovers, FileCovers
<1> QED BY <1>3, <1>4 DEF CopyCovers

\* What a fetch returns and what it left out are all there is.
LEMMA ProcessCovers ==
  ASSUME CoverInv, NEW r \in Runs, NEW c \in Channels, ProcessChannel(r, c)
  PROVE  Covers(run'[r], Settled, Existing, Posted)
<1>0. BulkTypes
  BY DEF CoverInv, BookInv
<1>1. PICK raw \in Fetched(c, run[r].memMarks[c]) :
        LET unread == History(c, run[r].memMarks[c]) \ raw
            wanted == {m \in raw \cap Readable : ~Has(run[r].mem, DocKey(m))}
            files  == {[key |-> DocKey(m), rev |-> Current(DocKey(m))] : m \in wanted}
            pc     == IF files # {} THEN "batch" ELSE IF raw # {} THEN "advance" ELSE "channel"
        IN  Becomes(r, [run[r] EXCEPT !.pc = pc, !.todo = @ \ {c}, !.chan = c,
                                      !.newest = LastTs(raw), !.unread = unread, !.files = files])
  BY <1>0, ProcessEffect
<1> DEFINE unread == History(c, run[r].memMarks[c]) \ raw
           wanted == {m \in raw \cap Readable : ~Has(run[r].mem, DocKey(m))}
           files  == {[key |-> DocKey(m), rev |-> Current(DocKey(m))] : m \in wanted}
           pc     == IF files # {} THEN "batch" ELSE IF raw # {} THEN "advance" ELSE "channel"
           todo   == run[r].todo \ {c}
           p      == [run[r] EXCEPT !.pc = pc, !.todo = todo, !.chan = c,
                                    !.newest = LastTs(raw), !.unread = unread, !.files = files]
<1>2. run[r] \in Pass /\ run[r].pc = "channel" /\ run[r] # NoRun
  BY <1>0, ProcessEffect, NoRunIsNoPass
<1>3. Covers(run[r], Settled, Existing, Posted)
  BY <1>2 DEF CoverInv, PassesCover
<1>4. run'[r] = p
  <2>1. Becomes(r, p)
    BY <1>1
  <2> HIDE DEF p
  <2> QED BY <1>0, <2>1, Become
<1>5. /\ p.pc = pc /\ p.chan = c /\ p.newest = LastTs(raw) /\ p.files = files /\ p.unread = unread
      /\ p.mem = run[r].mem /\ p.memMarks = run[r].memMarks
  <2> HIDE DEF pc, files, todo, unread
  <2> QED BY <1>2 DEF Pass
<1>6. LastTs(raw) \in Posted \cup {NoMark}
  BY <1>0, FetchedTypes
<1>7. ASSUME NEW m \in Readable \cap Existing, ChannelOf[m] = c
      PROVE  Tracked(p.mem, m) \/ m \in Settled \/ Underway(p, m)
  <2>0. m \in Messages /\ m \in Nat /\ run[r].memMarks[c] \in Nat /\ Exists(m)
    BY <1>2 DEF Pass, Marks, Existing
  <2>1. CASE m <= run[r].memMarks[c]
    BY <1>3, <1>5, <1>7, <2>1 DEF Covers, CopyCovers
  <2>2. CASE m > run[r].memMarks[c] /\ Has(run[r].mem, DocKey(m))
    BY <1>5, <2>0, <2>2, DocKeys DEF Tracked
  <2>3. CASE m > run[r].memMarks[c] /\ ~Has(run[r].mem, DocKey(m)) /\ m \in raw
    <3>1. m \in wanted
      BY <1>7, <2>0, <2>3
    <3>2. [key |-> DocKey(m), rev |-> Current(DocKey(m))] \in files
      BY <3>1
    <3>3. \E f \in files : f.key = DocKey(m)
      BY <3>2
    <3> HIDE DEF files, p
    <3> QED BY <1>5, <2>0, <3>3, DocKeys DEF Underway
  <2>4. CASE m > run[r].memMarks[c] /\ m \notin raw
    <3>1. m \in unread
      BY <1>7, <2>0, <2>4 DEF History
    <3> HIDE DEF unread, p
    <3> QED BY <1>5, <3>1 DEF Underway
  <2> QED BY <2>0, <2>1, <2>2, <2>3, <2>4
<1> HIDE DEF p, files, pc
<1> QED BY <1>3, <1>4, <1>5, <1>6, <1>7 DEF Covers

LEMMA UploadCovers ==
  ASSUME CoverInv, NEW r \in Runs, UploadBatch(r) \/ LoseBatch(r)
  PROVE  Covers(run'[r], Settled', Existing, Posted)
<1>0. BulkTypes
  BY DEF CoverInv, BookInv
<1>1. run[r] \in Pass /\ run[r] # NoRun /\ run[r].pc = "batch"
  BY <1>0, UploadEffect, NoRunIsNoPass
<1>2. PICK answer, failed, R :
              /\ Becomes(r, [run[r] EXCEPT
                   !.pc = "save", !.files = @ \ NextBatch(@), !.answer = answer,
                   !.failed = failed, !.results = R])
              /\ ~failed => /\ ~run[r].failed
                            /\ \A f \in NextBatch(run[r].files) : f.key \in accepted'
  BY <1>0, UploadEffect
<1> DEFINE batch == NextBatch(run[r].files)
           rest == run[r].files \ batch
           p == [run[r] EXCEPT !.pc = "save", !.files = rest, !.answer = answer,
                               !.failed = failed, !.results = R]
<1>3. run'[r] = p
  <2>1. Becomes(r, p)
    BY <1>2
  <2> HIDE DEF p
  <2> QED BY <1>0, <2>1, Become
<1>4. /\ p.pc = "save" /\ p.files = rest /\ p.failed = failed /\ p.unread = run[r].unread
      /\ p.chan = run[r].chan /\ p.newest = run[r].newest
      /\ p.mem = run[r].mem /\ p.memMarks = run[r].memMarks
  <2> HIDE DEF rest
  <2> QED BY <1>1 DEF Pass
<1>5. Covers(run[r], Settled', Existing, Posted)
  <2>1. Later(Settled, Existing, Posted, Settled', Existing, Posted)
    BY <1>0, RunLater DEF RunStep
  <2> QED BY <1>1, <2>1, CoversLater DEF CoverInv, PassesCover
<1> HIDE DEF p
<1>6. ASSUME ~failed, NEW m \in Messages, Underway(run[r], m)
      PROVE  m \in Settled' \/ Underway(p, m)
  <2>1. CASE m \in run[r].unread
    BY <1>4, <2>1 DEF Underway
  <2>2. ASSUME NEW f \in run[r].files, f.key \in {MsgKey(m), ThreadKey(m)}
        PROVE  m \in Settled' \/ Underway(p, m)
    <3>1. CASE f \in batch
      <4>1. f.key \in accepted'
        BY <1>2, <1>6, <3>1
      <4> QED BY <2>2, <4>1 DEF Settled, WasAccepted
    <3>2. CASE f \in rest
      BY <1>4, <2>2, <3>2 DEF Underway
    <3> QED BY <3>1, <3>2
  <2> QED BY <1>6, <2>1, <2>2 DEF Underway
<1>7. ~failed => \A m \in Readable \cap Existing :
                   ChannelOf[m] = p.chan /\ m <= p.newest =>
                     Tracked(p.mem, m) \/ m \in Settled' \/ Underway(p, m)
  <2> SUFFICES ASSUME ~failed, NEW m \in Readable \cap Existing,
                      ChannelOf[m] = p.chan, m <= p.newest
               PROVE  Tracked(p.mem, m) \/ m \in Settled' \/ Underway(p, m)
    OBVIOUS
  <2>1. Tracked(run[r].mem, m) \/ m \in Settled' \/ Underway(run[r], m)
    BY <1>1, <1>2, <1>4, <1>5 DEF Covers
  <2> QED BY <1>4, <1>6, <2>1
<1> QED BY <1>3, <1>4, <1>5, <1>7 DEF Covers

LEMMA SaveCovers ==
  ASSUME CoverInv, NEW r \in Runs, SaveBatch(r)
  PROVE  Covers(run'[r], Settled', Existing, Posted) /\ FileCovers'
<1>0. BulkTypes /\ Books(run[r]) /\ Covers(run[r], Settled, Existing, Posted)
  BY SaveEffect, NoRunIsNoPass DEF CoverInv, BookInv, PassesCover
<1>1. run[r] \in Pass /\ run[r].pc = "save"
  BY <1>0, SaveEffect
<1> DEFINE mem == RecordedMem(run[r])
           saved == [run[r] EXCEPT !.mem = mem]
           p == IF run[r].files # {} THEN [saved EXCEPT !.pc = "batch"]
                ELSE IF run[r].failed THEN NextChannel(saved)
                ELSE [saved EXCEPT !.pc = "advance"]
<1>2. run'[r] = p
  <2>1. Becomes(r, p)
    BY <1>0, SaveEffect
  <2> HIDE DEF p
  <2> QED BY <1>0, <2>1, Become
<1>3. /\ Saves(mem, run[r].memMarks) /\ Later(Settled, Existing, Posted, Settled', Existing, Posted)
      /\ Existing' = Existing /\ Posted' = Posted /\ Settled \subseteq Settled'
  BY <1>0, SaveEffect, RunLater DEF RunStep
<1>4. \A m \in Messages : Tracked(run[r].mem, m) => Tracked(mem, m)
  <2>1. \A k \in Keys : Has(run[r].mem, k) => Has(mem, k)
    BY <1>1, PassFields, RecordsKeep DEF RecordedMem
  <2> QED BY <2>1, KeyTypes DEF Tracked
<1>5. CopyCovers(mem, run[r].memMarks, Settled', Existing, Posted)
  <2>1. \A m \in Existing : Tracked(run[r].mem, m) => Tracked(mem, m)
    BY <1>4 DEF Existing
  <2> HIDE DEF mem
  <2> QED BY <1>0, <1>3, <2>1, CopyLater DEF Covers
<1>6. FileCovers'
  <2>1. CopyCovers(entries', marks', Settled', Existing, Posted)
    BY <1>0, <1>3, <1>5, MergeCovers DEF CoverInv
  <2> QED BY <1>3, <2>1 DEF FileCovers
<1>7. Covers(run[r], Settled', Existing, Posted)
  BY <1>0, <1>3, CoversLater
<1> HIDE DEF mem
<1>8. ASSUME NEW pc \in {"batch", "advance"}, p = [saved EXCEPT !.pc = pc]
      PROVE  Covers(p, Settled', Existing, Posted)
  <2>1. /\ p.pc = pc /\ p.files = run[r].files /\ p.failed = run[r].failed
        /\ p.mem = mem /\ p.memMarks = run[r].memMarks /\ p.unread = run[r].unread
        /\ p.chan = run[r].chan /\ p.newest = run[r].newest
    <3>1. LET q == [saved EXCEPT !.pc = pc] IN
          /\ q.pc = pc /\ q.files = run[r].files /\ q.failed = run[r].failed
          /\ q.mem = mem /\ q.memMarks = run[r].memMarks /\ q.unread = run[r].unread
          /\ q.chan = run[r].chan /\ q.newest = run[r].newest
      BY <1>1, SaveFields DEF SameChannel
    <3> HIDE DEF p, saved
    <3> QED BY <1>8, <3>1
  <2> HIDE DEF p
  <2> QED BY <1>1, <1>4, <1>5, <1>7, <2>1 DEF Covers, Underway
<1>9. ASSUME p = NextChannel(saved) PROVE Covers(p, Settled', Existing, Posted)
  <2>1. AtNextChannel(p) /\ p.mem = mem /\ p.memMarks = run[r].memMarks
    <3>1. LET q == NextChannel(saved) IN
            AtNextChannel(q) /\ q.mem = mem /\ q.memMarks = run[r].memMarks
      BY <1>1, NextFieldsMem
    <3> HIDE DEF p, saved
    <3> QED BY <1>9, <3>1
  <2> HIDE DEF p
  <2> QED BY <1>5, <2>1 DEF Covers, AtNextChannel
<1>10. \/ p = [saved EXCEPT !.pc = "batch"] \/ p = [saved EXCEPT !.pc = "advance"]
       \/ p = NextChannel(saved)
  OBVIOUS
<1> HIDE DEF p, saved
<1> QED BY <1>2, <1>6, <1>8, <1>9, <1>10

\* What the pass left unread, the watermark passes and the history remembers.
LEMMA AdvanceCovers ==
  ASSUME CoverInv, NEW r \in Runs, Advance(r)
  PROVE  Covers(run'[r], Settled', Existing, Posted) /\ FileCovers'
<1>0. BulkTypes /\ Books(run[r]) /\ Covers(run[r], Settled, Existing, Posted)
  BY AdvanceEffect, NoRunIsNoPass DEF CoverInv, BookInv, PassesCover
<1>1. run[r] \in Pass /\ run[r].pc = "advance" /\ missed' = missed \cup run[r].unread
  BY <1>0, AdvanceEffect
<1> DEFINE own == SetLastSyncedTs(run[r].memMarks, run[r].chan, run[r].newest)
           mem == run[r].mem
<1>2. /\ Saves(mem, own) /\ Later(Settled, Existing, Posted, Settled', Existing, Posted)
      /\ Existing' = Existing /\ Posted' = Posted /\ Settled \subseteq Settled'
  BY <1>0, AdvanceEffect, RunLater DEF RunStep
<1>3. \A c \in Channels : \/ own[c] = run[r].memMarks[c]
                          \/ c = run[r].chan /\ own[c] = run[r].newest
  <2>1. run[r].memMarks \in Marks
    BY <1>1, PassFields
  <2> QED BY <2>1 DEF SetLastSyncedTs, Marks
<1>a. Covers(run[r], Settled', Existing, Posted)
  BY <1>0, <1>2, CoversLater
<1>4. CopyCovers(mem, own, Settled', Existing, Posted)
  <2>1. \A c \in Channels : own[c] \in Posted \cup {NoMark}
    BY <1>0, <1>3 DEF Covers, CopyCovers
  <2>2. ASSUME NEW m \in Readable \cap Existing, m <= own[ChannelOf[m]]
        PROVE  Tracked(mem, m) \/ m \in Settled'
    <3>0. m \in Messages /\ ChannelOf[m] \in Channels
      OBVIOUS
    <3>1. CASE own[ChannelOf[m]] = run[r].memMarks[ChannelOf[m]]
      BY <1>a, <2>2, <3>1 DEF Covers, CopyCovers
    <3>2. CASE ChannelOf[m] = run[r].chan /\ own[ChannelOf[m]] = run[r].newest
      <4>1. ~run[r].failed /\ run[r].files = {}
        BY <1>0, <1>1 DEF Books
      <4>2. m <= run[r].newest
        BY <2>2, <3>2
      <4>3. Tracked(mem, m) \/ m \in Settled' \/ Underway(run[r], m)
        BY <1>a, <1>1, <3>2, <4>1, <4>2 DEF Covers
      <4>4. Underway(run[r], m) => m \in Settled'
        BY <1>1, <3>0, <4>1 DEF Underway, Settled
      <4> QED BY <4>3, <4>4
    <3> QED BY <1>3, <3>0, <3>1, <3>2
  <2> HIDE DEF own, mem
  <2> QED BY <2>1, <2>2 DEF CopyCovers
<1> HIDE DEF own
<1>5. FileCovers'
  <2>1. CopyCovers(entries', marks', Settled', Existing, Posted)
    BY <1>0, <1>2, <1>4, MergeCovers DEF CoverInv
  <2> QED BY <1>2, <2>1 DEF FileCovers
<1>7. AtNextChannel(run'[r]) /\ run'[r].mem = mem /\ run'[r].memMarks = own
  <2>1. run'[r] = NextChannel([run[r] EXCEPT !.memMarks = own])
    BY <1>0, AdvanceEffect, Become DEF own
  <2> DEFINE q == NextChannel([run[r] EXCEPT !.memMarks = own])
  <2>2. AtNextChannel(q) /\ q.mem = mem /\ q.memMarks = own
    <3> HIDE DEF own
    <3> QED BY <1>1, NextFieldsMarks
  <2> HIDE DEF q, mem
  <2> QED BY <2>1, <2>2 DEF q
<1> HIDE DEF mem
<1>8. Covers(run'[r], Settled', Existing, Posted)
  BY <1>4, <1>7 DEF Covers, AtNextChannel
<1> QED BY <1>5, <1>8

LEMMA OtherCovers ==
  ASSUME CoverInv, NEW r \in Runs,
         \/ StartRun(r) \/ GiveUpUpload(r) \/ RepostBatch(r)
         \/ EndRun(r) \/ CrashRun(r) \/ \E c \in Channels : GiveUpChannel(r, c)
  PROVE  run'[r] # NoRun => Covers(run'[r], Settled, Existing, Posted)
<1>0. BulkTypes
  BY DEF CoverInv, BookInv
<1>1. CASE StartRun(r)
  <2>1. PICK p \in Pass :
          /\ Becomes(r, p) /\ p.pc = "channel" /\ p.mem = entries /\ p.memMarks = marks
          /\ p.newest = NoMark
    BY <1>0, <1>1, StartEffect
  <2>2. run'[r] = p
    BY <1>0, <2>1, Become
  <2> QED BY <2>1, <2>2 DEF CoverInv, FileCovers, Covers
<1>2. CASE GiveUpUpload(r) \/ \E c \in Channels : GiveUpChannel(r, c)
  <2>0. run[r] \in Pass /\ run[r] # NoRun /\ Covers(run[r], Settled, Existing, Posted)
    BY <1>0, <1>2, GiveUpEffect, NoRunIsNoPass DEF CoverInv, PassesCover
  <2>1. ASSUME NEW todo \in SUBSET Channels, run[r].pc = "channel",
               Becomes(r, [run[r] EXCEPT !.todo = todo])
        PROVE  Covers(run'[r], Settled, Existing, Posted)
    <3> DEFINE p == [run[r] EXCEPT !.todo = todo]
    <3>1. run'[r] = p
      BY <1>0, <2>1, Become
    <3>2. /\ p.pc = run[r].pc /\ p.newest = run[r].newest
          /\ p.mem = run[r].mem /\ p.memMarks = run[r].memMarks
      BY <2>0, SkipFields DEF SameCopy, SameChannel
    <3> HIDE DEF p
    <3> QED BY <2>0, <2>1, <3>1, <3>2 DEF Covers
  <2>2. CASE Becomes(r, NextChannel(run[r]))
    <3>1. AtNextChannel(run'[r]) /\ SameCopy(run'[r], run[r])
      BY <1>0, <2>0, <2>2, Become, NextFields
    <3> QED BY <2>0, <3>1 DEF Covers, AtNextChannel, SameCopy
  <2>3. CASE Becomes(r, NextChannel([run[r] EXCEPT !.mem = RecordedMem(run[r])]))
    <3> DEFINE mem == RecordedMem(run[r])
           q   == NextChannel([run[r] EXCEPT !.mem = mem])
    <3>0. run'[r] = q
      BY <1>0, <2>3, Become
    <3>1. AtNextChannel(q) /\ q.mem = mem /\ q.memMarks = run[r].memMarks
      <4> HIDE DEF mem
      <4> QED BY <2>0, NextFieldsMem
    <3>2. \A k \in Keys : Has(run[r].mem, k) => Has(mem, k)
      BY <2>0, PassFields, RecordsKeep DEF RecordedMem
    <3>3. \A m \in Existing : Tracked(run[r].mem, m) => Tracked(mem, m)
      BY <3>2, KeyTypes DEF Tracked, Existing
    <3>4. Later(Settled, Existing, Posted, Settled, Existing, Posted)
      BY DEF Later, Posted, Existing
    <3>5. CopyCovers(mem, run[r].memMarks, Settled, Existing, Posted)
      <4> HIDE DEF mem
      <4> QED BY <2>0, <3>3, <3>4, CopyLater DEF Covers
    <3> HIDE DEF mem, q
    <3> QED BY <3>0, <3>1, <3>5 DEF Covers, AtNextChannel
  <2> QED BY <1>0, <1>2, <2>1, <2>2, <2>3, GiveUpEffect
<1>3. CASE RepostBatch(r)
  BY <1>0, <1>3, RepostEffect DEF CoverInv, PassesCover
<1>4. CASE EndRun(r) \/ CrashRun(r)
  BY <1>0, <1>4, EndEffect, Become
<1> QED BY <1>1, <1>2, <1>3, <1>4

LEMMA CoverInit == BulkInit => CoverInv
<1> SUFFICES ASSUME BulkInit PROVE CoverInv
  OBVIOUS
<1>1. BookInv
  BY BookInit
<1>2. DeletesAreReal
  BY DEF BulkInit, Init, DeletesAreReal, Deleting, Live
<1>3. PassesCover
  BY DEF BulkInit, PassesCover
<1>4. Existing = {} /\ \A c \in Channels : marks[c] = NoMark
  BY DEF BulkInit, Init, Existing, Exists, EmptyMarks
<1> QED BY <1>1, <1>2, <1>3, <1>4 DEF CoverInv, FileCovers, CopyCovers

LEMMA CoverStep ==
  ASSUME CoverInv, [BulkNext]_allVars
  PROVE  CoverInv'
<1>1. BookInv /\ BookInv' /\ BulkTypes /\ TypeOK
  BY BookStep DEF CoverInv, BookInv, BulkTypes, BulkTypeOK
<1>2. CASE [Next]_vars /\ UNCHANGED bulkVars
  <2>1. /\ DeletesAreReal' /\ Later(Settled, Existing, Posted, Settled', Existing', Posted')
        /\ \A m \in Existing \cap Existing' : Tracked(entries, m) => m \in Settled'
    BY <1>1, <1>2, DeletesStep, RealtimeLater DEF CoverInv, bulkVars
  <2>2. UNCHANGED <<marks, run>>
    BY <1>2 DEF bulkVars
  <2>3. CopyCovers(entries', marks, Settled', Existing', Posted')
    BY <2>1, CopyLater DEF CoverInv, FileCovers
  <2>4. \A r \in Runs : run[r] # NoRun => Covers(run[r], Settled', Existing', Posted')
    BY <2>1, CoversLater DEF CoverInv, PassesCover
  <2> QED BY <1>1, <2>1, <2>2, <2>3, <2>4 DEF CoverInv, FileCovers, PassesCover
<1>3. ASSUME NEW r \in Runs, RunStep(r) \/ CrashRun(r) PROVE CoverInv'
  <2>1. /\ Later(Settled, Existing, Posted, Settled', Existing, Posted)
        /\ Existing' = Existing /\ Posted' = Posted /\ Settled \subseteq Settled'
    BY <1>1, <1>3, RunLater
  <2>2. DeletesAreReal'
    <3>1. UNCHANGED <<task, gone>>
      BY <1>1, <1>3, RunEffect DEF slack
    <3> QED BY <3>1 DEF CoverInv, DeletesAreReal, Deleting, Live
  <2>3. /\ FileCovers'
        /\ run'[r] # NoRun => Covers(run'[r], Settled', Existing, Posted)
    <3>1. CASE SaveBatch(r)
      BY <3>1, SaveCovers
    <3>2. CASE Advance(r)
      BY <3>2, AdvanceCovers
    <3>3. CASE ~SaveBatch(r) /\ ~Advance(r)
      <4>1. KeepsFile
        BY <1>1, <1>3, <3>3, StartEffect, ProcessEffect, UploadEffect, GiveUpEffect, RepostEffect,
           EndEffect DEF RunStep
      <4>2. run'[r] # NoRun => Covers(run'[r], Settled', Existing, Posted)
        <5>1. ASSUME Covers(run'[r], Settled, Existing, Posted)
              PROVE  Covers(run'[r], Settled', Existing, Posted)
          BY <2>1, <5>1, CoversLater
        <5> QED BY <1>3, <3>3, <5>1, ProcessCovers, UploadCovers, OtherCovers DEF RunStep
      <4>3. FileCovers'
        <5>1. \A m \in Existing : Tracked(entries, m) => m \in Settled'
          BY <2>1, SettledTracks DEF Existing
        <5>2. CopyCovers(entries, marks, Settled', Existing, Posted)
          BY <2>1, <5>1, CopyLater DEF CoverInv, FileCovers
        <5> QED BY <2>1, <4>1, <5>2 DEF KeepsFile, FileCovers
      <4> QED BY <4>2, <4>3
    <3> QED BY <3>1, <3>2, <3>3
  <2>4. PassesCover'
    <3>1. \A s \in Runs : s # r => run'[s] = run[s]
      BY <1>1, <1>3, OthersStay
    <3>2. \A s \in Runs : run[s] # NoRun => Covers(run[s], Settled', Existing, Posted)
      BY <2>1, CoversLater DEF CoverInv, PassesCover
    <3> QED BY <2>1, <2>3, <3>1, <3>2 DEF PassesCover
  <2> QED BY <1>1, <2>2, <2>3, <2>4 DEF CoverInv
<1> QED BY <1>2, <1>3 DEF BulkNext, allVars

(* Below the watermark of a channel every message that is still in Slack   *)
(* is tracked, was accepted by HydraDB, or was left out by a fetch that    *)
(* went wrong: refused uploads, answers without names, messages of one     *)
(* second, passes that overlap, crashes and the realtime path beside them  *)
(* lose none.                                                              *)
THEOREM WatermarksCover == BulkSpec => []WatermarkCoversRead
<1>1. CoverInv => WatermarkCoversRead
  <2> SUFFICES ASSUME CoverInv, NEW m \in Readable, Exists(m), m <= marks[ChannelOf[m]]
               PROVE  m \in Settled
    BY DEF WatermarkCoversRead, Passed, Settled
  <2>1. m \in Readable \cap Existing
    BY DEF Existing
  <2> QED BY <2>1, SettledTracks DEF CoverInv, FileCovers, CopyCovers
<1>2. CoverInv /\ [BulkNext]_allVars => CoverInv'
  BY CoverStep
<1> QED
  BY <1>1, <1>2, CoverInit, PTL DEF BulkSpec
=============================================================================
