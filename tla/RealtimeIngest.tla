--------------------------- MODULE RealtimeIngest ---------------------------
(***************************************************************************)
(* The realtime Slack path (backend/realtime_ingest.py): what happens in   *)
(* Slack, the background tasks that process its events, the ingestion      *)
(* state file and the documents in HydraDB.                                *)
(*                                                                         *)
(* The tasks of one worker process run in parallel threads and may run in  *)
(* any order.  Every `with _state_lock` block is one step: the lock is     *)
(* held for the whole block, a block that writes also holds the file lock  *)
(* of IngestionState.locked(), and readers see the file before or after a  *)
(* rename.  Calls to Slack and HydraDB are steps of their own.             *)
(*                                                                         *)
(* A message is its Slack ts.  Its text is a revision number, the content  *)
(* of its thread another one (bumped by every reply, edit or delete in     *)
(* it); a document holds the revision it was built from.  HydraDB gives    *)
(* every upload a new source id; uploaded_at is taken to be the same       *)
(* number, since both are used only as "this upload and no other".         *)
(***************************************************************************)
EXTENDS IngestionState, FiniteSets

CONSTANTS Admitted,      \* messages that pass routing, channel and bot gates
          Workers,       \* worker processes
          Tasks,         \* bound: events being processed at a time
          EditsCarryText,\* has a changed/deleted event a top-level text?
          Faults,        \* what may go wrong, see AllFaults
          MaxAttempts,   \* attempts of retry_with_backoff
          MaxRev,        \* bound: revisions of a text
          MaxThread,     \* bound: revisions of a thread
          MaxDuplicates, \* bound: events delivered once more
          MaxCrashes     \* bound: crashes of a worker

AllFaults == {"upload",     \* an upload is refused, nothing is stored
              "lostAnswer", \* an upload is stored, its answer is lost
              "noIds",      \* an upload is answered without per-file results
              "delete",     \* a delete does not land
              "fetch",      \* conversations.replies fails on some page
              "raise",      \* an unexpected exception in a handler
              "save"}       \* the state file cannot be written

ASSUME AdmittedAssumption == Admitted \subseteq Messages
ASSUME FaultsAssumption   == Faults \subseteq AllFaults /\ EditsCarryText \in BOOLEAN
ASSUME BoundsAssumption   == {MaxAttempts, MaxRev, MaxThread, MaxDuplicates, MaxCrashes} \subseteq Nat

VARIABLES rev,        \* message -> revision of its text in Slack, 0 = not posted
          thread,     \* message -> revision of its thread, 0 = no reply yet
          gone,       \* messages deleted in Slack
          task,       \* the background tasks
          inFlight,   \* worker -> _in_flight
          entries,    \* the entries of the state file
          docs,       \* the documents in HydraDB
          nextId,     \* the next source id
          duplicates, crashes

slack == <<rev, thread, gone, duplicates>>
store == <<docs, nextId>>
vars  == <<slack, task, inFlight, entries, store, crashes>>

\* What Slack shows now for the document of a key.
Current(k) == IF k[1] = "slack" THEN rev[k[2]] ELSE thread[k[2]]

Doc == [id : Nat, key : Keys, rev : Nat]

\* A document whose id nobody learned: 0 (ids start at 1). Its revision
\* plays no part.
Orphan(k) == [id |-> 0, key |-> k, rev |-> 0]

DocsOf(k)  == {d \in docs : d.key = k}

-----------------------------------------------------------------------------
(* Background tasks.                                                       *)

Kinds == {"message", "reply", "changed", "deleted"}

\* kind, msg, inThread, rev: the event; old: the entry read before a
\* re-upload (or the source to purge); upload: the id of this task's upload.
Busy == [pc : {"start", "ingest", "upload", "record", "release", "reread",
               "drop", "purge", "remove"},
         kind : Kinds, msg : Messages, inThread : BOOLEAN, rev : Nat,
         worker : Workers, attempt : Nat, raised : BOOLEAN,
         oldSource : SourceIds, oldStamp : Nat,
         upload : Nat, source : SourceIds]

Idle == [pc |-> "idle"]

\* The document an event is about: a thread's, or a single message's.
KeyOf(e) == IF e.kind = "reply" \/ e.inThread THEN ThreadKey(e.msg) ELSE MsgKey(e.msg)

Event(kind, m, inThread, r, w) ==
  [pc |-> "start", kind |-> kind, msg |-> m, inThread |-> inThread, rev |-> r,
   worker |-> w, attempt |-> 1, raised |-> FALSE, oldSource |-> NoSource,
   oldStamp |-> 0, upload |-> 0, source |-> NoSource]

\* is_noise drops an event without text before anything else is looked at.
HasText(e) == e.kind \in {"message", "reply"} \/ EditsCarryText
Passes(e)  == e.msg \in Admitted /\ HasText(e)

\* The task holds its stable key in its worker's _in_flight.
Holds(e) == /\ e.pc \in {"upload", "record", "release"}
            /\ KeyOf(e) = MsgKey(e.msg)

TypeOK ==
  /\ rev \in [Messages -> Nat] /\ thread \in [Messages -> Nat]
  /\ gone \in SUBSET Messages
  /\ task \in [Tasks -> Busy \cup {Idle}]
  /\ inFlight \in [Workers -> SUBSET Keys]
  /\ entries \in Entries
  /\ docs \in SUBSET Doc /\ nextId \in Nat
  /\ duplicates \in Nat /\ crashes \in Nat

Init ==
  /\ rev = [m \in Messages |-> 0] /\ thread = [m \in Messages |-> 0]
  /\ gone = {} /\ duplicates = 0 /\ crashes = 0
  /\ task = [t \in Tasks |-> Idle]
  /\ inFlight = [w \in Workers |-> {}]
  /\ entries = EmptyEntries
  /\ docs = {} /\ nextId = 1

-----------------------------------------------------------------------------
(* What users do in Slack; each act is delivered as one event.             *)

Deliver(kind, m, inThread, r) ==
  /\ \E t \in Tasks, w \in Workers :
       /\ task[t] = Idle
       /\ task' = [task EXCEPT ![t] = Event(kind, m, inThread, r, w)]
  /\ UNCHANGED <<inFlight, entries, store, crashes>>

Exists(m) == rev[m] > 0 /\ m \notin gone

Post(m) ==
  /\ rev[m] = 0
  /\ \A n \in Messages : rev[n] > 0 => n < m
  /\ rev' = [rev EXCEPT ![m] = 1]
  /\ Deliver("message", m, FALSE, 1)
  /\ UNCHANGED <<thread, gone, duplicates>>

\* A reply, or an edit or delete of one.
Discuss(m, kind) ==
  /\ Exists(m) /\ thread[m] < MaxThread
  /\ kind = "reply" \/ thread[m] > 0
  /\ thread' = [thread EXCEPT ![m] = @ + 1]
  /\ Deliver(kind, m, TRUE, thread[m] + 1)
  /\ UNCHANGED <<rev, gone, duplicates>>

\* An edit of the message; in Slack a parent has thread_ts = ts.
Edit(m) ==
  /\ Exists(m) /\ rev[m] < MaxRev
  /\ rev' = [rev EXCEPT ![m] = @ + 1]
  /\ thread' = IF thread[m] > 0 THEN [thread EXCEPT ![m] = @ + 1] ELSE thread
  /\ Deliver("changed", m, thread[m] > 0, rev[m] + 1)
  /\ UNCHANGED <<gone, duplicates>>

Delete(m) ==
  /\ Exists(m)
  /\ gone' = gone \cup {m}
  /\ Deliver("deleted", m, FALSE, rev[m])
  /\ UNCHANGED <<rev, thread, duplicates>>

\* The dedupe lets a repeated message event through (see EventDedupe).
Redeliver(m) ==
  /\ rev[m] > 0 /\ duplicates < MaxDuplicates
  /\ duplicates' = duplicates + 1
  /\ Deliver("message", m, FALSE, 1)
  /\ UNCHANGED <<rev, thread, gone>>

-----------------------------------------------------------------------------
(* Steps of a task.                                                        *)

Goto(t, pc) == task' = [task EXCEPT ![t].pc = pc]
Finish(t)   == task' = [task EXCEPT ![t] = Idle]

\* Where an ingest returns to: a re-upload goes on to compare stamps.
Return(t) ==
  IF task[t].kind \in {"message", "reply"} THEN Finish(t) ELSE Goto(t, "reread")

\* An exception reached retry_with_backoff: again from the top, or give up.
Retried(t) ==
  task' = [task EXCEPT ![t] =
             IF @.attempt < MaxAttempts
             THEN [Event(@.kind, @.msg, @.inThread, @.rev, @.worker)
                     EXCEPT !.attempt = task[t].attempt + 1]
             ELSE Idle]

\* Dropped as noise, or by the routing, channel-selection and bot gates.
Ignore(t) ==
  /\ task[t].pc = "start"
  /\ ~Passes(task[t])
  /\ Finish(t)
  /\ UNCHANGED <<slack, inFlight, entries, store, crashes>>

\* An edit, or the delete of a reply: remember the entry of the old upload.
ReadOld(t) ==
  /\ task[t].pc = "start"
  /\ Passes(task[t])
  /\ task[t].kind = "changed" \/ (task[t].kind = "deleted" /\ task[t].inThread)
  /\ task' = [task EXCEPT
                ![t].pc = "ingest",
                ![t].oldSource = SourceOf(entries, KeyOf(task[t])),
                ![t].oldStamp = StampOf(entries, KeyOf(task[t]))]
  /\ UNCHANGED <<slack, inFlight, entries, store, crashes>>

AtIngest(t) ==
  \/ task[t].pc = "ingest"
  \/ task[t].pc = "start" /\ Passes(task[t]) /\ task[t].kind \in {"message", "reply"}

\* Mutants of Skips: no look at _in_flight; an edit does not force.
SkipsTracked(e)  == e.kind = "message" /\ Has(entries, KeyOf(e))
SkipsUnforced(e) == Has(entries, KeyOf(e)) \/ KeyOf(e) \in inFlight[e.worker]

\* _ingest_standalone: skip a tracked document (unless an edit forces the
\* re-upload) and one that another task is uploading; else take the key.
Skips(e) ==
  (e.kind = "message" /\ Has(entries, KeyOf(e))) \/ KeyOf(e) \in inFlight[e.worker]

Claim(t) ==
  LET k == KeyOf(task[t])  w == task[t].worker IN
  /\ AtIngest(t)
  /\ k = MsgKey(task[t].msg)
  /\ IF Skips(task[t])
     THEN Return(t) /\ UNCHANGED inFlight
     ELSE Goto(t, "upload") /\ inFlight' = [inFlight EXCEPT ![w] = @ \cup {k}]
  /\ UNCHANGED <<slack, entries, store, crashes>>

\* Mutant of FetchThread: a thread already tracked is not fetched again.
FetchNewThread(t) ==
  /\ AtIngest(t)
  /\ KeyOf(task[t]) = ThreadKey(task[t].msg)
  /\ IF Has(entries, ThreadKey(task[t].msg)) THEN Return(t)
     ELSE task' = [task EXCEPT ![t].pc = "upload", ![t].rev = thread[task[t].msg]]
  /\ UNCHANGED <<slack, inFlight, entries, store, crashes>>

\* _ingest_thread: fetch the whole thread, on a failing page only a part of
\* it (revision 0) or nothing; a deleted parent may be missing or noise.
FetchThread(t) ==
  /\ AtIngest(t)
  /\ KeyOf(task[t]) = ThreadKey(task[t].msg)
  /\ \/ task' = [task EXCEPT ![t].pc = "upload", ![t].rev = thread[task[t].msg]]
     \/ "fetch" \in Faults /\ task' = [task EXCEPT ![t].pc = "upload", ![t].rev = 0]
     \/ ("fetch" \in Faults \/ task[t].msg \in gone) /\ Return(t)
  /\ UNCHANGED <<slack, inFlight, entries, store, crashes>>

\* upload_knowledge for one file: stored under a new id, and answered.
Uploaded(t, source) ==
  /\ docs' = docs \cup {[id |-> nextId, key |-> KeyOf(task[t]), rev |-> task[t].rev]}
  /\ nextId' = nextId + 1
  /\ task' = [task EXCEPT ![t].pc = "record", ![t].upload = nextId, ![t].source = source]

\* Mutant of UploadFailed: it returns before the try block with the finally.
UploadLeaks(t) == Return(t)

\* A failed upload ends the ingest; a held key is released first.
UploadFailed(t) ==
  IF Holds(task[t]) THEN Goto(t, "release") ELSE Return(t)

\* The answer to an upload is lost.
StoreOrphan(t) ==
  /\ docs' = docs \cup {Orphan(KeyOf(task[t]))}
  /\ UNCHANGED nextId

Upload(t) ==
  /\ task[t].pc = "upload"
  /\ \/ Uploaded(t, nextId)
     \/ "noIds" \in Faults /\ Uploaded(t, NoSource)
     \/ "upload" \in Faults /\ UploadFailed(t) /\ UNCHANGED store
     \/ "lostAnswer" \in Faults /\ StoreOrphan(t) /\ UploadFailed(t)
  /\ UNCHANGED <<slack, inFlight, entries, crashes>>

\* _post_upload: a POST is stored and times out, and is sent again.
Repost(t) ==
  /\ "lostAnswer" \in Faults
  /\ task[t].pc = "upload"
  /\ StoreOrphan(t)
  /\ UNCHANGED <<slack, task, inFlight, entries, crashes>>

\* Mutant of Record: a thread is recorded under its parent message's key.
RecordAsMessage(t) ==
  /\ task[t].pc = "record"
  /\ entries' = MarkUploaded(entries, MsgKey(task[t].msg), task[t].source, task[t].upload)
  /\ IF Holds(task[t]) THEN Goto(t, "release") ELSE Return(t)
  /\ UNCHANGED <<slack, inFlight, store, crashes>>

\* _record_successful_uploads under both locks.
Record(t) ==
  /\ task[t].pc = "record"
  /\ entries' = MarkUploaded(entries, KeyOf(task[t]), task[t].source, task[t].upload)
  /\ IF Holds(task[t]) THEN Goto(t, "release") ELSE Return(t)
  /\ UNCHANGED <<slack, inFlight, store, crashes>>

\* Mutant of Release: the key is not discarded in a finally block.
ReleaseOnSuccess(t) ==
  LET w == task[t].worker IN
  /\ task[t].pc = "release"
  /\ inFlight' = IF task[t].raised THEN inFlight
                 ELSE [inFlight EXCEPT ![w] = @ \ {KeyOf(task[t])}]
  /\ IF task[t].raised THEN Retried(t) ELSE Return(t)
  /\ UNCHANGED <<slack, entries, store, crashes>>

\* The finally block of _ingest_standalone.
Release(t) ==
  LET w == task[t].worker IN
  /\ task[t].pc = "release"
  /\ inFlight' = [inFlight EXCEPT ![w] = @ \ {KeyOf(task[t])}]
  /\ IF task[t].raised THEN Retried(t) ELSE Return(t)
  /\ UNCHANGED <<slack, entries, store, crashes>>

\* Mutant of Superseded: the stamps are not compared.
HadSource(e) == e.oldSource # NoSource

\* Drop the old document only if the entry was rewritten meanwhile.
Superseded(e) == StampOf(entries, KeyOf(e)) # e.oldStamp /\ e.oldSource # NoSource

Reread(t) ==
  /\ task[t].pc = "reread"
  /\ IF Superseded(task[t])
     THEN Goto(t, "drop")
     ELSE Finish(t)
  /\ UNCHANGED <<slack, inFlight, entries, store, crashes>>

\* Mutant of DeleteDoc: deletes whatever the key has.
DeleteKey(t) == docs' = {d \in docs : d.key # KeyOf(task[t])}

\* delete_knowledge; it never raises.
DeleteDoc(t) ==
  docs' \in {{d \in docs : d.id # task[t].oldSource}} \cup
            (IF "delete" \in Faults THEN {docs} ELSE {})

DropOld(t) ==
  /\ task[t].pc = "drop"
  /\ DeleteDoc(t)
  /\ Finish(t)
  /\ UNCHANGED <<slack, inFlight, entries, nextId, crashes>>

\* A deleted message (or parent): look up its source id, delete, forget.
LookUp(t) ==
  LET source == SourceOf(entries, MsgKey(task[t].msg)) IN
  /\ task[t].pc = "start"
  /\ Passes(task[t])
  /\ task[t].kind = "deleted" /\ ~task[t].inThread
  /\ task' = [task EXCEPT ![t].pc = IF source = NoSource THEN "remove" ELSE "purge",
                          ![t].oldSource = source]
  /\ UNCHANGED <<slack, inFlight, entries, store, crashes>>

Purge(t) ==
  /\ task[t].pc = "purge"
  /\ DeleteDoc(t)
  /\ Goto(t, "remove")
  /\ UNCHANGED <<slack, inFlight, entries, nextId, crashes>>

\* Mutant of Remove: forgets the thread, not the message.
RemoveThread(t) ==
  /\ task[t].pc = "remove"
  /\ entries' = RemoveEntry(entries, ThreadKey(task[t].msg))
  /\ Finish(t)
  /\ UNCHANGED <<slack, inFlight, store, crashes>>

Remove(t) ==
  /\ task[t].pc = "remove"
  /\ entries' = RemoveEntry(entries, MsgKey(task[t].msg))
  /\ Finish(t)
  /\ UNCHANGED <<slack, inFlight, store, crashes>>

\* An exception while routing, fetching or building the document, or while
\* saving the state (nothing is renamed then, see StateFile).
Raise(t) ==
  /\ \/ "raise" \in Faults /\ task[t].pc \in {"start", "ingest", "upload"}
     \/ "save" \in Faults /\ task[t].pc \in {"record", "remove"}
  /\ IF Holds(task[t])
     THEN task' = [task EXCEPT ![t].pc = "release", ![t].raised = TRUE]
     ELSE Retried(t)
  /\ UNCHANGED <<slack, inFlight, entries, store, crashes>>

\* A worker process dies: its tasks and its _in_flight are gone.
Crash(w) ==
  /\ crashes < MaxCrashes
  /\ crashes' = crashes + 1
  /\ task' = [t \in Tasks |->
                IF task[t] # Idle /\ task[t].worker = w THEN Idle ELSE task[t]]
  /\ inFlight' = [inFlight EXCEPT ![w] = {}]
  /\ UNCHANGED <<slack, entries, store>>

TaskStep(t) ==
  \/ Ignore(t) \/ ReadOld(t) \/ Claim(t) \/ FetchThread(t) \/ Upload(t)
  \/ Repost(t) \/ Record(t) \/ Release(t) \/ Reread(t) \/ DropOld(t)
  \/ LookUp(t) \/ Purge(t) \/ Remove(t) \/ Raise(t)

UserStep(m) ==
  \/ Post(m) \/ Edit(m) \/ Delete(m) \/ Redeliver(m)
  \/ \E kind \in Kinds \ {"message"} : Discuss(m, kind)

Next ==
  \/ \E m \in Messages : UserStep(m)
  \/ \E t \in Tasks : TaskStep(t)
  \/ \E w \in Workers : Crash(w)

Spec == Init /\ [][Next]_vars

\* A started background task runs to its end.
Fairness == \A t \in Tasks : WF_vars(TaskStep(t))
LiveSpec == Spec /\ Fairness

-----------------------------------------------------------------------------
(* Properties that hold for any interleaving.                              *)

(* A key is in a worker's _in_flight exactly while one of its tasks is     *)
(* between taking and releasing it, whatever fails in between: no task is  *)
(* shut out by a key nobody holds, and no two tasks upload one message.    *)
InFlightOwned ==
  \A w \in Workers, k \in Keys :
    LET holders == {t \in Tasks : /\ task[t] # Idle /\ Holds(task[t])
                                  /\ task[t].worker = w /\ KeyOf(task[t]) = k}
    IN  IF k \in inFlight[w] THEN \E t \in holders : holders = {t} ELSE holders = {}

(* While a message is not deleted in Slack, the upload its entry names is  *)
(* a live document of that key: the delete-after-re-upload of two edits    *)
(* never removes the document the state file points to.                    *)
TrackedIsLive ==
  \A k \in Keys :
    Has(entries, k) /\ k[2] \notin gone =>
      \E d \in docs : d.id = entries[k].uploaded_at /\ d.key = k

(* _handle_message_changed: a re-upload "cannot leave a data hole".  A     *)
(* message or thread that could be found stays findable until the message  *)
(* is deleted in Slack.                                                    *)
NoDataHole ==
  [][\A k \in Keys : DocsOf(k) # {} /\ k[2] \notin gone => DocsOf(k)' # {}]_vars

(* In one process that loses no answer, every document of a single message *)
(* is known to someone: the state file names it, the task that uploaded it *)
(* is about to record it, or a task that replaced it is about to delete it.*)
(* Duplicate deliveries leave no stray copy behind that search would find  *)
(* beside the tracked one (an edit that overlaps the first upload can).    *)
NoStrayCopies ==
  \A d \in docs :
    d.key[1] = "slack" /\ d.key[2] \notin gone =>
      \/ SourceOf(entries, d.key) = d.id
      \/ \E t \in Tasks :
           /\ task[t] # Idle /\ KeyOf(task[t]) = d.key
           /\ \/ task[t].pc = "record" /\ task[t].upload = d.id
              \/ /\ task[t].pc \in {"ingest", "upload", "record", "release", "reread", "drop"}
                 /\ task[t].oldSource = d.id

(* Without faults a posted message is tracked sooner or later, and so is a *)
(* thread: an event is skipped only in favour of another upload.           *)
EventuallyTracked ==
  \A m \in Admitted :
    /\ rev[m] > 0 ~> (Has(entries, MsgKey(m)) \/ m \in gone)
    /\ thread[m] > 0 ~> (Has(entries, ThreadKey(m)) \/ m \in gone)

(* No key stays in _in_flight forever: a key that leaked would shut out    *)
(* every later edit of that message.                                       *)
InFlightDrains == \A w \in Workers, k \in Keys : []<>(k \notin inFlight[w])

-----------------------------------------------------------------------------
(* What comments promise once all events have been processed.  It fails    *)
(* when the events of a message overlap, and, where an edit carries no     *)
(* top-level text, of one event after the other.                           *)

AtRest == \A t \in Tasks : task[t] = Idle

Stored(k) == /\ Has(entries, k)
             /\ \E d \in docs : d.id = entries[k].uploaded_at /\ d.rev = Current(k)

(* "Edit/delete events carry no top-level text; exempt them before the     *)
(* empty-text guard so they reach the handlers below": the stored document *)
(* of a message without replies has the text Slack shows.                  *)
EditsStored ==
  AtRest => \A m \in Admitted :
    Exists(m) /\ thread[m] = 0 /\ Has(entries, MsgKey(m)) => Stored(MsgKey(m))

(* "the stored markdown always represents the current thread state"        *)
ThreadIsCurrent ==
  AtRest => \A m \in Admitted :
    Exists(m) /\ Has(entries, ThreadKey(m)) => Stored(ThreadKey(m))

(* "Standalone message ...: delete from HydraDB and remove from state."    *)
DeletedMessageRemoved ==
  AtRest => \A m \in gone :
    DocsOf(MsgKey(m)) = {} /\ ~Has(entries, MsgKey(m))

(* "... or thread parent: remove the whole doc."                           *)
DeletedParentRemoved ==
  AtRest => \A m \in gone :
    DocsOf(ThreadKey(m)) = {} /\ ~Has(entries, ThreadKey(m))
=============================================================================
