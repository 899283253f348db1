----------------------------- MODULE GmailSync ------------------------------
(***************************************************************************)
(* Ingestion of one Gmail connection (gmail_oauth.run_workspace_gmail_ingest *)
(* with the gmail_ingestion_state rows of supabase_client.py).             *)
(*                                                                         *)
(* A run goes through the selected labels.  A label with a watermark is    *)
(* read from Gmail's history, which the mailbox forgets after a while;     *)
(* otherwise its newest mails are listed and the mailbox's history id is   *)
(* asked for afterwards.  The mails are fetched and uploaded in one batch, *)
(* and the history id becomes the label's watermark.  The scheduler and    *)
(* /api/gmail/ingest start runs independently, both with sync_mode "auto". *)
(*                                                                         *)
(* History ids are naturals from 1; 0 is none.  A document is a copy of a  *)
(* mail; nothing deletes documents here.  Memory extraction, statistics    *)
(* and the access token (GmailConnection) are left out.                    *)
(***************************************************************************)
EXTENDS Naturals, FiniteSets

CONSTANTS Mails,                              \* messages that may arrive
          Labels,                             \* the selected labels
          Blocked,                            \* SPAM and TRASH, unless allowed
          Unindexable,                        \* mails with neither body nor snippet
          Runs,                               \* executions that may overlap
          Cap,                                \* GMAIL_MAX_MESSAGES_PER_RUN
          PageCap,                            \* most mails taken from one label (100)
          Faults,                             \* what may fail: "list", "fetch", "raise", "lost",
                                              \*   "soft", "state", "map", "profile"
          ManualRuns,                         \* does anybody call /api/gmail/ingest?
          MaxRelabels,                        \* bound: labels put on old mails
          MaxFaults, MaxExpiries, MaxCrashes  \* bounds

ASSUME GmailAssumption ==
  /\ IsFiniteSet(Mails) /\ IsFiniteSet(Labels)
  /\ Blocked \subseteq Labels /\ Unindexable \subseteq Mails
  /\ Cap \in Nat \ {0} /\ PageCap \in Nat \ {0}
  /\ {MaxRelabels, MaxFaults, MaxExpiries, MaxCrashes} \subseteq Nat
  /\ ManualRuns \in BOOLEAN

VARIABLES clock,   \* the mailbox's history id
          added,   \* mail -> history id of its arrival
          tagged,  \* mail -> label -> history id since when it has it
          oldest,  \* history before this id is gone
          marks,   \* gmail_ingestion_state: label -> last_history_id
          docs,    \* mail -> copies in HydraDB
          run,     \* run -> its local variables
          missed,  \* mails a run only counted as failed (history)
          passed,  \* mails below a watermark that no answer contained when the run
                   \* that wrote it asked (history)
          faults, expiries, crashes

mailbox == <<clock, added, tagged, oldest>>
gmailVars == <<mailbox, marks, docs, run, missed, passed, faults, expiries, crashes>>

Marks == [Labels -> Nat]
NoMarks == [l \in Labels |-> 0]
NoLabel == "none"
RunPcs == {"idle", "label", "history", "list", "profile", "fetch", "upload", "state"}
NotRunning == [pc |-> "idle", manual |-> FALSE, todo |-> {}, left |-> 0, seen |-> {},
         marks |-> NoMarks, label |-> NoLabel, ids |-> {}, newId |-> 0,
         unread |-> {}, ready |-> {}, asked |-> {}]
RunStates == [pc : RunPcs, manual : BOOLEAN, todo : SUBSET Labels, left : Nat,
              seen : SUBSET Mails, marks : Marks, label : Labels \cup {NoLabel},
              ids : SUBSET Mails, newId : Nat, unread : SUBSET Mails,
              ready : SUBSET Mails, asked : SUBSET Mails]

GmailTypeOK ==
  /\ clock \in Nat /\ oldest \in Nat
  /\ added \in [Mails -> Nat] /\ tagged \in [Mails -> [Labels -> Nat]]
  /\ marks \in Marks /\ docs \in [Mails -> Nat]
  /\ run \in [Runs -> RunStates] /\ missed \subseteq Mails /\ passed \subseteq Mails
  /\ {faults, expiries, crashes} \subseteq Nat

GmailInit ==
  /\ clock = 1 /\ oldest = 1
  /\ added = [m \in Mails |-> 0] /\ tagged = [m \in Mails |-> [l \in Labels |-> 0]]
  /\ marks = NoMarks /\ docs = [m \in Mails |-> 0]
  /\ run = [r \in Runs |-> NotRunning] /\ missed = {} /\ passed = {}
  /\ faults = 0 /\ expiries = 0 /\ crashes = 0

-----------------------------------------------------------------------------
(* The mailbox.                                                            *)

Arrive(m) ==
  /\ added[m] = 0
  /\ clock' = clock + 1
  /\ added' = [added EXCEPT ![m] = clock + 1]
  /\ \E ls \in SUBSET Labels :
       tagged' = [tagged EXCEPT ![m] = [l \in Labels |-> IF l \in ls THEN clock + 1 ELSE 0]]
  /\ UNCHANGED <<oldest, marks, docs, run, missed, passed, faults, expiries, crashes>>

\* Has mail m got label l after it arrived?
Later(m, l) == tagged[m][l] > added[m]

Relabel(m, l) ==
  /\ Cardinality({p \in Mails \X Labels : Later(p[1], p[2])}) < MaxRelabels
  /\ added[m] # 0 /\ tagged[m][l] = 0
  /\ clock' = clock + 1
  /\ tagged' = [tagged EXCEPT ![m][l] = clock + 1]
  /\ UNCHANGED <<added, oldest, marks, docs, run, missed, passed, faults, expiries, crashes>>

\* Google drops history records after about a week.
Expire ==
  /\ expiries < MaxExpiries /\ oldest < clock
  /\ oldest' = clock /\ expiries' = expiries + 1
  /\ UNCHANGED <<clock, added, tagged, marks, docs, run, missed, passed, faults, crashes>>

-----------------------------------------------------------------------------
Fails(f) == f \in Faults /\ faults < MaxFaults /\ faults' = faults + 1
NoFault == UNCHANGED faults
Steps(r, from, after) ==
  /\ run[r].pc = from
  /\ run' = [run EXCEPT ![r] = after]
  /\ UNCHANGED <<mailbox, expiries, crashes>>

\* `continue`: the variables of this label are of no further use.
NextLabel(r) == [run[r] EXCEPT !.pc = "label", !.label = NoLabel, !.ids = {}, !.newId = 0,
                               !.unread = {}, !.ready = {}]

Under(l) == {m \in Mails : tagged[m][l] # 0}

Limit(r) == IF run[r].left < PageCap THEN run[r].left ELSE PageCap
\* The n mails of S that arrived last (messages.list) or first (history.list).
Newest(S, n) == {m \in S : Cardinality({k \in S : added[k] > added[m]}) < n}
Oldest(S, n) == {m \in S : Cardinality({k \in S : added[k] < added[m]}) < n}

\* get_gmail_ingestion_state_map; a failed read counts as no watermarks.
ReadMarks(snapshot) ==
  \/ NoFault /\ snapshot = marks
  \/ Fails("map") /\ snapshot = NoMarks

(* A run begins: watermarks are read once.                                 *)
Start(r, manual) ==
  /\ manual => ManualRuns
  /\ \E snapshot \in {marks, NoMarks} :
       /\ ReadMarks(snapshot)
       /\ Steps(r, "idle",
            [run[r] EXCEPT !.pc = "label", !.manual = manual, !.todo = Labels, !.left = Cap,
                           !.marks = snapshot,
                           !.asked = UNION {Newest(Under(l), PageCap) :
                                              l \in {k \in Labels \ Blocked : manual}}])
  /\ UNCHANGED <<marks, docs, missed, passed>>

\* No budget left, or spam: the label is passed over.
SkipLabel(r, l) ==
  /\ l \in run[r].todo
  /\ run[r].left = 0 \/ l \in Blocked
  /\ Steps(r, "label", [run[r] EXCEPT !.todo = @ \ {l}])
  /\ NoFault /\ UNCHANGED <<marks, docs, missed, passed>>

TakeLabel(r, l) ==
  /\ l \in run[r].todo /\ run[r].left > 0 /\ l \notin Blocked
  /\ Steps(r, "label", [run[r] EXCEPT !.pc = IF run[r].marks[l] # 0 THEN "history" ELSE "list",
                                      !.todo = @ \ {l}, !.label = l])
  /\ NoFault /\ UNCHANGED <<marks, docs, missed, passed>>

\* Mutants of ReadHistory: it starts one record late; it starts at the oldest
\* record there is.
ReadAfterNext(r) ==
  LET w == run[r].marks[run[r].label]
      new == {m \in Under(run[r].label) : added[m] > w + 1}
      ids == Oldest(new, Limit(r)) IN
  /\ run[r].pc = "history" /\ w >= oldest
  /\ Steps(r, "history", [run[r] EXCEPT !.pc = "fetch", !.ids = ids, !.newId = clock,
                                        !.unread = new \ ids])
  /\ NoFault /\ UNCHANGED <<marks, docs, missed, passed>>

ReadAllHistory(r) ==
  /\ run[r].pc = "history" /\ run[r].marks[run[r].label] >= oldest
  /\ Steps(r, "history", [run[r] EXCEPT !.pc = "fetch", !.newId = clock,
                                        !.ids = Oldest(Under(run[r].label), Limit(r))])
  /\ NoFault /\ UNCHANGED <<marks, docs, missed, passed>>

\* history.list, messageAdded only: what arrived after the watermark, oldest
\* first, up to the limit; the new id is the mailbox's current one.
ReadHistory(r) ==
  LET w == run[r].marks[run[r].label]
      new == {m \in Under(run[r].label) : added[m] > w}
      ids == Oldest(new, Limit(r)) IN
  /\ run[r].pc = "history" /\ w >= oldest
  /\ Steps(r, "history", [run[r] EXCEPT !.pc = "fetch", !.ids = ids, !.newId = clock,
                                        !.unread = new \ ids])
  /\ NoFault /\ UNCHANGED <<marks, docs, missed, passed>>

\* Mutant of HistoryInvalidated: the label is given up instead.
InvalidatedGivesUp(r) ==
  /\ run[r].pc = "history" /\ run[r].marks[run[r].label] < oldest
  /\ Steps(r, "history", NextLabel(r))
  /\ NoFault /\ UNCHANGED <<marks, docs, missed, passed>>

\* 404: the watermark is too old; fall back to the listing.
HistoryInvalidated(r) ==
  /\ run[r].pc = "history" /\ run[r].marks[run[r].label] < oldest
  /\ Steps(r, "history", [run[r] EXCEPT !.pc = "list"])
  /\ NoFault /\ UNCHANGED <<marks, docs, missed, passed>>

\* messages.list: the newest mails.
ListMessages(r) ==
  /\ Steps(r, "list", [run[r] EXCEPT !.pc = "profile", !.newId = 0,
                                     !.ids = Newest(Under(run[r].label), Limit(r))])
  /\ NoFault /\ UNCHANGED <<marks, docs, missed, passed>>

\* Either call keeps failing: the label is given up.
ReadFails(r) ==
  /\ \E pc \in {"history", "list"} : Steps(r, pc, NextLabel(r))
  /\ Fails("list") /\ UNCHANGED <<marks, docs, missed, passed>>

\* Seed the watermark, best effort.
GetProfile(r) ==
  /\ \/ NoFault /\ Steps(r, "profile", [run[r] EXCEPT !.pc = "fetch", !.newId = clock,
                                            !.unread = Under(run[r].label) \ run[r].ids])
     \/ Fails("profile") /\ Steps(r, "profile", [run[r] EXCEPT !.pc = "fetch"])
  /\ UNCHANGED <<marks, docs, missed, passed>>

\* build_email_document: a mail without text makes no document.
Documents(S) == S \ Unindexable

\* fetch_message: what the mails of S that are not found come to is None.
FetchMessages(S, found) ==
  \/ NoFault /\ found = S
  \/ Fails("fetch") /\ \E m \in S : found = S \ {m}

\* Mails the run has not seen are fetched; a failed fetch is only counted.
Fetch(r) ==
  LET new == run[r].ids \ run[r].seen IN
  /\ \E found \in SUBSET new :
       /\ FetchMessages(new, found)
       /\ missed' = missed \cup (new \ found)
       /\ Steps(r, "fetch", [run[r] EXCEPT !.pc = "upload", !.seen = @ \cup new,
                                           !.ready = Documents(found),
                                           !.left = @ - Cardinality(Documents(found))])
  /\ UNCHANGED <<marks, docs, passed>>

Store(S) == docs' = [m \in Mails |-> IF m \in S THEN docs[m] + 1 ELSE docs[m]]

\* One batch.  "soft": the answer reports failures, which are only counted.
Upload(r) ==
  /\ run[r].pc = "upload"
  /\ \/ NoFault /\ Store(run[r].ready) /\ UNCHANGED missed
     \/ Fails("soft") /\ \E S \in SUBSET run[r].ready :
          Store(S) /\ missed' = missed \cup (run[r].ready \ S)
  /\ Steps(r, "upload", [run[r] EXCEPT !.pc = "state", !.ready = {}])
  /\ UNCHANGED <<marks, passed>>

\* The upload raises ("lost": after HydraDB stored some): no state is written.
UploadRaises(r) ==
  /\ run[r].pc = "upload" /\ run[r].ready # {}
  /\ \/ Fails("raise") /\ Store({})
     \/ Fails("lost") /\ \E S \in SUBSET run[r].ready : Store(S)
  /\ Steps(r, "upload", NextLabel(r))
  /\ UNCHANGED <<marks, missed, passed>>

\* upsert_gmail_ingestion_state: without a new id the old one stays.
UpsertMark(l, id) == marks' = [marks EXCEPT ![l] = IF id = 0 THEN @ ELSE id]

WriteState(r) ==
  /\ run[r].pc = "state"
  /\ \/ NoFault /\ UpsertMark(run[r].label, run[r].newId) /\ passed' = passed \cup run[r].unread
     \/ Fails("state") /\ UNCHANGED <<marks, passed>>
  /\ Steps(r, "state", NextLabel(r))
  /\ UNCHANGED <<docs, missed>>

Finish(r) ==
  /\ run[r].pc = "label" /\ run[r].todo = {}
  /\ run' = [run EXCEPT ![r] = NotRunning]
  /\ UNCHANGED <<mailbox, marks, docs, missed, passed, faults, expiries, crashes>>

RunDies(r) ==
  /\ crashes < MaxCrashes /\ run[r].pc # "idle"
  /\ crashes' = crashes + 1
  /\ run' = [run EXCEPT ![r] = NotRunning]
  /\ UNCHANGED <<mailbox, marks, docs, missed, passed, faults, expiries>>

RunStep(r) ==
  \/ \E l \in Labels : SkipLabel(r, l) \/ TakeLabel(r, l)
  \/ ReadHistory(r) \/ HistoryInvalidated(r) \/ ListMessages(r) \/ ReadFails(r)
  \/ GetProfile(r) \/ Fetch(r) \/ Upload(r) \/ UploadRaises(r) \/ WriteState(r)
  \/ Finish(r)

GmailNext ==
  \/ \E m \in Mails : Arrive(m) \/ \E l \in Labels : Relabel(m, l)
  \/ Expire
  \/ \E r \in Runs : RunStep(r) \/ RunDies(r) \/ \E manual \in BOOLEAN : Start(r, manual)

GmailSpec == GmailInit /\ [][GmailNext]_gmailVars

\* APScheduler starts a sweep at every interval, and calls have timeouts.
GmailLiveSpec ==
  /\ GmailSpec
  /\ \A r \in Runs : WF_gmailVars(RunStep(r)) /\ WF_gmailVars(Start(r, FALSE))

-----------------------------------------------------------------------------
(* Properties.                                                             *)

\* The selected labels a mail has had since it arrived.
Came(m) == {l \in Labels \ Blocked : tagged[m][l] # 0 /\ ~Later(m, l)}

Wanted(m) == m \notin Unindexable /\ Came(m) # {}

(* A mail with one selected label that is not in HydraDB was only counted  *)
(* as failed, or was in no answer of the run that wrote the watermark (it  *)
(* arrived between the listing and the profile, or the answer was cut), or *)
(* the label's watermark has not passed it yet, so that a later run will   *)
(* take it: what a run was told of is not lost when runs overlap or die,   *)
(* or when listings, uploads or state writes fail.  A mail with two labels *)
(* has no such promise: the run that fails to upload it for one of them    *)
(* has seen it when it comes to the other.                                 *)
WatermarkCovers ==
  \A m \in Mails, l \in Labels \ Blocked :
    /\ Came(m) = {l} /\ \A k \in Labels \ Blocked : tagged[m][k] # 0 => k = l
    /\ m \notin Unindexable /\ docs[m] = 0 /\ m \notin missed \cup passed
    => marks[l] < added[m]

(* Not checked by a run, for the code breaks it: the same of every mail    *)
(* that has a selected label by now, failed, told of or not.               *)
EveryMailCovered ==
  \A m \in Mails \ Unindexable : added[m] # 0 /\ docs[m] = 0 =>
    \A l \in Labels \ Blocked : tagged[m][l] # 0 =>
      \E k \in Labels \ Blocked : tagged[m][k] # 0 /\ marks[k] < tagged[m][k]

(* As long as nothing fails or expires (watermarks can be kept), no run    *)
(* ingests a mail again except under another label: "avoids re-ingesting   *)
(* the whole label" (phase8_gmail_connector.sql).                          *)
CopiesPerLabel ==
  faults = 0 /\ expiries = 0 /\ crashes = 0 =>
    \A m \in Mails : docs[m] <= Cardinality({l \in Labels : tagged[m][l] # 0})

(* The docstring of run_workspace_gmail_ingest on the manual route: "a     *)
(* user who clicked 'Run ingest' always gets the most-recent N messages".  *)
ManualRunStoresRecent ==
  \A r \in Runs : run[r].manual /\ run[r].pc = "label" /\ run[r].todo = {} =>
    \A m \in run[r].asked \ Unindexable : docs[m] > 0

(* Every mail that arrives under a selected label is ingested in the end,  *)
(* whatever failed before, unless it was only counted as failed or a       *)
(* watermark passed it unread.                                             *)
EventuallyStored ==
  \A m \in Mails : Wanted(m) ~> (docs[m] > 0 \/ m \in missed \cup passed)
=============================================================================
