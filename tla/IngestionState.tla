--------------------------- MODULE IngestionState ---------------------------
(***************************************************************************)
(* The value kept in data/ingestion_state.json and the operations on it    *)
(* (backend/ingestion/ingestion_state.py, class IngestionState).           *)
(*                                                                         *)
(* The file has two parts, kept apart here because they are merged by      *)
(* different rules:                                                        *)
(*   entries  stable key -> record of the last upload of that document     *)
(*   marks    channel    -> last_synced_ts, the polling watermark          *)
(* An entry is reduced to what the program compares: source_id, the id     *)
(* HydraDB gave the document (NoSource when the response carried none),    *)
(* and uploaded_at, the stamp of the upload.  A Slack ts is a number: the  *)
(* strings have equal length, so their order is that of the numbers.  The  *)
(* display fields and the _meta stamp are left out.                        *)
(***************************************************************************)
EXTENDS Naturals

CONSTANTS Messages,  \* top-level Slack messages, by ts
          Channels,  \* Slack channel ids
          NoEntry,   \* "this key is not tracked"
          NoSource   \* source_id=None

ASSUME MessagesAssumption == Messages \subseteq Nat \ {0}
ASSUME NoEntryAssumption ==
         NoEntry \notin [source_id : Nat \cup {NoSource}, uploaded_at : Nat]
ASSUME NoSourceAssumption == NoSource \notin Nat

\* The document of a single message and that of its thread, if it has one.
MsgKey(m)    == <<"slack", m>>
ThreadKey(m) == <<"slack_thread", m>>
Keys         == {"slack", "slack_thread"} \X Messages

SourceIds == Nat \cup {NoSource}
Entry   == [source_id : SourceIds, uploaded_at : Nat]
Entries == [Keys -> Entry \cup {NoEntry}]
Marks   == [Channels -> Nat]

\* A missing last_synced_ts; every real ts is larger.
NoMark == 0

\* What _load yields when the file is missing or unreadable.
EmptyEntries == [k \in Keys |-> NoEntry]
EmptyMarks   == [c \in Channels |-> NoMark]

Has(entries, k) == entries[k] # NoEntry

\* (self.get(key) or {}).get("source_id") / .get("uploaded_at")
SourceOf(entries, k) == IF Has(entries, k) THEN entries[k].source_id ELSE NoSource
StampOf(entries, k)  == IF Has(entries, k) THEN entries[k].uploaded_at ELSE 0

MarkUploaded(entries, k, source, stamp) ==
  [entries EXCEPT ![k] = [source_id |-> source, uploaded_at |-> stamp]]

RemoveEntry(entries, k) == [entries EXCEPT ![k] = NoEntry]

\* The watermark never moves backward, and an empty ts is ignored.
SetLastSyncedTs(marks, c, ts) ==
  IF ts = NoMark \/ marks[c] >= ts THEN marks ELSE [marks EXCEPT ![c] = ts]

\* Mutants of the two merges: this instance's copy replaces the file.
MergeNothing(mem, disk) == mem
MergeOwnMarks(mem, disk) == [c \in Channels |-> IF mem[c] # NoMark THEN mem[c] ELSE disk[c]]

(***************************************************************************)
(* save_locked: the long-running instance's copy (mem) is merged onto the  *)
(* file as it is on disk now: its entries win, the newer watermark wins.   *)
(***************************************************************************)
MergeEntries(mem, disk) ==
  [k \in Keys |-> IF Has(mem, k) THEN mem[k] ELSE disk[k]]

MergeMarks(mem, disk) ==
  [c \in Channels |->
     IF mem[c] # NoMark /\ (disk[c] = NoMark \/ mem[c] > disk[c])
     THEN mem[c] ELSE disk[c]]
=============================================================================
