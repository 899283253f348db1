----------------------------- MODULE MemoryStore -----------------------------
(***************************************************************************)
(* Structured memory: what is extracted from ingested text                 *)
(* (memory_extraction.py) and kept in extracted_memories (memory_store.py). *)
(*                                                                         *)
(* Every ingestion path uploads a document and then extracts from the text *)
(* it has built, best effort: the realtime path if HydraDB took the        *)
(* document, the batch paths (Slack sweep, Gmail) unless the upload        *)
(* raised.  All facts of a text go to Supabase in one upsert.  Users edit  *)
(* and delete meanwhile.                                                   *)
(*                                                                         *)
(* A text is the set of phrases the extractors' patterns match in it, in   *)
(* its header and in its body; a phrase has its pattern, its canonical     *)
(* form (whose hash is the row's) and what kind of word it is.  Owners,    *)
(* timestamps and metadata of rows are left out.                           *)
(***************************************************************************)
EXTENDS Naturals, FiniteSets

CONSTANTS Sources,  \* messages, threads and mails: stable keys
          Texts,    \* what they may say
          Workers,  \* ingestions that run at the same time
          Paths,    \* "realtime", "batch"
          Failures  \* may HydraDB or Supabase fail, may a worker die?

ASSUME MemoryAssumption == Paths \subseteq {"realtime", "batch"} /\ Failures \in BOOLEAN

VARIABLES texts,     \* source -> the text it shows
          rows,      \* extracted_memories
          task,      \* worker -> the ingestion it executes
          said,      \* source -> texts it has shown (history)
          uploaded,  \* documents HydraDB has taken (history)
          persisted  \* documents whose facts were sent, Supabase working (history)

memoryVars == <<texts, rows, task, said, uploaded, persisted>>

NoText == [name |-> "none", header |-> {}, body |-> {}, long |-> FALSE]
NoTask == [pc |-> "idle", path |-> "none", src |-> "none", text |-> NoText]
Docs == [src : Sources, text : Texts]

-----------------------------------------------------------------------------
(* memory_extraction.py                                                    *)

ActionPatterns == {"marker", "owner_verb", "request", "assignment"}
DecisionPatterns == {"agreed", "decision", "we_will", "approved", "moving_to"}

\* Words: "known" is a service hint, "path" has a slash, "noise" is on the
\* blocklist.
EntityType(p) ==
  CASE p.by = "mention" -> "person"
    [] p.by = "hash"    -> "channel"
    [] p.by = "code"    -> IF p.word = "path" THEN "repository"
                           ELSE IF p.word = "known" THEN "service" ELSE "system"
    [] p.by = "proper"  -> IF p.word = "known" THEN "service" ELSE "project"

Fact(p) ==
  CASE p.by \in ActionPatterns   -> [kind |-> "action_item", canon |-> p.canon, type |-> ""]
    [] p.by \in DecisionPatterns -> [kind |-> "decision", canon |-> p.canon, type |-> ""]
    [] OTHER -> [kind |-> "entity", canon |-> p.canon, type |-> EntityType(p)]

\* Mutant of Stripped: the header is read, too.
StrippedNot(t) == t.header \cup t.body

\* strip_markdown_header
Stripped(t) == t.body

\* extract_all: each extractor tells its facts apart (entities by their type,
\* too) and emits one once; a long text has a summary.
Facts(t) ==
  {Fact(p) : p \in {q \in Stripped(t) : ~(q.by = "proper" /\ q.word = "noise")}}
    \cup IF t.long THEN {[kind |-> "summary", canon |-> t.name, type |-> ""]} ELSE {}

-----------------------------------------------------------------------------
(* memory_store.py                                                         *)

Row(src, f) == [src |-> src, kind |-> f.kind, canon |-> f.canon, type |-> f.type]

RowsOf(src, t) == {Row(src, f) : f \in Facts(t)}

\* The unique key within a workspace, without the type.  Rows of one upsert
\* must differ in it; those of "@Rahul", a person and a project, do not.
Key(r) == <<r.kind, r.canon, r.src>>
Clash(new) == \E r, s \in new : r # s /\ Key(r) = Key(s)

\* Mutant of Upsert: the rows of the source are replaced.
UpsertReplaces(src, new) == rows' = {r \in rows : r.src # src} \cup new

Upsert(src, new) == rows' = {r \in rows : Key(r) \notin {Key(s) : s \in new}} \cup new

MemoryInit ==
  /\ texts = [s \in Sources |-> NoText] /\ rows = {}
  /\ task = [w \in Workers |-> NoTask]
  /\ said = [s \in Sources |-> {}] /\ uploaded = {} /\ persisted = {}

\* A message is posted or edited.
Say(s, t) ==
  /\ texts[s] # t
  /\ texts' = [texts EXCEPT ![s] = t]
  /\ said' = [said EXCEPT ![s] = @ \cup {t}]
  /\ UNCHANGED <<rows, task, uploaded, persisted>>

\* It is deleted: its document goes, nothing calls delete_memories_by_source.
Delete(s) ==
  /\ texts[s] # NoText
  /\ texts' = [texts EXCEPT ![s] = NoText]
  /\ UNCHANGED <<rows, task, said, uploaded, persisted>>

Begin(w, s, path) ==
  /\ task[w].pc = "idle" /\ texts[s] # NoText
  /\ task' = [task EXCEPT ![w] = [pc |-> "upload", path |-> path, src |-> s, text |-> texts[s]]]
  /\ UNCHANGED <<texts, rows, said, uploaded, persisted>>

Document(w) == [src |-> task[w].src, text |-> task[w].text]

Upload(w) ==
  /\ task[w].pc = "upload"
  /\ uploaded' = uploaded \cup {Document(w)}
  /\ task' = [task EXCEPT ![w].pc = "persist"]
  /\ UNCHANGED <<texts, rows, said, persisted>>

\* HydraDB reports the file failed: a batch goes on to extract from it.
Refused(w) ==
  /\ Failures /\ task[w].pc = "upload"
  /\ task' = [task EXCEPT ![w] = IF @.path = "batch" THEN [@ EXCEPT !.pc = "persist"] ELSE NoTask]
  /\ UNCHANGED <<texts, rows, said, uploaded, persisted>>

\* extract_and_persist, in one request; Postgres refuses it when rows clash.
Persist(w) ==
  LET new == RowsOf(task[w].src, task[w].text)
  IN /\ task[w].pc = "persist"
     /\ IF Clash(new) THEN UNCHANGED rows ELSE Upsert(task[w].src, new)
     /\ persisted' = persisted \cup {Document(w)}
     /\ task' = [task EXCEPT ![w] = NoTask]
     /\ UNCHANGED <<texts, said, uploaded>>

\* The upload raises, Supabase fails, or the process dies.
Fail(w) ==
  /\ Failures /\ task[w].pc # "idle"
  /\ task' = [task EXCEPT ![w] = NoTask]
  /\ UNCHANGED <<texts, rows, said, uploaded, persisted>>

MemoryNext ==
  \/ \E s \in Sources : Delete(s) \/ \E t \in Texts : Say(s, t)
  \/ \E w \in Workers :
       \/ \E s \in Sources, path \in Paths : Begin(w, s, path)
       \/ Upload(w) \/ Refused(w) \/ Persist(w) \/ Fail(w)

MemorySpec == MemoryInit /\ [][MemoryNext]_memoryVars

-----------------------------------------------------------------------------
(* Properties.                                                             *)

(* What is remembered was said in the source it cites, in its body: "A     *)
(* header line like 'From: Rahul Verma <rahul@acme>' must not produce an   *)
(* action item", nor anything else.  A text that was refused has left      *)
(* nothing, not a part of its facts.                                       *)
MemoriesWereSaid ==
  \A r \in rows : \E t \in said[r.src] :
    /\ ~Clash(RowsOf(r.src, t))
    /\ \/ r.kind = "summary" /\ r.canon = t.name
       \/ \E p \in t.body : p.canon = r.canon

RowFor(src, f) == \E r \in rows : r.src = src /\ r.kind = f.kind /\ r.canon = f.canon

(* Once the facts of a document were sent, and not refused for calling the *)
(* same words by two types, they stay, however late the ingestion of an    *)
(* older text of the same source finishes, and whatever of it is refused.  *)
Remembered ==
  \A d \in persisted :
    ~Clash(RowsOf(d.src, d.text)) => \A f \in Facts(d.text) : RowFor(d.src, f)

(* What is remembered is what was said, neither more nor less.             *)
MemoryIsFaithful == MemoriesWereSaid /\ Remembered

(* extract_all: "The persistence layer dedupes ... so it's safe to call any *)
(* number of extractors per source": what was sent is remembered.          *)
AnyExtractorsAreSafe == \A d \in persisted : \A f \in Facts(d.text) : RowFor(d.src, f)

(* run_workspace_ingest: "extract structured memory from every Slack doc   *)
(* we just uploaded", that is, from no other.                              *)
OnlyUploaded ==
  \A r \in rows : \E d \in uploaded : r.src = d.src /\ \E f \in Facts(d.text) : f.canon = r.canon

(* delete_memories_by_source: "re-extraction normally just upserts on top  *)
(* of existing rows, which is fine": once nothing is under way and what a  *)
(* source shows was re-extracted, its rows are what it says.               *)
ReextractionIsFine ==
  \A s \in Sources :
    (\A w \in Workers : task[w] = NoTask) /\ [src |-> s, text |-> texts[s]] \in persisted =>
      \A r \in rows : r.src = s => \E f \in Facts(texts[s]) : f.canon = r.canon
==============================================================================
