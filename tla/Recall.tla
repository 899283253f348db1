------------------------------- MODULE Recall -------------------------------
(***************************************************************************)
(* From a recall response to the sources under an answer (recall.py, the   *)
(* ranking of search_utils.py): each snippet is joined to the ingestion    *)
(* state, filtered, joined by structured memories, deduplicated, ranked    *)
(* and numbered for the LLM; the answer's sources are then cleaned for the *)
(* user and the citations that lost theirs are taken out.                  *)
(*                                                                         *)
(* A snippet says what the code can find out about it: the identifiers it  *)
(* carries, what its metadata or the header in its text tell (`head`), how *)
(* many query terms its text and its subject contain, and, for the         *)
(* properties only, which document it is from (`doc`).  Unknown and 0      *)
(* stand for a missing value.                                              *)
(***************************************************************************)
EXTENDS Integers, Sequences, FiniteSets, SequencesExt, FiniteSetsExt

CONSTANTS Responses,    \* what HydraDB may return: sequences of snippets
          MemoryLists,  \* what list_memories may return: sequences of memories
          Entries,      \* ingestion_state.json
          Asks,         \* requests: mode, filters, bias, recency intent, top_k
          KindOfKey(_)  \* "slack:..." or "gmail:..."

\* What a snippet, a memory and an entry say.
Header == [channel : STRING, sender : STRING, type : STRING, permalink : STRING, ts : Nat]
Chunk == [doc : STRING, id : STRING, key : STRING, file : STRING, head : Header,
          hits : Nat, subject : Nat, text : BOOLEAN]
Memory == [doc : STRING, key : STRING, hits : Nat, ts : Nat]
StateEntry == [id : STRING, key : STRING, file : STRING, channel : STRING, user : STRING,
               type : STRING, permalink : STRING, ts : Nat]

ASSUME RecallAssumption ==
  /\ \A r \in Responses : r \in Seq(Chunk)
  /\ \A m \in MemoryLists : m \in Seq(Memory)
  /\ Entries \subseteq StateEntry
  /\ \A a \in Asks : a.topK \in Nat

VARIABLES pc, ask, response, memories, context, shown, cited

recallVars == <<pc, ask, response, memories, context, shown, cited>>

\* A value that is missing.
Unknown == ""

W_KEYWORD_HIT == 100
W_SUBJECT_HIT == 80
W_CHANNEL_MATCH == 50

-----------------------------------------------------------------------------
(* Lists.  A comprehension and a sort are given by the positions that they *)
(* take from a list, in order.                                             *)

LexLess(a, b) ==
  \E i \in DOMAIN a : a[i] < b[i] /\ \A j \in 1..i-1 : a[j] = b[j]

\* list.sort(key=...) is stable.
Before(key, i, j) == LexLess(key[i], key[j]) \/ (key[i] = key[j] /\ i < j)

\* The positions in D by their keys: k - 1 of them come before the k-th.
Sorted(D, key) ==
  [k \in 1..Cardinality(D) |->
     CHOOSE i \in D : Cardinality({j \in D : Before(key, j, i)}) = k - 1]

SortedBy(s, key) == LET order == Sorted(DOMAIN s, key) IN [k \in DOMAIN s |-> s[order[k]]]

\* The elements of s at D, in their order in s.
At(s, D) ==
  LET order == Sorted(D, [n \in D |-> <<n>>]) IN [k \in 1..Cardinality(D) |-> s[order[k]]]

-----------------------------------------------------------------------------
(* Cards.                                                                  *)

\* _chunk_source: an identifier, or the snippet's place.
Source(c, n) == IF c.id # Unknown THEN c.id ELSE IF c.file # Unknown THEN c.file ELSE ToString(n)

\* The entry of the state a snippet belongs to: by source id, by stable key,
\* by file name.
Entry(c) ==
  LET ById  == {e \in Entries : c.id # Unknown /\ e.id = c.id}
      ByKey == {e \in Entries : c.key # Unknown /\ e.key = c.key}
      ByFile == {e \in Entries : c.file # Unknown /\ e.file = c.file}
  IN IF ById # {} THEN ById ELSE IF ByKey # {} THEN ByKey ELSE ByFile

\* _build_source_card: what the state knows (a Slack user), or what metadata
\* and header tell (the sender of a mail).
Card(c, n) ==
  IF Entry(c) # {}
  THEN LET e == CHOOSE x \in Entry(c) : TRUE
       IN [index |-> n, doc |-> c.doc, key |-> e.key,
           source |-> IF e.channel # Unknown THEN e.channel ELSE Source(c, n),
           channel |-> e.channel, user |-> e.user, sender |-> Unknown, type |-> e.type,
           ts |-> e.ts, permalink |-> e.permalink]
  ELSE [index |-> n, doc |-> c.doc, key |-> c.key, source |-> Source(c, n),
        channel |-> c.head.channel, user |-> Unknown, sender |-> c.head.sender,
        type |-> c.head.type, ts |-> c.head.ts, permalink |-> c.head.permalink]

\* A document has one key, whether the state, a snippet or a memory tells it.
ASSUME OneKey ==
  \A r \in Responses, list \in MemoryLists :
    LET found == {Card(r[n], n) : n \in DOMAIN r} \cup ToSet(list)
    IN \A x, y \in found : x.doc = y.doc => x.key = y.key \/ Unknown \in {x.key, y.key}

\* _extract_source_kind: the type, else the prefix of the key.
Kind(card) ==
  CASE card.type \in {"message", "thread"} -> "slack"
    [] card.type = "email"                 -> "gmail"
    [] OTHER -> IF card.key = Unknown THEN Unknown ELSE KindOfKey(card.key)

\* _source_passes_filters: what is not known does not exclude.
Passes(card) ==
  /\ ask.channel = Unknown \/ card.channel \in {Unknown, ask.channel}
  /\ ask.user = Unknown \/ card.user \in {Unknown, ask.user}
  /\ ask.type = Unknown \/ card.type \in {Unknown, ask.type}
  /\ ask.sources = {} \/ Kind(card) = Unknown \/ Kind(card) \in ask.sources
  /\ card.ts = 0 \/ card.ts \in ask.start .. ask.end

Bias(card) ==
  (IF ask.bias.channel # Unknown /\ card.channel = ask.bias.channel THEN 1 ELSE 0)
  + (IF ask.bias.user # Unknown /\ ask.bias.user \in {card.user, card.sender} THEN 1 ELSE 0)

\* Terms are looked for in two modes only.
Searched(n) == IF ask.mode \in {"exact", "hybrid"} THEN n ELSE 0

-----------------------------------------------------------------------------
(* Candidates.                                                             *)

\* Snippets without text are left out, the others keep their place.
Snippets ==
  LET all == [n \in DOMAIN response |->
                [card |-> Card(response[n], n), text |-> response[n].text, place |-> n,
                 hits |-> Searched(response[n].hits), subject |-> Searched(response[n].subject)]]
  IN At(all, {n \in DOMAIN all : all[n].text /\ Passes(all[n].card)})

\* Mutant of MemoriesFrom: memories take the first places.
MemoriesFromTop(n) == 1

\* The place of the first memory, where n snippets have passed the filters.
MemoriesFrom(n) == n + 1

\* A memory's card has its source's key and a type of its own.
Memories ==
  LET all == [k \in DOMAIN memories |->
        [card |-> [index |-> 0, doc |-> memories[k].doc, key |-> memories[k].key,
                   source |-> memories[k].key, channel |-> Unknown, user |-> Unknown,
                   sender |-> Unknown, type |-> "memory", ts |-> memories[k].ts, permalink |-> Unknown],
         text |-> TRUE, place |-> MemoriesFrom(Len(Snippets)) + k - 1,
         hits |-> Searched(memories[k].hits), subject |-> 0]]
  IN IF ask.recency THEN <<>> ELSE At(all, {k \in DOMAIN all : Passes(all[k].card)})

\* Mutant of Deduped: every snippet stays.
DedupedNot(s) == s

\* dedupe_by_stable_key: the first of a key stays.
Deduped(s) ==
  At(s, {n \in DOMAIN s :
           \A m \in 1..n-1 : s[n].card.key = Unknown \/ s[m].card.key # s[n].card.key})

Candidates(extra) == Deduped(Snippets \o extra)

-----------------------------------------------------------------------------
(* Ranking.                                                                *)

Newest(s) == Max({1} \cup {x.card.ts : x \in ToSet(s)})

\* Mutant of W_RECENCY: recency weighs as much as a verbatim hit.
W_RECENCY_high == 100
W_RECENCY == 1

\* _hybrid_score, times the newest timestamp.
HybridScore(x, newest) ==
  (x.hits * W_KEYWORD_HIT + x.subject * W_SUBJECT_HIT + Bias(x.card) * W_CHANNEL_MATCH) * newest
    + x.card.ts * W_RECENCY

ByBias(s)   == SortedBy(s, [n \in DOMAIN s |-> <<-Bias(s[n].card), s[n].place>>])
ByHits(s)   == SortedBy(s, [n \in DOMAIN s |-> <<-s[n].hits, -s[n].subject, -Bias(s[n].card),
                                                  -s[n].card.ts, s[n].place>>])
ByHybrid(s) == LET newest == Newest(s)
               IN SortedBy(s, [n \in DOMAIN s |-> <<-HybridScore(s[n], newest), s[n].place>>])

\* _rerank_by_recency: what has a source and a time, newest first.
Dated(s)   == At(s, {n \in DOMAIN s : Kind(s[n].card) # Unknown /\ s[n].card.ts # 0})
Recent(s)  == LET d == Dated(s) IN SortedBy(d, [n \in DOMAIN d |-> <<-d[n].card.ts>>])
Matched(s) == At(s, {n \in DOMAIN s : s[n].hits > 0})

\* rerank_chunks, unless the question asks for the latest.
Ranked(s) ==
  IF ask.recency /\ Recent(s) # <<>> THEN Recent(s)
  ELSE CASE ask.mode = "exact" /\ Matched(s) # <<>> -> ByHits(Matched(s))
         [] ask.mode = "hybrid" -> ByHybrid(s)
         [] OTHER -> ByBias(s)

Capped(s) == SubSeq(s, 1, Min({Len(s), ask.topK}))

-----------------------------------------------------------------------------
RecallInit ==
  /\ pc = "ask"
  /\ ask \in Asks /\ response \in Responses /\ memories \in MemoryLists
  /\ Len(response) <= ask.topK \/ ask.recency
  /\ context = <<>> /\ shown = <<>> /\ cited = {}

\* Mutant of Prepare: cards keep the place HydraDB gave them.
PrepareUnnumbered ==
  /\ pc = "ask"
  /\ LET ranked == Capped(Ranked(Candidates(Memories)))
     IN /\ context' = [n \in DOMAIN ranked |-> [ranked[n].card EXCEPT !.index = ranked[n].place]]
        /\ pc' = IF ranked = <<>> THEN "insufficient" ELSE "answer"
  /\ UNCHANGED <<ask, response, memories, shown, cited>>

\* prepare_recall_context: the cards are numbered as the LLM sees them.
Prepare ==
  /\ pc = "ask"
  /\ LET ranked == Capped(Ranked(Candidates(Memories)))
     IN /\ context' = [n \in DOMAIN ranked |-> [ranked[n].card EXCEPT !.index = n]]
        /\ pc' = IF ranked = <<>> THEN "insufficient" ELSE "answer"
  /\ UNCHANGED <<ask, response, memories, shown, cited>>

Rich(card) == \E told \in {card.channel, card.user, card.permalink, card.key} : told # Unknown

\* _dedupe_key
CardKey(card) ==
  IF card.key # Unknown THEN card.key
  ELSE IF card.permalink # Unknown THEN card.permalink ELSE card.source

\* _clean_sources_for_ui
Cleaned(sources) ==
  LET rich == At(sources, {n \in DOMAIN sources : Rich(sources[n])})
      pool == IF rich # <<>> THEN rich ELSE sources
  IN At(pool, {n \in DOMAIN pool : \A m \in 1..n-1 : CardKey(pool[m]) # CardKey(pool[n])})

\* The LLM cites whatever numbers, one that it makes up among them;
\* _strip_invalid_citations keeps those of the sources that are left.
Finalize ==
  /\ pc = "answer"
  /\ shown' = Capped(Cleaned(context))
  /\ cited' = (1 .. Len(context) + 1) \cap {card.index : card \in ToSet(shown')}
  /\ pc' = "done"
  /\ UNCHANGED <<ask, response, memories, context>>

RecallNext == Prepare \/ Finalize

RecallSpec == RecallInit /\ [][RecallNext]_recallVars

-----------------------------------------------------------------------------
(* Properties.                                                             *)

(* A citation that is left in the answer leads to exactly one source, the  *)
(* snippet the LLM saw under that number.                                  *)
CitationsResolve ==
  \A n \in cited :
    /\ n \in DOMAIN context
    /\ Cardinality({k \in DOMAIN shown : shown[k].index = n}) = 1
    /\ \A k \in DOMAIN shown : shown[k].index = n => shown[k].doc = context[n].doc

(* A document that is known by a key comes to the LLM once, whether by its *)
(* snippets or by what memory says of it: it takes no second place.        *)
OncePerDocument ==
  \A m, n \in DOMAIN context :
    context[m].key # Unknown /\ context[m].doc = context[n].doc /\ context[n].key # Unknown => m = n

(* "Memories are AUGMENTATION": where the order is HydraDB's, a document   *)
(* that is found without memories is found with them.                      *)
MemoriesCrowdOutNothing ==
  pc \in {"answer", "done"} /\ ask.mode = "default" =>
    \A x \in ToSet(Capped(Ranked(Candidates(<<>>)))) :
      \E card \in ToSet(context) : card.doc = x.card.doc

(* "Recency is the gentlest signal: it acts as a tiebreaker": in hybrid    *)
(* order the newer of two snippets is first only if nothing else speaks    *)
(* for the other.                                                          *)
RecencyBreaksTies ==
  LET s == ByHybrid(Candidates(Memories))
      Relevance(x) == x.hits * W_KEYWORD_HIT + x.subject * W_SUBJECT_HIT
                        + Bias(x.card) * W_CHANNEL_MATCH
  IN pc # "ask" /\ ask.mode = "hybrid" =>
       \A m, n \in DOMAIN s : m < n => Relevance(s[m]) >= Relevance(s[n])

(* What is cited and shown can be trusted, and memory only adds to it.     *)
SourcesAreSound == CitationsResolve /\ OncePerDocument /\ MemoriesCrowdOutNothing /\ RecencyBreaksTies

(* "Sender/channel matches are weak filters ... but never override raw     *)
(* relevance."                                                             *)
BiasNeverOverrides ==
  LET s == ByHybrid(Candidates(Memories))
  IN pc # "ask" /\ ask.mode = "hybrid" =>
       \A m, n \in DOMAIN s : s[n].hits > s[m].hits /\ s[m].subject = s[n].subject => n < m

(* "exact: prefer chunks containing the user's keywords verbatim.  Fall    *)
(* back to semantic order if no exact matches exist": a match that was     *)
(* recalled and passes the filters is not left aside.                      *)
ExactFindsMatch ==
  pc # "ask" /\ ask.mode = "exact" /\ ~ask.recency /\ Matched(Snippets) # <<>> =>
    Matched(Candidates(Memories)) # <<>>
=============================================================================
