---------------------------- MODULE QueryAnswers ----------------------------
(***************************************************************************)
(* Answering questions: POST /api/query, its streaming variant, and the    *)
(* answer cache between them (query, query_stream of main.py,              *)
(* query_cache.py, the calls of llm.py).                                   *)
(*                                                                         *)
(* A request looks in the cache, asks structured memory (not when it       *)
(* streams), recalls snippets, has the LLM answer and caches the answer;   *)
(* a streamed answer is cached after its `done` event, if the client is    *)
(* still there.  Follow-ups, which carry their conversation, bypass memory *)
(* and cache.  What a question, its mode, its filters and its dates make   *)
(* of the cache key is one value here, the question; what the key leaves   *)
(* out, the workspace that asks and the allowed_sources, is the scope.  An *)
(* answer is known by what it answers, for which scope, and by the time    *)
(* its snippets were recalled.                                             *)
(***************************************************************************)
EXTENDS Naturals, FiniteSets, FiniteSetsExt

CONSTANTS Requests,       \* requests that run at the same time
          Questions,
          Workspaces, SourceKinds, \* who asks, and of which sources
          Conversations,  \* follow-ups belong to one
          TTL, Size,      \* QUERY_CACHE_TTL_SECONDS, QUERY_CACHE_MAX_SIZE
          Slow,           \* bound: a request's time from recall to cache
          MaxClock        \* bound

ASSUME AnswersAssumption ==
  /\ {TTL, Slow} \subseteq Nat /\ {TTL, Size, MaxClock} \subseteq Nat \ {0}
  /\ "none" \notin Conversations

VARIABLES clock, cache, req,
          given  \* the last response: to what, which answer, when (history)

answersVars == <<clock, cache, req, given>>

Scopes == [workspace : Workspaces, allowed : SUBSET SourceKinds]
Talks == Conversations \cup {"none"}
Answers == [q : Questions, scope : Scopes, talk : Talks, at : 0..MaxClock]
Missing == [expires |-> 0]
Nothing == [pc |-> "idle"]
Asked(r) == [q |-> r.q, scope |-> r.scope, talk |-> r.talk]

AnswersInit ==
  /\ clock = 1
  /\ cache = [q \in Questions |-> Missing]
  /\ req = [t \in Requests |-> Nothing]
  /\ given = [kind |-> "none"]

-----------------------------------------------------------------------------
(* query_cache.py                                                          *)

Live(q) == clock < cache[q].expires
Cached == {q \in Questions : cache[q] # Missing}

\* Mutant of Put: a dictionary, not a cache of a given size.
PutUnbounded(q, answer) ==
  cache' = [cache EXCEPT ![q] = [answer |-> answer, expires |-> clock + TTL]]

\* TTLCache: what has expired goes, then, if it is full, one more.
Put(q, answer) ==
  \E kept \in SUBSET {k \in Questions : Live(k)} :
    /\ LET live == {k \in Questions : Live(k)}
           full == q \notin live /\ Cardinality(live) >= Size
       IN Cardinality(live \ kept) = IF full THEN 1 ELSE 0
    /\ cache' = [k \in Questions |->
         IF k = q THEN [answer |-> answer, expires |-> clock + TTL]
         ELSE IF k \in kept THEN cache[k] ELSE Missing]

\* Mutant of Found: a hit keeps the entry alive.
FoundKept(q) == cache' = [cache EXCEPT ![q].expires = clock + TTL]

\* A hit: get leaves the cache as it is.
Found(q) == UNCHANGED cache

Tick ==
  /\ clock < MaxClock
  /\ \A t \in Requests :
       req[t].pc \in {"llm", "put"} => clock < req[t].answer.at + Slow
  /\ clock' = clock + 1
  /\ UNCHANGED <<cache, req, given>>

-----------------------------------------------------------------------------
(* The two routes.                                                         *)

Respond(t, answer) ==
  given' = [kind |-> "answer", to |-> Asked(req[t]), answer |-> answer, when |-> clock,
            cached |-> FALSE]

\* Mutant of UsesCache: follow-ups, too.
AlwaysCached(talk) == TRUE

\* Follow-ups aside, all scopes share the entry of a question.
UsesCache(talk) == talk = "none"

Receive(t, q, scope, talk, stream) ==
  /\ req[t].pc = "idle"
  /\ UsesCache(talk) => ~Live(q)
  /\ req' = [req EXCEPT ![t] =
       [pc |-> IF talk = "none" /\ ~stream THEN "memory" ELSE "recall",
        q |-> q, scope |-> scope, talk |-> talk, stream |-> stream]]
  /\ UNCHANGED <<clock, cache, given>>

ReceiveCached(q, scope, talk) ==
  /\ UsesCache(talk) /\ Live(q)
  /\ Found(q)
  /\ given' = [kind |-> "answer", to |-> [q |-> q, scope |-> scope, talk |-> talk],
               answer |-> cache[q].answer, when |-> clock, cached |-> TRUE]
  /\ UNCHANGED <<clock, req>>

\* route_intelligence_query answers from memory, or passes (or fails).
FromMemory(t) ==
  /\ req[t].pc = "memory"
  /\ Respond(t, [q |-> req[t].q, scope |-> req[t].scope, talk |-> "none", at |-> clock])
  /\ req' = [req EXCEPT ![t] = Nothing]
  /\ UNCHANGED <<clock, cache>>

NotFromMemory(t) ==
  /\ req[t].pc = "memory"
  /\ req' = [req EXCEPT ![t].pc = "recall"]
  /\ UNCHANGED <<clock, cache, given>>

\* prepare_recall_context finds snippets.
Recall(t) ==
  /\ req[t].pc = "recall"
  /\ req' = [req EXCEPT ![t] =
       [pc |-> "llm", q |-> @.q, scope |-> @.scope, talk |-> @.talk, stream |-> @.stream,
        answer |-> [q |-> @.q, scope |-> @.scope, talk |-> @.talk, at |-> clock]]]
  /\ UNCHANGED <<clock, cache, given>>

\* No snippets, no answer from them, an upstream error, or (streaming) a
\* client that has left: nothing is cached.
WithoutAnswer(t) ==
  /\ req[t].pc \in {"recall", "llm"}
  /\ given' = [kind |-> "fallback"]
  /\ req' = [req EXCEPT ![t] = Nothing]
  /\ UNCHANGED <<clock, cache>>

Answer(t) ==
  /\ req[t].pc = "llm" /\ ~req[t].stream
  /\ IF UsesCache(req[t].talk) THEN Put(req[t].q, req[t].answer) ELSE UNCHANGED cache
  /\ Respond(t, req[t].answer)
  /\ req' = [req EXCEPT ![t] = Nothing]
  /\ UNCHANGED clock

\* The tokens have been sent, and `done`.
AnswerStream(t) ==
  /\ req[t].pc = "llm" /\ req[t].stream
  /\ Respond(t, req[t].answer)
  /\ req' = [req EXCEPT ![t].pc = "put"]
  /\ UNCHANGED <<clock, cache>>

PutStream(t) ==
  /\ req[t].pc = "put"
  /\ IF UsesCache(req[t].talk) THEN Put(req[t].q, req[t].answer) ELSE UNCHANGED cache
  /\ req' = [req EXCEPT ![t] = Nothing]
  /\ UNCHANGED <<clock, given>>

\* The client closed the connection at `done`: the generator ends there.
Leave(t) ==
  /\ req[t].pc = "put"
  /\ req' = [req EXCEPT ![t] = Nothing]
  /\ UNCHANGED <<clock, cache, given>>

AnswersNext ==
  \/ Tick
  \/ \E q \in Questions, scope \in Scopes, talk \in Talks :
       \/ ReceiveCached(q, scope, talk)
       \/ \E t \in Requests, stream \in BOOLEAN : Receive(t, q, scope, talk, stream)
  \/ \E t \in Requests :
       \/ FromMemory(t) \/ NotFromMemory(t) \/ Recall(t) \/ WithoutAnswer(t)
       \/ Answer(t) \/ AnswerStream(t) \/ PutStream(t) \/ Leave(t)

AnswersSpec == AnswersInit /\ [][AnswersNext]_answersVars

-----------------------------------------------------------------------------
(* Properties.                                                             *)

(* The cache holds answers of the LLM to questions without a conversation, *)
(* under their own key, and not more of them than it has room for.         *)
AnswersTypeOK ==
  /\ clock \in 0..MaxClock
  /\ \A q \in Cached : /\ cache[q].answer \in Answers
                       /\ cache[q].answer.q = q
                       /\ cache[q].expires <= clock + TTL
  /\ Cardinality({q \in Questions : Live(q)}) <= Size

(* A response answers what was asked, in the conversation it was asked in: *)
(* "what did he say?" means different things in two of them.  It is from   *)
(* the workspace and the sources that were asked, unless it is a hit of    *)
(* the cache, which follow-ups never are.                                  *)
AnswersOwnQuestion ==
  given.kind = "answer" =>
    /\ given.answer.q = given.to.q /\ given.answer.talk = given.to.talk
    /\ given.answer.scope = given.to.scope \/ (given.cached /\ given.to.talk = "none")

(* invalidate_all has no caller: what was ingested, edited or deleted is   *)
(* seen by everybody after the TTL and the time one request takes, however *)
(* requests overlap and whoever asks again in between.                     *)
StaleForTTL ==
  given.kind = "answer" => given.when < given.answer.at + TTL + Slow

(* What the cache may do to an answer: it is to the question, not too old, *)
(* and the entries are those a cache of this size has.                     *)
CacheIsSound == AnswersTypeOK /\ AnswersOwnQuestion /\ StaleForTTL

(* query_cache.py: "Keyed by the full set of request parameters ... so two *)
(* identical requests within the TTL window get the same response"; an     *)
(* answer is given to requests of its workspace with its sources only.     *)
IdenticalRequestsOnly ==
  given.kind = "answer" => given.answer.scope = given.to.scope
=============================================================================
