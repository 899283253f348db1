------------------------------ MODULE ChatClient -----------------------------
(***************************************************************************)
(* The chat of the web client (App.jsx, streamQuery in api.js) and the     *)
(* chat sessions it keeps on the server (chat_sessions, chat_messages).    *)
(*                                                                         *)
(* A submitted question opens a stream whose bubble the callbacks patch,   *)
(* and is mirrored: the first question of a conversation creates a         *)
(* session, whose id a ref remembers; question and answer are posted to    *)
(* it, fire and forget.  Stop aborts the stream, Clear also forgets the    *)
(* bubbles and the session.  React runs one handler at a time; between     *)
(* handlers the network answers in any order.  An abort takes effect at    *)
(* once, unless the stream still waits for its access token, which may     *)
(* need a refresh over the network: that wait is not aborted.              *)
(*                                                                         *)
(* A turn is a question and its answer; a session is known by the turn     *)
(* that created it.  The tokens of an answer are left out, and who owns a  *)
(* session: a client only uses those it created.                           *)
(***************************************************************************)
EXTENDS Naturals, FiniteSets

CONSTANTS MaxTurns,   \* bound: questions asked
          MaxClears,  \* bound: how often the chat is cleared
          Failures    \* may requests fail?

ASSUME ChatAssumption ==
  /\ MaxTurns \in Nat /\ MaxClears \in Nat
  /\ Failures \in BOOLEAN

Turns == 1..MaxTurns
NoSession == 0

VARIABLES entries,        \* turns on the timeline
          bubble,         \* turn -> "none", "streaming", "answered", "failed", "stopped"
          stream,         \* turn -> "none", "token", "open", "done", "closed"
          aborted,        \* turns whose controller was aborted
          submitting,     \* shows Stop instead of Send
          active,         \* activeStreamRef: a turn, or 0
          current,        \* currentSessionIdRef
          session,        \* turn -> its sessionPromise, and whether the answer waits for it
          posts,          \* chat messages on their way
          messages,       \* chat_messages
          turns, clears,  \* how often (bounds; clears numbers the conversation)
          talk            \* turn -> the conversation it belongs to (history)

chatVars == <<entries, bubble, stream, aborted, submitting, active, current, session,
          posts, messages, turns, clears, talk>>

None == [state |-> "none", id |-> NoSession, answer |-> FALSE]

ChatInit ==
  /\ entries = {} /\ bubble = [t \in Turns |-> "none"]
  /\ stream = [t \in Turns |-> "none"] /\ aborted = {}
  /\ submitting = FALSE /\ active = 0 /\ current = NoSession
  /\ session = [t \in Turns |-> None] /\ posts = {} /\ messages = {}
  /\ turns = 0 /\ clears = 0 /\ talk = [t \in Turns |-> 0]

-----------------------------------------------------------------------------
(* Mirroring a turn.                                                       *)

Message(t, role, id) == [turn |-> t, role |-> role, session |-> id]

\* Mutant of Mirrored: the answer goes wherever the ref points by then.
MirroredLate(t, role, s) ==
  LET id == IF role = "assistant" THEN current ELSE s.id
  IN IF s.state = "known" /\ id # NoSession THEN {Message(t, role, id)} ELSE {}

\* mirrorChatMessage, once the session's promise is known.
Mirrored(t, role, s) == IF s.state = "known" THEN {Message(t, role, s.id)} ELSE {}

\* ensureChatSession, first half.
Ensured(t) ==
  IF current # NoSession THEN [None EXCEPT !.state = "known", !.id = current]
  ELSE [None EXCEPT !.state = "asked"]

\* Its second half, and what waits for the promise.
Created(t) ==
  /\ session[t].state = "asked"
  /\ LET s == [session[t] EXCEPT !.state = "known", !.id = t]
     IN /\ session' = [session EXCEPT ![t] = s]
        /\ posts' = posts \cup Mirrored(t, "user", s)
                          \cup IF s.answer THEN Mirrored(t, "assistant", s) ELSE {}
  /\ current' = t
  /\ UNCHANGED <<entries, bubble, stream, aborted, submitting, active, messages, turns,
                 clears, talk>>

CreateFails(t) ==
  /\ Failures /\ session[t].state = "asked"
  /\ session' = [session EXCEPT ![t].state = "failed"]
  /\ UNCHANGED <<entries, bubble, stream, aborted, submitting, active, current, posts,
                 messages, turns, clears, talk>>

\* create_chat_message.
Stored(m) ==
  /\ m \in posts
  /\ posts' = posts \ {m} /\ messages' = messages \cup {m}
  /\ UNCHANGED <<entries, bubble, stream, aborted, submitting, active, current, session,
                 turns, clears, talk>>

Lost(m) ==
  /\ Failures /\ m \in posts /\ posts' = posts \ {m}
  /\ UNCHANGED <<entries, bubble, stream, aborted, submitting, active, current, session,
                 messages, turns, clears, talk>>

-----------------------------------------------------------------------------
(* Streams.                                                                *)

\* An abort ends these at once.
Abortable(t) == t # 0 /\ stream[t] \in {"open", "done"}
Patched(b, t, s) == [b EXCEPT ![t] = IF @ = "none" THEN @ ELSE s]

\* handleSubmit, up to its first await that takes time.
Submit(t) ==
  /\ t = turns + 1 /\ ~submitting
  /\ turns' = t /\ talk' = [talk EXCEPT ![t] = clears]
  /\ entries' = entries \cup {t}
  /\ aborted' = aborted \cup ({active} \ {0})
  /\ bubble' = [IF Abortable(active) THEN Patched(bubble, active, "stopped") ELSE bubble
                EXCEPT ![t] = "streaming"]
  /\ \E pc \in {"token", "open"} :
       stream' = [u \in Turns |-> IF u = t THEN pc
                                  ELSE IF u = active /\ Abortable(u) THEN "closed" ELSE stream[u]]
  /\ submitting' = ~Abortable(active)  \* the old request's finally runs last
  /\ active' = t
  /\ session' = [session EXCEPT ![t] = Ensured(t)]
  /\ posts' = posts \cup Mirrored(t, "user", Ensured(t))
  /\ UNCHANGED <<current, messages, clears>>

\* Mutant of Closed: only a stream that was not stopped resets the form.
ClosedUnlessAborted(t) ==
  /\ active' = IF active = t THEN 0 ELSE active
  /\ submitting' = IF t \in aborted THEN submitting ELSE FALSE

\* handleSubmit's finally.
Closed(t) ==
  /\ active' = IF active = t THEN 0 ELSE active
  /\ submitting' = FALSE

\* Mutant of Token: onAbort is not called.
TokenSilent(t) ==
  /\ stream[t] = "token"
  /\ IF t \in aborted
     THEN stream' = [stream EXCEPT ![t] = "closed"] /\ Closed(t)
     ELSE stream' = [stream EXCEPT ![t] = "open"] /\ UNCHANGED <<active, submitting>>
  /\ UNCHANGED <<entries, bubble, aborted, current, session, posts, messages, turns,
                 clears, talk>>

\* The access token is there; an aborted request goes no further.
Token(t) ==
  /\ stream[t] = "token"
  /\ IF t \in aborted
     THEN /\ stream' = [stream EXCEPT ![t] = "closed"] /\ Closed(t)
          /\ bubble' = Patched(bubble, t, "stopped")
     ELSE stream' = [stream EXCEPT ![t] = "open"] /\ UNCHANGED <<active, submitting,
                                                                 bubble>>
  /\ UNCHANGED <<entries, aborted, current, session, posts, messages, turns, clears, talk>>

\* onDone.
Done(t) ==
  /\ stream[t] = "open"
  /\ stream' = [stream EXCEPT ![t] = "done"]
  /\ bubble' = Patched(bubble, t, "answered")
  /\ posts' = posts \cup Mirrored(t, "assistant", session[t])
  /\ session' = [session EXCEPT ![t].answer = TRUE]
  /\ UNCHANGED <<entries, aborted, submitting, active, current, messages, turns, clears,
                 talk>>

\* The server closes the stream.
Close(t) ==
  /\ stream[t] = "done"
  /\ stream' = [stream EXCEPT ![t] = "closed"] /\ Closed(t)
  /\ UNCHANGED <<entries, bubble, aborted, current, session, posts, messages, turns,
                 clears, talk>>

\* onError: no token, an error status, an error event, a broken connection.
Break(t) ==
  /\ Failures /\ stream[t] \in {"token", "open"}
  /\ stream' = [stream EXCEPT ![t] = "closed"] /\ Closed(t)
  /\ bubble' = Patched(bubble, t, "failed")
  /\ UNCHANGED <<entries, aborted, current, session, posts, messages, turns, clears, talk>>

\* handleStop.
Stop ==
  /\ submitting /\ active # 0 /\ active \notin aborted
  /\ aborted' = aborted \cup {active}
  /\ IF Abortable(active)
     THEN /\ stream' = [stream EXCEPT ![active] = "closed"] /\ Closed(active)
          /\ bubble' = Patched(bubble, active, "stopped")
     ELSE UNCHANGED <<stream, active, submitting, bubble>>
  /\ UNCHANGED <<entries, current, session, posts, messages, turns, clears, talk>>

\* Mutant of Clear: the stream goes on.
ClearOnly ==
  /\ entries # {} \/ submitting
  /\ clears < MaxClears /\ clears' = clears + 1
  /\ entries' = {} /\ bubble' = [t \in Turns |-> "none"]
  /\ submitting' = FALSE /\ active' = 0 /\ current' = NoSession
  /\ UNCHANGED <<stream, aborted, session, posts, messages, turns, talk>>

\* handleClearChat.
Clear ==
  /\ entries # {} \/ submitting
  /\ clears < MaxClears /\ clears' = clears + 1
  /\ aborted' = aborted \cup ({active} \ {0})
  /\ stream' = [t \in Turns |-> IF t = active /\ Abortable(t) THEN "closed" ELSE stream[t]]
  /\ entries' = {} /\ bubble' = [t \in Turns |-> "none"]
  /\ submitting' = FALSE /\ active' = 0 /\ current' = NoSession
  /\ UNCHANGED <<session, posts, messages, turns, talk>>

Network(t) ==
  Created(t) \/ CreateFails(t) \/ Token(t) \/ Done(t) \/ Close(t) \/ Break(t)

ChatNext ==
  \/ Stop \/ Clear
  \/ \E t \in Turns : Submit(t) \/ Network(t)
  \/ \E m \in posts : Stored(m) \/ Lost(m)

ChatSpec == ChatInit /\ [][ChatNext]_chatVars

\* Requests are answered or fail, and streams end.
ChatLiveSpec ==
  /\ ChatSpec
  /\ \A t \in Turns :
       WF_chatVars(Token(t)) /\ WF_chatVars(Done(t) \/ Break(t)) /\ WF_chatVars(Close(t))

-----------------------------------------------------------------------------
(* Properties.                                                             *)

(* mirrorChatMessage: "we can capture it once and chain user+assistant     *)
(* writes through the same value even if the user clears the chat          *)
(* mid-flight": the messages of a turn are in one session.                 *)
TurnInOneSession ==
  \A m, n \in messages \cup posts : m.turn = n.turn => m.session = n.session

Live(t) == stream[t] \in {"token", "open", "done"} /\ t \notin aborted

(* handleSubmit aborts "any in-flight stream", handleStop "the in-flight   *)
(* request": whatever stale finally has shown Send again or cleared the    *)
(* ref meanwhile, the one stream that nobody aborted is the one the next   *)
(* abort will reach, so no two answers ever stream into the page.          *)
AbortReaches == \A t \in Turns : Live(t) => active = t

(* A bubble that streams has a request under way that will settle it.      *)
BubblesAlive == \A t \in Turns : bubble[t] = "streaming" => stream[t] \in {"token", "open"}

(* A turn is one stream on the page and one session on the server.         *)
TurnIsWhole == TurnInOneSession /\ AbortReaches /\ BubblesAlive

(* handleSubmit: "`submitting` blocks re-entry": with Send shown, no       *)
(* stream is under way that was not aborted.                               *)
OneStream == \A t \in Turns : Live(t) => submitting

(* handleSubmit's finally "is what guarantees the UI returns to idle and   *)
(* the next question works normally", whenever a stream is stopped, breaks *)
(* or overtakes a Clear.                                                   *)
ReturnsToIdle == submitting ~> ~submitting

(* A bubble does not stream for ever.                                      *)
BubblesSettle == \A t \in Turns : bubble[t] = "streaming" ~> bubble[t] # "streaming"

(* The page settles, whatever becomes of its streams.                      *)
ChatSettles == ReturnsToIdle /\ BubblesSettle

(* handleClearChat: "Clearing the chat starts a fresh conversation         *)
(* server-side too": no session holds two conversations.                   *)
FreshConversation ==
  \A m, n \in messages : m.session = n.session => talk[m.turn] = talk[n.turn]

(* ensureChatSession: "Creates one on the backend on first call, then      *)
(* reuses it for the rest of the conversation": no conversation is in two  *)
(* sessions.                                                               *)
OneSession ==
  \A m, n \in messages : talk[m.turn] = talk[n.turn] => m.session = n.session
==============================================================================
