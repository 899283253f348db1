---------------------------- MODULE EventDedupe -----------------------------
(***************************************************************************)
(* Idempotent delivery of Slack events (main.slack_events and the two-tier *)
(* dedupe of realtime_ingest.py / supabase_client.py).                     *)
(*                                                                         *)
(* Slack sends an event up to MaxDeliveries times until it sees a 200; the *)
(* deliveries may reach different worker processes.  A worker looks in its *)
(* in-process cache (stage 1, which records the event as a side effect),   *)
(* then claims the event by inserting a row in slack_event_seen (stage 2). *)
(* slack_events is a coroutine that makes both calls without awaiting, so  *)
(* one worker handles one delivery at a time; the workers interleave with  *)
(* each other and with the database.  An accepted event is processed by a  *)
(* background task after the answer has been sent.                         *)
(*                                                                         *)
(* Times are natural numbers from 1; 0 in `seen` or `rows` means absent.   *)
(* Signature checks, the url_verification handshake and payloads of other  *)
(* types change nothing here and are left out.                             *)
(***************************************************************************)
EXTENDS Naturals, FiniteSets

CONSTANTS Workers,        \* worker processes
          Events,         \* (non-empty) Slack event ids
          SeenTTL,        \* _SEEN_EVENT_TTL
          SeenMax,        \* _SEEN_EVENT_MAX
          Retain,         \* retain_hours of cleanup_slack_event_seen
          RetryWindow,    \* Slack retries a delivery within this time
          MaxDeliveries,  \* first delivery and Slack's retries
          MaxHandling,    \* a request never takes longer (client timeouts)
          Outages,        \* may Supabase fail?
          MaxRestarts,    \* bound: worker restarts
          MaxTime         \* bound: the clock

ASSUME ParameterAssumption ==
  /\ {SeenTTL, SeenMax, Retain, RetryWindow, MaxDeliveries, MaxHandling,
      MaxRestarts, MaxTime} \subseteq Nat
  /\ Outages \in BOOLEAN

\* What cleanup's 24 h must cover: Slack's 1 h window and a slow request.
ASSUME RetentionAssumption == RetryWindow + MaxHandling <= Retain

VARIABLES now,       \* the clock
          req,       \* worker -> the delivery it is handling
          seen,      \* worker -> _seen_event_ids
          rows,      \* slack_event_seen: event -> seen_at
          sent,      \* event -> deliveries made by Slack
          firstSent, \* event -> time of the first delivery
          acked,     \* events whose 200 reached Slack
          queue,     \* worker -> event -> tasks waiting in BackgroundTasks
          handed,    \* event -> how often it was queued (history)
          local,     \* worker -> event -> queued since the last restart
          runs,      \* event -> how often process_slack_event ran (history)
          restarts

slackVars == <<sent, firstSent, acked>>
vars == <<now, req, seen, rows, slackVars, queue, handed, local, runs, restarts>>

NoEvent  == "none"
Idle     == [pc |-> "idle", event |-> NoEvent, since |-> 0]
Requests == [pc : {"claim", "first", "duplicate", "error"}, event : Events, since : Nat]
            \cup {Idle}

TypeOK ==
  /\ now \in Nat \ {0} /\ restarts \in Nat
  /\ req \in [Workers -> Requests]
  /\ seen \in [Workers -> [Events -> Nat]]
  /\ rows \in [Events -> Nat]
  /\ sent \in [Events -> Nat] /\ firstSent \in [Events -> Nat]
  /\ acked \in SUBSET Events
  /\ queue \in [Workers -> [Events -> Nat]]
  /\ handed \in [Events -> Nat] /\ runs \in [Events -> Nat]
  /\ local \in [Workers -> [Events -> Nat]]

Init ==
  /\ now = 1 /\ restarts = 0
  /\ req = [w \in Workers |-> Idle]
  /\ seen = [w \in Workers |-> [e \in Events |-> 0]]
  /\ rows = [e \in Events |-> 0]
  /\ sent = [e \in Events |-> 0] /\ firstSent = [e \in Events |-> 0]
  /\ acked = {}
  /\ queue = [w \in Workers |-> [e \in Events |-> 0]]
  /\ handed = [e \in Events |-> 0] /\ runs = [e \in Events |-> 0]
  /\ local = [w \in Workers |-> [e \in Events |-> 0]]

\* The answer to Slack may get lost, or come after Slack's 3 seconds.
Answer200(e) == acked' \in {acked, acked \cup {e}}

-----------------------------------------------------------------------------
(* Stage 1: _event_already_seen_in_memory.                                 *)

\* Stale entries are dropped only when the cache is over its cap.
Evicted(cache) ==
  IF Cardinality({e \in Events : cache[e] # 0}) > SeenMax
  THEN [e \in Events |-> IF cache[e] + SeenTTL < now THEN 0 ELSE cache[e]]
  ELSE cache

Fresh(cache, e) == cache[e] # 0 /\ now < cache[e] + SeenTTL

\* Slack's side of a delivery.
Send(e) ==
  /\ sent[e] < MaxDeliveries
  /\ e \notin acked
  /\ sent[e] = 0 \/ now <= firstSent[e] + RetryWindow
  /\ sent' = [sent EXCEPT ![e] = @ + 1]
  /\ firstSent' = IF sent[e] = 0 THEN [firstSent EXCEPT ![e] = now] ELSE firstSent

\* A delivery the cache already knows: acknowledged and dropped.
ReceiveSeen(w, e) ==
  /\ req[w] = Idle
  /\ Send(e)
  /\ Fresh(Evicted(seen[w]), e)
  /\ seen' = [seen EXCEPT ![w] = Evicted(seen[w])]
  /\ Answer200(e)
  /\ UNCHANGED <<now, req, rows, queue, handed, local, runs, restarts>>

\* Mutant of ReceiveNew: the cache is only written after the claim.
ReceiveUnrecorded(w, e) ==
  /\ req[w] = Idle
  /\ Send(e)
  /\ ~Fresh(Evicted(seen[w]), e)
  /\ req' = [req EXCEPT ![w] = [pc |-> "claim", event |-> e, since |-> now]]
  /\ UNCHANGED <<now, seen, rows, acked, queue, handed, local, runs, restarts>>

\* A delivery new to this process: recorded, then on to the claim.
ReceiveNew(w, e) ==
  /\ req[w] = Idle
  /\ Send(e)
  /\ ~Fresh(Evicted(seen[w]), e)
  /\ seen' = [seen EXCEPT ![w] = [Evicted(seen[w]) EXCEPT ![e] = now]]
  /\ req' = [req EXCEPT ![w] = [pc |-> "claim", event |-> e, since |-> now]]
  /\ UNCHANGED <<now, rows, acked, queue, handed, local, runs, restarts>>

-----------------------------------------------------------------------------
(* Stage 2: claim_slack_event_id; the primary key decides who is first.    *)

Claimed(w, answer) == req' = [req EXCEPT ![w].pc = answer]

ClaimFirst(w) ==
  /\ req[w].pc = "claim"
  /\ rows[req[w].event] = 0
  /\ rows' = [rows EXCEPT ![req[w].event] = now]
  /\ Claimed(w, "first")
  /\ UNCHANGED <<now, seen, slackVars, queue, handed, local, runs, restarts>>

ClaimDuplicate(w) ==
  /\ req[w].pc = "claim"
  /\ rows[req[w].event] # 0
  /\ Claimed(w, "duplicate")
  /\ UNCHANGED <<now, seen, rows, slackVars, queue, handed, local, runs, restarts>>

\* Mutant of ClaimFails: fails closed.
ClaimFailsClosed(w) ==
  /\ Outages /\ req[w].pc = "claim"
  /\ Claimed(w, "duplicate")
  /\ UNCHANGED <<now, seen, rows, slackVars, queue, handed, local, runs, restarts>>

\* The call raises something that is not a duplicate-key error; the insert
\* may or may not have been committed.
ClaimFails(w) ==
  /\ Outages
  /\ req[w].pc = "claim"
  /\ rows' \in {rows, [rows EXCEPT ![req[w].event] = IF @ = 0 THEN now ELSE @]}
  /\ Claimed(w, "error")
  /\ UNCHANGED <<now, seen, slackVars, queue, handed, local, runs, restarts>>

\* First, or unknown (fail open): hand the payload to process_slack_event.
Accept(w) ==
  /\ req[w].pc \in {"first", "error"}
  /\ LET e == req[w].event IN
       /\ queue' = [queue EXCEPT ![w][e] = @ + 1]
       /\ handed' = [handed EXCEPT ![e] = @ + 1]
       /\ local' = [local EXCEPT ![w][e] = @ + 1]
       /\ Answer200(e)
  /\ req' = [req EXCEPT ![w] = Idle]
  /\ UNCHANGED <<now, seen, rows, sent, firstSent, runs, restarts>>

\* Lost the race against another worker.
Drop(w) ==
  /\ req[w].pc = "duplicate"
  /\ Answer200(req[w].event)
  /\ req' = [req EXCEPT ![w] = Idle]
  /\ UNCHANGED <<now, seen, rows, sent, firstSent, queue, handed, local, runs, restarts>>

-----------------------------------------------------------------------------
\* The thread pool runs process_slack_event for a queued payload.
RunTask(w, e) ==
  /\ queue[w][e] > 0
  /\ queue' = [queue EXCEPT ![w][e] = @ - 1]
  /\ runs' = [runs EXCEPT ![e] = @ + 1]
  /\ UNCHANGED <<now, req, seen, rows, slackVars, handed, local, restarts>>

\* Mutant of Cleanup: the age is not compared.
CleanupAll ==
  /\ rows' = [e \in Events |-> 0]
  /\ UNCHANGED <<now, req, seen, slackVars, queue, handed, local, runs, restarts>>

\* cleanup_slack_event_seen
Cleanup ==
  /\ \E e \in Events : rows[e] # 0 /\ rows[e] + Retain < now
  /\ rows' = [e \in Events |-> IF rows[e] + Retain < now THEN 0 ELSE rows[e]]
  /\ UNCHANGED <<now, req, seen, slackVars, queue, handed, local, runs, restarts>>

\* A worker process dies and is restarted: its memory is gone.
Restart(w) ==
  /\ restarts < MaxRestarts
  /\ restarts' = restarts + 1
  /\ req' = [req EXCEPT ![w] = Idle]
  /\ seen' = [seen EXCEPT ![w] = [e \in Events |-> 0]]
  /\ queue' = [queue EXCEPT ![w] = [e \in Events |-> 0]]
  /\ local' = [local EXCEPT ![w] = [e \in Events |-> 0]]
  /\ UNCHANGED <<now, rows, slackVars, handed, runs>>

\* The client timeouts bound how long a request lasts.
Tick ==
  /\ now < MaxTime
  /\ \A w \in Workers : req[w] = Idle \/ now < req[w].since + MaxHandling
  /\ now' = now + 1
  /\ UNCHANGED <<req, seen, rows, slackVars, queue, handed, local, runs, restarts>>

WorkerStep(w) ==
  ClaimFirst(w) \/ ClaimDuplicate(w) \/ ClaimFails(w) \/ Accept(w) \/ Drop(w)

Next ==
  \/ \E w \in Workers, e \in Events : ReceiveSeen(w, e) \/ ReceiveNew(w, e) \/ RunTask(w, e)
  \/ \E w \in Workers : WorkerStep(w) \/ Restart(w)
  \/ Cleanup
  \/ Tick

Spec == Init /\ [][Next]_vars

\* A started request goes on, and the thread pool gets to a queued task.
Fairness ==
  /\ \A w \in Workers : WF_vars(WorkerStep(w))
  /\ \A w \in Workers, e \in Events : WF_vars(RunTask(w, e))

LiveSpec == Spec /\ Fairness

-----------------------------------------------------------------------------
(* Properties.                                                             *)

(* While the database answers, no event is handed to the handler twice,    *)
(* whatever the deliveries, workers, restarts and cleanups in between.     *)
AtMostOnce == Outages \/ \A e \in Events : handed[e] <= 1

(* The comment on the outage trade-off: "the in-memory cache still         *)
(* prevents same-process duplicates", as long as the cache outlives        *)
(* Slack's retries.                                                        *)
OncePerProcess ==
  RetryWindow < SeenTTL =>
    \A w \in Workers, e \in Events : local[w][e] <= 1

(* Nobody drops an event that no worker took: without restarts, an event   *)
(* Slack delivered is processed, even when every claim fails.              *)
EventuallyRuns == \A e \in Events : sent[e] > 0 ~> runs[e] > 0

(* A database that fails degrades the webhook to once per process, and     *)
(* loses nothing.                                                          *)
OutageDegrades == []OncePerProcess /\ EventuallyRuns

(* With a working database the webhook implements the at-most-once         *)
(* hand-over of EventClaim.                                                *)
Claim == INSTANCE EventClaim
ImplementsEventClaim == Claim!Spec
=============================================================================
