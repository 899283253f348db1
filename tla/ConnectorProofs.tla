---------------------------- MODULE ConnectorProofs ----------------------------
(***************************************************************************)
(* Theorems about the rows that the connectors share between requests: the  *)
(* claims of Slack's events, the Slack installation, the selection and the  *)
(* Gmail connection.                                                        *)
(***************************************************************************)
EXTENDS EventDedupe, SlackConnection, Selection, GmailConnection, TLAPS

-----------------------------------------------------------------------------
(* EventDedupe: with a working database, an event is handled once.         *)

\* A worker at stage 2 or beyond with event e.
Handles(w, e) == req[w].pc # "idle" /\ req[w].event = e
\* A worker that won the claim and has not queued the event yet.
Winner(w, e) == Handles(w, e) /\ req[w].pc = "first"
\* The claim was won, at some time.
Won(e) == handed[e] # 0 \/ \E w \in Workers : Winner(w, e)

\* No delivery begins after Slack's window, and no request lasts longer
\* than MaxHandling.
Timely ==
  \A w \in Workers, e \in Events :
    Handles(w, e) => /\ sent[e] > 0
                     /\ req[w].since <= firstSent[e] + RetryWindow
                     /\ now <= req[w].since + MaxHandling
                     /\ req[w].pc # "error"

\* A row is no older than the event's first delivery.
RowsMatchEvents ==
  /\ \A e \in Events : sent[e] > 0 => firstSent[e] <= now
  /\ \A e \in Events : rows[e] # 0 => sent[e] > 0 /\ firstSent[e] <= rows[e]

\* The row of an event once won outlives every request that could claim it.
Protected ==
  \A e \in Events :
    Won(e) => /\ sent[e] > 0
              /\ \/ rows[e] # 0
                 \/ firstSent[e] + RetryWindow + MaxHandling < now

\* Of all who could hand the event over, at most one exists.
OneWinner ==
  \A e \in Events :
    /\ handed[e] <= 1
    /\ \A w \in Workers : Winner(w, e) => handed[e] = 0
    /\ \A v, w \in Workers : Winner(v, e) /\ Winner(w, e) => v = w

(* The inductive invariant.  OneWinner is what matters; a second winner is *)
(* kept out because a claim only succeeds without a row, Protected says    *)
(* that a won event without one is beyond the window, and Timely that no   *)
(* request is.                                                             *)
DInv == TypeOK /\ Timely /\ RowsMatchEvents /\ Protected /\ OneWinner

USE ParameterAssumption, RetentionAssumption

LEMMA InitDInv == Init => DInv
BY DEF Init, DInv, TypeOK, Requests, Idle, NoEvent, Timely, RowsMatchEvents, Protected, OneWinner,
       Won, Winner, Handles

\* A request is the one that waits for the claim, or has its answer.
LEMMA RequestFields ==
  ASSUME TypeOK, NEW w \in Workers, req[w].pc # "idle"
  PROVE  /\ req[w] \in [pc : {"claim", "first", "duplicate", "error"}, event : Events, since : Nat]
         /\ req[w].event \in Events /\ req[w].since \in Nat
BY DEF TypeOK, Requests, Idle

LEMMA TypeStep == TypeOK /\ [Next]_vars => TypeOK'
<1> SUFFICES ASSUME TypeOK, [Next]_vars PROVE TypeOK'
  OBVIOUS
<1> USE DEF TypeOK, slackVars
<1>1. ASSUME NEW cache \in [Events -> Nat] PROVE Evicted(cache) \in [Events -> Nat]
  BY DEF Evicted
<1>2. ASSUME NEW w \in Workers, NEW e \in Events, ReceiveSeen(w, e) PROVE TypeOK'
  BY <1>1, <1>2 DEF ReceiveSeen, Send, Answer200
<1>3. ASSUME NEW w \in Workers, NEW e \in Events, ReceiveNew(w, e) PROVE TypeOK'
  <2>1. req' \in [Workers -> Requests]
    BY <1>3 DEF ReceiveNew, Requests
  <2>2. seen' \in [Workers -> [Events -> Nat]]
    BY <1>1, <1>3 DEF ReceiveNew
  <2> QED
    BY <1>3, <2>1, <2>2 DEF ReceiveNew, Send
<1>4. ASSUME NEW w \in Workers, NEW e \in Events, RunTask(w, e) PROVE TypeOK'
  BY <1>4 DEF RunTask
<1>5. ASSUME NEW w \in Workers, NEW a \in {"first", "duplicate", "error"},
             req[w].pc = "claim", Claimed(w, a)
      PROVE  req' \in [Workers -> Requests]
  <2>1. [req[w] EXCEPT !.pc = a] \in Requests
    BY <1>5, RequestFields DEF Requests
  <2> QED
    BY <1>5, <2>1 DEF Claimed
<1>6. ASSUME NEW w \in Workers, ClaimFirst(w) PROVE TypeOK'
  BY <1>5, <1>6, RequestFields DEF ClaimFirst
<1>7. ASSUME NEW w \in Workers, ClaimDuplicate(w) PROVE TypeOK'
  BY <1>5, <1>7 DEF ClaimDuplicate
<1>8. ASSUME NEW w \in Workers, ClaimFails(w) PROVE TypeOK'
  BY <1>5, <1>8, RequestFields DEF ClaimFails
<1>9. ASSUME NEW w \in Workers, Accept(w) PROVE TypeOK'
  <2>1. PICK e \in Events : e = req[w].event
    BY <1>9, RequestFields DEF Accept
  <2>2. req' \in [Workers -> Requests]
    BY <1>9 DEF Accept, Requests
  <2> QED
    BY <1>9, <2>1, <2>2 DEF Accept, Answer200
<1>10. ASSUME NEW w \in Workers, Drop(w) PROVE TypeOK'
  <2>1. req[w].event \in Events
    BY <1>10, RequestFields DEF Drop
  <2> QED
    BY <1>10, <2>1 DEF Drop, Answer200, Requests
<1>11. ASSUME NEW w \in Workers, Restart(w) PROVE TypeOK'
  BY <1>11 DEF Restart, Requests
<1>12. ASSUME Cleanup PROVE TypeOK'
  BY <1>12 DEF Cleanup
<1>13. ASSUME Tick PROVE TypeOK'
  BY <1>13 DEF Tick
<1>14. CASE UNCHANGED vars
  BY <1>14 DEF vars
<1> QED
  BY <1>2, <1>3, <1>4, <1>6, <1>7, <1>8, <1>9, <1>10, <1>11, <1>12, <1>13, <1>14
     DEF Next, WorkerStep

(* Steps of the invariant.  They are grouped by what they may change: who  *)
(* handles what (Receive, Claim*, Accept, Drop, Restart), the rows, the    *)
(* clock.                                                                  *)
LEMMA StepDInv == Outages = FALSE /\ DInv /\ [Next]_vars => DInv'
<1> SUFFICES ASSUME Outages = FALSE, DInv, [Next]_vars PROVE DInv'
  OBVIOUS
<1>0. TypeOK /\ TypeOK'
  BY TypeStep DEF DInv
<1> DEFINE Rest == Timely /\ RowsMatchEvents /\ Protected /\ OneWinner
<1>1. Rest
  BY DEF DInv
<1> SUFFICES Rest'
  BY <1>0 DEF DInv
<1> USE <1>0, <1>1
\* A step that leaves the requests, rows, deliveries and hand-overs alone.
<1>2. ASSUME UNCHANGED <<now, req, rows, handed, sent, firstSent>> PROVE Rest'
  BY <1>2 DEF Timely, RowsMatchEvents, Protected, OneWinner, Won, Winner, Handles
\* A step after which worker w handles nothing, and nothing else changed.
<1>3. ASSUME NEW w \in Workers, req' = [req EXCEPT ![w] = Idle],
             UNCHANGED <<now, rows, handed, sent, firstSent>>
      PROVE  Rest'
  <2>1. \A v \in Workers, e \in Events : Handles(v, e)' => Handles(v, e) /\ req'[v] = req[v]
    BY <1>3 DEF Handles, TypeOK, Idle
  <2>2. \A v \in Workers, e \in Events : Winner(v, e)' => Winner(v, e)
    BY <2>1 DEF Winner
  <2> QED
    BY <1>3, <2>1, <2>2 DEF Timely, RowsMatchEvents, Protected, OneWinner, Won
\* A delivery: firstSent is set by the first one only, and is never later
\* than now.
<1>4. ASSUME NEW e \in Events, Send(e), UNCHANGED <<now, rows>>
      PROVE  /\ RowsMatchEvents'
             /\ sent'[e] > 0 /\ now <= firstSent'[e] + RetryWindow
             /\ \A f \in Events : sent[f] > 0 => sent'[f] > 0 /\ firstSent'[f] = firstSent[f]
  BY <1>4 DEF Send, RowsMatchEvents, TypeOK
<1>5. ASSUME NEW w \in Workers, NEW e \in Events, ReceiveSeen(w, e) PROVE Rest'
  <2>1. UNCHANGED <<now, req, rows, handed>> /\ Send(e)
    BY <1>5 DEF ReceiveSeen
  <2>2. \A v \in Workers, f \in Events :
          (Handles(v, f)' <=> Handles(v, f)) /\ (Winner(v, f)' <=> Winner(v, f))
    BY <2>1 DEF Handles, Winner
  <2> QED
    BY <1>4, <2>1, <2>2 DEF Timely, Protected, OneWinner, Won
<1>6. ASSUME NEW w \in Workers, NEW e \in Events, ReceiveNew(w, e) PROVE Rest'
  <2>1. /\ UNCHANGED <<now, rows, handed>> /\ Send(e)
        /\ req[w] = Idle
        /\ req' = [req EXCEPT ![w] = [pc |-> "claim", event |-> e, since |-> now]]
    BY <1>6 DEF ReceiveNew
  <2>2. \A v \in Workers, f \in Events :
          Handles(v, f)' => \/ Handles(v, f) /\ req'[v] = req[v]
                            \/ v = w /\ f = e /\ req'[v].since = now /\ req'[v].pc = "claim"
    BY <2>1 DEF Handles, TypeOK, Idle
  <2>3. \A v \in Workers, f \in Events : Winner(v, f)' <=> Winner(v, f)
    BY <2>1 DEF Winner, Handles, TypeOK, Idle
  <2>4. Timely'
    BY <1>4, <2>1, <2>2 DEF Timely, TypeOK
  <2> QED
    BY <1>4, <2>1, <2>3, <2>4 DEF Protected, OneWinner, Won
<1>7. ASSUME NEW w \in Workers, ClaimFirst(w) PROVE Rest'
  <2> DEFINE e == req[w].event
  <2>1. /\ req[w].pc = "claim" /\ rows[e] = 0 /\ Handles(w, e)
        /\ e \in Events /\ rows' = [rows EXCEPT ![e] = now]
        /\ req' = [req EXCEPT ![w].pc = "first"]
        /\ UNCHANGED <<now, handed, sent, firstSent>>
    BY <1>7, RequestFields DEF ClaimFirst, Claimed, Handles, slackVars
  <2>2. ~Won(e)
    <3>1. /\ sent[e] > 0 /\ req[w].since <= firstSent[e] + RetryWindow
          /\ now <= req[w].since + MaxHandling
      BY <2>1 DEF Timely
    <3>2. req[w].since \in Nat /\ now \in Nat /\ firstSent[e] \in Nat
      BY <2>1, RequestFields DEF TypeOK
    <3>3. now <= firstSent[e] + RetryWindow + MaxHandling
      BY <3>1, <3>2
    <3> QED
      BY <2>1, <3>2, <3>3 DEF Protected
  <2>3. /\ req'[w].pc = "first" /\ req'[w].event = e /\ req'[w].since = req[w].since
        /\ \A v \in Workers : v # w => req'[v] = req[v]
    BY <2>1 DEF TypeOK, Requests
  <2>4. \A v \in Workers, f \in Events : Handles(v, f)' <=> Handles(v, f)
    BY <2>1, <2>3 DEF Handles
  <2>5. \A v \in Workers, f \in Events : Winner(v, f)' <=> Winner(v, f) \/ (v = w /\ f = e)
    BY <2>1, <2>3, <2>4 DEF Winner, Handles
  <2>6. Timely' /\ RowsMatchEvents'
    BY <2>1, <2>3, <2>4 DEF Timely, RowsMatchEvents, TypeOK
  <2>7. Protected'
    <3>1. ASSUME NEW f \in Events, Won(f)' PROVE f = e \/ Won(f)
      BY <2>1, <2>5, <3>1 DEF Won
    <3>2. sent[e] > 0 /\ rows'[e] # 0
      BY <2>1 DEF Timely, TypeOK
    <3>3. \A f \in Events : f # e => rows'[f] = rows[f]
      BY <2>1 DEF TypeOK
    <3> QED
      BY <2>1, <3>1, <3>2, <3>3 DEF Protected
  <2>8. OneWinner'
    BY <2>1, <2>2, <2>5 DEF OneWinner, Won
  <2> QED
    BY <2>6, <2>7, <2>8
<1>8. ASSUME NEW w \in Workers, ClaimDuplicate(w) PROVE Rest'
  <2>1. /\ req' = [req EXCEPT ![w].pc = "duplicate"] /\ req[w].pc = "claim"
        /\ UNCHANGED <<now, rows, handed, sent, firstSent>>
    BY <1>8 DEF ClaimDuplicate, Claimed, slackVars
  <2>2. /\ req'[w].pc = "duplicate" /\ req'[w].event = req[w].event
        /\ req'[w].since = req[w].since
        /\ \A v \in Workers : v # w => req'[v] = req[v]
    BY <2>1 DEF TypeOK, Requests
  <2>3. \A v \in Workers, f \in Events :
          (Handles(v, f)' <=> Handles(v, f)) /\ (Winner(v, f)' <=> Winner(v, f))
    BY <2>1, <2>2 DEF Handles, Winner
  <2> QED
    BY <2>1, <2>2, <2>3 DEF Timely, RowsMatchEvents, Protected, OneWinner, Won
<1>9. ASSUME NEW w \in Workers, Accept(w) PROVE Rest'
  <2> DEFINE e == req[w].event
  <2>1. /\ Winner(w, e) /\ e \in Events
        /\ handed' = [handed EXCEPT ![e] = @ + 1]
        /\ req' = [req EXCEPT ![w] = Idle]
        /\ UNCHANGED <<now, rows, sent, firstSent>>
    BY <1>9, RequestFields DEF Accept, Timely, Winner, Handles
  <2>2. \A v \in Workers, f \in Events : Handles(v, f)' => v # w /\ Handles(v, f) /\ req'[v] = req[v]
    BY <2>1 DEF Handles, TypeOK, Idle
  <2>3. \A v \in Workers, f \in Events : Winner(v, f)' => v # w /\ Winner(v, f)
    BY <2>2 DEF Winner
  <2>4. \A f \in Events : Won(f)' => Won(f)
    BY <2>1, <2>3 DEF Won, TypeOK
  <2>5. Timely' /\ RowsMatchEvents' /\ Protected'
    BY <2>1, <2>2, <2>4 DEF Timely, RowsMatchEvents, Protected
  <2>6. OneWinner'
    BY <2>1, <2>3 DEF OneWinner, TypeOK
  <2> QED
    BY <2>5, <2>6
<1>10. ASSUME NEW w \in Workers, Drop(w) PROVE Rest'
  BY <1>3, <1>10 DEF Drop
<1>11. ASSUME NEW w \in Workers, Restart(w) PROVE Rest'
  BY <1>3, <1>11 DEF Restart, slackVars
<1>12. ASSUME Cleanup PROVE Rest'
  <2>1. /\ UNCHANGED <<now, req, handed, sent, firstSent>>
        /\ rows' = [e \in Events |-> IF rows[e] + Retain < now THEN 0 ELSE rows[e]]
    BY <1>12 DEF Cleanup, slackVars
  <2>2. \A v \in Workers, f \in Events :
          (Handles(v, f)' <=> Handles(v, f)) /\ (Winner(v, f)' <=> Winner(v, f))
    BY <2>1 DEF Handles, Winner
  <2>3. Timely' /\ RowsMatchEvents' /\ OneWinner'
    BY <2>1, <2>2 DEF Timely, RowsMatchEvents, OneWinner
  \* The row that goes is older than Retain, so its window is over.
  <2>4. ASSUME NEW e \in Events, Won(e)'
        PROVE  /\ sent'[e] > 0
               /\ rows'[e] # 0 \/ firstSent'[e] + RetryWindow + MaxHandling < now'
    <3>1. Won(e)
      BY <2>1, <2>2, <2>4 DEF Won
    <3> QED
      BY <2>1, <3>1 DEF Protected, RowsMatchEvents, TypeOK
  <2> QED
    BY <2>3, <2>4 DEF Protected
<1>13. ASSUME Tick PROVE Rest'
  <2>1. /\ UNCHANGED <<req, rows, handed, sent, firstSent>> /\ now' = now + 1
        /\ \A w \in Workers : req[w] = Idle \/ now < req[w].since + MaxHandling
    BY <1>13 DEF Tick, slackVars
  <2>2. \A v \in Workers, f \in Events :
          (Handles(v, f)' <=> Handles(v, f)) /\ (Winner(v, f)' <=> Winner(v, f))
    BY <2>1 DEF Handles, Winner
  <2>3. Timely'
    <3> SUFFICES ASSUME NEW v \in Workers, NEW f \in Events, Handles(v, f)
                 PROVE  now + 1 <= req[v].since + MaxHandling
      BY <2>1, <2>2 DEF Timely
    <3>1. now < req[v].since + MaxHandling
      BY <2>1 DEF Handles, Idle
    <3>2. req[v].since \in Nat /\ now \in Nat
      BY RequestFields DEF Handles, TypeOK
    <3> QED
      BY <3>1, <3>2
  <2>4. RowsMatchEvents' /\ OneWinner' /\ Protected'
    BY <2>1, <2>2 DEF RowsMatchEvents, OneWinner, Protected, Won, TypeOK
  <2> QED
    BY <2>3, <2>4
<1>14. ASSUME NEW w \in Workers, NEW e \in Events, RunTask(w, e) PROVE Rest'
  BY <1>2, <1>14 DEF RunTask, slackVars
<1>15. CASE UNCHANGED vars
  BY <1>2, <1>15 DEF vars, slackVars
<1>16. \A w \in Workers : ~ClaimFails(w)
  BY DEF ClaimFails
<1> QED
  BY <1>5, <1>6, <1>7, <1>8, <1>9, <1>10, <1>11, <1>12, <1>13, <1>14, <1>15, <1>16
     DEF Next, WorkerStep

(* Type correctness, with or without outages.                              *)
THEOREM DedupeTypeCorrect == Spec => []TypeOK
<1>1. Init => TypeOK
  BY InitDInv DEF DInv
<1> QED
  BY <1>1, TypeStep, PTL DEF Spec

(* While Supabase answers, claim_slack_event_id and the 24 h retention let *)
(* no event through twice.                                                 *)
THEOREM HandedOnce == Spec => []AtMostOnce
<1>1. CASE Outages
  <2>1. AtMostOnce
    BY <1>1 DEF AtMostOnce
  <2> QED
    BY <2>1, PTL
<1>2. CASE Outages = FALSE
  <2>1. DInv => AtMostOnce
    BY <1>2 DEF DInv, OneWinner, AtMostOnce
  <2>2. DInv /\ [Next]_vars => DInv'
    BY <1>2, StepDInv
  <2> QED
    BY <2>1, <2>2, InitDInv, PTL DEF Spec
<1> QED
  BY <1>1, <1>2

\* An event waits in at most one queue, once, and only until it runs.
QueuedOnce ==
  \A e \in Events :
    /\ handed[e] = 0 => runs[e] = 0
    /\ \A w \in Workers :
         queue[w][e] # 0 => queue[w][e] = 1 /\ handed[e] = 1 /\ runs[e] = 0
    /\ \A v, w \in Workers : queue[v][e] # 0 /\ queue[w][e] # 0 => v = w

LEMMA StepQueued ==
  Outages = FALSE /\ DInv /\ QueuedOnce /\ [Next]_vars => QueuedOnce'
<1> SUFFICES ASSUME Outages = FALSE, DInv, QueuedOnce, [Next]_vars PROVE QueuedOnce'
  OBVIOUS
<1> USE DEF QueuedOnce
<1>0. TypeOK
  BY DEF DInv
<1>1. ASSUME NEW w \in Workers, Accept(w) PROVE QueuedOnce'
  <2> DEFINE e == req[w].event
  <2>1. /\ e \in Events /\ handed[e] = 0 /\ UNCHANGED runs
        /\ handed' = [handed EXCEPT ![e] = @ + 1]
        /\ queue' = [queue EXCEPT ![w][e] = @ + 1]
    BY <1>0, <1>1, RequestFields
       DEF Accept, DInv, Timely, OneWinner, Winner, Handles
  <2>2. \A v \in Workers : queue[v][e] = 0
    BY <2>1
  <2>3. /\ handed'[e] = 1 /\ runs'[e] = 0 /\ queue'[w][e] = 1
        /\ \A v \in Workers : v # w => queue'[v][e] = 0
        /\ \A f \in Events : f # e => /\ handed'[f] = handed[f] /\ runs'[f] = runs[f]
                                      /\ \A v \in Workers : queue'[v][f] = queue[v][f]
    BY <1>0, <2>1, <2>2 DEF TypeOK
  <2> QED
    BY <2>3
<1>2. ASSUME NEW w \in Workers, NEW e \in Events, RunTask(w, e) PROVE QueuedOnce'
  <2>1. /\ queue[w][e] = 1 /\ handed[e] = 1 /\ runs[e] = 0 /\ UNCHANGED handed
        /\ queue' = [queue EXCEPT ![w][e] = @ - 1]
        /\ runs' = [runs EXCEPT ![e] = @ + 1]
    BY <1>0, <1>2 DEF RunTask, TypeOK
  <2>2. /\ \A v \in Workers : queue'[v][e] = 0
        /\ \A f \in Events : f # e => /\ runs'[f] = runs[f]
                                      /\ \A v \in Workers : queue'[v][f] = queue[v][f]
    BY <1>0, <2>1 DEF TypeOK
  <2> QED
    BY <2>1, <2>2
<1>3. ASSUME NEW w \in Workers, Restart(w) PROVE QueuedOnce'
  <2>1. /\ UNCHANGED <<handed, runs>>
        /\ \A v \in Workers, f \in Events : queue'[v][f] # 0 => queue'[v][f] = queue[v][f]
    BY <1>0, <1>3 DEF Restart, TypeOK
  <2> QED
    BY <2>1
<1>4. CASE UNCHANGED <<queue, handed, runs>>
  BY <1>4
<1> QED
  BY <1>1, <1>2, <1>3, <1>4
     DEF Next, WorkerStep, ReceiveSeen, ReceiveNew, ClaimFirst, ClaimDuplicate, ClaimFails,
         Drop, Cleanup, Tick, vars

(* Every step of the webhook with a working database hands an event over   *)
(* for the first time, runs a handed-over one, or is invisible.            *)
THEOREM ClaimRefined == Outages = FALSE /\ Spec => ImplementsEventClaim
<1> SUFFICES ASSUME Outages = FALSE PROVE Spec => ImplementsEventClaim
  OBVIOUS
<1> DEFINE I == DInv /\ QueuedOnce
<1>1. Init => Claim!Init /\ I
  BY InitDInv DEF Init, Claim!Init, QueuedOnce
<1>2. I /\ [Next]_vars => I'
  BY StepDInv, StepQueued
<1>3. I /\ [Next]_vars => [Claim!Next]_<<handed, runs>>
  <2> SUFFICES ASSUME I, [Next]_vars, <<handed, runs>>' # <<handed, runs>>
               PROVE  Claim!Next
    OBVIOUS
  <2>0. TypeOK
    BY DEF DInv
  <2>1. \/ \E w \in Workers : Accept(w)
        \/ \E w \in Workers, e \in Events : RunTask(w, e)
    BY DEF Next, WorkerStep, ReceiveSeen, ReceiveNew, ClaimFirst, ClaimDuplicate, ClaimFails,
           Drop, Restart, Cleanup, Tick, vars
  <2>2. ASSUME NEW w \in Workers, Accept(w) PROVE \E e \in Events : Claim!Hand(e)
    <3>1. /\ req[w].event \in Events /\ handed[req[w].event] = 0 /\ UNCHANGED runs
          /\ handed' = [handed EXCEPT ![req[w].event] = @ + 1]
      BY <2>0, <2>2, RequestFields DEF Accept, DInv, Timely, OneWinner, Winner, Handles
    <3>2. handed' = [handed EXCEPT ![req[w].event] = 1]
      BY <2>0, <3>1 DEF TypeOK
    <3> QED
      BY <3>1, <3>2 DEF Claim!Hand
  <2>3. ASSUME NEW w \in Workers, NEW e \in Events, RunTask(w, e) PROVE Claim!Run(e)
    <3>1. queue[w][e] # 0 /\ runs' = [runs EXCEPT ![e] = @ + 1] /\ UNCHANGED handed
      BY <2>0, <2>3 DEF RunTask, TypeOK
    <3>2. handed[e] = 1 /\ runs[e] = 0
      BY <3>1 DEF QueuedOnce
    <3> QED
      BY <3>1, <3>2 DEF Claim!Run
  <2> QED
    BY <2>1, <2>2, <2>3 DEF Claim!Next
<1> QED
  BY <1>1, <1>2, <1>3, PTL DEF Spec, ImplementsEventClaim, Claim!Spec

-----------------------------------------------------------------------------
(* EventDedupe, whatever the database does: the cache of one process.      *)

\* Worker w has event e in its hands, or has queued it since it started.
Took(w, e) == local[w][e] # 0 \/ Handles(w, e)

\* Slack's retries of e are over.
Over(e) == firstSent[e] + RetryWindow < now

\* The entry of e in w's cache is no older than its first delivery.
Cached(w, e) == seen[w][e] >= firstSent[e] /\ seen[w][e] # 0

\* What a process took it finds in its cache until Slack's retries of it
\* are over; what it has in its hands it has not taken before.
TakenOnce ==
  \A w \in Workers, e \in Events :
    /\ local[w][e] <= 1 /\ (Handles(w, e) => local[w][e] = 0)
    /\ Took(w, e) => sent[e] > 0 /\ (Over(e) \/ Cached(w, e))

OnceInv == TypeOK /\ TakenOnce /\ \A e \in Events : firstSent[e] <= now

LEMMA OnceTypes ==
  ASSUME TypeOK, NEW w \in Workers, NEW e \in Events
  PROVE  /\ seen[w] \in [Events -> Nat] /\ seen[w][e] \in Nat /\ local[w][e] \in Nat
         /\ firstSent[e] \in Nat /\ sent[e] \in Nat /\ now \in Nat \ {0}
         /\ SeenTTL \in Nat /\ RetryWindow \in Nat
BY DEF TypeOK

LEMMA EvictedAt ==
  ASSUME TypeOK, NEW w \in Workers, NEW e \in Events
  PROVE  /\ Evicted(seen[w]) \in [Events -> Nat]
         /\ \/ Evicted(seen[w])[e] = seen[w][e]
            \/ Evicted(seen[w])[e] = 0 /\ seen[w][e] + SeenTTL < now
BY OnceTypes DEF Evicted

\* Steps that neither take an event nor touch the cache or Slack's side.
LEMMA OnceQuiet ==
  ASSUME OnceInv, TypeOK', UNCHANGED <<seen, sent, firstSent, local>>, now' >= now,
         \A w \in Workers, e \in Events : Handles(w, e)' => Handles(w, e)
  PROVE  OnceInv'
<1>1. ASSUME NEW w \in Workers, NEW e \in Events
      PROVE  /\ local'[w][e] <= 1 /\ (Handles(w, e)' => local'[w][e] = 0)
             /\ Took(w, e)' => sent'[e] > 0 /\ (Over(e)' \/ Cached(w, e)')
  <2>1. now' \in Nat
    BY DEF TypeOK
  <2> QED BY <2>1, OnceTypes DEF OnceInv, TakenOnce, Took, Over, Cached
<1>2. \A e \in Events : firstSent'[e] <= now'
  <2>1. now' \in Nat
    BY DEF TypeOK
  <2> QED BY <2>1 DEF OnceInv, TypeOK
<1> QED BY <1>1, <1>2 DEF OnceInv, TakenOnce

\* What Send changes.
LEMMA SendFacts ==
  ASSUME OnceInv, NEW e \in Events, Send(e)
  PROVE  /\ sent[e] = 0 \/ ~Over(e)
         /\ sent'[e] > 0 /\ firstSent'[e] <= now
         /\ \A f \in Events : f # e => sent'[f] = sent[f] /\ firstSent'[f] = firstSent[f]
         /\ sent[e] # 0 => firstSent'[e] = firstSent[e]
         /\ \A f \in Events : firstSent'[f] <= now
BY DEF Send, Over, OnceInv, TypeOK

LEMMA OnceSeen ==
  ASSUME OnceInv, RetryWindow < SeenTTL, TypeOK', NEW w \in Workers, NEW e \in Events, ReceiveSeen(w, e)
  PROVE  OnceInv'
<1>1. /\ seen' = [seen EXCEPT ![w] = Evicted(seen[w])] /\ Send(e)
      /\ UNCHANGED <<now, req, local>> /\ TypeOK
  BY DEF ReceiveSeen, OnceInv
<1>2. ASSUME NEW v \in Workers, NEW f \in Events
      PROVE  /\ local'[v][f] <= 1 /\ (Handles(v, f)' => local'[v][f] = 0)
             /\ Took(v, f)' => sent'[f] > 0 /\ (Over(f)' \/ Cached(v, f)')
  <2>1. Took(v, f)' = Took(v, f) /\ (Handles(v, f)' <=> Handles(v, f))
    BY <1>1 DEF Took, Handles
  <2>2. ASSUME Took(v, f)
        PROVE  /\ sent[f] > 0 /\ sent'[f] > 0 /\ firstSent'[f] = firstSent[f]
               /\ Over(f) \/ Cached(v, f)
    BY <1>1, <2>2, SendFacts, OnceTypes DEF OnceInv, TakenOnce
  <2>3. seen'[v][f] = seen[v][f] \/ (seen[v][f] + SeenTTL < now)
    <3>1. seen'[v] = IF v = w THEN Evicted(seen[w]) ELSE seen[v]
      BY <1>1 DEF TypeOK
    <3> QED BY <1>1, <3>1, EvictedAt
  <2> QED BY <1>1, <2>1, <2>2, <2>3, OnceTypes DEF OnceInv, TakenOnce, Over, Cached
<1>3. \A f \in Events : firstSent'[f] <= now'
  BY <1>1, SendFacts
<1> QED BY <1>2, <1>3 DEF OnceInv, TakenOnce

LEMMA OnceNew ==
  ASSUME OnceInv, RetryWindow < SeenTTL, TypeOK', NEW w \in Workers, NEW e \in Events, ReceiveNew(w, e)
  PROVE  OnceInv'
<1>1. /\ seen' = [seen EXCEPT ![w] = [Evicted(seen[w]) EXCEPT ![e] = now]] /\ Send(e)
      /\ req[w] = Idle /\ req' = [req EXCEPT ![w] = [pc |-> "claim", event |-> e, since |-> now]]
      /\ ~Fresh(Evicted(seen[w]), e) /\ UNCHANGED <<now, local>> /\ TypeOK
  BY DEF ReceiveNew, OnceInv
<1>2. ~Took(w, e)
  <2>1. SUFFICES ASSUME Took(w, e) PROVE FALSE
    OBVIOUS
  <2>2. sent[e] > 0 /\ ~Over(e) /\ seen[w][e] >= firstSent[e] /\ seen[w][e] # 0
    BY <1>1, <2>1, SendFacts, OnceTypes DEF OnceInv, TakenOnce, Cached
  <2>3. now < seen[w][e] + SeenTTL
    BY <1>1, <2>2, OnceTypes DEF Over
  <2>4. Evicted(seen[w])[e] = seen[w][e]
    BY <1>1, <2>3, EvictedAt, OnceTypes
  <2> QED BY <1>1, <2>2, <2>3, <2>4 DEF Fresh
<1>3. ASSUME NEW v \in Workers, NEW f \in Events, ~(v = w /\ f = e)
      PROVE  /\ local'[v][f] <= 1 /\ (Handles(v, f)' => local'[v][f] = 0)
             /\ Took(v, f)' => sent'[f] > 0 /\ (Over(f)' \/ Cached(v, f)')
  <2>1. Handles(v, f)' => Handles(v, f)
    <3>1. CASE v = w
      BY <1>1, <1>3, <3>1 DEF Handles, TypeOK
    <3>2. CASE v # w
      BY <1>1, <3>2 DEF Handles, TypeOK
    <3> QED BY <3>1, <3>2
  <2>2. Took(v, f)' => Took(v, f)
    BY <1>1, <2>1 DEF Took
  <2>3. ASSUME Took(v, f)
        PROVE  /\ sent[f] > 0 /\ sent'[f] > 0 /\ firstSent'[f] = firstSent[f]
               /\ Over(f) \/ Cached(v, f)
    BY <1>1, <2>3, SendFacts, OnceTypes DEF OnceInv, TakenOnce
  <2>4. seen'[v][f] = seen[v][f] \/ (seen[v][f] + SeenTTL < now)
    <3>1. CASE v # w
      BY <1>1, <3>1 DEF TypeOK
    <3>2. CASE v = w
      <4>1. f # e /\ seen'[w] = [Evicted(seen[w]) EXCEPT ![e] = now]
        BY <1>1, <1>3, <3>2 DEF TypeOK
      <4>2. seen'[v][f] = Evicted(seen[w])[f]
        BY <1>1, <3>2, <4>1, EvictedAt
      <4> QED BY <1>1, <3>2, <4>2, EvictedAt
    <3> QED BY <3>1, <3>2
  <2> QED BY <1>1, <2>1, <2>2, <2>3, <2>4, OnceTypes DEF OnceInv, TakenOnce, Over, Cached
<1>4. /\ local'[w][e] <= 1 /\ local'[w][e] = 0
      /\ sent'[e] > 0 /\ Cached(w, e)'
  <2>1. local[w][e] = 0
    BY <1>2 DEF Took
  <2>2. seen'[w][e] = now
    <3>1. seen'[w] = [Evicted(seen[w]) EXCEPT ![e] = now]
      BY <1>1 DEF TypeOK
    <3> QED BY <1>1, <3>1, EvictedAt
  <2> QED BY <1>1, <2>1, <2>2, SendFacts, OnceTypes DEF TypeOK, Cached
<1>5. \A f \in Events : firstSent'[f] <= now'
  BY <1>1, SendFacts
<1> QED BY <1>3, <1>4, <1>5 DEF OnceInv, TakenOnce

LEMMA OnceAccept ==
  ASSUME OnceInv, TypeOK', NEW w \in Workers, Accept(w)
  PROVE  OnceInv'
<1>1. PICK e \in Events : e = req[w].event
  BY RequestFields DEF Accept, OnceInv
<1>2. /\ Handles(w, e) /\ local' = [local EXCEPT ![w][e] = @ + 1] /\ req' = [req EXCEPT ![w] = Idle]
      /\ UNCHANGED <<now, seen, sent, firstSent>> /\ TypeOK
  BY <1>1 DEF Accept, Handles, OnceInv
<1>3. local[w][e] = 0 /\ local'[w][e] = 1 /\ Idle.pc = "idle"
  BY <1>2 DEF OnceInv, TakenOnce, TypeOK, Idle
<1>4. ASSUME NEW v \in Workers, NEW f \in Events
      PROVE  /\ local'[v][f] <= 1 /\ (Handles(v, f)' => local'[v][f] = 0)
             /\ Took(v, f)' => sent'[f] > 0 /\ (Over(f)' \/ Cached(v, f)')
  <2>1. Handles(v, f)' => Handles(v, f) /\ v # w
    BY <1>2, <1>3 DEF Handles, TypeOK
  <2>2. ~(v = w /\ f = e) => local'[v][f] = local[v][f]
    BY <1>2 DEF TypeOK
  <2>3. Took(v, f)' => Took(v, f)
    BY <1>2, <2>1, <2>2 DEF Took
  <2> QED BY <1>2, <1>3, <2>1, <2>2, <2>3 DEF OnceInv, TakenOnce, Over, Cached
<1> QED BY <1>2, <1>4 DEF OnceInv, TakenOnce

LEMMA OnceRestart ==
  ASSUME OnceInv, TypeOK', NEW w \in Workers, Restart(w)
  PROVE  OnceInv'
<1>1. /\ req' = [req EXCEPT ![w] = Idle] /\ seen' = [seen EXCEPT ![w] = [e \in Events |-> 0]]
      /\ local' = [local EXCEPT ![w] = [e \in Events |-> 0]]
      /\ UNCHANGED <<now, sent, firstSent>> /\ TypeOK /\ Idle.pc = "idle"
  BY DEF Restart, slackVars, OnceInv, Idle
<1>2. ASSUME NEW v \in Workers, NEW f \in Events
      PROVE  /\ local'[v][f] <= 1 /\ (Handles(v, f)' => local'[v][f] = 0)
             /\ Took(v, f)' => sent'[f] > 0 /\ (Over(f)' \/ Cached(v, f)')
  <2>1. CASE v = w
    BY <1>1, <2>1 DEF Handles, Took, TypeOK
  <2>2. CASE v # w
    <3>1. seen'[v] = seen[v] /\ local'[v] = local[v] /\ req'[v] = req[v]
      BY <1>1, <2>2 DEF TypeOK
    <3> QED BY <1>1, <3>1 DEF Handles, Took, OnceInv, TakenOnce, Over, Cached
  <2> QED BY <2>1, <2>2
<1> QED BY <1>1, <1>2 DEF OnceInv, TakenOnce

LEMMA OnceStep == RetryWindow < SeenTTL /\ OnceInv /\ [Next]_vars => OnceInv'
<1> SUFFICES ASSUME RetryWindow < SeenTTL, OnceInv, [Next]_vars PROVE OnceInv'
  OBVIOUS
<1>0. TypeOK /\ TypeOK' /\ now \in Nat
  BY TypeStep DEF OnceInv, TypeOK
<1>1. ASSUME NEW w \in Workers, NEW a, req[w].pc # "idle", a # "idle", Claimed(w, a)
      PROVE  \A v \in Workers, e \in Events : Handles(v, e)' => Handles(v, e)
  BY <1>0, <1>1, RequestFields DEF Claimed, Handles, TypeOK
<1>2. ASSUME NEW w \in Workers, ClaimFirst(w) \/ ClaimDuplicate(w) \/ ClaimFails(w) PROVE OnceInv'
  <2>1. PICK a \in {"first", "duplicate", "error"} : Claimed(w, a) /\ req[w].pc = "claim"
    BY <1>2 DEF ClaimFirst, ClaimDuplicate, ClaimFails
  <2>2. UNCHANGED <<now, seen, sent, firstSent, local>>
    BY <1>2 DEF ClaimFirst, ClaimDuplicate, ClaimFails, slackVars
  <2> QED BY <1>0, <1>1, <2>1, <2>2, OnceQuiet
<1>3. ASSUME NEW w \in Workers, Drop(w) PROVE OnceInv'
  <2>1. \A v \in Workers, e \in Events : Handles(v, e)' => Handles(v, e)
    BY <1>0, <1>3 DEF Drop, Handles, Idle, TypeOK
  <2> QED BY <1>0, <1>3, <2>1, OnceQuiet DEF Drop
<1>4. CASE UNCHANGED vars \/ Cleanup \/ Tick \/ \E w \in Workers, e \in Events : RunTask(w, e)
  <2>1. UNCHANGED <<req, seen, sent, firstSent, local>> /\ now' >= now
    BY <1>0, <1>4 DEF vars, slackVars, Cleanup, Tick, RunTask
  <2> QED BY <1>0, <2>1, OnceQuiet DEF Handles
<1> QED
  BY <1>0, <1>2, <1>3, <1>4, OnceSeen, OnceNew, OnceAccept, OnceRestart DEF Next, WorkerStep

(* For any workers, events and caps, with failing claims, lost answers,    *)
(* restarts and evictions: while the entries of the cache outlive Slack's  *)
(* retries, no process hands an event over twice before it is restarted    *)
(* (_event_already_seen).                                                  *)
THEOREM OncePerProcessHolds == Spec => []OncePerProcess
<1>1. Init => OnceInv
  BY DEF Init, OnceInv, TypeOK, Requests, Idle, NoEvent, TakenOnce, Took, Handles
<1>2. OnceInv => OncePerProcess
  BY DEF OnceInv, TakenOnce, OncePerProcess
<1>3. CASE RetryWindow < SeenTTL
  <2>1. OnceInv /\ [Next]_vars => OnceInv'
    BY <1>3, OnceStep
  <2> QED BY <1>1, <1>2, <2>1, PTL DEF Spec
<1>4. CASE ~(RetryWindow < SeenTTL)
  <2>1. OncePerProcess
    BY <1>4 DEF OncePerProcess
  <2> QED BY <2>1, PTL
<1> QED BY <1>3, <1>4

-----------------------------------------------------------------------------
(* SlackConnection, for any teams, channels and requests.                  *)

USE ConnectionAssumption

(* Rows carry the id of the installation there is; without one the id is 0. *)
RowsFollow == \A c \in Channels : channelRows[c] # 0 => channelRows[c] = install.id

(* Tokens that requests and the installation hold were issued.              *)
TokensIssued ==
  /\ install # None => install.token \in 1..tokens
  /\ \A p \in Callers : serving[p].pc # "idle" => serving[p].row.token \in 1..tokens

CInv == ConnectionTypeOK /\ RowsFollow /\ TokensIssued

CallPcs == {"idle", "upsert", "list", "rows", "show", "shown", "revoke", "delete"}

-----------------------------------------------------------------------------
LEMMA IdleType == None \in Installs /\ None.id = 0 /\ NotServing \in ReqStates /\ NotServing.pc = "idle"
BY DEF None, Installs, NotServing, ReqStates

\* The updates of a request that the steps make.
LEMMA ReqPc ==
  ASSUME NEW r \in ReqStates, NEW pc \in CallPcs
  PROVE  /\ r.pc \in CallPcs /\ r.row \in Installs
         /\ [r EXCEPT !.pc = pc] \in ReqStates /\ [r EXCEPT !.pc = pc].row = r.row
BY DEF ReqStates, CallPcs

LEMMA ReqRow ==
  ASSUME NEW r \in ReqStates, NEW pc \in CallPcs, NEW row \in Installs
  PROVE  /\ [r EXCEPT !.pc = pc, !.row = row] \in ReqStates
         /\ [r EXCEPT !.pc = pc, !.row = row].row = row
BY DEF ReqStates, CallPcs

LEMMA ReqChannels ==
  ASSUME NEW r \in ReqStates, NEW pc \in CallPcs, NEW cs \in SUBSET Channels
  PROVE  /\ [r EXCEPT !.pc = pc, !.fresh = cs] \in ReqStates
         /\ [r EXCEPT !.pc = pc, !.fresh = cs].row = r.row
         /\ [r EXCEPT !.pc = pc, !.shown = cs] \in ReqStates
         /\ [r EXCEPT !.pc = pc, !.shown = cs].row = r.row
BY DEF ReqStates, CallPcs

LEMMA InstallUpdate ==
  ASSUME NEW row \in Installs, NEW id \in Nat
  PROVE  /\ [row EXCEPT !.id = id] \in Installs /\ [row EXCEPT !.id = id].id = id
         /\ [row EXCEPT !.id = id].token = row.token
         /\ row.id \in Nat /\ row.token \in Nat
BY DEF Installs

LEMMA CInvInit == ConnectionInit => CInv
<1> SUFFICES ASSUME ConnectionInit PROVE CInv
  OBVIOUS
<1>1. \A p \in Callers : serving[p] = NotServing
  BY DEF ConnectionInit
<1>2. ConnectionTypeOK
  BY IdleType DEF ConnectionInit, ConnectionTypeOK
<1> QED BY <1>1, <1>2, IdleType DEF ConnectionInit, CInv, RowsFollow, TokensIssued

\* A step of p that changes its own local variables only, and keeps its token.
LEMMA LocalStep ==
  ASSUME CInv, NEW p \in Callers, NEW r \in ReqStates, serving' = [serving EXCEPT ![p] = r],
         r.pc # "idle" => r.row.token \in 1..tokens,
         UNCHANGED <<install, channelRows, lastId, tokens, gone>>,
         live' \subseteq live, tried' \subseteq 1..tokens
  PROVE  CInv'
<1>1. /\ serving' \in [Callers -> ReqStates]
      /\ \A q \in Callers : serving'[q] = IF q = p THEN r ELSE serving[q]
  BY DEF CInv, ConnectionTypeOK
<1>2. ConnectionTypeOK'
  BY <1>1 DEF CInv, ConnectionTypeOK
<1>3. RowsFollow'
  BY DEF CInv, RowsFollow
<1>4. TokensIssued'
  BY <1>1 DEF CInv, TokensIssued
<1> QED BY <1>2, <1>3, <1>4 DEF CInv

-----------------------------------------------------------------------------
(* OAuth callbacks.                                                         *)

LEMMA ExchangeKeeps ==
  ASSUME CInv, NEW p \in Callers, NEW t \in Teams, Exchange(p, t) PROVE CInv'
<1> DEFINE row == [id |-> 0, token |-> tokens + 1, team |-> t]
           r   == [NotServing EXCEPT !.pc = "upsert", !.row = row]
<1>1. tokens \in Nat /\ tokens' = tokens + 1 /\ serving' = [serving EXCEPT ![p] = r]
      /\ live' = live \cup {tokens + 1} /\ UNCHANGED <<install, channelRows, lastId, gone, tried>>
  BY DEF Exchange, CInv, ConnectionTypeOK
<1>2. row \in Installs /\ row.token = tokens + 1
  BY <1>1 DEF Installs
<1>3. r \in ReqStates /\ r.row = row
  <2>1. "upsert" \in CallPcs
    BY DEF CallPcs
  <2> HIDE DEF row
  <2> QED BY <1>2, <2>1, IdleType, ReqRow
<1> HIDE DEF row, r
<1>4. /\ serving' \in [Callers -> ReqStates]
      /\ \A q \in Callers : serving'[q] = IF q = p THEN r ELSE serving[q]
  BY <1>1, <1>3 DEF CInv, ConnectionTypeOK
<1>5. 1..tokens \subseteq 1..tokens' /\ tokens + 1 \in 1..tokens'
  BY <1>1
<1>6. ConnectionTypeOK'
  BY <1>1, <1>4, <1>5 DEF CInv, ConnectionTypeOK
<1>7. RowsFollow'
  BY <1>1 DEF CInv, RowsFollow
<1>8. TokensIssued'
  BY <1>1, <1>2, <1>3, <1>4, <1>5 DEF CInv, TokensIssued
<1> QED BY <1>6, <1>7, <1>8 DEF CInv

LEMMA UpsertKeeps == ASSUME CInv, NEW p \in Callers, Upsert(p) PROVE CInv'
<1> DEFINE id == IF install = None THEN lastId + 1 ELSE install.id
<1>1. /\ serving[p].pc = "upsert" /\ serving' = [serving EXCEPT ![p] = NotServing]
      /\ install' = [serving[p].row EXCEPT !.id = id]
      /\ lastId' = IF install = None THEN lastId + 1 ELSE lastId
      /\ UNCHANGED <<channelRows, live, tokens, gone, tried>>
  BY DEF Upsert
<1>2. /\ serving[p] \in ReqStates /\ serving[p].row \in Installs /\ lastId \in Nat
      /\ install.id \in 0..lastId /\ serving[p].row.token \in 1..tokens
  <2>1. "idle" \in CallPcs
    BY DEF CallPcs
  <2> QED BY <1>1, <2>1, ReqPc DEF CInv, ConnectionTypeOK, TokensIssued
<1>3. id \in 0..lastId' /\ id \in Nat /\ lastId' \in Nat /\ 0..lastId \subseteq 0..lastId'
  BY <1>1, <1>2
<1> HIDE DEF id
<1>4. install' \in Installs /\ install'.id = id /\ install'.token \in 1..tokens
  BY <1>1, <1>2, <1>3, InstallUpdate
<1>5. /\ serving' \in [Callers -> ReqStates]
      /\ \A q \in Callers : serving'[q] = IF q = p THEN NotServing ELSE serving[q]
  BY <1>1, IdleType DEF CInv, ConnectionTypeOK
<1>6. ConnectionTypeOK'
  <2>1. channelRows' \in [Channels -> 0..lastId']
    BY <1>1, <1>3 DEF CInv, ConnectionTypeOK
  <2> QED BY <1>1, <1>3, <1>4, <1>5, <2>1 DEF CInv, ConnectionTypeOK
<1>7. RowsFollow'
  BY <1>1, <1>4, IdleType DEF CInv, RowsFollow, id
<1>8. TokensIssued'
  BY <1>1, <1>4, <1>5, IdleType DEF CInv, TokensIssued
<1> QED BY <1>6, <1>7, <1>8 DEF CInv

-----------------------------------------------------------------------------
(* The picker, and the refresh of a sweep.                                  *)

\* Reading the installation, for the picker or for a disconnect.
LEMMA ReadKeeps ==
  ASSUME CInv, NEW p \in Callers, NEW pc \in CallPcs, install # None,
         serving' = [serving EXCEPT ![p] = [NotServing EXCEPT !.pc = pc, !.row = install]],
         UNCHANGED <<install, channelRows, live, tokens, lastId, gone, tried>>
  PROVE  CInv'
<1> DEFINE r == [NotServing EXCEPT !.pc = pc, !.row = install]
<1>1. install \in Installs
  BY DEF CInv, ConnectionTypeOK
<1>2. r \in ReqStates /\ r.row = install
  BY <1>1, IdleType, ReqRow
<1>3. r.row.token \in 1..tokens /\ tried' \subseteq 1..tokens
  BY <1>2 DEF CInv, TokensIssued, ConnectionTypeOK
<1> HIDE DEF r
<1>4. serving' = [serving EXCEPT ![p] = r]
  BY DEF r
<1> QED BY <1>2, <1>3, <1>4, LocalStep

LEMMA ListKeeps == ASSUME CInv, NEW p \in Callers, ListChannels(p) PROVE CInv'
<1>1. PICK fresh \in SUBSET Channels :
        serving' = [serving EXCEPT ![p].pc = IF fresh = {} THEN "show" ELSE "rows", ![p].fresh = fresh]
  BY DEF ListChannels, TeamChannels
<1> DEFINE pc == IF fresh = {} THEN "show" ELSE "rows"
           r  == [serving[p] EXCEPT !.pc = pc, !.fresh = fresh]
<1>2. /\ serving[p].pc = "list" /\ serving[p] \in ReqStates /\ pc \in CallPcs
      /\ UNCHANGED <<install, channelRows, live, tokens, lastId, gone, tried>>
      /\ serving \in [Callers -> ReqStates]
  BY DEF ListChannels, CInv, ConnectionTypeOK, CallPcs
<1>3. r \in ReqStates /\ r.row = serving[p].row
  <2> HIDE DEF pc
  <2> QED BY <1>2, ReqChannels
<1>4. serving' = [serving EXCEPT ![p] = r]
  BY <1>1, <1>2
<1>5. r.row.token \in 1..tokens /\ tried' \subseteq 1..tokens
  BY <1>2, <1>3 DEF CInv, TokensIssued, ConnectionTypeOK
<1> HIDE DEF r
<1> QED BY <1>2, <1>3, <1>4, <1>5, LocalStep

LEMMA UpsertChannelsKeeps == ASSUME CInv, NEW p \in Callers, UpsertChannels(p) PROVE CInv'
<1> DEFINE r == [serving[p] EXCEPT !.pc = "show"]
<1>1. /\ serving[p].pc = "rows" /\ serving[p] \in ReqStates /\ serving \in [Callers -> ReqStates]
      /\ serving' = [serving EXCEPT ![p].pc = "show"]
      /\ UNCHANGED <<install, live, tokens, lastId, gone, tried>>
      /\ install.id \in 0..lastId
  BY DEF UpsertChannels, CInv, ConnectionTypeOK
<1>2. r \in ReqStates /\ r.row = serving[p].row /\ serving' = [serving EXCEPT ![p] = r]
  <2>1. "show" \in CallPcs
    BY DEF CallPcs
  <2> QED BY <1>1, <2>1, ReqPc
<1> HIDE DEF r
<1>3. /\ serving' \in [Callers -> ReqStates]
      /\ \A q \in Callers : serving'[q] = IF q = p THEN r ELSE serving[q]
  BY <1>1, <1>2
<1>4. channelRows' \in [Channels -> 0..lastId] /\ RowsFollow'
  <2>1. CASE /\ install.id = serving[p].row.id
             /\ channelRows' = [c \in Channels |-> IF c \in serving[p].fresh THEN serving[p].row.id ELSE channelRows[c]]
    BY <1>1, <2>1 DEF CInv, ConnectionTypeOK, RowsFollow
  <2>2. CASE UNCHANGED channelRows
    BY <1>1, <2>2 DEF CInv, ConnectionTypeOK, RowsFollow
  <2> QED BY <2>1, <2>2 DEF UpsertChannels
<1>5. ConnectionTypeOK'
  BY <1>1, <1>3, <1>4 DEF CInv, ConnectionTypeOK
<1>6. TokensIssued'
  BY <1>1, <1>2, <1>3 DEF CInv, TokensIssued
<1> QED BY <1>4, <1>5, <1>6 DEF CInv

LEMMA ShowKeeps == ASSUME CInv, NEW p \in Callers, Show(p) PROVE CInv'
<1> DEFINE r == [serving[p] EXCEPT !.pc = "shown", !.shown = Known]
<1>1. /\ serving[p].pc = "show" /\ serving[p] \in ReqStates /\ serving \in [Callers -> ReqStates]
      /\ serving' = [serving EXCEPT ![p].pc = "shown", ![p].shown = Known]
      /\ UNCHANGED <<install, channelRows, live, tokens, lastId, gone, tried>>
      /\ Known \in SUBSET Channels /\ "shown" \in CallPcs
  BY DEF Show, CInv, ConnectionTypeOK, Known, CallPcs
<1>2. r \in ReqStates /\ r.row = serving[p].row /\ serving' = [serving EXCEPT ![p] = r]
  BY <1>1, ReqChannels
<1>3. r.row.token \in 1..tokens /\ tried' \subseteq 1..tokens
  BY <1>1, <1>2 DEF CInv, TokensIssued, ConnectionTypeOK
<1> HIDE DEF r
<1> QED BY <1>1, <1>2, <1>3, LocalStep

\* Steps that end a request and change nothing else.
LEMMA EndKeeps ==
  ASSUME CInv, NEW p \in Callers, serving' = [serving EXCEPT ![p] = NotServing],
         UNCHANGED <<install, channelRows, live, tokens, lastId, gone, tried>>
  PROVE  CInv'
<1>1. tried' \subseteq 1..tokens
  BY DEF CInv, ConnectionTypeOK
<1> QED BY <1>1, IdleType, LocalStep

-----------------------------------------------------------------------------
(* Disconnecting.                                                           *)

LEMMA RevokeKeeps == ASSUME CInv, NEW p \in Callers, Revoke(p) PROVE CInv'
<1> DEFINE r == [serving[p] EXCEPT !.pc = "delete"]
<1>1. /\ serving[p].pc = "revoke" /\ serving[p] \in ReqStates /\ serving \in [Callers -> ReqStates]
      /\ serving' = [serving EXCEPT ![p].pc = "delete"] /\ live' \subseteq live
      /\ tried' = tried \cup {serving[p].row.token}
      /\ UNCHANGED <<install, channelRows, tokens, lastId, gone>>
      /\ "delete" \in CallPcs
  BY DEF Revoke, CInv, ConnectionTypeOK, CallPcs
<1>2. r \in ReqStates /\ r.row = serving[p].row /\ serving' = [serving EXCEPT ![p] = r]
  BY <1>1, ReqPc
<1>3. r.row.token \in 1..tokens /\ tried' \subseteq 1..tokens
  BY <1>1, <1>2 DEF CInv, TokensIssued, ConnectionTypeOK
<1> HIDE DEF r
<1> QED BY <1>1, <1>2, <1>3, LocalStep

LEMMA DeleteKeeps == ASSUME CInv, NEW p \in Callers, Delete(p) PROVE CInv'
<1>1. /\ serving[p].pc = "delete" /\ install # None
      /\ gone' = gone \cup {install.token} /\ install' = None
      /\ channelRows' = [c \in Channels |-> IF channelRows[c] = install.id THEN 0 ELSE channelRows[c]]
      /\ serving' = [serving EXCEPT ![p] = NotServing]
      /\ UNCHANGED <<live, tokens, lastId, tried>>
  BY DEF Delete
<1>2. /\ serving' \in [Callers -> ReqStates]
      /\ \A q \in Callers : serving'[q] = IF q = p THEN NotServing ELSE serving[q]
  BY <1>1, IdleType DEF CInv, ConnectionTypeOK
<1>3. channelRows' \in [Channels -> 0..lastId] /\ lastId \in Nat
  BY <1>1 DEF CInv, ConnectionTypeOK
<1>4. ConnectionTypeOK'
  <2>1. gone' \subseteq 1..tokens
    BY <1>1 DEF CInv, ConnectionTypeOK, TokensIssued
  <2>2. install' \in Installs /\ install'.id \in 0..lastId
    BY <1>1, <1>3, IdleType
  <2> QED BY <1>1, <1>2, <1>3, <2>1, <2>2 DEF CInv, ConnectionTypeOK
<1>5. RowsFollow'
  BY <1>1 DEF CInv, RowsFollow
<1>6. TokensIssued'
  BY <1>1, <1>2, IdleType DEF CInv, TokensIssued
<1> QED BY <1>4, <1>5, <1>6 DEF CInv

-----------------------------------------------------------------------------
LEMMA CInvNext == CInv /\ [ConnectionNext]_connectionVars => CInv'
<1> SUFFICES ASSUME CInv, [ConnectionNext]_connectionVars PROVE CInv'
  OBVIOUS
<1>1. CASE UNCHANGED connectionVars
  BY <1>1 DEF connectionVars, CInv, ConnectionTypeOK, RowsFollow, TokensIssued
<1>2. ASSUME NEW p \in Callers, NEW t \in Teams, Exchange(p, t) PROVE CInv'
  BY <1>2, ExchangeKeeps
<1>3. ASSUME NEW p \in Callers, ReadInstall(p) \/ Disconnect(p) PROVE CInv'
  <2>1. "list" \in CallPcs /\ "revoke" \in CallPcs
    BY DEF CallPcs
  <2> QED BY <1>3, <2>1, ReadKeeps DEF ReadInstall, Disconnect
<1>4. ASSUME NEW p \in Callers, RequestStep(p) PROVE CInv'
  <2>1. CASE Upsert(p)
    BY <2>1, UpsertKeeps
  <2>2. CASE UpsertFails(p) \/ Answered(p) \/ DeleteFails(p)
    BY <2>2, EndKeeps DEF UpsertFails, Answered, DeleteFails
  <2>3. CASE ListChannels(p) \/ UpsertChannels(p) \/ Show(p)
    BY <2>3, ListKeeps, UpsertChannelsKeeps, ShowKeeps
  <2>4. CASE Revoke(p) \/ Delete(p)
    BY <2>4, RevokeKeeps, DeleteKeeps
  <2> QED BY <1>4, <2>1, <2>2, <2>3, <2>4 DEF RequestStep
<1> QED BY <1>1, <1>2, <1>3, <1>4 DEF ConnectionNext

LEMMA CInvAlways == ConnectionSpec => []CInv
<1> QED BY CInvInit, CInvNext, PTL DEF ConnectionSpec

(* Rows and requests refer to installations and tokens that were issued,    *)
(* whatever requests interleave.                                            *)
THEOREM ConnectionTypeCorrect == ConnectionSpec => []ConnectionTypeOK
<1>1. CInv => ConnectionTypeOK
  BY DEF CInv
<1> QED BY <1>1, CInvAlways, PTL

(* No channel row outlives its installation: a refresh that a disconnect or *)
(* a reconnect overtakes leaves nothing that belongs to another row.        *)
THEOREM ChannelsFollowCorrect == ConnectionSpec => []ChannelsFollowInstall
<1>1. CInv => ChannelsFollowInstall
  BY IdleType DEF CInv, RowsFollow, ChannelsFollowInstall, Known
<1> QED BY <1>1, CInvAlways, PTL

(* Reconnecting keeps the id that channel rows and refreshes under way      *)
(* refer to.                                                                *)
THEOREM IdKeptCorrect == ConnectionSpec => IdKept
<1>1. CInv /\ [ConnectionNext]_connectionVars =>
        [install # None /\ install' # None => install'.id = install.id]_connectionVars
  <2> SUFFICES ASSUME CInv, ConnectionNext, install # None, install' # None
               PROVE  install'.id = install.id
    OBVIOUS
  <2>1. PICK p \in Callers : (\E t \in Teams : Exchange(p, t))
          \/ ReadInstall(p) \/ Disconnect(p) \/ RequestStep(p)
    BY DEF ConnectionNext
  <2>2. CASE Upsert(p)
    <3>1. serving[p].row \in Installs /\ install.id \in Nat
      BY DEF CInv, ConnectionTypeOK, ReqStates, Installs
    <3>2. install' = [serving[p].row EXCEPT !.id = install.id]
      BY <2>2 DEF Upsert
    <3> QED BY <3>1, <3>2, InstallUpdate
  <2>3. CASE Delete(p)
    BY <2>3 DEF Delete
  <2>4. CASE ~Upsert(p) /\ ~Delete(p)
    <3>1. UNCHANGED install
      BY <2>1, <2>4 DEF Exchange, ReadInstall, Disconnect, RequestStep, UpsertFails, Answered,
         DeleteFails, ListChannels, UpsertChannels, Show, Revoke
    <3> QED BY <3>1
  <2> QED BY <2>2, <2>3, <2>4
<1> QED BY <1>1, CInvAlways, PTL DEF ConnectionSpec, IdKept

-----------------------------------------------------------------------------
(* Selection, for any items, requests, overlaps and failures.              *)

\* The two halves of AsAsked.
OnlyAsked(asks, found) == \A i \in found : \E ids \in asks : i \in ids
AllAsked(asks, found) == \A i \in Items : (\A ids \in asks : i \in ids) => i \in found

(* What a save under way asks for is among what its group asks for, and    *)
(* bot flags are written for a bot list only.                              *)
AsksKnown == \A s \in Savers : save[s].pc # "idle" =>
  /\ save[s].ids \subseteq known /\ save[s].botIds \subseteq known
  /\ save[s].ids \in group.asked
  /\ save[s].listed => save[s].botIds \in group.botsAsked
  /\ save[s].pc \in {"botsTrue", "botsFalse"} => save[s].listed

(* Whatever the other saves do: from the first update on, what all of them *)
(* want is selected; from the second on, nothing that none of them wants.  *)
SelectionReached ==
  /\ group.through => OnlyAsked(group.asked, selected) /\ AllAsked(group.asked, selected)
  /\ \A s \in Savers :
       /\ save[s].pc \in {"false", "botsTrue", "botsFalse"} => AllAsked(group.asked, selected)
       /\ save[s].pc \in {"botsTrue", "botsFalse"} => OnlyAsked(group.asked, selected)

BotsReached ==
  /\ group.botsThrough => OnlyAsked(group.botsAsked, bots) /\ AllAsked(group.botsAsked, bots)
  /\ \A s \in Savers : save[s].pc = "botsFalse" => AllAsked(group.botsAsked, bots)

SInv ==
  SelectionTypeOK /\ AsksKnown /\ SelectionReached /\ BotsReached /\ ReadersSeeOldOrNew

-----------------------------------------------------------------------------
\* What the type of save says of one saver.
LEMMA SaveType ==
  ASSUME SelectionTypeOK, NEW s \in Savers
  PROVE  /\ save[s] = [pc |-> save[s].pc, ids |-> save[s].ids, listed |-> save[s].listed,
                       botIds |-> save[s].botIds]
         /\ save[s].pc \in Pcs /\ save[s].ids \subseteq Items /\ save[s].listed \in BOOLEAN
         /\ save[s].botIds \subseteq Items
BY DEF SelectionTypeOK, Saves

\* An update for something that was asked for keeps both halves, and brings one.
LEMMA UpdatesKeep ==
  ASSUME NEW asks, NEW ids \in asks, NEW before, NEW found
  PROVE  /\ AllAsked(asks, found \cup ids)
         /\ OnlyAsked(asks, found \cap ids)
         /\ OnlyAsked(asks, found) => OnlyAsked(asks, found \cup ids)
         /\ AllAsked(asks, found) => AllAsked(asks, found \cap ids)
         /\ Between(before, asks, found) => /\ Between(before, asks, found \cup ids)
                                          /\ Between(before, asks, found \cap ids)
BY DEF OnlyAsked, AllAsked, Between

\* So does one more save that asks.
LEMMA AsksGrow ==
  ASSUME NEW asks, NEW more, NEW before, NEW found, asks \subseteq more
  PROVE  /\ OnlyAsked(asks, found) => OnlyAsked(more, found)
         /\ AllAsked(asks, found) => AllAsked(more, found)
         /\ Between(before, asks, found) => Between(before, more, found)
BY DEF OnlyAsked, AllAsked, Between

-----------------------------------------------------------------------------
(* The invariant holds at the start, and every step keeps it.               *)

LEMMA EmptyGroupType ==
  ASSUME NEW base \in SUBSET Items, NEW botBase \in SUBSET Items
  PROVE  EmptyGroup(base, botBase) \in Groups
BY DEF EmptyGroup, Groups, Asks

LEMMA SInvInit == SelectionInit => SInv
<1> SUFFICES ASSUME SelectionInit PROVE SInv
  OBVIOUS
<1>1. NotSaving \in Saves /\ NotSaving.pc = "idle"
  BY DEF NotSaving, Saves, Pcs
<1>2. EmptyGroup({}, {}) \in Groups
  BY DEF EmptyGroup, Groups, Asks
<1>3. SelectionTypeOK
  BY <1>1, <1>2 DEF SelectionInit, SelectionTypeOK
<1>4. \A s \in Savers : save[s].pc = "idle"
  BY <1>1 DEF SelectionInit
<1>5. /\ group.asked = {} /\ group.botsAsked = {} /\ group.base = {} /\ group.botBase = {}
      /\ ~group.through /\ ~group.botsThrough /\ selected = {} /\ bots = {}
  BY DEF SelectionInit, EmptyGroup
<1>6. SelectionReached /\ BotsReached /\ AsksKnown
  BY <1>4, <1>5 DEF SelectionReached, BotsReached, AsksKnown
<1> QED BY <1>3, <1>5, <1>6 DEF SInv, ReadersSeeOldOrNew, Between

LEMMA RefreshKeeps ==
  ASSUME SInv, NEW items \in SUBSET Items, Refresh(items)
  PROVE  SInv'
<1>1. UNCHANGED <<selected, bots, save, group>> /\ known' = known \cup items
  BY DEF Refresh
<1>2. SelectionTypeOK'
  BY <1>1 DEF SInv, SelectionTypeOK
<1> QED BY <1>1, <1>2 DEF SInv, AsksKnown, SelectionReached, BotsReached, ReadersSeeOldOrNew,
           OnlyAsked, AllAsked, Between

\* The group a save begins in: the one under way or a new one.
LEMMA GroupBegun ==
  ASSUME SInv, NEW g, g = IF Quiet THEN EmptyGroup(selected, bots) ELSE group
  PROVE  /\ g \in Groups
         /\ Between(g.base, g.asked, selected) /\ Between(g.botBase, g.botsAsked, bots)
         /\ g.through => OnlyAsked(g.asked, selected) /\ AllAsked(g.asked, selected)
         /\ g.botsThrough => OnlyAsked(g.botsAsked, bots) /\ AllAsked(g.botsAsked, bots)
         /\ \A t \in Savers : save[t].pc # "idle" => g = group
<1>1. CASE Quiet
  <2>1. g = EmptyGroup(selected, bots)
    BY <1>1
  <2>2. /\ g.base = selected /\ g.botBase = bots /\ g.asked = {} /\ g.botsAsked = {}
        /\ g.through = FALSE /\ g.botsThrough = FALSE
    BY <2>1 DEF EmptyGroup
  <2>3. selected \in SUBSET Items /\ bots \in SUBSET Items
    BY DEF SInv, SelectionTypeOK
  <2>4. g \in Groups
    BY <2>1, <2>3, EmptyGroupType
  <2>5. Between(g.base, g.asked, selected) /\ Between(g.botBase, g.botsAsked, bots)
    BY <2>2 DEF Between
  <2> QED BY <1>1, <2>2, <2>4, <2>5 DEF Quiet
<1>2. CASE ~Quiet
  BY <1>2 DEF SInv, SelectionTypeOK, ReadersSeeOldOrNew, SelectionReached, BotsReached
<1> QED BY <1>1, <1>2

LEMMA BeginKeeps ==
  ASSUME SInv, NEW s \in Savers, NEW ids \in SUBSET Items, NEW botIds \in SUBSET Items,
         NEW listed \in BOOLEAN, Begin(s, ids, listed, botIds)
  PROVE  SInv'
<1> DEFINE new == [pc |-> IF ids = {} THEN "false" ELSE "true", ids |-> ids, listed |-> listed,
                   botIds |-> botIds \cap ids]
           g == IF Quiet THEN EmptyGroup(selected, bots) ELSE group
           more == g.asked \cup {ids}
           botsMore == IF listed THEN g.botsAsked \cup {botIds \cap ids} ELSE g.botsAsked
<1>1. /\ save' = [save EXCEPT ![s] = new]
      /\ group' = [g EXCEPT !.saves = @ + 1, !.asked = @ \cup {ids},
                            !.botsAsked = IF listed THEN @ \cup {botIds \cap ids} ELSE @]
      /\ UNCHANGED <<known, selected, bots>>
  BY DEF Begin
<1>k. ids \subseteq known /\ botIds \cap ids \subseteq known
  BY DEF Begin
<1>2. /\ new.pc = (IF ids = {} THEN "false" ELSE "true") /\ new.ids = ids
      /\ new.listed = listed /\ new.botIds = botIds \cap ids
  OBVIOUS
<1>3. new \in Saves /\ save \in [Savers -> Saves]
  BY DEF Saves, Pcs, SInv, SelectionTypeOK
<1>4. /\ g \in Groups
      /\ Between(g.base, g.asked, selected) /\ Between(g.botBase, g.botsAsked, bots)
      /\ g.through => OnlyAsked(g.asked, selected) /\ AllAsked(g.asked, selected)
      /\ g.botsThrough => OnlyAsked(g.botsAsked, bots) /\ AllAsked(g.botsAsked, bots)
      /\ \A t \in Savers : save[t].pc # "idle" => g = group
  BY GroupBegun
<1> HIDE DEF new, g
<1>5. save' \in [Savers -> Saves] /\ save'[s] = new /\ \A t \in Savers \ {s} : save'[t] = save[t]
  BY <1>1, <1>3
<1>6. /\ group' \in Groups /\ group'.asked = more /\ group'.botsAsked = botsMore
      /\ group'.base = g.base /\ group'.botBase = g.botBase
      /\ group'.through = g.through /\ group'.botsThrough = g.botsThrough
  <2>1. more \in Asks /\ botsMore \in Asks /\ g.saves + 1 \in Nat
    BY <1>4 DEF Groups, Asks
  <2>2. group' = [g EXCEPT !.saves = g.saves + 1, !.asked = more, !.botsAsked = botsMore]
    BY <1>1, Zenon
  <2> HIDE DEF more, botsMore
  <2> QED BY <1>4, <2>1, <2>2 DEF Groups
<1>7. g.asked \subseteq more /\ g.botsAsked \subseteq botsMore /\ ids \in more
      /\ (listed => botIds \cap ids \in botsMore)
  OBVIOUS
<1> HIDE DEF more, botsMore
<1>8. SelectionTypeOK'
  BY <1>1, <1>5, <1>6 DEF SInv, SelectionTypeOK
<1>9. AsksKnown'
  <2>1. AsksKnown
    BY DEF SInv
  <2>2. ASSUME NEW t \in Savers, save'[t].pc # "idle"
        PROVE  /\ save'[t].ids \subseteq known /\ save'[t].botIds \subseteq known
               /\ save'[t].ids \in more
               /\ save'[t].listed => save'[t].botIds \in botsMore
               /\ save'[t].pc \in {"botsTrue", "botsFalse"} => save'[t].listed
    <3>1. CASE t = s
      BY <3>1, <1>2, <1>5, <1>7, <1>k
    <3>2. CASE t # s
      <4>1. save'[t] = save[t] /\ save[t].pc # "idle" /\ g = group
        BY <3>2, <2>2, <1>4, <1>5
      <4> QED BY <4>1, <2>1, <1>7 DEF AsksKnown
    <3> QED BY <3>1, <3>2
  <2> QED BY <2>2, <1>1, <1>6 DEF AsksKnown
<1>10. ReadersSeeOldOrNew'
  BY <1>1, <1>4, <1>6, <1>7, AsksGrow DEF ReadersSeeOldOrNew
<1>11. SelectionReached'
  <2>1. SelectionReached
    BY DEF SInv
  <2>2. g.through => OnlyAsked(more, selected) /\ AllAsked(more, selected)
    BY <1>4, <1>7, AsksGrow
  <2>3. ASSUME NEW t \in Savers
        PROVE  /\ save'[t].pc \in {"false", "botsTrue", "botsFalse"} => AllAsked(more, selected)
               /\ save'[t].pc \in {"botsTrue", "botsFalse"} => OnlyAsked(more, selected)
    <3>1. CASE t = s
      <4>1. save'[t].pc = (IF ids = {} THEN "false" ELSE "true")
        BY <3>1, <1>2, <1>5
      <4>2. ids = {} => AllAsked(more, selected)
        BY <1>7 DEF AllAsked
      <4> QED BY <4>1, <4>2
    <3>2. CASE t # s
      <4>1. save'[t] = save[t] /\ (save[t].pc # "idle" => g = group)
        BY <3>2, <1>4, <1>5
      <4> QED BY <4>1, <2>1, <1>7, AsksGrow DEF SelectionReached
    <3> QED BY <3>1, <3>2
  <2> QED BY <2>2, <2>3, <1>1, <1>6 DEF SelectionReached
<1>12. BotsReached'
  <2>1. BotsReached
    BY DEF SInv
  <2>2. g.botsThrough => OnlyAsked(botsMore, bots) /\ AllAsked(botsMore, bots)
    BY <1>4, <1>7, AsksGrow
  <2>3. ASSUME NEW t \in Savers, save'[t].pc = "botsFalse" PROVE AllAsked(botsMore, bots)
    <3>1. t # s
      BY <2>3, <1>2, <1>5
    <3>2. save'[t] = save[t] /\ (save[t].pc # "idle" => g = group)
      BY <3>1, <1>4, <1>5
    <3> QED BY <2>3, <3>2, <2>1, <1>7, AsksGrow DEF BotsReached
  <2> QED BY <2>2, <2>3, <1>1, <1>6 DEF BotsReached
<1> QED BY <1>8, <1>9, <1>10, <1>11, <1>12 DEF SInv

-----------------------------------------------------------------------------
\* An update of s, or its failure: what is left to show when the flags, the place of s
\* and what the group has come to change.
LEMMA UpdateKeeps ==
  ASSUME SInv, NEW s \in Savers, save[s].pc # "idle",
         NEW new \in Saves, save' = [save EXCEPT ![s] = new],
         UNCHANGED known, selected' \subseteq known, bots' \subseteq known,
         selected' \in {selected, selected \cup save[s].ids, selected \cap save[s].ids},
         bots' # bots => /\ save[s].listed
                         /\ bots' \in {bots \cup save[s].botIds, bots \cap save[s].botIds},
         new.pc # "idle" => /\ new.ids = save[s].ids /\ new.listed = save[s].listed
                            /\ new.botIds = save[s].botIds,
         new.pc \in {"botsTrue", "botsFalse"} => save[s].listed,
         group' \in Groups, group'.asked = group.asked, group'.botsAsked = group.botsAsked,
         group'.base = group.base, group'.botBase = group.botBase,
         group'.through => group.through \/ OnlyAsked(group.asked, selected'),
         group'.through => group.through \/ AllAsked(group.asked, selected'),
         group'.botsThrough => group.botsThrough \/ OnlyAsked(group.botsAsked, bots'),
         group'.botsThrough => group.botsThrough \/ AllAsked(group.botsAsked, bots'),
         new.pc \in {"false", "botsTrue", "botsFalse"} => AllAsked(group.asked, selected'),
         new.pc \in {"botsTrue", "botsFalse"} => OnlyAsked(group.asked, selected'),
         new.pc = "botsFalse" => AllAsked(group.botsAsked, bots')
  PROVE  SInv'
<1>1. /\ save' \in [Savers -> Saves] /\ save'[s] = new
      /\ \A t \in Savers \ {s} : save'[t] = save[t]
  BY DEF SInv, SelectionTypeOK
<1>2. SelectionTypeOK'
  BY <1>1 DEF SInv, SelectionTypeOK
<1>3. save[s].ids \in group.asked /\ (save[s].listed => save[s].botIds \in group.botsAsked)
  BY DEF SInv, AsksKnown
<1>4. AsksKnown'
  BY <1>1, <1>3 DEF SInv, AsksKnown
<1>5. /\ Between(group.base, group.asked, selected) => Between(group.base, group.asked, selected')
      /\ OnlyAsked(group.asked, selected) => OnlyAsked(group.asked, selected')
      /\ AllAsked(group.asked, selected) => AllAsked(group.asked, selected')
  <2>1. CASE selected' = selected
    BY <2>1
  <2>2. CASE selected' = selected \cup save[s].ids
    <3>1. AllAsked(group.asked, selected \cup save[s].ids)
      BY <1>3, UpdatesKeep, Zenon
    <3> QED BY <2>2, <3>1, <1>3, UpdatesKeep, Zenon
  <2>3. CASE selected' = selected \cap save[s].ids
    <3>1. OnlyAsked(group.asked, selected \cap save[s].ids)
      BY <1>3, UpdatesKeep, Zenon
    <3> QED BY <2>3, <3>1, <1>3, UpdatesKeep, Zenon
  <2> QED BY <2>1, <2>2, <2>3
<1>6. /\ Between(group.botBase, group.botsAsked, bots) =>
           Between(group.botBase, group.botsAsked, bots')
      /\ OnlyAsked(group.botsAsked, bots) => OnlyAsked(group.botsAsked, bots')
      /\ AllAsked(group.botsAsked, bots) => AllAsked(group.botsAsked, bots')
  <2>1. CASE bots' = bots
    BY <2>1
  <2>2. CASE bots' # bots
    <3>1. save[s].botIds \in group.botsAsked
      BY <2>2, <1>3
    <3>2. CASE bots' = bots \cup save[s].botIds
      <4>1. AllAsked(group.botsAsked, bots \cup save[s].botIds)
        BY <3>1, UpdatesKeep, Zenon
      <4> QED BY <3>1, <3>2, <4>1, UpdatesKeep, Zenon
    <3>3. CASE bots' = bots \cap save[s].botIds
      <4>1. OnlyAsked(group.botsAsked, bots \cap save[s].botIds)
        BY <3>1, UpdatesKeep, Zenon
      <4> QED BY <3>1, <3>3, <4>1, UpdatesKeep, Zenon
    <3> QED BY <2>2, <3>2, <3>3
  <2> QED BY <2>1, <2>2
<1>7. ReadersSeeOldOrNew'
  BY <1>5, <1>6 DEF SInv, ReadersSeeOldOrNew
<1>8. SelectionReached'
  BY <1>1, <1>5 DEF SInv, SelectionReached
<1>9. BotsReached'
  BY <1>1, <1>6 DEF SInv, BotsReached
<1> QED BY <1>2, <1>4, <1>7, <1>8, <1>9 DEF SInv

\* GoTo moves a saver on, within the type; at its end, its group has got through.
LEMMA GoToMoves ==
  ASSUME SelectionTypeOK, NEW s \in Savers, NEW pc \in Pcs, GoTo(s, pc)
  PROVE  \E new \in Saves :
           /\ save' = [save EXCEPT ![s] = new] /\ new.pc = pc
           /\ pc # "idle" => /\ new.ids = save[s].ids /\ new.listed = save[s].listed
                             /\ new.botIds = save[s].botIds /\ group' = group
           /\ group' \in Groups /\ group'.asked = group.asked
           /\ group'.botsAsked = group.botsAsked
           /\ group'.base = group.base /\ group'.botBase = group.botBase
           /\ pc = "idle" =>
                group'.through /\ (group'.botsThrough => group.botsThrough \/ save[s].listed)
<1>1. NotSaving \in Saves /\ NotSaving.pc = "idle"
  BY DEF NotSaving, Saves, Pcs
<1>2. save[s] \in Saves /\ group \in Groups
  BY DEF SelectionTypeOK
<1>3. CASE pc = "idle"
  <2>1. /\ save' = [save EXCEPT ![s] = NotSaving]
        /\ group' = [group EXCEPT !.through = TRUE, !.botsThrough = @ \/ save[s].listed]
    BY <1>3 DEF GoTo
  <2>2. save[s].listed \in BOOLEAN
    BY <1>2 DEF Saves
  <2>3. /\ group' \in Groups /\ group'.asked = group.asked
        /\ group'.botsAsked = group.botsAsked /\ group'.base = group.base
        /\ group'.botBase = group.botBase /\ group'.through
        /\ group'.botsThrough => group.botsThrough \/ save[s].listed
    BY <1>2, <2>1, <2>2 DEF Groups
  <2> QED BY <1>1, <1>3, <2>1, <2>3
<1>4. CASE pc # "idle"
  <2>1. save' = [save EXCEPT ![s] = [save[s] EXCEPT !.pc = pc]] /\ group' = group
    BY <1>4 DEF GoTo
  <2>2. [save[s] EXCEPT !.pc = pc] \in Saves
    BY <1>2 DEF Saves
  <2>3. /\ [save[s] EXCEPT !.pc = pc].pc = pc
        /\ [save[s] EXCEPT !.pc = pc].ids = save[s].ids
        /\ [save[s] EXCEPT !.pc = pc].botIds = save[s].botIds
        /\ [save[s] EXCEPT !.pc = pc].listed = save[s].listed
    BY <1>2 DEF Saves
  <2> QED BY <1>2, <1>4, <2>1, <2>2, <2>3
<1> QED BY <1>3, <1>4

\* What is known of a save under way.
LEMMA SaveKnown ==
  ASSUME SInv, NEW s \in Savers, save[s].pc # "idle"
  PROVE  /\ SelectionTypeOK /\ selected \subseteq known /\ bots \subseteq known
         /\ save[s].ids \subseteq known /\ save[s].botIds \subseteq known
         /\ save[s].ids \in group.asked
         /\ save[s].listed => save[s].botIds \in group.botsAsked
         /\ save[s].pc \in {"botsTrue", "botsFalse"} => save[s].listed
         /\ save[s].pc \in {"false", "botsTrue", "botsFalse"} => AllAsked(group.asked, selected)
         /\ save[s].pc \in {"botsTrue", "botsFalse"} => OnlyAsked(group.asked, selected)
         /\ save[s].pc = "botsFalse" => AllAsked(group.botsAsked, bots)
BY DEF SInv, SelectionTypeOK, AsksKnown, SelectionReached, BotsReached

LEMMA SetTrueKeeps == ASSUME SInv, NEW s \in Savers, SetTrue(s) PROVE SInv'
<1>1. /\ save[s].pc = "true" /\ GoTo(s, "false") /\ "false" \in Pcs /\ "false" # "idle"
      /\ selected' = selected \cup (save[s].ids \cap known)
      /\ UNCHANGED <<known, bots>>
  BY DEF SetTrue, Pcs
<1>2. save[s].pc # "idle"
  BY <1>1
<1>3. save[s].ids \subseteq known /\ SelectionTypeOK /\ save[s].ids \in group.asked
  BY <1>2, SaveKnown
<1>4. selected' = selected \cup save[s].ids
  BY <1>1, <1>3
<1>5. AllAsked(group.asked, selected')
  BY <1>3, <1>4, UpdatesKeep
<1>6. PICK new \in Saves :
        /\ save' = [save EXCEPT ![s] = new] /\ new.pc = "false"
        /\ new.ids = save[s].ids /\ new.listed = save[s].listed
        /\ new.botIds = save[s].botIds /\ group' = group /\ group' \in Groups
  BY <1>1, <1>3, GoToMoves
<1>7. selected' \subseteq known /\ bots' \subseteq known
  BY <1>1, <1>3 DEF SelectionTypeOK
<1> QED BY <1>1, <1>2, <1>4, <1>5, <1>6, <1>7, UpdateKeeps

LEMMA SetFalseKeeps == ASSUME SInv, NEW s \in Savers, SetFalse(s) PROVE SInv'
<1> DEFINE pc == AfterSelection(s)
<1>1. /\ save[s].pc = "false" /\ GoTo(s, pc) /\ pc \in {"idle", "botsTrue", "botsFalse"}
      /\ pc # "idle" => save[s].listed
      /\ pc = "idle" => ~save[s].listed
      /\ pc = "botsFalse" => save[s].botIds = {}
      /\ pc \in Pcs
      /\ selected' = selected \cap save[s].ids
      /\ UNCHANGED <<known, bots>>
  BY DEF SetFalse, AfterSelection, Pcs
<1> HIDE DEF pc
<1>2. save[s].pc # "idle"
  BY <1>1
<1>3. /\ SelectionTypeOK /\ save[s].ids \in group.asked /\ AllAsked(group.asked, selected)
      /\ save[s].listed => save[s].botIds \in group.botsAsked
  BY <1>1, <1>2, SaveKnown
<1>4. AllAsked(group.asked, selected') /\ OnlyAsked(group.asked, selected')
  BY <1>1, <1>3, UpdatesKeep
<1>5. pc = "botsFalse" => AllAsked(group.botsAsked, bots')
  BY <1>1, <1>3 DEF AllAsked
<1>6. PICK new \in Saves :
        /\ save' = [save EXCEPT ![s] = new] /\ new.pc = pc
        /\ pc # "idle" => /\ new.ids = save[s].ids /\ new.listed = save[s].listed
                          /\ new.botIds = save[s].botIds /\ group' = group
        /\ group' \in Groups /\ group'.asked = group.asked
        /\ group'.botsAsked = group.botsAsked
        /\ group'.base = group.base /\ group'.botBase = group.botBase
        /\ pc = "idle" =>
             group'.through /\ (group'.botsThrough => group.botsThrough \/ save[s].listed)
  BY <1>1, <1>3, GoToMoves
<1>7. selected' \subseteq known /\ bots' \subseteq known
  BY <1>1, <1>3 DEF SelectionTypeOK
<1>8. group'.botsThrough => group.botsThrough
  BY <1>1, <1>6
<1> QED BY <1>1, <1>2, <1>4, <1>5, <1>6, <1>7, <1>8, UpdateKeeps

LEMMA BotsTrueKeeps == ASSUME SInv, NEW s \in Savers, BotsTrue(s) PROVE SInv'
<1>1. /\ save[s].pc = "botsTrue" /\ GoTo(s, "botsFalse") /\ "botsFalse" \in Pcs
      /\ "botsFalse" # "idle"
      /\ bots' = bots \cup (save[s].botIds \cap known)
      /\ UNCHANGED <<known, selected>>
  BY DEF BotsTrue, Pcs
<1>2. save[s].pc # "idle"
  BY <1>1
<1>3. /\ SelectionTypeOK /\ save[s].botIds \subseteq known /\ save[s].listed
      /\ save[s].botIds \in group.botsAsked
      /\ AllAsked(group.asked, selected) /\ OnlyAsked(group.asked, selected)
  BY <1>1, <1>2, SaveKnown
<1>4. bots' = bots \cup save[s].botIds
  BY <1>1, <1>3
<1>5. AllAsked(group.botsAsked, bots')
  BY <1>3, <1>4, UpdatesKeep
<1>6. PICK new \in Saves :
        /\ save' = [save EXCEPT ![s] = new] /\ new.pc = "botsFalse"
        /\ new.ids = save[s].ids /\ new.listed = save[s].listed
        /\ new.botIds = save[s].botIds /\ group' = group /\ group' \in Groups
  BY <1>1, <1>3, GoToMoves
<1>7. selected' \subseteq known /\ bots' \subseteq known
  BY <1>1, <1>3 DEF SelectionTypeOK
<1> QED BY <1>1, <1>2, <1>3, <1>4, <1>5, <1>6, <1>7, UpdateKeeps

LEMMA BotsFalseKeeps == ASSUME SInv, NEW s \in Savers, BotsFalse(s) PROVE SInv'
<1>1. /\ save[s].pc = "botsFalse" /\ GoTo(s, "idle") /\ "idle" \in Pcs
      /\ bots' = bots \cap save[s].botIds
      /\ UNCHANGED <<known, selected>>
  BY DEF BotsFalse, Pcs
<1>2. save[s].pc # "idle"
  BY <1>1
<1>3. /\ SelectionTypeOK /\ save[s].listed /\ save[s].botIds \in group.botsAsked
      /\ AllAsked(group.asked, selected) /\ OnlyAsked(group.asked, selected)
      /\ AllAsked(group.botsAsked, bots)
  BY <1>1, <1>2, SaveKnown
<1>4. AllAsked(group.botsAsked, bots') /\ OnlyAsked(group.botsAsked, bots')
  BY <1>1, <1>3, UpdatesKeep
<1>5. PICK new \in Saves :
        /\ save' = [save EXCEPT ![s] = new] /\ new.pc = "idle"
        /\ group' \in Groups /\ group'.asked = group.asked
        /\ group'.botsAsked = group.botsAsked
        /\ group'.base = group.base /\ group'.botBase = group.botBase
  BY <1>1, <1>3, GoToMoves
<1>6. selected' \subseteq known /\ bots' \subseteq known
  BY <1>1, <1>3 DEF SelectionTypeOK
<1> QED BY <1>1, <1>2, <1>3, <1>4, <1>5, <1>6, UpdateKeeps

\* A save that is cut short, before or after the update at hand was executed.
LEMMA FailsKeep ==
  ASSUME SInv, NEW s \in Savers, Fail(s) \/ FailAfter(s)
  PROVE  SInv'
<1>1. /\ save[s].pc # "idle" /\ save' = [save EXCEPT ![s] = NotSaving] /\ UNCHANGED known
      /\ group' = [group EXCEPT !.cut = TRUE]
  BY DEF Fail, FailAfter
<1>2. NotSaving \in Saves /\ NotSaving.pc = "idle"
  BY DEF NotSaving, Saves, Pcs
<1>3. /\ SelectionTypeOK /\ selected \subseteq known /\ bots \subseteq known
      /\ save[s].ids \subseteq known /\ save[s].botIds \subseteq known
      /\ save[s].pc \in {"botsTrue", "botsFalse"} => save[s].listed
      /\ save[s].pc \in Pcs
  BY <1>1, SaveKnown, SaveType
<1>4. \/ selected' = selected /\ bots' = bots
      \/ selected' = selected \cup save[s].ids /\ bots' = bots
      \/ selected' = selected \cap save[s].ids /\ bots' = bots
      \/ save[s].listed /\ selected' = selected /\ bots' = bots \cup save[s].botIds
      \/ save[s].listed /\ selected' = selected /\ bots' = bots \cap save[s].botIds
  <2>1. CASE Fail(s)
    BY <2>1 DEF Fail
  <2>2. CASE FailAfter(s)
    <3>1. /\ save[s].ids \cap known = save[s].ids
          /\ save[s].botIds \cap known = save[s].botIds
      BY <1>3
    <3> QED BY <2>2, <3>1, <1>1, <1>3 DEF FailAfter, Pcs
  <2> QED BY <2>1, <2>2
<1>5. selected' \subseteq known /\ bots' \subseteq known
  BY <1>3, <1>4
<1>6. /\ group' \in Groups /\ group'.asked = group.asked
      /\ group'.botsAsked = group.botsAsked
      /\ group'.base = group.base /\ group'.botBase = group.botBase
      /\ group'.through = group.through /\ group'.botsThrough = group.botsThrough
  BY <1>1, <1>3 DEF SelectionTypeOK, Groups
<1>7. selected' \in {selected, selected \cup save[s].ids, selected \cap save[s].ids}
  BY <1>4
<1>8. bots' # bots => /\ save[s].listed
                      /\ bots' \in {bots \cup save[s].botIds, bots \cap save[s].botIds}
  BY <1>4
<1> QED BY <1>1, <1>2, <1>5, <1>6, <1>7, <1>8, UpdateKeeps

LEMMA SInvNext == SInv /\ [SelectionNext]_selectionVars => SInv'
<1> SUFFICES ASSUME SInv, [SelectionNext]_selectionVars PROVE SInv'
  OBVIOUS
<1>1. CASE UNCHANGED selectionVars
  BY <1>1 DEF selectionVars, SInv, SelectionTypeOK, AsksKnown, SelectionReached, BotsReached,
              ReadersSeeOldOrNew, OnlyAsked, AllAsked, Between
<1>2. CASE \E items \in SUBSET Items : Refresh(items)
  BY <1>2, RefreshKeeps
<1>3. ASSUME NEW s \in Savers,
             \E ids, botIds \in SUBSET Items, listed \in BOOLEAN : Begin(s, ids, listed, botIds)
      PROVE  SInv'
  BY <1>3, BeginKeeps
<1>4. ASSUME NEW s \in Savers,
             \/ SetTrue(s) \/ SetFalse(s) \/ BotsTrue(s) \/ BotsFalse(s)
             \/ Fail(s) \/ FailAfter(s)
      PROVE  SInv'
  BY <1>4, SetTrueKeeps, SetFalseKeeps, BotsTrueKeeps, BotsFalseKeeps, FailsKeep
<1> QED BY <1>1, <1>2, <1>3, <1>4 DEF SelectionNext

LEMMA SInvAlways == SelectionSpec => []SInv
<1> QED BY SInvInit, SInvNext, PTL DEF SelectionSpec

-----------------------------------------------------------------------------
(* Flags are carried by rows that exist, whatever interleaves or fails.     *)
THEOREM SelectionTypeCorrect == SelectionSpec => []SelectionTypeOK
<1>1. SInv => SelectionTypeOK
  BY DEF SInv
<1> QED BY <1>1, SInvAlways, PTL

(* Between any updates of any number of overlapping saves, and after any of *)
(* them failed, a reader sees what all of them keep and nothing that        *)
(* neither was there nor is asked for, however many rows there are.         *)
THEOREM ReadersCorrect == SelectionSpec => []ReadersSeeOldOrNew
<1>1. SInv => ReadersSeeOldOrNew
  BY DEF SInv
<1> QED BY <1>1, SInvAlways, PTL

(* When no save is under way and one has gone through, what the saves that  *)
(* overlapped it agree on is stored, the opt-ins, too; after a single save, *)
(* exactly what it asked for, whatever earlier saves left undone.           *)
THEOREM SavesTakeEffectCorrect == SelectionSpec => []SavesTakeEffect
<1>1. SInv => SavesTakeEffect
  BY DEF SInv, SavesTakeEffect, SelectionReached, BotsReached, OnlyAsked, AllAsked, AsAsked
<1> QED BY <1>1, SInvAlways, PTL

-----------------------------------------------------------------------------
(* GmailConnection, for any callbacks and users, failing reads and writes. *)

USE GmailConnectionAssumption

Rows == [id : Nat, access : Nat, refresh : Nat]
Calls == [pc : {"idle", "read", "upsert"}, access : Nat, refresh : Nat, old : Nat,
          fresh : BOOLEAN]
Uses == [pc : {"idle", "call", "called"}, row : Rows, minted : BOOLEAN]

TokenTypes ==
  /\ conn \in Rows /\ cb \in [Callbacks -> Calls] /\ use \in [Users -> Uses]
  /\ lastToken \in Nat /\ lastRowId \in Nat

(* What a callback read is still the stored token, unless the read failed, *)
(* another one has written, or the row is gone.                            *)
ReadIsStored == \A c \in Callbacks :
  cb[c].pc = "upsert" /\ cb[c].fresh => cb[c].old = conn.refresh \/ conn = NoRow

(* A row, and the copy a run works on, has an id of its own.               *)
RowsHaveIds ==
  /\ conn # NoRow => conn.id # 0
  /\ \A u \in Users : use[u].pc # "idle" => use[u].row.id # 0

(* Nobody has read anything before the read.                               *)
NotYetFresh == \A c \in Callbacks : cb[c].pc = "read" => ~cb[c].fresh

KInv == TokenTypes /\ ReadIsStored /\ NotYetFresh /\ RowsHaveIds

Kept ==
  conn.id = conn'.id /\ conn.refresh # Blank /\ conn'.refresh = Blank =>
    \E c \in Callbacks : cb[c].pc = "upsert" /\ ~cb[c].fresh /\ cb'[c].pc = "idle"

-----------------------------------------------------------------------------
LEMMA Shapes == NoCall.fresh = FALSE /\ NoRow \in Rows /\ NoCall \in Calls /\ NoUse \in Uses /\ NoCall.pc = "idle"
                /\ NoUse.pc = "idle" /\ NoRow.id = 0
                /\ NoRow.refresh = Blank
BY DEF NoRow, NoCall, NoUse, Rows, Calls, Uses, Blank

LEMMA KInvInit == TokenInit => KInv
BY Shapes DEF TokenInit, KInv, TokenTypes, ReadIsStored, NotYetFresh, RowsHaveIds

\* Callback c becomes the record r; the row keeps its token.
LEMMA CallbackStep ==
  ASSUME KInv, NEW c \in Callbacks, NEW r \in Calls, cb' = [cb EXCEPT ![c] = r],
         r.pc = "upsert" /\ r.fresh => r.old = conn.refresh, r.pc = "read" => ~r.fresh,
         UNCHANGED <<conn, use, lastRowId>>,
         lastToken' \in Nat
  PROVE  KInv' /\ Kept
<1>1. /\ cb' \in [Callbacks -> Calls]
      /\ \A d \in Callbacks : cb'[d] = IF d = c THEN r ELSE cb[d]
  BY DEF KInv, TokenTypes
<1> QED BY <1>1 DEF KInv, TokenTypes, ReadIsStored, NotYetFresh, RowsHaveIds, Kept

LEMMA TokenExchangeKeeps == ASSUME KInv, NEW c \in Callbacks, ExchangeGoogleCode(c) PROVE KInv' /\ Kept
<1>0. lastToken' \in Nat
  BY DEF ExchangeGoogleCode, KInv, TokenTypes
<1>1. PICK refresh \in {lastToken'} \cup (IF grants = {} THEN {} ELSE {Blank}) :
        cb' = [cb EXCEPT ![c] = [pc |-> "read", access |-> lastToken', refresh |-> refresh,
                                 old |-> Blank, fresh |-> FALSE]]
  BY DEF ExchangeGoogleCode
<1> DEFINE r == [pc |-> "read", access |-> lastToken', refresh |-> refresh, old |-> Blank,
                 fresh |-> FALSE]
<1>2. r \in Calls /\ r.pc = "read" /\ ~r.fresh /\ cb' = [cb EXCEPT ![c] = r]
  BY <1>0, <1>1 DEF Calls, Blank
<1> HIDE DEF r
<1>3. UNCHANGED <<conn, use, lastRowId>>
  BY DEF ExchangeGoogleCode
<1> QED BY <1>0, <1>2, <1>3, CallbackStep

LEMMA TokenReadKeeps == ASSUME KInv, NEW c \in Callbacks, ReadExisting(c) PROVE KInv' /\ Kept
<1> DEFINE r == [cb[c] EXCEPT !.pc = "upsert", !.old = conn.refresh, !.fresh = TRUE]
<1>1. cb' = [cb EXCEPT ![c] = r] /\ UNCHANGED <<conn, use, lastRowId, lastToken>>
  BY DEF ReadExisting, KInv, TokenTypes
<1>2. r \in Calls /\ r.pc = "upsert" /\ r.old = conn.refresh
  BY DEF KInv, TokenTypes, Calls, Rows
<1> HIDE DEF r
<1>3. lastToken' \in Nat
  BY <1>1 DEF KInv, TokenTypes
<1> QED BY <1>1, <1>2, <1>3, CallbackStep

\* A callback that could not read is not fresh.
LEMMA TokenReadFailsKeeps ==
  ASSUME KInv, NEW c \in Callbacks, ReadExistingFails(c)
  PROVE  KInv' /\ Kept
<1>1. /\ cb' = [cb EXCEPT ![c].pc = "upsert", ![c].old = Blank]
      /\ UNCHANGED <<conn, use, lastRowId, lastToken>>
      /\ cb[c].pc = "read"
  BY DEF ReadExistingFails
<1>2. cb[c] \in Calls /\ cb \in [Callbacks -> Calls]
  BY DEF KInv, TokenTypes
<1>3. cb[c].fresh = FALSE
  BY <1>1, <1>2 DEF KInv, NotYetFresh, Calls
<1> DEFINE r == [cb[c] EXCEPT !.pc = "upsert", !.old = Blank]
<1>4. cb' = [cb EXCEPT ![c] = r]
  BY <1>1, <1>2
<1>5. r \in Calls /\ r.fresh = FALSE
  BY <1>2, <1>3 DEF Calls, Blank
<1> HIDE DEF r
<1>6. lastToken' \in Nat
  BY <1>1 DEF KInv, TokenTypes
<1> QED BY <1>1, <1>4, <1>5, <1>6, CallbackStep

LEMMA UpsertFailsKeeps == ASSUME KInv, NEW c \in Callbacks, UpsertRowFails(c) PROVE KInv' /\ Kept
<1>1. cb' = [cb EXCEPT ![c] = NoCall] /\ UNCHANGED <<conn, use, lastRowId, lastToken>>
  BY DEF UpsertRowFails
<1>2. lastToken' \in Nat
  BY <1>1 DEF KInv, TokenTypes
<1> QED BY <1>1, <1>2, Shapes, CallbackStep

\* A callback writes what Google sent, or else what it read; what the others have read is
\* fresh no more.
LEMMA TokenUpsertKeeps == ASSUME KInv, NEW c \in Callbacks, UpsertRow(c) PROVE KInv' /\ Kept
<1>1. /\ cb[c].pc = "upsert"
      /\ cb' = [d \in Callbacks |-> IF d = c THEN NoCall ELSE [cb[d] EXCEPT !.fresh = FALSE]]
      /\ conn' = [id |-> IF conn = NoRow THEN lastRowId' ELSE conn.id,
                  access |-> cb[c].access, refresh |-> EffectiveRefresh(c)]
      /\ lastRowId' = IF conn = NoRow THEN lastRowId + 1 ELSE lastRowId
      /\ UNCHANGED <<use, lastToken>>
  BY DEF UpsertRow
<1>2. cb[c] \in Calls
  BY DEF KInv, TokenTypes
<1>3. EffectiveRefresh(c) \in Nat
  BY <1>2 DEF EffectiveRefresh, Calls
<1>4. conn' \in Rows /\ lastRowId' \in Nat
  BY <1>1, <1>2, <1>3 DEF KInv, TokenTypes, Rows, Calls
<1>5. /\ cb' \in [Callbacks -> Calls] /\ cb'[c].pc = "idle"
      /\ \A d \in Callbacks : ~cb'[d].fresh
  <2>1. NoCall.fresh = FALSE /\ \A d \in Callbacks : cb[d] \in Calls
    BY DEF NoCall, KInv, TokenTypes
  <2>2. ASSUME NEW d \in Callbacks PROVE cb'[d] \in Calls /\ ~cb'[d].fresh
    <3>1. CASE d = c
      BY <1>1, <2>1, <3>1, Shapes
    <3>2. CASE d # c
      <4>1. cb'[d] = [cb[d] EXCEPT !.fresh = FALSE]
        BY <1>1, <3>2
      <4> QED BY <2>1, <4>1 DEF Calls
    <3> QED BY <3>1, <3>2
  <2> QED BY <1>1, <2>2, Shapes
<1>6. KInv'
  <2>1. conn'.id # 0
    BY <1>1 DEF KInv, TokenTypes, RowsHaveIds
  <2>2. TokenTypes' /\ ReadIsStored' /\ NotYetFresh'
    BY <1>1, <1>4, <1>5 DEF KInv, TokenTypes, ReadIsStored, NotYetFresh
  <2> QED BY <1>1, <2>1, <2>2 DEF KInv, RowsHaveIds
<1>7. Kept
  <2>1. ASSUME conn.id = conn'.id, conn.refresh # Blank, conn'.refresh = Blank PROVE ~cb[c].fresh
    <3>1. EffectiveRefresh(c) = Blank
      BY <1>1, <2>1
    <3>2. cb[c].old = Blank
      BY <3>1 DEF EffectiveRefresh
    <3> QED BY <1>1, <2>1, <3>2, Shapes DEF KInv, ReadIsStored
  <2> QED BY <1>1, <1>5, <2>1 DEF Kept
<1> QED BY <1>6, <1>7

LEMMA TokenDeleteKeeps == ASSUME KInv, DeleteRow PROVE KInv' /\ Kept
<1>1. conn' = NoRow /\ conn # NoRow /\ UNCHANGED <<cb, use, lastRowId, lastToken>>
  BY DEF DeleteRow
<1>2. KInv'
  BY <1>1, Shapes DEF KInv, TokenTypes, ReadIsStored, NotYetFresh, RowsHaveIds
<1>3. Kept
  BY <1>1, Shapes DEF Kept, KInv, RowsHaveIds
<1> QED BY <1>2, <1>3

-----------------------------------------------------------------------------
(* Runs and pickers.                                                        *)

\* User u's record becomes r, which works on a row with an id.
LEMMA TokenUserStep ==
  ASSUME KInv, NEW u \in Users, NEW r \in Uses, use' = [use EXCEPT ![u] = r],
         r.pc # "idle" => r.row.id # 0, UNCHANGED <<conn, cb, lastRowId>>, lastToken' \in Nat
  PROVE  KInv' /\ Kept
<1>1. /\ use' \in [Users -> Uses]
      /\ \A v \in Users : use'[v] = IF v = u THEN r ELSE use[v]
  BY DEF KInv, TokenTypes
<1> QED BY <1>1 DEF KInv, TokenTypes, ReadIsStored, NotYetFresh, RowsHaveIds, Kept

LEMMA TokenBeginKeeps == ASSUME KInv, NEW u \in Users, BeginUse(u) PROVE KInv' /\ Kept
<1> DEFINE r == [pc |-> "call", row |-> conn, minted |-> FALSE]
<1>1. /\ use' = [use EXCEPT ![u] = r] /\ conn # NoRow
      /\ UNCHANGED <<conn, cb, lastRowId, lastToken>>
  BY DEF BeginUse
<1>2. r \in Uses /\ r.row = conn
  BY DEF KInv, TokenTypes, Uses
<1> HIDE DEF r
<1>3. lastToken' \in Nat /\ conn.id # 0
  BY <1>1 DEF KInv, TokenTypes, RowsHaveIds
<1> QED BY <1>1, <1>2, <1>3, TokenUserStep

\* A call that mints no token.
LEMMA CallKeeps == ASSUME KInv, NEW u \in Users, Call(u) \/ CallRaises(u) PROVE KInv' /\ Kept
<1> DEFINE r == [use[u] EXCEPT !.pc = "called"]
<1>1. /\ use[u].pc = "call" /\ use' = [use EXCEPT ![u] = r]
      /\ UNCHANGED <<conn, cb, lastRowId, lastToken>>
  BY DEF Call, CallRaises, Called
<1>2. r \in Uses /\ r.row = use[u].row
  BY DEF KInv, TokenTypes, Uses
<1> HIDE DEF r
<1>3. lastToken' \in Nat /\ use[u].row.id # 0
  BY <1>1 DEF KInv, TokenTypes, RowsHaveIds
<1> QED BY <1>1, <1>2, <1>3, TokenUserStep

LEMMA CallRefreshedKeeps == ASSUME KInv, NEW u \in Users, CallRefreshed(u) PROVE KInv' /\ Kept
<1> DEFINE row == [use[u].row EXCEPT !.access = lastToken + 1]
           r == [use[u] EXCEPT !.pc = "called", !.row = row, !.minted = TRUE]
<1>1. /\ use[u].pc \in {"call", "called"} /\ lastToken' = lastToken + 1
      /\ UNCHANGED <<conn, cb, lastRowId>>
  BY DEF CallRefreshed
<1>2. use \in [Users -> Uses] /\ lastToken + 1 \in Nat /\ lastToken' \in Nat
  BY <1>1 DEF KInv, TokenTypes
<1>3. use' = [use EXCEPT ![u] = r]
  BY <1>1, <1>2 DEF CallRefreshed, Called, Uses, Rows
<1>4. row \in Rows /\ row.id = use[u].row.id
  BY <1>2 DEF Uses, Rows
<1> HIDE DEF row
<1>5. r \in Uses /\ r.row = row
  BY <1>2, <1>4 DEF Uses
<1> HIDE DEF r
<1>6. use[u].row.id # 0
  BY <1>1 DEF KInv, RowsHaveIds
<1> QED BY <1>1, <1>2, <1>3, <1>4, <1>5, <1>6, TokenUserStep

\* A run that ends writes its access token to the row it began with.
LEMMA TokenEndKeeps == ASSUME KInv, NEW u \in Users, EndUse(u) PROVE KInv' /\ Kept
<1>1. /\ use[u].pc = "called" /\ use' = [use EXCEPT ![u] = NoUse]
      /\ UNCHANGED <<cb, lastRowId, lastToken>>
  BY DEF EndUse
<1>2. /\ use' \in [Users -> Uses]
      /\ \A v \in Users : use'[v] = IF v = u THEN NoUse ELSE use[v]
  BY <1>1, Shapes DEF KInv, TokenTypes
<1>3. /\ conn' \in Rows /\ conn'.refresh = conn.refresh /\ conn'.id = conn.id
      /\ (conn = NoRow <=> conn' = NoRow)
  <2>1. CASE UNCHANGED conn
    BY <2>1 DEF KInv, TokenTypes
  <2>2. CASE Persists(u) /\ conn' = [conn EXCEPT !.access = use[u].row.access]
    <3>1. conn.id # 0 /\ conn \in Rows /\ use[u].row.access \in Nat
      BY <1>1, <2>2 DEF KInv, TokenTypes, RowsHaveIds, Persists, Uses, Rows
    <3>2. conn' \in Rows /\ conn'.refresh = conn.refresh /\ conn'.id = conn.id
      BY <2>2, <3>1 DEF Rows
    <3> QED BY <3>1, <3>2, Shapes
  <2> QED BY <2>1, <2>2 DEF EndUse
<1>4. KInv'
  BY <1>1, <1>2, <1>3, Shapes DEF KInv, TokenTypes, ReadIsStored, NotYetFresh, RowsHaveIds
<1>5. Kept
  BY <1>3 DEF Kept
<1> QED BY <1>4, <1>5

-----------------------------------------------------------------------------
\* What does not concern the row, callbacks or runs.
LEMMA RestKeeps ==
  ASSUME KInv, UNCHANGED <<conn, cb, use, lastToken, lastRowId>> PROVE KInv' /\ Kept
BY DEF KInv, TokenTypes, ReadIsStored, NotYetFresh, RowsHaveIds, Kept

LEMMA KInvStep == ASSUME KInv, [TokenNext]_tokenVars PROVE KInv' /\ Kept
<1>1. CASE Withdraw \/ (\E a \in accepted : TokenExpires(a)) \/ UNCHANGED tokenVars
  <2>1. UNCHANGED <<conn, cb, use, lastToken, lastRowId>>
    BY <1>1 DEF Withdraw, TokenExpires, tokenVars
  <2> QED BY <2>1, RestKeeps
<1>2. CASE DeleteRow
  BY <1>2, TokenDeleteKeeps
<1>3. ASSUME NEW c \in Callbacks,
             \/ ExchangeGoogleCode(c) \/ ReadExisting(c) \/ ReadExistingFails(c)
             \/ UpsertRow(c) \/ UpsertRowFails(c)
      PROVE  KInv' /\ Kept
  BY <1>3, TokenExchangeKeeps, TokenReadKeeps, TokenReadFailsKeeps, TokenUpsertKeeps,
     UpsertFailsKeeps
<1>4. ASSUME NEW u \in Users,
             BeginUse(u) \/ Call(u) \/ CallRefreshed(u) \/ CallRaises(u) \/ EndUse(u)
      PROVE  KInv' /\ Kept
  BY <1>4, TokenBeginKeeps, CallKeeps, CallRefreshedKeeps, TokenEndKeeps
<1> QED BY <1>1, <1>2, <1>3, <1>4 DEF TokenNext

(* However reconnects, disconnects, runs and pickers overlap, and whatever  *)
(* reads and writes fail: only a reconnect without a token of its own whose *)
(* read failed or was overtaken blanks a stored refresh token               *)
(* (upsert_gmail_connection).                                               *)
THEOREM RefreshTokenCorrect == TokenSpec => RefreshTokenKept
<1>1. KInv /\ [TokenNext]_tokenVars => KInv' /\ [Kept]_tokenVars
  BY KInvStep
<1>2. [Kept]_tokenVars =>
        [conn.id = conn'.id /\ conn.refresh # Blank /\ conn'.refresh = Blank =>
           \E c \in Callbacks : cb[c].pc = "upsert" /\ ~cb[c].fresh /\ cb'[c].pc = "idle"]_tokenVars
  BY DEF Kept
<1> QED BY <1>1, <1>2, KInvInit, PTL DEF TokenSpec, RefreshTokenKept
=============================================================================
