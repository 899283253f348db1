------------------------ MODULE RealtimeIngestProofs ------------------------
(***************************************************************************)
(* RealtimeIngest for all sets of messages, workers and tasks, every set   *)
(* of faults and all bounds: its types, who owns the keys in _in_flight,   *)
(* and that the delete after a re-upload never costs the document that the *)
(* state file points to; and where no answer is lost: one copy of a        *)
(* message in one process.                                                 *)
(***************************************************************************)
EXTENDS RealtimeIngest, TLAPS

USE MessagesAssumption, NoEntryAssumption, NoSourceAssumption, AdmittedAssumption

-----------------------------------------------------------------------------
(* Tasks.                                                                  *)

PCs == {"start", "ingest", "upload", "record", "release", "reread", "drop", "purge", "remove"}

Live(t) == task[t] # Idle

\* The fields of a task that the state file and HydraDB see stay as they are.
SameEvent(e, f) == /\ e.kind = f.kind /\ e.msg = f.msg /\ e.inThread = f.inThread
                   /\ e.worker = f.worker

LEMMA KeyTypes == \A m \in Messages : MsgKey(m) \in Keys /\ ThreadKey(m) \in Keys
                                      /\ MsgKey(m) # ThreadKey(m)
                                      /\ MsgKey(m)[2] = m /\ ThreadKey(m)[2] = m
BY DEF MsgKey, ThreadKey, Keys

LEMMA BusyFields ==
  ASSUME TypeOK, NEW t \in Tasks, task[t].pc \in PCs
  PROVE  task[t] \in Busy /\ Live(t)
BY DEF TypeOK, Idle, PCs, Live

LEMMA LiveFields == ASSUME TypeOK, NEW t \in Tasks, Live(t) PROVE task[t] \in Busy
BY DEF TypeOK, Live

LEMMA IdleNotBusy == \A e \in Busy : e # Idle /\ e.pc \in PCs
BY DEF Busy, Idle, PCs

LEMMA EventType ==
  ASSUME NEW kind \in Kinds, NEW m \in Messages, NEW inThread \in BOOLEAN, NEW r \in Nat,
         NEW w \in Workers
  PROVE  Event(kind, m, inThread, r, w) \in Busy
BY DEF Event, Busy, SourceIds

LEMMA SourceIdFacts == Nat \subseteq SourceIds /\ NoSource \in SourceIds
BY DEF SourceIds

\* The updates of a task that the steps make.
LEMMA BusyUpdates ==
  ASSUME NEW e \in Busy, NEW pc \in PCs, NEW n \in Nat, NEW s \in SourceIds
  PROVE  /\ [e EXCEPT !.pc = pc] \in Busy
         /\ [e EXCEPT !.pc = pc, !.raised = TRUE] \in Busy
         /\ [e EXCEPT !.pc = pc, !.rev = n] \in Busy
         /\ [e EXCEPT !.attempt = n] \in Busy
         /\ [e EXCEPT !.pc = pc, !.oldSource = s] \in Busy
         /\ [e EXCEPT !.pc = pc, !.oldSource = s, !.oldStamp = n] \in Busy
         /\ [e EXCEPT !.pc = pc, !.upload = n, !.source = s] \in Busy
BY DEF Busy, PCs

\* How the helpers change a task.
LEMMA GotoStep ==
  ASSUME TypeOK, NEW t \in Tasks, task[t] \in Busy, NEW pc \in PCs, Goto(t, pc)
  PROVE  /\ task' = [task EXCEPT ![t] = [task[t] EXCEPT !.pc = pc]]
         /\ task' \in [Tasks -> Busy \cup {Idle}]
BY DEF TypeOK, Goto, Busy, PCs

LEMMA FinishStep ==
  ASSUME TypeOK, NEW t \in Tasks, Finish(t)
  PROVE  task' \in [Tasks -> Busy \cup {Idle}]
BY DEF TypeOK, Finish

LEMMA ReturnStep ==
  ASSUME TypeOK, NEW t \in Tasks, task[t] \in Busy, Return(t)
  PROVE  task' \in [Tasks -> Busy \cup {Idle}]
BY GotoStep, FinishStep DEF Return, PCs

LEMMA RetriedStep ==
  ASSUME TypeOK, NEW t \in Tasks, task[t] \in Busy, Retried(t)
  PROVE  task' \in [Tasks -> Busy \cup {Idle}]
<1> DEFINE e == [Event(task[t].kind, task[t].msg, task[t].inThread, task[t].rev, task[t].worker)
                   EXCEPT !.attempt = task[t].attempt + 1]
<1>1. e \in Busy
  <2>1. Event(task[t].kind, task[t].msg, task[t].inThread, task[t].rev, task[t].worker) \in Busy
    BY EventType, ZenonT(60) DEF Busy
  <2>2. task[t].attempt + 1 \in Nat
    BY DEF Busy
  <2> QED
    BY <2>1, <2>2, BusyUpdates, SourceIdFacts DEF PCs
<1>2. task'[t] \in {e, Idle} /\ task' = [task EXCEPT ![t] = task'[t]]
  BY DEF Retried, TypeOK
<1> QED
  BY <1>1, <1>2 DEF TypeOK

-----------------------------------------------------------------------------
(* Types.                                                                  *)

LEMMA InitTypeOK == Init => TypeOK
BY DEF Init, TypeOK, EmptyEntries, Entries, Doc

LEMMA TypeStep == TypeOK /\ [Next]_vars => TypeOK'
<1> SUFFICES ASSUME TypeOK, [Next]_vars PROVE TypeOK'
  OBVIOUS
<1> DEFINE TaskType == task \in [Tasks -> Busy \cup {Idle}]
           SlackType == /\ rev \in [Messages -> Nat] /\ thread \in [Messages -> Nat]
                        /\ gone \in SUBSET Messages /\ duplicates \in Nat
           StoreType == docs \in SUBSET Doc /\ nextId \in Nat
<1> USE DEF slack, store
<1>0. TaskType /\ SlackType /\ StoreType /\ entries \in Entries
  BY DEF TypeOK
\* What a user does.
<1>1. ASSUME NEW kind \in Kinds, NEW m \in Messages, NEW inThread \in BOOLEAN, NEW r \in Nat,
             Deliver(kind, m, inThread, r), SlackType'
      PROVE  TypeOK'
  BY <1>1, EventType DEF Deliver, TypeOK
<1>2. ASSUME NEW m \in Messages, UserStep(m) PROVE TypeOK'
  <2>1. CASE Post(m)
    <3>1. SlackType'
      BY <2>1, <1>0 DEF Post
    <3> QED
      BY <2>1, <3>1, <1>1 DEF Post, Kinds
  <2>2. CASE Edit(m)
    <3>1. SlackType'
      BY <2>2, <1>0 DEF Edit
    <3>2. rev[m] + 1 \in Nat /\ (thread[m] > 0) \in BOOLEAN /\ "changed" \in Kinds
      BY <1>0 DEF Kinds
    <3>3. Deliver("changed", m, thread[m] > 0, rev[m] + 1)
      BY <2>2 DEF Edit
    <3> QED
      BY <3>1, <3>2, <3>3, <1>1
  <2>3. CASE Delete(m)
    <3>1. SlackType'
      BY <2>3, <1>0 DEF Delete
    <3>2. rev[m] \in Nat /\ FALSE \in BOOLEAN /\ "deleted" \in Kinds
      BY <1>0 DEF Kinds
    <3>3. Deliver("deleted", m, FALSE, rev[m])
      BY <2>3 DEF Delete
    <3> QED
      BY <3>1, <3>2, <3>3, <1>1
  <2>4. CASE Redeliver(m)
    <3>1. SlackType'
      BY <2>4, <1>0 DEF Redeliver
    <3> QED
      BY <2>4, <3>1, <1>1 DEF Redeliver, Kinds
  <2>5. ASSUME NEW kind \in Kinds, Discuss(m, kind) PROVE TypeOK'
    <3>1. SlackType'
      BY <2>5, <1>0 DEF Discuss
    <3>2. thread[m] + 1 \in Nat /\ TRUE \in BOOLEAN
      BY <1>0
    <3>3. Deliver(kind, m, TRUE, thread[m] + 1)
      BY <2>5 DEF Discuss
    <3> QED
      BY <3>1, <3>2, <3>3, <1>1
  <2> QED
    BY <1>2, <2>1, <2>2, <2>3, <2>4, <2>5 DEF UserStep
\* What a task does.
<1>3. ASSUME NEW t \in Tasks, TaskStep(t)
      PROVE  /\ task[t] \in Busy /\ t \in Tasks
             /\ KeyOf(task[t]) \in Keys /\ MsgKey(task[t].msg) \in Keys
             /\ task[t].worker \in Workers
  <2>1. task[t].pc \in PCs
    BY <1>3 DEF TaskStep, Ignore, ReadOld, Claim, FetchThread, AtIngest, Upload, Record, Release,
                Repost, Reread, DropOld, LookUp, Purge, Remove, Raise, PCs
  <2>2. task[t] \in Busy
    BY <2>1, BusyFields
  <2> QED
    BY <2>2, KeyTypes DEF Busy, KeyOf
<1>4. \A k \in Keys : SourceOf(entries, k) \in SourceIds /\ StampOf(entries, k) \in Nat
  BY <1>0, SourceIdFacts DEF SourceOf, StampOf, Has, Entries, Entry
<1>5. ASSUME NEW t \in Tasks, TaskStep(t) PROVE TypeOK'
  <2> USE <1>3, <1>5
  <2>1. CASE Ignore(t)
    BY <2>1, FinishStep DEF Ignore, TypeOK
  <2>2. CASE ReadOld(t)
    <3>1. TaskType'
      BY <2>2, <1>0, <1>4, BusyUpdates DEF ReadOld, PCs
    <3> QED
      BY <2>2, <3>1 DEF ReadOld, TypeOK
  <2>3. CASE Claim(t)
    BY <2>3, ReturnStep, GotoStep DEF Claim, TypeOK, PCs
  <2>4. CASE FetchThread(t)
    <3>1. thread[task[t].msg] \in Nat
      BY <1>0 DEF Busy
    <3>2. TaskType'
      <4>1. [task[t] EXCEPT !.pc = "upload", !.rev = thread[task[t].msg]] \in Busy
        BY <3>1, BusyUpdates, SourceIdFacts DEF PCs
      <4>2. [task[t] EXCEPT !.pc = "upload", !.rev = 0] \in Busy
        BY BusyUpdates, SourceIdFacts DEF PCs
      <4> QED
        BY <2>4, <4>1, <4>2, <1>0, ReturnStep DEF FetchThread
    <3> QED
      BY <2>4, <3>2 DEF FetchThread, TypeOK
  <2>5. CASE Upload(t)
    <3>1. [id |-> nextId, key |-> KeyOf(task[t]), rev |-> task[t].rev] \in Doc /\ nextId + 1 \in Nat
      BY <1>0 DEF Doc, Busy
    <3>2. ASSUME NEW s \in {nextId, NoSource}, Uploaded(t, s) PROVE TaskType' /\ StoreType'
      <4>1. [task[t] EXCEPT !.pc = "record", !.upload = nextId, !.source = s] \in Busy
        BY <1>0, <3>2, BusyUpdates, SourceIdFacts DEF PCs
      <4> QED
        BY <3>1, <3>2, <4>1, <1>0 DEF Uploaded
    <3>3. ASSUME UploadFailed(t) PROVE TaskType'
      BY <3>3, ReturnStep, GotoStep DEF UploadFailed, PCs
    <3>4. ASSUME StoreOrphan(t) PROVE StoreType'
      BY <3>4, <1>0 DEF StoreOrphan, Orphan, Doc
    <3>5. TaskType' /\ StoreType'
      BY <2>5, <3>2, <3>3, <3>4, <1>0 DEF Upload
    <3> QED
      BY <2>5, <3>5 DEF Upload, TypeOK
  <2>6. CASE Record(t)
    <3>1. entries' \in Entries
      BY <2>6, <1>0 DEF Record, MarkUploaded, Entries, Entry, Busy
    <3> QED
      BY <2>6, <3>1, ReturnStep, GotoStep DEF Record, TypeOK, PCs
  <2>7. CASE Release(t)
    <3>1. TaskType'
      BY <2>7, ReturnStep, RetriedStep DEF Release
    <3> QED
      BY <2>7, <3>1 DEF Release, TypeOK
  <2>8. CASE Reread(t)
    BY <2>8, GotoStep, FinishStep DEF Reread, TypeOK, PCs
  <2>9. CASE DropOld(t)
    BY <2>9, FinishStep DEF DropOld, DeleteDoc, TypeOK
  <2>10. CASE LookUp(t)
    <3>1. TaskType'
      <4>1. \A pc \in PCs, s \in SourceIds : [task[t] EXCEPT !.pc = pc, !.oldSource = s] \in Busy
        BY BusyUpdates
      <4>2. /\ SourceOf(entries, MsgKey(task[t].msg)) \in SourceIds
            /\ (IF SourceOf(entries, MsgKey(task[t].msg)) = NoSource THEN "remove" ELSE "purge") \in PCs
        BY <1>4 DEF PCs
      <4> QED
        BY <2>10, <4>1, <4>2, <1>0 DEF LookUp
    <3> QED
      BY <2>10, <3>1 DEF LookUp, TypeOK
  <2>11. CASE Purge(t)
    BY <2>11, GotoStep DEF Purge, DeleteDoc, TypeOK, PCs
  <2>12. CASE Remove(t)
    <3>1. entries' \in Entries
      BY <2>12, <1>0 DEF Remove, RemoveEntry, Entries
    <3> QED
      BY <2>12, <3>1, FinishStep DEF Remove, TypeOK
  <2>13. CASE Raise(t)
    <3>1. TaskType'
      <4>1. [task[t] EXCEPT !.pc = "release", !.raised = TRUE] \in Busy
        BY BusyUpdates, SourceIdFacts DEF PCs
      <4> QED
        BY <2>13, <4>1, <1>0, RetriedStep DEF Raise
    <3> QED
      BY <2>13, <3>1 DEF Raise, TypeOK
  <2>14. CASE Repost(t)
    BY <2>14 DEF Repost, StoreOrphan, Orphan, Doc, TypeOK
  <2> QED
    BY <2>1, <2>2, <2>3, <2>4, <2>5, <2>6, <2>7, <2>8, <2>9, <2>10, <2>11, <2>12, <2>13, <2>14
       DEF TaskStep
<1>6. ASSUME NEW w \in Workers, Crash(w) PROVE TypeOK'
  BY <1>6 DEF Crash, TypeOK
<1>7. CASE UNCHANGED vars
  BY <1>7 DEF vars, TypeOK
<1> QED
  BY <1>2, <1>5, <1>6, <1>7 DEF Next

(* Type correctness of the realtime path.                                  *)
THEOREM TypeCorrect == Spec => []TypeOK
BY InitTypeOK, TypeStep, PTL DEF Spec

-----------------------------------------------------------------------------
(* What a step changes in its task.                                        *)

\* Task t ends, or goes on with the same event.
Proceeds(t) ==
  /\ \A u \in Tasks \ {t} : task'[u] = task[u]
  /\ \/ task'[t] = Idle
     \/ SameEvent(task'[t], task[t])

\* It is then at pc with the same old entry and upload ...
MovesTo(t, pc) == /\ task'[t].pc = pc /\ task'[t].upload = task[t].upload
                  /\ task'[t].oldSource = task[t].oldSource
                  /\ task'[t].oldStamp = task[t].oldStamp
\* ... or begins again.
Restarts(t) == task'[t].pc = "start" /\ task'[t].oldSource = NoSource

LEMMA GotoEffect ==
  ASSUME TypeOK, NEW t \in Tasks, task[t] \in Busy, NEW pc, Goto(t, pc)
  PROVE  Proceeds(t) /\ MovesTo(t, pc)
BY DEF TypeOK, Goto, Busy, Proceeds, SameEvent, MovesTo

LEMMA FinishEffect ==
  ASSUME TypeOK, NEW t \in Tasks, Finish(t)
  PROVE  Proceeds(t) /\ task'[t] = Idle
BY DEF TypeOK, Finish, Proceeds

LEMMA ReturnEffect ==
  ASSUME TypeOK, NEW t \in Tasks, task[t] \in Busy, Return(t)
  PROVE  Proceeds(t) /\ (task'[t] = Idle \/ MovesTo(t, "reread"))
BY GotoEffect, FinishEffect DEF Return

LEMMA RetriedEffect ==
  ASSUME TypeOK, NEW t \in Tasks, task[t] \in Busy, Retried(t)
  PROVE  Proceeds(t) /\ (task'[t] = Idle \/ Restarts(t))
<1>1. \A a : [Event(task[t].kind, task[t].msg, task[t].inThread, task[t].rev, task[t].worker)
                EXCEPT !.attempt = a].oldSource = NoSource
  BY DEF Event
<1> QED
  BY DEF TypeOK, Retried, Event, Proceeds, SameEvent, Restarts

LEMMA SameKey ==
  ASSUME NEW e, NEW f, SameEvent(e, f)
  PROVE  KeyOf(e) = KeyOf(f) /\ e.msg = f.msg
BY DEF SameEvent, KeyOf

\* The states in which each task step is possible, and what it does to the task.
LEMMA TaskEffects ==
  ASSUME TypeOK, NEW t \in Tasks
  PROVE  /\ TaskStep(t) => Live(t) /\ task[t] \in Busy /\ Proceeds(t)
         /\ Ignore(t) => task'[t] = Idle
         /\ ReadOld(t) => /\ task[t].pc = "start" /\ task'[t].pc = "ingest"
                          /\ task'[t].oldSource = SourceOf(entries, KeyOf(task[t]))
                          /\ task'[t].oldStamp = StampOf(entries, KeyOf(task[t]))
         /\ FetchThread(t) => /\ task[t].pc \in {"start", "ingest"}
                              /\ KeyOf(task[t]) = ThreadKey(task[t].msg)
                              /\ \/ MovesTo(t, "upload")
                                 \/ MovesTo(t, "reread")
                                 \/ task'[t] = Idle
         /\ LookUp(t) => /\ task[t].pc = "start"
                         /\ task'[t].pc = IF SourceOf(entries, MsgKey(task[t].msg)) = NoSource
                                          THEN "remove" ELSE "purge"
                         /\ task'[t].oldSource = SourceOf(entries, MsgKey(task[t].msg))
         /\ Raise(t) => \/ /\ Holds(task[t])
                           /\ MovesTo(t, "release")
                        \/ /\ ~Holds(task[t])
                           /\ task'[t] = Idle \/ Restarts(t)
<1> USE DEF TypeOK
<1>1. Ignore(t) => Live(t) /\ task[t] \in Busy /\ Proceeds(t) /\ task'[t] = Idle
  BY BusyFields, FinishEffect DEF Ignore, PCs
<1>2. ReadOld(t) => /\ Live(t) /\ task[t] \in Busy /\ Proceeds(t)
                    /\ task[t].pc = "start" /\ task'[t].pc = "ingest"
                    /\ task'[t].oldSource = SourceOf(entries, KeyOf(task[t]))
                    /\ task'[t].oldStamp = StampOf(entries, KeyOf(task[t]))
  <2> SUFFICES ASSUME ReadOld(t)
               PROVE  /\ Live(t) /\ task[t] \in Busy /\ Proceeds(t)
                      /\ task[t].pc = "start" /\ task'[t].pc = "ingest"
                      /\ task'[t].oldSource = SourceOf(entries, KeyOf(task[t]))
                      /\ task'[t].oldStamp = StampOf(entries, KeyOf(task[t]))
    OBVIOUS
  <2>1. Live(t) /\ task[t] \in Busy /\ task[t].pc = "start"
    BY BusyFields DEF ReadOld, PCs
  <2>2. task' = [task EXCEPT ![t] = [task[t] EXCEPT
                   !.pc = "ingest", !.oldSource = SourceOf(entries, KeyOf(task[t])),
                   !.oldStamp = StampOf(entries, KeyOf(task[t]))]]
    BY DEF ReadOld
  <2> QED
    BY <2>1, <2>2 DEF Proceeds, SameEvent, Busy
<1>3. FetchThread(t) => /\ Live(t) /\ task[t] \in Busy /\ Proceeds(t)
                        /\ task[t].pc \in {"start", "ingest"}
                        /\ KeyOf(task[t]) = ThreadKey(task[t].msg)
                        /\ MovesTo(t, "upload") \/ MovesTo(t, "reread") \/ task'[t] = Idle
  <2> SUFFICES ASSUME FetchThread(t)
               PROVE  /\ Live(t) /\ task[t] \in Busy /\ Proceeds(t)
                      /\ task[t].pc \in {"start", "ingest"}
                      /\ KeyOf(task[t]) = ThreadKey(task[t].msg)
                      /\ MovesTo(t, "upload") \/ MovesTo(t, "reread") \/ task'[t] = Idle
    OBVIOUS
  <2>1. /\ Live(t) /\ task[t] \in Busy /\ task[t].pc \in {"start", "ingest"}
        /\ KeyOf(task[t]) = ThreadKey(task[t].msg)
    BY BusyFields DEF FetchThread, AtIngest, PCs
  <2>2. CASE Return(t)
    BY <2>1, <2>2, ReturnEffect
  <2>3. ASSUME NEW n, task' = [task EXCEPT ![t].pc = "upload", ![t].rev = n]
        PROVE  Proceeds(t) /\ MovesTo(t, "upload")
    BY <2>1, <2>3 DEF Proceeds, SameEvent, MovesTo, Busy
  <2> QED
    BY <2>1, <2>2, <2>3 DEF FetchThread
<1>4. LookUp(t) => /\ Live(t) /\ task[t] \in Busy /\ Proceeds(t)
                   /\ task[t].pc = "start"
                   /\ task'[t].pc = IF SourceOf(entries, MsgKey(task[t].msg)) = NoSource
                                    THEN "remove" ELSE "purge"
                   /\ task'[t].oldSource = SourceOf(entries, MsgKey(task[t].msg))
  BY BusyFields DEF LookUp, PCs, Proceeds, SameEvent, Busy
<1>5. Raise(t) => /\ Live(t) /\ task[t] \in Busy /\ Proceeds(t)
                  /\ \/ Holds(task[t]) /\ MovesTo(t, "release")
                     \/ ~Holds(task[t]) /\ (task'[t] = Idle \/ Restarts(t))
  <2> SUFFICES ASSUME Raise(t)
               PROVE  /\ Live(t) /\ task[t] \in Busy /\ Proceeds(t)
                      /\ \/ Holds(task[t]) /\ MovesTo(t, "release")
                         \/ ~Holds(task[t]) /\ (task'[t] = Idle \/ Restarts(t))
    OBVIOUS
  <2>1. Live(t) /\ task[t] \in Busy
    BY BusyFields DEF Raise, PCs
  <2>2. CASE Holds(task[t])
    BY <2>1, <2>2 DEF Raise, Proceeds, SameEvent, MovesTo, Busy
  <2>3. CASE ~Holds(task[t])
    BY <2>1, <2>3, RetriedEffect DEF Raise
  <2> QED
    BY <2>1, <2>2, <2>3
<1>6. Upload(t) => Live(t) /\ task[t] \in Busy /\ Proceeds(t)
  <2> SUFFICES ASSUME Upload(t) PROVE Live(t) /\ task[t] \in Busy /\ Proceeds(t)
    OBVIOUS
  <2>1. Live(t) /\ task[t] \in Busy
    BY BusyFields DEF Upload, PCs
  <2>2. CASE UploadFailed(t)
    BY <2>1, <2>2, GotoEffect, ReturnEffect DEF UploadFailed
  <2>3. ASSUME NEW x, Uploaded(t, x) PROVE Proceeds(t)
    BY <2>1, <2>3 DEF Uploaded, Proceeds, SameEvent, Busy
  <2> QED
    BY <2>1, <2>2, <2>3 DEF Upload
<1>7. Claim(t) \/ Record(t) \/ Release(t) => Live(t) /\ task[t] \in Busy /\ Proceeds(t)
  BY BusyFields, GotoEffect, ReturnEffect, RetriedEffect DEF Claim, AtIngest, Record, Release, PCs
<1>8. Reread(t) \/ DropOld(t) \/ Purge(t) \/ Remove(t) => Live(t) /\ task[t] \in Busy /\ Proceeds(t)
  BY BusyFields, GotoEffect, FinishEffect DEF Reread, DropOld, Purge, Remove, PCs
<1>9. Repost(t) => Live(t) /\ task[t] \in Busy /\ Proceeds(t)
  BY BusyFields DEF Repost, PCs, Proceeds, SameEvent
<1> HIDE DEF TypeOK
<1> QED
  BY <1>1, <1>2, <1>3, <1>4, <1>5, <1>6, <1>7, <1>8, <1>9 DEF TaskStep

-----------------------------------------------------------------------------
(* Ownership of _in_flight.                                                *)

HoldsKey(t, w, k) ==
  Live(t) /\ Holds(task[t]) /\ task[t].worker = w /\ KeyOf(task[t]) = k

Owned ==
  \A w \in Workers, k \in Keys :
    /\ \A t \in Tasks : HoldsKey(t, w, k) => k \in inFlight[w]
    /\ k \in inFlight[w] => \E t \in Tasks : HoldsKey(t, w, k)
    /\ \A t, u \in Tasks : HoldsKey(t, w, k) /\ HoldsKey(u, w, k) => t = u

\* The finally block runs only in tasks that took the key.
ReleaseOwn == \A t \in Tasks : Live(t) /\ task[t].pc = "release" => Holds(task[t])

(* The inductive invariant of ownership.                                   *)
OwnInv == TypeOK /\ Owned /\ ReleaseOwn

LEMMA OwnedInFlight == Owned => InFlightOwned
<1> SUFFICES ASSUME Owned, NEW w \in Workers, NEW k \in Keys
             PROVE  LET H == {t \in Tasks : /\ task[t] # Idle /\ Holds(task[t])
                                            /\ task[t].worker = w /\ KeyOf(task[t]) = k}
                    IN  IF k \in inFlight[w] THEN \E t \in H : H = {t} ELSE H = {}
  BY DEF InFlightOwned
<1> DEFINE H == {t \in Tasks : /\ task[t] # Idle /\ Holds(task[t])
                               /\ task[t].worker = w /\ KeyOf(task[t]) = k}
<1>1. \A t \in Tasks : t \in H <=> HoldsKey(t, w, k)
  BY DEF HoldsKey, Live
<1>2. CASE k \in inFlight[w]
  <2>1. PICK t \in Tasks : HoldsKey(t, w, k)
    BY <1>2 DEF Owned
  <2>2. H = {t}
    BY <1>1, <2>1 DEF Owned
  <2> QED
    BY <1>2, <2>2
<1>3. CASE k \notin inFlight[w]
  BY <1>1, <1>3 DEF Owned
<1> QED
  BY <1>2, <1>3

\* A step of one task that neither takes nor releases a key.
LEMMA OwnedKept ==
  ASSUME OwnInv, NEW t \in Tasks, Proceeds(t), UNCHANGED inFlight,
         Live(t)' /\ Holds(task[t])' <=> Live(t) /\ Holds(task[t]),
         Live(t)' /\ task[t].pc' = "release" => Holds(task[t])'
  PROVE  Owned' /\ ReleaseOwn'
<1>1. \A u \in Tasks : u # t => /\ Live(u)' <=> Live(u)
                                /\ task'[u] = task[u]
  BY DEF Proceeds, Live
<1>2. \A u \in Tasks, w \in Workers, k \in Keys : HoldsKey(u, w, k)' <=> HoldsKey(u, w, k)
  <2>1. \A w \in Workers, k \in Keys : HoldsKey(t, w, k)' <=> HoldsKey(t, w, k)
    BY SameKey DEF Proceeds, HoldsKey, SameEvent, Live
  <2>2. ASSUME NEW u \in Tasks, u # t, NEW w \in Workers, NEW k \in Keys
        PROVE  HoldsKey(u, w, k)' <=> HoldsKey(u, w, k)
    BY <1>1, <2>2 DEF HoldsKey
  <2> QED
    BY <2>1, <2>2
<1>3. Owned'
  BY <1>2 DEF OwnInv, Owned
<1>4. ReleaseOwn'
  BY <1>1 DEF OwnInv, ReleaseOwn
<1> QED
  BY <1>3, <1>4

LEMMA StepOwnInv == OwnInv /\ [Next]_vars => OwnInv'
<1> SUFFICES ASSUME OwnInv, [Next]_vars PROVE OwnInv'
  OBVIOUS
<1>0. TypeOK /\ TypeOK'
  BY TypeStep DEF OwnInv
<1> SUFFICES Owned' /\ ReleaseOwn'
  BY <1>0 DEF OwnInv
<1> USE DEF store
\* Every event starts a task that holds nothing.
<1>1. ASSUME NEW m \in Messages, UserStep(m) PROVE Owned' /\ ReleaseOwn'
  <2>0. \E t \in Tasks : \E e :
          /\ task[t] = Idle /\ e.pc = "start"
          /\ task' = [task EXCEPT ![t] = e] /\ UNCHANGED inFlight
    BY <1>1 DEF UserStep, Post, Edit, Delete, Redeliver, Discuss, Deliver, Event
  <2> PICK t \in Tasks : \E e :
          /\ task[t] = Idle /\ e.pc = "start"
          /\ task' = [task EXCEPT ![t] = e] /\ UNCHANGED inFlight
    BY <2>0
  <2>1. PICK e :
          /\ task[t] = Idle /\ e.pc = "start"
          /\ task' = [task EXCEPT ![t] = e] /\ UNCHANGED inFlight
    OBVIOUS
  <2>2. /\ ~(Live(t) /\ Holds(task[t])) /\ ~(Live(t)' /\ Holds(task[t])')
        /\ task'[t].pc # "release"
    BY <1>0, <2>1 DEF Live, Holds, TypeOK
  <2>3. \A u \in Tasks : u # t => (Live(u)' <=> Live(u)) /\ task'[u] = task[u]
    BY <1>0, <2>1 DEF Live, TypeOK
  <2>4. \A u \in Tasks, w \in Workers, k \in Keys : HoldsKey(u, w, k)' <=> HoldsKey(u, w, k)
    BY <2>2, <2>3 DEF HoldsKey
  <2> QED
    BY <2>1, <2>2, <2>3, <2>4 DEF OwnInv, Owned, ReleaseOwn
<1>2. ASSUME NEW t \in Tasks, TaskStep(t) PROVE Owned' /\ ReleaseOwn'
  <2> USE <1>0
  <2>1. Live(t) /\ task[t] \in Busy /\ Proceeds(t)
    BY <1>2, TaskEffects
  <2>2. task'[t] # Idle => KeyOf(task'[t]) = KeyOf(task[t]) /\ task'[t].msg = task[t].msg
    BY <2>1, SameKey DEF Proceeds
  \* Steps before the claim and after the release.
  <2>3. CASE /\ task[t].pc \notin {"upload", "record", "release"}
             /\ task'[t] = Idle \/ task'[t].pc \notin {"upload", "record", "release"}
             /\ UNCHANGED inFlight
    BY <2>1, <2>3, OwnedKept DEF Holds, Live
  \* Steps of a thread's re-upload, and between claim and release.
  <2>4. ASSUME UNCHANGED inFlight, task'[t] = Idle \/ task'[t].pc \in {"upload", "record", "reread", "start"},
               KeyOf(task[t]) # MsgKey(task[t].msg)
        PROVE  Owned' /\ ReleaseOwn'
    BY <2>1, <2>2, <2>4, OwnedKept DEF Holds, Live
  <2>5. ASSUME UNCHANGED inFlight, Holds(task[t]), task'[t].pc \in {"record", "release"}
        PROVE  Owned' /\ ReleaseOwn'
    BY <2>1, <2>2, <2>5, OwnedKept DEF Holds, Live, Idle
  <2>6. CASE Ignore(t) \/ ReadOld(t) \/ LookUp(t)
    BY <2>3, <2>6, TaskEffects DEF Ignore, ReadOld, LookUp
  <2>7. CASE Claim(t)
    <3> DEFINE k == KeyOf(task[t])
               w == task[t].worker
    <3>1. CASE Return(t) /\ UNCHANGED inFlight
      BY <2>1, <2>3, <2>7, <3>1, ReturnEffect DEF Claim, AtIngest, MovesTo
    <3>2. CASE k \notin inFlight[w] /\ Goto(t, "upload") /\ inFlight' = [inFlight EXCEPT ![w] = @ \cup {k}]
      <4>1. w \in Workers /\ k \in Keys /\ k = MsgKey(task[t].msg) /\ task[t].pc \in {"start", "ingest"}
        BY <2>1, <2>7, KeyTypes DEF Busy, Claim, AtIngest
      <4>2. MovesTo(t, "upload")
        BY <2>1, <3>2, GotoEffect
      <4>3. task'[t].pc = "upload" /\ SameEvent(task'[t], task[t]) /\ task'[t] # Idle
        BY <2>1, <4>2 DEF MovesTo, Proceeds, Idle
      <4>4. \A v \in Workers, j \in Keys :
              /\ ~HoldsKey(t, v, j)
              /\ HoldsKey(t, v, j)' <=> v = w /\ j = k
              /\ j \in inFlight'[v] <=> j \in inFlight[v] \/ (v = w /\ j = k)
        BY <2>2, <3>2, <4>1, <4>3 DEF HoldsKey, Holds, Live, SameEvent, TypeOK
      <4>5. \A u \in Tasks, v \in Workers, j \in Keys :
              u # t => (HoldsKey(u, v, j)' <=> HoldsKey(u, v, j))
        BY <2>1 DEF Proceeds, HoldsKey, Live
      <4>6. Owned'
        BY <3>2, <4>1, <4>4, <4>5 DEF OwnInv, Owned
      <4>7. ReleaseOwn'
        BY <2>1, <4>3 DEF OwnInv, ReleaseOwn, Proceeds, Live
      <4> QED
        BY <4>6, <4>7
    <3> QED
      BY <2>7, <3>1, <3>2 DEF Claim, Skips
  <2>8. CASE FetchThread(t)
    <3>1. KeyOf(task[t]) # MsgKey(task[t].msg) /\ UNCHANGED inFlight
      BY <2>1, <2>8, TaskEffects, KeyTypes DEF Busy, FetchThread
    <3>2. task'[t] = Idle \/ task'[t].pc \in {"upload", "record", "reread", "start"}
      BY <2>8, TaskEffects DEF MovesTo
    <3> QED
      BY <2>4, <3>1, <3>2
  <2>9. CASE Upload(t) \/ Record(t)
    <3>1. task[t].pc \in {"upload", "record"} /\ UNCHANGED inFlight
      BY <2>9 DEF Upload, Record
    <3>2. CASE Holds(task[t])
      <4>1. CASE Goto(t, "release")
        BY <2>1, <2>5, <3>1, <3>2, <4>1, GotoEffect DEF MovesTo
      <4>2. ASSUME NEW x, Uploaded(t, x) PROVE task'[t].pc = "record"
        BY <2>1, <4>2 DEF Uploaded, TypeOK, Busy
      <4> QED
        BY <2>5, <2>9, <3>1, <3>2, <4>1, <4>2 DEF Upload, UploadFailed, Record
    <3>3. CASE ~Holds(task[t])
      <4>1. KeyOf(task[t]) # MsgKey(task[t].msg)
        BY <3>1, <3>3 DEF Holds
      <4>2. CASE Return(t)
        BY <2>1, <2>4, <3>1, <4>1, <4>2, ReturnEffect DEF MovesTo
      <4>3. ASSUME NEW x, Uploaded(t, x) PROVE task'[t].pc = "record"
        BY <2>1, <4>3 DEF Uploaded, TypeOK, Busy
      <4> QED
        BY <2>4, <2>9, <3>1, <3>3, <4>1, <4>2, <4>3 DEF Upload, UploadFailed, Record
    <3> QED
      BY <3>2, <3>3
  <2>10. CASE Release(t)
    <3> DEFINE k == KeyOf(task[t])
               w == task[t].worker
    <3>1. /\ inFlight' = [inFlight EXCEPT ![w] = @ \ {k}]
          /\ Holds(task[t]) /\ HoldsKey(t, w, k) /\ w \in Workers /\ k \in Keys
      BY <2>1, <2>10, KeyTypes DEF Release, OwnInv, ReleaseOwn, HoldsKey, Holds, Busy
    <3>2. task'[t] = Idle \/ task'[t].pc \in {"reread", "start"}
      BY <2>1, <2>10, ReturnEffect, RetriedEffect DEF Release, MovesTo, Restarts
    <3>3. \A v \in Workers, j \in Keys :
            /\ ~HoldsKey(t, v, j)'
            /\ HoldsKey(t, v, j) <=> v = w /\ j = k
            /\ j \in inFlight'[v] <=> j \in inFlight[v] /\ ~(v = w /\ j = k)
      BY <3>1, <3>2 DEF HoldsKey, Holds, Live, TypeOK
    <3>4. \A u \in Tasks, v \in Workers, j \in Keys :
            u # t => (HoldsKey(u, v, j)' <=> HoldsKey(u, v, j))
      BY <2>1 DEF Proceeds, HoldsKey, Live
    <3>5. Owned'
      BY <3>1, <3>3, <3>4 DEF OwnInv, Owned
    <3>6. ReleaseOwn'
      BY <2>1, <3>2 DEF OwnInv, ReleaseOwn, Proceeds, Live
    <3> QED
      BY <3>5, <3>6
  <2>11. CASE Reread(t) \/ DropOld(t) \/ Purge(t) \/ Remove(t)
    <3>1. /\ task[t].pc \notin {"upload", "record", "release"} /\ UNCHANGED inFlight
          /\ Finish(t) \/ Goto(t, "drop") \/ Goto(t, "remove")
      BY <2>11 DEF Reread, DropOld, Purge, Remove
    <3>2. task'[t] = Idle \/ task'[t].pc \in {"drop", "remove"}
      BY <2>1, <3>1, FinishEffect, GotoEffect DEF MovesTo
    <3> QED
      BY <2>3, <3>1, <3>2
  <2>12. CASE Raise(t)
    <3>1. UNCHANGED inFlight
      BY <2>12 DEF Raise
    <3>2. CASE Holds(task[t]) /\ MovesTo(t, "release")
      BY <2>5, <3>1, <3>2 DEF MovesTo
    <3>3. CASE ~Holds(task[t]) /\ (task'[t] = Idle \/ task'[t].pc = "start")
      <4>1. Live(t)' => ~Holds(task[t])' /\ task[t].pc' # "release"
        BY <3>3 DEF Holds, Live
      <4> QED
        BY <2>1, <3>1, <3>3, <4>1, OwnedKept
    <3> QED
      BY <2>12, <3>2, <3>3, TaskEffects DEF Restarts
  <2>13. CASE Repost(t)
    BY <2>13, OwnedKept, <2>1 DEF Repost, Live, OwnInv, ReleaseOwn
  <2> QED
    BY <1>2, <2>6, <2>7, <2>8, <2>9, <2>10, <2>11, <2>12, <2>13 DEF TaskStep
<1>3. ASSUME NEW w \in Workers, Crash(w) PROVE Owned' /\ ReleaseOwn'
  <2>1. /\ \A t \in Tasks : task'[t] = IF task[t] # Idle /\ task[t].worker = w THEN Idle ELSE task[t]
        /\ inFlight' = [inFlight EXCEPT ![w] = {}]
    BY <1>3 DEF Crash
  <2>2. \A t \in Tasks, v \in Workers, k \in Keys :
          /\ HoldsKey(t, v, k)' <=> v # w /\ HoldsKey(t, v, k)
          /\ k \in inFlight'[v] <=> v # w /\ k \in inFlight[v]
    BY <1>0, <2>1 DEF HoldsKey, Live, TypeOK
  <2>3. Owned'
    BY <1>0, <2>1, <2>2 DEF OwnInv, Owned, TypeOK
  <2>4. ReleaseOwn'
    BY <2>1 DEF OwnInv, ReleaseOwn, Live
  <2> QED
    BY <2>3, <2>4
<1>4. CASE UNCHANGED vars
  BY <1>4 DEF vars, OwnInv, Owned, ReleaseOwn, HoldsKey, Live
<1> QED
  BY <1>1, <1>2, <1>3, <1>4 DEF Next

(* A key is in _in_flight exactly while one task of that process is        *)
(* between taking and releasing it (_ingest_standalone), whatever raises.  *)
THEOREM KeysAreOwned == Spec => []InFlightOwned
<1>1. Init => OwnInv
  <2> SUFFICES ASSUME Init PROVE Owned /\ ReleaseOwn
    BY InitTypeOK DEF OwnInv
  <2>1. \A t \in Tasks : ~Live(t)
    BY DEF Init, Live
  <2> QED
    BY <2>1 DEF Init, Owned, ReleaseOwn, HoldsKey
<1>2. OwnInv => InFlightOwned
  BY OwnedInFlight DEF OwnInv
<1> QED
  BY <1>1, <1>2, StepOwnInv, PTL DEF Spec

-----------------------------------------------------------------------------
(* Ids: what the state file, the documents and the tasks know of each      *)
(* other.                                                                  *)

Stamp(k) == entries[k].uploaded_at

\* The uploads whose id was learned: 0 is nobody's.
Known(id) == 0 < id /\ id < nextId
USE DEF Known

\* An entry names an upload of its own key, and no other entry does.
EntriesNameUploads ==
  /\ 0 < nextId /\ \A d \in docs : d.id < nextId
  /\ \A k \in Keys :
       Has(entries, k) => /\ Known(Stamp(k))
                          /\ entries[k].source_id \in {Stamp(k), NoSource}
                          /\ \A d \in docs : d.id = Stamp(k) => d.key = k
  /\ \A j, k \in Keys :
       Has(entries, j) /\ Has(entries, k) /\ Stamp(j) = Stamp(k) => j = k

\* A task about to record names a live document of its key that no entry names.
Recording(t) ==
  Live(t) /\ task[t].pc = "record" =>
    /\ Known(task[t].upload)
    /\ task[t].source \in {task[t].upload, NoSource}
    /\ \E d \in docs : d.id = task[t].upload /\ d.key = KeyOf(task[t])
    /\ \A d \in docs : d.id = task[t].upload => d.key = KeyOf(task[t])
    /\ \A k \in Keys : Has(entries, k) => Stamp(k) # task[t].upload

\* The old document a task remembers is one of its key; the key has been
\* tracked since, unless the message was deleted.
Remembers(t) ==
  Live(t) /\ task[t].oldSource # NoSource =>
    /\ Known(task[t].oldSource)
    /\ task[t].pc \notin {"purge", "remove"} => task[t].oldSource = task[t].oldStamp
    /\ \A k \in Keys : k # KeyOf(task[t]) /\ Has(entries, k) => Stamp(k) # task[t].oldSource
    /\ \A d \in docs : d.id = task[t].oldSource => d.key = KeyOf(task[t])
    /\ Has(entries, KeyOf(task[t])) \/ task[t].msg \in gone

\* A document about to be dropped is not the one the state file names.
Dropping(t) ==
  /\ Live(t) /\ task[t].pc \in {"drop", "purge"} => task[t].oldSource # NoSource
  /\ Live(t) /\ task[t].pc = "drop" /\ Has(entries, KeyOf(task[t]))
       => Stamp(KeyOf(task[t])) # task[t].oldSource

Deleting(t) ==
  Live(t) =>
    /\ task[t].pc \in {"purge", "remove"} => task[t].kind = "deleted" /\ ~task[t].inThread
    /\ task[t].kind = "deleted" /\ ~task[t].inThread => task[t].msg \in gone

\* No two tasks record the same upload, and none remembers an unrecorded one.
UploadsApart ==
  \A t, v \in Tasks :
    Live(t) /\ Live(v) /\ task[v].pc = "record" =>
      /\ t # v /\ task[t].pc = "record" => task[t].upload # task[v].upload
      /\ task[t].oldSource # NoSource => task[t].oldSource # task[v].upload

TaskInv(t) == Recording(t) /\ Remembers(t) /\ Dropping(t) /\ Deleting(t)

(* The inductive invariant behind TrackedIsLive and NoDataHole.  An id is  *)
(* recorded in one entry at most, by the task that got it; a remembered id *)
(* was recorded before.  So once the entry of its key differs from it, it  *)
(* is in no entry, and never will be again.                                *)
IdInv == /\ TypeOK /\ EntriesNameUploads /\ TrackedIsLive /\ UploadsApart
         /\ \A t \in Tasks : TaskInv(t)

LEMMA KeyOfBusy ==
  ASSUME NEW e \in Busy
  PROVE  KeyOf(e) \in Keys /\ KeyOf(e)[2] = e.msg
BY KeyTypes DEF KeyOf, Busy

\* A task that ends, or starts, or goes on with what it remembers, and does
\* not come to a step that records or deletes.
Quiet(t) ==
  \/ task'[t] = task[t]
  \/ task'[t] = Idle
  \/ /\ task'[t].pc \notin {"record", "drop", "purge", "remove"}
     /\ task'[t].kind = "deleted" /\ ~task'[t].inThread => task'[t].msg \in gone'
     /\ \/ task'[t].oldSource = NoSource
        \/ /\ Live(t) /\ SameEvent(task'[t], task[t])
           /\ task[t].pc \notin {"purge", "remove"}
           /\ task'[t].oldSource = task[t].oldSource /\ task'[t].oldStamp = task[t].oldStamp

\* Nothing is removed from HydraDB, and what is new there has a new id or 0.
StoreGrows ==
  /\ nextId <= nextId' /\ docs \subseteq docs'
  /\ \A d \in docs' : d.id < nextId' /\ (d \in docs \/ d.id >= nextId \/ d.id = 0)

LEMMA QuietFacts ==
  ASSUME TypeOK, TypeOK', NEW t \in Tasks, Quiet(t), gone \subseteq gone', Live(t)'
  PROVE  \/ task'[t] = task[t] /\ Live(t)
         \/ /\ task'[t].pc \notin {"record", "drop", "purge", "remove"}
            /\ task'[t].kind = "deleted" /\ ~task'[t].inThread => task'[t].msg \in gone'
            /\ \/ task'[t].oldSource = NoSource
               \/ /\ Live(t) /\ KeyOf(task'[t]) = KeyOf(task[t]) /\ task'[t].msg = task[t].msg
                  /\ task[t].pc \notin {"purge", "remove"}
                  /\ task'[t].oldSource = task[t].oldSource
                  /\ task'[t].oldStamp = task[t].oldStamp
BY SameKey DEF Quiet, Live

\* The part of the invariant about the file and HydraDB, while both grow.
LEMMA GrowKeepsEntries ==
  ASSUME TypeOK, TypeOK', EntriesNameUploads, TrackedIsLive, StoreGrows, UNCHANGED entries,
         gone \subseteq gone'
  PROVE  EntriesNameUploads' /\ TrackedIsLive'
<1>1. \A k \in Keys : Has(entries, k) => Stamp(k) \in Nat
  BY DEF TypeOK, Entries, Entry, Has, Stamp
<1>2. nextId \in Nat /\ nextId' \in Nat /\ \A d \in docs' : d.id \in Nat
  BY DEF TypeOK, Doc
<1>3. EntriesNameUploads'
  BY <1>1, <1>2 DEF EntriesNameUploads, StoreGrows, Has, Stamp
<1>4. TrackedIsLive'
  BY DEF TrackedIsLive, StoreGrows, Has
<1> QED
  BY <1>3, <1>4

LEMMA TaskInvKept ==
  ASSUME TypeOK, TypeOK', NEW t \in Tasks, TaskInv(t), StoreGrows, UNCHANGED entries,
         gone \subseteq gone', Quiet(t)
  PROVE  TaskInv(t)'
<1> SUFFICES ASSUME Live(t)' PROVE TaskInv(t)'
  BY DEF TaskInv, Recording, Remembers, Dropping, Deleting
<1> USE DEF TaskInv, Stamp, Has
<1>0. nextId \in Nat /\ nextId' \in Nat /\ \A d \in docs' : d.id \in Nat
  BY DEF TypeOK, Doc
<1>1. ASSUME NEW x \in Nat, Known(x)
      PROVE  0 < x /\ x < nextId' /\ \A d \in docs' : d.id = x => d \in docs
  BY <1>0, <1>1 DEF StoreGrows
<1>2. CASE task'[t] = task[t] /\ Live(t)
  <2>0. task[t] \in Busy
    BY <1>2, LiveFields
  <2>1. Recording(t)'
    <3> SUFFICES ASSUME task[t].pc = "record" PROVE Recording(t)'
      BY <1>2 DEF Recording
    <3>1. task[t].upload \in Nat /\ Known(task[t].upload)
      BY <1>2, <2>0 DEF Recording, Busy
    <3> QED
      BY <1>1, <1>2, <3>1 DEF Recording, StoreGrows
  <2>2. Remembers(t)'
    <3> SUFFICES ASSUME task[t].oldSource # NoSource PROVE Remembers(t)'
      BY <1>2 DEF Remembers
    <3>1. task[t].oldSource \in Nat /\ Known(task[t].oldSource)
      BY <1>2, <2>0 DEF Remembers, Busy, SourceIds
    <3> QED
      BY <1>1, <1>2, <3>1 DEF Remembers
  <2>3. Dropping(t)' /\ Deleting(t)'
    BY <1>2 DEF Dropping, Deleting
  <2> QED
    BY <2>1, <2>2, <2>3
<1>3. CASE /\ task'[t].pc \notin {"record", "drop", "purge", "remove"}
           /\ task'[t].kind = "deleted" /\ ~task'[t].inThread => task'[t].msg \in gone'
  <2>1. Recording(t)' /\ Dropping(t)' /\ Deleting(t)'
    BY <1>3 DEF Recording, Dropping, Deleting
  <2>2. CASE task'[t].oldSource = NoSource
    BY <2>1, <2>2 DEF Remembers
  <2>3. CASE /\ Live(t) /\ KeyOf(task'[t]) = KeyOf(task[t]) /\ task'[t].msg = task[t].msg
             /\ task[t].pc \notin {"purge", "remove"}
             /\ task'[t].oldSource = task[t].oldSource /\ task'[t].oldStamp = task[t].oldStamp
             /\ task'[t].oldSource # NoSource
    <3>0. task[t] \in Busy
      BY <2>3, LiveFields
    <3>1. task[t].oldSource \in Nat /\ Known(task[t].oldSource)
      BY <2>3, <3>0 DEF Remembers, Busy, SourceIds
    <3>2. Remembers(t)'
      BY <1>1, <2>3, <3>1 DEF Remembers
    <3> QED
      BY <2>1, <3>2
  <2> QED
    BY <1>2, <1>3, <2>2, <2>3, QuietFacts
<1> QED
  BY <1>2, <1>3, QuietFacts

LEMMA QuietStep ==
  ASSUME IdInv, TypeOK', StoreGrows, UNCHANGED entries, gone \subseteq gone',
         \A t \in Tasks : Quiet(t)
  PROVE  IdInv'
<1>1. EntriesNameUploads' /\ TrackedIsLive'
  BY GrowKeepsEntries DEF IdInv
<1>2. \A t \in Tasks : TaskInv(t)'
  BY TaskInvKept DEF IdInv
<1>3. UploadsApart'
  <2> SUFFICES ASSUME NEW t \in Tasks, NEW v \in Tasks,
                      Live(t)', Live(v)', task'[v].pc = "record"
               PROVE  /\ t # v /\ task'[t].pc = "record" => task'[t].upload # task'[v].upload
                      /\ task'[t].oldSource # NoSource => task'[t].oldSource # task'[v].upload
    BY DEF UploadsApart
  <2>1. task'[v] = task[v] /\ Live(v)
    BY QuietFacts DEF IdInv
  <2> QED
    BY <2>1, QuietFacts DEF IdInv, UploadsApart
<1> QED
  BY <1>1, <1>2, <1>3 DEF IdInv

\* The steps that read or change what the others know.  In each, the tasks
\* other than t keep their fields.
LEMMA ReadStep ==
  ASSUME IdInv, TypeOK', NEW t \in Tasks, ReadOld(t) \/ LookUp(t)
  PROVE  IdInv'
<1>0. TypeOK
  BY DEF IdInv
<1>1. /\ Live(t) /\ task[t] \in Busy /\ Proceeds(t) /\ task[t].pc = "start"
      /\ UNCHANGED <<entries, docs, nextId, gone>>
  BY <1>0, TaskEffects DEF TaskStep, ReadOld, LookUp, slack, store
<1>2. /\ task'[t].pc \in {"ingest", "purge", "remove"}
      /\ task'[t].pc = "purge" => task'[t].oldSource # NoSource
      /\ task'[t].pc \in {"purge", "remove"} =>
           task'[t].kind = "deleted" /\ ~task'[t].inThread /\ LookUp(t)
      /\ task'[t].oldSource = SourceOf(entries, KeyOf(task[t]))
      /\ task'[t].pc = "ingest" => task'[t].oldStamp = StampOf(entries, KeyOf(task[t]))
  <2>1. CASE ReadOld(t)
    BY <1>0, <2>1, TaskEffects
  <2>2. CASE LookUp(t)
    <3>1. task[t].kind = "deleted" /\ ~task[t].inThread /\ KeyOf(task[t]) = MsgKey(task[t].msg)
      BY <2>2 DEF LookUp, KeyOf
    <3>2. /\ task'[t].pc = IF SourceOf(entries, MsgKey(task[t].msg)) = NoSource
                           THEN "remove" ELSE "purge"
          /\ task'[t].oldSource = SourceOf(entries, MsgKey(task[t].msg))
      BY <1>0, <2>2, TaskEffects
    <3>3. task'[t].kind = "deleted" /\ ~task'[t].inThread
      BY <1>1, <3>1, <3>2 DEF Proceeds, SameEvent, Idle
    <3> QED
      BY <2>2, <3>1, <3>2, <3>3
  <2> QED
    BY <2>1, <2>2
<1>3. /\ Live(t)' /\ SameEvent(task'[t], task[t])
      /\ KeyOf(task'[t]) = KeyOf(task[t]) /\ task'[t].msg = task[t].msg
  BY <1>1, <1>2, SameKey DEF Proceeds, Live, Idle
<1>4. KeyOf(task[t]) \in Keys
  BY <1>1, KeyOfBusy
<1>5. task'[t].oldSource # NoSource =>
        /\ Has(entries, KeyOf(task[t])) /\ task'[t].oldSource = Stamp(KeyOf(task[t]))
        /\ task'[t].pc = "ingest" => task'[t].oldStamp = task'[t].oldSource
  BY <1>2, <1>4 DEF IdInv, EntriesNameUploads, SourceOf, StampOf, Stamp
<1>6. EntriesNameUploads' /\ TrackedIsLive'
  BY <1>1 DEF IdInv, EntriesNameUploads, TrackedIsLive, Has, Stamp
<1>7. ASSUME NEW v \in Tasks, v # t PROVE TaskInv(v)'
  BY <1>1, <1>7 DEF IdInv, TaskInv, Recording, Remembers, Dropping, Deleting, Proceeds, Live, Has, Stamp
<1>8. TaskInv(t)'
  <2>1. Recording(t)' /\ Dropping(t)'
    BY <1>2 DEF Recording, Dropping
  <2>2. Deleting(t)'
    BY <1>1, <1>2, <1>3 DEF IdInv, TaskInv, Deleting, SameEvent
  <2>3. Remembers(t)'
    <3> SUFFICES ASSUME task'[t].oldSource # NoSource PROVE Remembers(t)'
      BY DEF Remembers
    <3>1. Has(entries, KeyOf(task[t])) /\ task'[t].oldSource = Stamp(KeyOf(task[t]))
      BY <1>5
    <3> QED
      BY <1>1, <1>2, <1>3, <1>4, <1>5, <3>1 DEF IdInv, EntriesNameUploads, Remembers, Has, Stamp
  <2> QED
    BY <2>1, <2>2, <2>3 DEF TaskInv
<1>9. UploadsApart'
  <2> SUFFICES ASSUME NEW u \in Tasks, NEW v \in Tasks,
                      Live(u)', Live(v)', task'[v].pc = "record"
               PROVE  /\ u # v /\ task'[u].pc = "record" => task'[u].upload # task'[v].upload
                      /\ task'[u].oldSource # NoSource => task'[u].oldSource # task'[v].upload
    BY DEF UploadsApart
  <2>1. v # t /\ task'[v] = task[v] /\ Live(v)
    BY <1>1, <1>2 DEF Proceeds, Live
  <2>2. CASE u # t
    BY <1>1, <2>1, <2>2 DEF IdInv, UploadsApart, Proceeds, Live
  <2>3. CASE u = t
    BY <1>2, <1>4, <1>5, <2>1, <2>3 DEF IdInv, TaskInv, Recording
  <2> QED
    BY <2>2, <2>3
<1> QED
  BY <1>6, <1>7, <1>8, <1>9 DEF IdInv

\* A successful upload gets an id nobody knows yet.
LEMMA UploadedStep ==
  ASSUME IdInv, TypeOK', NEW t \in Tasks, Upload(t), NEW s \in {nextId, NoSource}, Uploaded(t, s)
  PROVE  IdInv'
<1> DEFINE d0 == [id |-> nextId, key |-> KeyOf(task[t]), rev |-> task[t].rev]
<1>0. TypeOK /\ nextId \in Nat /\ \A d \in docs : d.id \in Nat
  BY DEF IdInv, TypeOK, Doc
<1>1. /\ Live(t) /\ task[t] \in Busy /\ Proceeds(t) /\ task[t].pc = "upload"
      /\ UNCHANGED <<entries, gone>>
      /\ docs' = docs \cup {d0} /\ nextId' = nextId + 1
  BY <1>0, TaskEffects DEF TaskStep, Upload, Uploaded, slack
<1>2. task' = [task EXCEPT ![t] = [task[t] EXCEPT !.pc = "record", !.upload = nextId, !.source = s]]
  BY DEF Uploaded
<1>3. /\ task'[t].pc = "record" /\ task'[t].upload = nextId /\ task'[t].source = s
      /\ task'[t].oldSource = task[t].oldSource /\ task'[t].oldStamp = task[t].oldStamp
      /\ SameEvent(task'[t], task[t]) /\ Live(t)'
  BY <1>0, <1>1, <1>2 DEF TypeOK, Busy, SameEvent, Live, Idle
<1>4. KeyOf(task'[t]) = KeyOf(task[t]) /\ task'[t].msg = task[t].msg
  BY <1>3, SameKey
<1>5. 0 < nextId /\ \A d \in docs : d.id < nextId
  BY DEF IdInv, EntriesNameUploads
<1>6. StoreGrows
  BY <1>0, <1>1, <1>5 DEF StoreGrows
<1>7. EntriesNameUploads' /\ TrackedIsLive'
  BY <1>0, <1>1, <1>6, GrowKeepsEntries DEF IdInv
<1>8. ASSUME NEW v \in Tasks, v # t PROVE TaskInv(v)'
  <2>1. Quiet(v)
    BY <1>1, <1>8 DEF Proceeds, Quiet
  <2> QED
    BY <1>0, <1>1, <1>6, <2>1, TaskInvKept DEF IdInv
<1>9. TaskInv(t)'
  <2>1. Recording(t)'
    <3>1. \E d \in docs' : d.id = nextId /\ d.key = KeyOf(task[t])
      <4>1. d0 \in docs' /\ d0.id = nextId /\ d0.key = KeyOf(task[t])
        BY <1>1
      <4> QED
        BY <4>1
    <3>2. \A d \in docs' : d.id = nextId => d.key = KeyOf(task[t])
      BY <1>0, <1>1, <1>5
    <3>3. \A k \in Keys : Has(entries, k) => Stamp(k) # nextId
      BY <1>0 DEF IdInv, EntriesNameUploads
    <3>4. 0 < nextId /\ nextId < nextId'
      BY <1>0, <1>1, <1>5
    <3> QED
      BY <1>1, <1>3, <1>4, <3>1, <3>2, <3>3, <3>4 DEF Recording, Has, Stamp
  <2>2. Remembers(t)'
    <3> SUFFICES ASSUME task[t].oldSource # NoSource PROVE Remembers(t)'
      BY <1>3 DEF Remembers
    <3>1. task[t].oldSource \in Nat /\ Known(task[t].oldSource)
      BY <1>1 DEF IdInv, TaskInv, Remembers, Busy, SourceIds
    <3>2. \A d \in docs' : d.id = task[t].oldSource => d \in docs
      BY <1>0, <1>1, <3>1
    <3>3. 0 < task[t].oldSource /\ task[t].oldSource < nextId'
      BY <1>0, <1>1, <3>1
    <3>4. Remembers(t)
      BY DEF IdInv, TaskInv
    <3> QED
      BY <1>1, <1>3, <1>4, <3>2, <3>3, <3>4 DEF Remembers, Has, Stamp
  <2>3. Dropping(t)' /\ Deleting(t)'
    BY <1>1, <1>3 DEF IdInv, TaskInv, Dropping, Deleting, SameEvent
  <2> QED
    BY <2>1, <2>2, <2>3 DEF TaskInv
<1>10. UploadsApart'
  <2> SUFFICES ASSUME NEW u \in Tasks, NEW v \in Tasks,
                      Live(u)', Live(v)', task'[v].pc = "record"
               PROVE  /\ u # v /\ task'[u].pc = "record" => task'[u].upload # task'[v].upload
                      /\ task'[u].oldSource # NoSource => task'[u].oldSource # task'[v].upload
    BY DEF UploadsApart
  <2>1. \A w \in Tasks : /\ w # t => task'[w] = task[w]
                         /\ Live(w)' => Live(w) /\ task'[w].oldSource = task[w].oldSource
    BY <1>1, <1>3 DEF Proceeds, Live
  <2>2. \A w \in Tasks : Live(w) /\ task[w].pc = "record" => task[w].upload < nextId
    BY DEF IdInv, TaskInv, Recording
  <2>3. Live(u) /\ (task[u].oldSource # NoSource => task[u].oldSource < nextId)
    BY <2>1 DEF IdInv, TaskInv, Remembers
  <2>4. CASE v = t
    <3>1. u # v /\ task'[u].pc = "record" => task'[u].upload # nextId
      BY <1>0, <2>1, <2>2, <2>4
    <3>2. task'[u].oldSource # NoSource => task'[u].oldSource # nextId
      BY <1>0, <2>1, <2>3
    <3> QED
      BY <1>3, <2>4, <3>1, <3>2
  <2>5. CASE v # t /\ u = t
    <3>1. task'[v].upload # nextId
      BY <1>0, <2>1, <2>2, <2>5
    <3> QED
      BY <1>3, <2>1, <2>3, <2>5, <3>1 DEF IdInv, UploadsApart
  <2>6. CASE v # t /\ u # t
    BY <2>1, <2>6 DEF IdInv, UploadsApart
  <2> QED
    BY <2>4, <2>5, <2>6
<1> QED
  BY <1>7, <1>8, <1>9, <1>10 DEF IdInv

\* The upload moves from its task to the entry of its key.
LEMMA RecordStep ==
  ASSUME IdInv, TypeOK', NEW t \in Tasks, Record(t)
  PROVE  IdInv'
<1> DEFINE k == KeyOf(task[t])
           id == task[t].upload
<1>0. TypeOK
  BY DEF IdInv
<1>1. /\ Live(t) /\ task[t] \in Busy /\ Proceeds(t) /\ task[t].pc = "record" /\ k \in Keys
      /\ UNCHANGED <<docs, nextId, gone>>
  BY <1>0, TaskEffects, KeyOfBusy DEF TaskStep, Record, slack, store
<1>2. /\ Recording(t)
      /\ \A v \in Tasks : Live(v) =>
           /\ v # t /\ task[v].pc = "record" => task[v].upload # id
           /\ task[v].oldSource # NoSource => task[v].oldSource # id
  BY <1>1 DEF IdInv, TaskInv, UploadsApart
<1>3. /\ Has(entries', k) /\ entries'[k].uploaded_at = id /\ entries'[k].source_id \in {id, NoSource}
      /\ \A j \in Keys : j # k => entries'[j] = entries[j]
  <2>1. entries' = [entries EXCEPT ![k] = [source_id |-> task[t].source, uploaded_at |-> id]]
    BY DEF Record, MarkUploaded
  <2>2. [source_id |-> task[t].source, uploaded_at |-> id] \in Entry
    BY <1>1 DEF Entry, Busy
  <2>3. NoEntry \notin Entry
    BY DEF Entry, SourceIds
  <2> QED
    BY <1>0, <1>1, <1>2, <2>1, <2>2, <2>3 DEF TypeOK, Entries, Has, Recording
<1>4. EntriesNameUploads' /\ TrackedIsLive'
  BY <1>1, <1>2, <1>3 DEF IdInv, EntriesNameUploads, TrackedIsLive, Recording, Has, Stamp
<1>5. task'[t] = Idle \/ MovesTo(t, "release") \/ MovesTo(t, "reread")
  BY <1>0, <1>1, GotoEffect, ReturnEffect DEF Record
<1>6. Quiet(t) /\ \A v \in Tasks : v # t => task'[v] = task[v]
  BY <1>1, <1>5 DEF Proceeds, Quiet, MovesTo, IdInv, TaskInv, Deleting, SameEvent
<1>7. \A v \in Tasks : Live(v)' => /\ Live(v)
                                   /\ KeyOf(task'[v]) = KeyOf(task[v]) /\ task'[v].msg = task[v].msg
                                   /\ task'[v].kind = task[v].kind /\ task'[v].inThread = task[v].inThread
                                   /\ task'[v].oldSource = task[v].oldSource
                                   /\ task'[v].oldStamp = task[v].oldStamp
                                   /\ v = t => task'[v].pc \in {"release", "reread"}
  BY <1>1, <1>5, SameKey DEF Proceeds, MovesTo, Live, SameEvent
<1>8. ASSUME NEW v \in Tasks, Live(v)' PROVE TaskInv(v)'
  <2>1. Recording(v)'
    BY <1>1, <1>2, <1>3, <1>6, <1>7, <1>8 DEF IdInv, TaskInv, Recording, Has, Stamp
  <2>2. Remembers(v)'
    <3> SUFFICES ASSUME task[v].oldSource # NoSource PROVE Remembers(v)'
      BY <1>7, <1>8 DEF Remembers
    <3>1. Remembers(v) /\ task[v].oldSource # id
      BY <1>2, <1>7, <1>8 DEF IdInv, TaskInv
    <3>2. task'[v].pc \notin {"purge", "remove"} => task[v].pc \notin {"purge", "remove"}
      BY <1>1, <1>6
    <3>3. \A j \in Keys : j # KeyOf(task[v]) /\ Has(entries', j) => entries'[j].uploaded_at # task[v].oldSource
      BY <1>3, <1>7, <1>8, <3>1 DEF Remembers, Has, Stamp
    <3>4. Has(entries', KeyOf(task[v])) \/ task[v].msg \in gone
      <4>1. KeyOf(task[v]) \in Keys
        BY <1>0, <1>7, <1>8, LiveFields, KeyOfBusy
      <4> QED
        BY <1>3, <1>7, <1>8, <3>1, <4>1 DEF Remembers, Has
    <3> QED
      BY <1>1, <1>7, <1>8, <3>1, <3>2, <3>3, <3>4 DEF Remembers, Stamp
  <2>3. Dropping(v)' /\ Deleting(v)'
    <3>1. Live(v) /\ Dropping(v) /\ Deleting(v)
      BY <1>7, <1>8 DEF IdInv, TaskInv
    <3>2. task'[v].pc \in {"drop", "purge", "remove"} => v # t /\ task'[v] = task[v]
      BY <1>6, <1>7, <1>8
    <3>3. Deleting(v)'
      BY <1>1, <1>7, <1>8, <3>1, <3>2 DEF Deleting
    <3>4. Dropping(v)'
      <4>1. KeyOf(task[v]) \in Keys
        BY <1>0, <1>7, <1>8, LiveFields, KeyOfBusy
      <4> QED
        BY <1>2, <1>3, <1>8, <3>1, <3>2, <4>1 DEF Dropping, Has, Stamp
    <3> QED
      BY <3>3, <3>4
  <2> QED
    BY <2>1, <2>2, <2>3 DEF TaskInv
<1>9. \A v \in Tasks : TaskInv(v)'
  BY <1>8 DEF TaskInv, Recording, Remembers, Dropping, Deleting
<1>10. UploadsApart'
  BY <1>6, <1>7 DEF IdInv, UploadsApart
<1> QED
  BY <1>4, <1>9, <1>10 DEF IdInv

\* The stamps differ: what the task remembers is in no entry any more.
LEMMA RereadStep ==
  ASSUME IdInv, TypeOK', NEW t \in Tasks, Reread(t), Goto(t, "drop"),
         StampOf(entries, KeyOf(task[t])) # task[t].oldStamp, task[t].oldSource # NoSource
  PROVE  IdInv'
<1>0. TypeOK
  BY DEF IdInv
<1>1. /\ Live(t) /\ task[t] \in Busy /\ Proceeds(t) /\ task[t].pc = "reread"
      /\ UNCHANGED <<entries, docs, nextId, gone>> /\ MovesTo(t, "drop")
  BY <1>0, TaskEffects, GotoEffect DEF TaskStep, Reread, slack, store
<1>2. /\ \A v \in Tasks : v # t => task'[v] = task[v]
      /\ SameEvent(task'[t], task[t]) /\ KeyOf(task'[t]) = KeyOf(task[t])
      /\ task'[t].msg = task[t].msg
  BY <1>1, SameKey DEF Proceeds, MovesTo, Idle
<1>3. EntriesNameUploads' /\ TrackedIsLive'
  BY <1>1 DEF IdInv, EntriesNameUploads, TrackedIsLive, Has, Stamp
<1>4. ASSUME NEW v \in Tasks, v # t PROVE TaskInv(v)'
  BY <1>1, <1>2, <1>4 DEF IdInv, TaskInv, Recording, Remembers, Dropping, Deleting, Live, Has, Stamp
<1>5. TaskInv(t)'
  <2>1. Remembers(t) /\ Deleting(t)
    BY DEF IdInv, TaskInv
  <2>2. Recording(t)' /\ Deleting(t)'
    BY <1>1, <1>2, <2>1 DEF Recording, Deleting, MovesTo, SameEvent
  <2>3. Remembers(t)'
    BY <1>1, <1>2, <2>1 DEF Remembers, MovesTo, Has, Stamp
  <2>4. Dropping(t)'
    BY <1>1, <1>2, <2>1 DEF Remembers, Dropping, MovesTo, Has, Stamp, StampOf
  <2> QED
    BY <2>2, <2>3, <2>4 DEF TaskInv
<1>6. UploadsApart'
  BY <1>1, <1>2 DEF IdInv, UploadsApart, MovesTo, Live
<1> QED
  BY <1>3, <1>4, <1>5, <1>6 DEF IdInv

\* A delete in HydraDB: it hits no document that the file or a task needs.
LEMMA DeleteIsSafe ==
  ASSUME IdInv, NEW t \in Tasks, Live(t), task[t].pc \in {"drop", "purge"}, DeleteDoc(t)
  PROVE  /\ docs' \subseteq docs
         /\ \A d \in docs : d \in docs' \/ d.id = task[t].oldSource
         /\ task[t].oldSource # NoSource
         /\ \A d \in docs : d.id = task[t].oldSource => d.key = KeyOf(task[t])
         /\ \A k \in Keys : Has(entries, k) /\ Stamp(k) = task[t].oldSource => k[2] \in gone
         /\ \A v \in Tasks : Live(v) /\ task[v].pc = "record" => task[v].upload # task[t].oldSource
<1>1. TaskInv(t) /\ UploadsApart /\ TypeOK
  BY DEF IdInv
<1>2. /\ docs' \subseteq docs /\ \A d \in docs : d \in docs' \/ d.id = task[t].oldSource
      /\ task[t].oldSource # NoSource
  BY <1>1 DEF DeleteDoc, TaskInv, Dropping
<1>3. KeyOf(task[t])[2] = task[t].msg
  BY <1>1, LiveFields, KeyOfBusy
<1>4. ASSUME NEW k \in Keys, Has(entries, k), Stamp(k) = task[t].oldSource PROVE k[2] \in gone
  <2>1. k = KeyOf(task[t]) /\ task[t].pc = "purge"
    BY <1>1, <1>2, <1>4 DEF TaskInv, Remembers, Dropping
  <2>2. task[t].msg \in gone
    BY <1>1, <2>1 DEF TaskInv, Deleting
  <2> QED
    BY <1>3, <2>1, <2>2
<1> QED
  BY <1>1, <1>2, <1>4 DEF TaskInv, Remembers, UploadsApart

LEMMA DeleteStep ==
  ASSUME IdInv, TypeOK', NEW t \in Tasks, DropOld(t) \/ Purge(t)
  PROVE  IdInv'
<1>0. TypeOK
  BY DEF IdInv
<1>1. /\ Live(t) /\ task[t] \in Busy /\ Proceeds(t) /\ task[t].pc \in {"drop", "purge"}
      /\ UNCHANGED <<entries, nextId, gone>> /\ DeleteDoc(t)
  BY <1>0, TaskEffects DEF TaskStep, DropOld, Purge, slack
<1>2. task'[t] = Idle \/ (task[t].pc = "purge" /\ MovesTo(t, "remove"))
  BY <1>0, <1>1, FinishEffect, GotoEffect DEF DropOld, Purge
<1>3. \A v \in Tasks : Live(v)' => /\ Live(v)
                                   /\ KeyOf(task'[v]) = KeyOf(task[v]) /\ task'[v].msg = task[v].msg
                                   /\ task'[v].kind = task[v].kind /\ task'[v].inThread = task[v].inThread
                                   /\ task'[v].oldSource = task[v].oldSource
                                   /\ task'[v].oldStamp = task[v].oldStamp
                                   /\ \/ task'[v] = task[v]
                                      \/ task[v].pc = "purge" /\ task'[v].pc = "remove"
  BY <1>1, <1>2, SameKey DEF Proceeds, MovesTo, Live, SameEvent
<1>4. EntriesNameUploads' /\ TrackedIsLive'
  BY <1>1, DeleteIsSafe DEF IdInv, EntriesNameUploads, TrackedIsLive, Has, Stamp
<1>5. ASSUME NEW v \in Tasks, Live(v)' PROVE TaskInv(v)'
  <2>1. Recording(v)'
    BY <1>1, <1>3, <1>5, DeleteIsSafe DEF IdInv, TaskInv, Recording, Has, Stamp
  <2>2. Remembers(v)'
    BY <1>1, <1>3, <1>5, DeleteIsSafe DEF IdInv, TaskInv, Remembers, Has, Stamp
  <2>3. Dropping(v)' /\ Deleting(v)'
    BY <1>1, <1>3, <1>5 DEF IdInv, TaskInv, Dropping, Deleting, Has, Stamp
  <2> QED
    BY <2>1, <2>2, <2>3 DEF TaskInv
<1>6. \A v \in Tasks : TaskInv(v)'
  BY <1>5 DEF TaskInv, Recording, Remembers, Dropping, Deleting
<1>7. UploadsApart'
  BY <1>3 DEF IdInv, UploadsApart
<1> QED
  BY <1>4, <1>6, <1>7 DEF IdInv

\* An entry goes only when its message is gone.
LEMMA RemoveStep ==
  ASSUME IdInv, TypeOK', NEW t \in Tasks, Remove(t)
  PROVE  IdInv'
<1>0. TypeOK
  BY DEF IdInv
<1>1. /\ Live(t) /\ task[t] \in Busy /\ task[t].pc = "remove"
      /\ UNCHANGED <<docs, nextId, gone>>
      /\ task'[t] = Idle /\ \A v \in Tasks : v # t => task'[v] = task[v]
  BY <1>0, TaskEffects, FinishEffect DEF TaskStep, Remove, slack, store, Proceeds
<1>2. \A k \in Keys : IF k = MsgKey(task[t].msg) THEN ~Has(entries', k) ELSE entries'[k] = entries[k]
  BY <1>0, KeyTypes DEF Remove, RemoveEntry, TypeOK, Entries, Has
<1>3. task[t].msg \in gone
  BY <1>1 DEF IdInv, TaskInv, Deleting
<1>4. \A k \in Keys : Has(entries', k) => Has(entries, k) /\ entries'[k] = entries[k]
  BY <1>2 DEF Has
<1>5. EntriesNameUploads' /\ TrackedIsLive'
  BY <1>1, <1>4 DEF IdInv, EntriesNameUploads, TrackedIsLive, Stamp
<1>6. ASSUME NEW v \in Tasks, Live(v)' PROVE TaskInv(v)'
  <2>1. v # t /\ Live(v) /\ task'[v] = task[v] /\ TaskInv(v)
    BY <1>1, <1>6 DEF Live, IdInv
  <2>2. KeyOf(task[v]) \in Keys /\ KeyOf(task[v])[2] = task[v].msg
    BY <1>0, <2>1, LiveFields, KeyOfBusy
  <2>3. Recording(v)' /\ Dropping(v)' /\ Deleting(v)'
    BY <1>1, <1>4, <2>1, <2>2 DEF TaskInv, Recording, Dropping, Deleting, Stamp
  <2>4. Has(entries, KeyOf(task[v])) => Has(entries', KeyOf(task[v])) \/ task[v].msg \in gone
    BY <1>1, <1>2, <1>3, <2>2, KeyTypes, ZenonT(60) DEF Has, Busy
  <2>5. Remembers(v)'
    BY <1>1, <1>4, <2>1, <2>4 DEF TaskInv, Remembers, Stamp
  <2> QED
    BY <2>3, <2>5 DEF TaskInv
<1>7. \A v \in Tasks : TaskInv(v)'
  BY <1>6 DEF TaskInv, Recording, Remembers, Dropping, Deleting
<1>8. UploadsApart'
  BY <1>1 DEF IdInv, UploadsApart, Live
<1> QED
  BY <1>5, <1>7, <1>8 DEF IdInv

\* The other steps of a task are quiet.
LEMMA TaskQuiet ==
  ASSUME IdInv, NEW t \in Tasks, Live(t), Proceeds(t), UNCHANGED gone,
         \/ task'[t] = Idle
         \/ Restarts(t)
         \/ /\ task[t].pc \notin {"purge", "remove"}
            /\ MovesTo(t, "upload") \/ MovesTo(t, "release") \/ MovesTo(t, "reread")
  PROVE  \A v \in Tasks : Quiet(v)
<1>1. \A v \in Tasks : v # t => Quiet(v)
  BY DEF Proceeds, Quiet
<1>2. Quiet(t)
  <2>1. SameEvent(task'[t], task[t]) =>
          (task'[t].kind = "deleted" /\ ~task'[t].inThread => task'[t].msg \in gone')
    BY DEF IdInv, TaskInv, Deleting, SameEvent
  <2> QED
    BY <2>1 DEF Proceeds, Quiet, Restarts, MovesTo
<1> QED
  BY <1>1, <1>2

LEMMA SameStoreGrows ==
  ASSUME IdInv, UNCHANGED <<docs, nextId>> PROVE StoreGrows
BY DEF IdInv, TypeOK, EntriesNameUploads, StoreGrows

LEMMA OrphanGrows ==
  ASSUME IdInv, NEW t \in Tasks, StoreOrphan(t) PROVE StoreGrows
BY DEF IdInv, TypeOK, EntriesNameUploads, StoreOrphan, Orphan, StoreGrows

LEMMA StepIdInv == IdInv /\ [Next]_vars => IdInv'
<1> SUFFICES ASSUME IdInv, [Next]_vars PROVE IdInv'
  OBVIOUS
<1>0. TypeOK /\ TypeOK'
  BY TypeStep DEF IdInv
<1> USE DEF slack, store
<1>1. ASSUME NEW m \in Messages, UserStep(m) PROVE IdInv'
  <2>1. /\ UNCHANGED <<entries, docs, nextId>> /\ gone \subseteq gone'
        /\ \E kind \in Kinds, inThread \in BOOLEAN : \E r :
             /\ Deliver(kind, m, inThread, r)
             /\ kind = "deleted" /\ ~inThread => m \in gone'
    <3>1. CASE Post(m)
      BY <3>1 DEF Post, Deliver, Kinds
    <3>2. CASE Edit(m)
      <4>1. (thread[m] > 0) \in BOOLEAN /\ "changed" \in Kinds /\ "changed" # "deleted"
        BY DEF Kinds
      <4>2. UNCHANGED gone /\ Deliver("changed", m, thread[m] > 0, rev[m] + 1)
        BY <3>2 DEF Edit
      <4>3. UNCHANGED <<entries, docs, nextId>>
        BY <4>2 DEF Deliver
      <4> QED
        BY <4>1, <4>2, <4>3
    <3>3. CASE Delete(m)
      BY <3>3 DEF Delete, Deliver, Kinds
    <3>4. CASE Redeliver(m)
      BY <3>4 DEF Redeliver, Deliver, Kinds
    <3>5. ASSUME NEW kind \in Kinds, Discuss(m, kind)
          PROVE  /\ UNCHANGED <<entries, docs, nextId, gone>>
                 /\ Deliver(kind, m, TRUE, thread[m] + 1)
      <4>1. UNCHANGED gone /\ Deliver(kind, m, TRUE, thread[m] + 1)
        BY <3>5 DEF Discuss
      <4>2. UNCHANGED <<entries, docs, nextId>>
        BY <4>1 DEF Deliver
      <4> QED
        BY <4>1, <4>2
    <3> QED
      BY <1>1, <3>1, <3>2, <3>3, <3>4, <3>5 DEF UserStep
  <2> PICK kind \in Kinds, inThread \in BOOLEAN : \E r :
          /\ Deliver(kind, m, inThread, r)
          /\ kind = "deleted" /\ ~inThread => m \in gone'
    BY <2>1
  <2>2. PICK r :
          /\ Deliver(kind, m, inThread, r)
          /\ kind = "deleted" /\ ~inThread => m \in gone'
    OBVIOUS
  <2>3. PICK t \in Tasks, w \in Workers :
          task[t] = Idle /\ task' = [task EXCEPT ![t] = Event(kind, m, inThread, r, w)]
    BY <2>2 DEF Deliver
  <2>4. \A v \in Tasks : Quiet(v)
    BY <1>0, <2>2, <2>3 DEF TypeOK, Quiet, Event
  <2> QED
    BY <1>0, <2>1, <2>4, QuietStep, SameStoreGrows
<1>2. ASSUME NEW t \in Tasks, TaskStep(t) PROVE IdInv'
  <2> USE <1>0
  <2>1. Live(t) /\ task[t] \in Busy /\ Proceeds(t) /\ UNCHANGED gone
    BY <1>2, TaskEffects DEF TaskStep, Ignore, ReadOld, Claim, FetchThread, Upload, Record, Release,
       Repost, Reread, DropOld, LookUp, Purge, Remove, Raise
  <2>2. ASSUME UNCHANGED entries, StoreGrows,
               \/ task'[t] = Idle
               \/ Restarts(t)
               \/ /\ task[t].pc \notin {"purge", "remove"}
                  /\ MovesTo(t, "upload") \/ MovesTo(t, "release") \/ MovesTo(t, "reread")
        PROVE  IdInv'
    BY <2>1, <2>2, TaskQuiet, QuietStep
  <2>3. CASE Ignore(t)
    BY <2>2, <2>3, TaskEffects, SameStoreGrows DEF Ignore
  <2>4. CASE ReadOld(t) \/ LookUp(t)
    BY <2>4, ReadStep
  <2>5. CASE Claim(t)
    <3>1. task[t].pc \notin {"purge", "remove"} /\ UNCHANGED <<entries, docs, nextId>>
      BY <2>5 DEF Claim, AtIngest
    <3>2. task'[t] = Idle \/ MovesTo(t, "upload") \/ MovesTo(t, "reread")
      BY <2>1, <2>5, ReturnEffect, GotoEffect DEF Claim
    <3> QED
      BY <2>2, <3>1, <3>2, SameStoreGrows
  <2>6. CASE FetchThread(t)
    BY <2>2, <2>6, TaskEffects, SameStoreGrows DEF FetchThread
  <2>7. CASE Upload(t)
    <3>1. ASSUME NEW s \in {nextId, NoSource}, Uploaded(t, s) PROVE IdInv'
      BY <2>7, <3>1, UploadedStep
    <3>2. ASSUME UploadFailed(t), StoreGrows PROVE IdInv'
      <4>1. task[t].pc = "upload" /\ UNCHANGED entries
        BY <2>7 DEF Upload
      <4>2. task'[t] = Idle \/ MovesTo(t, "release") \/ MovesTo(t, "reread")
        BY <2>1, <3>2, GotoEffect, ReturnEffect DEF UploadFailed
      <4> QED
        BY <2>2, <3>2, <4>1, <4>2
    <3> QED
      BY <2>7, <3>1, <3>2, OrphanGrows, SameStoreGrows DEF Upload
  <2>8. CASE Record(t)
    BY <2>8, RecordStep
  <2>9. CASE Release(t)
    <3>1. task[t].pc \notin {"purge", "remove"} /\ UNCHANGED <<entries, docs, nextId>>
      BY <2>9 DEF Release
    <3>2. task'[t] = Idle \/ Restarts(t) \/ MovesTo(t, "reread")
      BY <2>1, <2>9, RetriedEffect, ReturnEffect DEF Release
    <3> QED
      BY <2>2, <3>1, <3>2, SameStoreGrows
  <2>10. CASE Reread(t)
    <3>1. CASE Finish(t)
      BY <2>2, <2>10, <3>1, FinishEffect, SameStoreGrows DEF Reread
    <3>2. CASE Goto(t, "drop") /\ Superseded(task[t])
      BY <2>2, <2>10, <3>2, RereadStep DEF Superseded
    <3> QED
      BY <2>10, <3>1, <3>2 DEF Reread
  <2>11. CASE DropOld(t) \/ Purge(t)
    BY <2>11, DeleteStep
  <2>12. CASE Remove(t)
    BY <2>12, RemoveStep
  <2>13. CASE Raise(t)
    <3>1. UNCHANGED <<entries, docs, nextId>>
      BY <2>13 DEF Raise
    <3>2. \/ Holds(task[t]) /\ MovesTo(t, "release")
          \/ task'[t] = Idle
          \/ Restarts(t)
      BY <2>13, TaskEffects
    <3> QED
      BY <2>2, <3>1, <3>2, SameStoreGrows DEF Holds
  <2>14. CASE Repost(t)
    <3>1. UNCHANGED <<task, entries>> /\ StoreGrows
      BY <2>14, OrphanGrows DEF Repost
    <3> QED
      BY <2>1, <3>1, QuietStep DEF Quiet
  <2> QED
    BY <1>2, <2>3, <2>4, <2>5, <2>6, <2>7, <2>8, <2>9, <2>10, <2>11, <2>12, <2>13, <2>14
       DEF TaskStep
<1>3. ASSUME NEW w \in Workers, Crash(w) PROVE IdInv'
  <2>1. UNCHANGED <<entries, docs, nextId, gone>> /\ \A t \in Tasks : Quiet(t)
    BY <1>3 DEF Crash, Quiet
  <2> QED
    BY <1>0, <2>1, QuietStep, SameStoreGrows
<1>4. CASE UNCHANGED vars
  <2>1. UNCHANGED <<entries, docs, nextId, gone>> /\ \A t \in Tasks : Quiet(t)
    BY <1>4 DEF vars, Quiet
  <2> QED
    BY <1>0, <2>1, QuietStep, SameStoreGrows
<1> QED
  BY <1>1, <1>2, <1>3, <1>4 DEF Next

LEMMA InitIdInv == Init => IdInv
<1> SUFFICES ASSUME Init PROVE IdInv
  OBVIOUS
<1>1. /\ \A t \in Tasks : ~Live(t)
      /\ \A k \in Keys : ~Has(entries, k)
      /\ docs = {} /\ nextId = 1
  BY DEF Init, Live, EmptyEntries, Has
<1>2. EntriesNameUploads /\ TrackedIsLive /\ UploadsApart
  BY <1>1 DEF EntriesNameUploads, TrackedIsLive, UploadsApart
<1>3. \A t \in Tasks : TaskInv(t)
  BY <1>1 DEF TaskInv, Recording, Remembers, Dropping, Deleting
<1> QED
  BY <1>2, <1>3, InitTypeOK DEF IdInv

(* The delete after a re-upload (_handle_message_changed, and the reply    *)
(* branch of _handle_message_deleted) never deletes the document that the  *)
(* state file names, however many edits, retries and workers overlap.      *)
THEOREM TrackedStaysLive == Spec => []TrackedIsLive
<1>1. IdInv => TrackedIsLive
  BY DEF IdInv
<1> QED
  BY <1>1, InitIdInv, StepIdInv, PTL DEF Spec

(* "cannot leave a data hole": as long as its message is not deleted, a    *)
(* key that has a document keeps one.                                      *)
THEOREM NoHole == Spec => NoDataHole
<1> DEFINE NoHoleStep == \A k \in Keys : DocsOf(k) # {} /\ k[2] \notin gone => DocsOf(k)' # {}
<1>1. IdInv /\ [Next]_vars => [NoHoleStep]_vars
  <2> SUFFICES ASSUME IdInv, Next, NEW k \in Keys, DocsOf(k) # {}, k[2] \notin gone
               PROVE  DocsOf(k)' # {}
    BY DEF NoHoleStep
  <2>0. TypeOK
    BY DEF IdInv
  <2>1. CASE docs \subseteq docs'
    BY <2>1 DEF DocsOf
  <2>2. ASSUME NEW t \in Tasks, DropOld(t) \/ Purge(t) PROVE DocsOf(k)' # {}
    <3>1. /\ Live(t) /\ task[t] \in Busy /\ task[t].pc \in {"drop", "purge"} /\ DeleteDoc(t)
          /\ TaskInv(t)
      BY <2>0, <2>2, TaskEffects DEF TaskStep, DropOld, Purge, IdInv
    <3>2. CASE k # KeyOf(task[t])
      <4>1. PICK d \in docs : d.key = k
        BY DEF DocsOf
      <4>2. d \in docs'
        BY <3>1, <3>2, <4>1, DeleteIsSafe
      <4> QED
        BY <4>1, <4>2 DEF DocsOf
    <3>3. CASE k = KeyOf(task[t])
      <4>1. task[t].msg \notin gone
        BY <3>1, <3>3, KeyOfBusy
      <4>2. Has(entries, k)
        BY <3>1, <3>3, <4>1, DeleteIsSafe DEF TaskInv, Remembers
      <4>3. PICK d \in docs : d.id = Stamp(k) /\ d.key = k
        BY <4>2 DEF IdInv, TrackedIsLive, Stamp
      <4>4. Stamp(k) # task[t].oldSource
        BY <3>1, <4>2, DeleteIsSafe
      <4>5. d \in docs'
        BY <3>1, <4>3, <4>4, DeleteIsSafe
      <4> QED
        BY <4>3, <4>5 DEF DocsOf
    <3> QED
      BY <3>2, <3>3
  <2>3. docs \subseteq docs' \/ \E t \in Tasks : DropOld(t) \/ Purge(t)
    BY DEF Next, UserStep, Post, Edit, Delete, Redeliver, Discuss, Deliver, TaskStep, Ignore, ReadOld,
           Claim, FetchThread, Upload, Uploaded, StoreOrphan, Repost, Record, Release, Reread,
           LookUp, Remove, Raise, Crash, store
  <2> QED
    BY <2>1, <2>2, <2>3
<1> QED
  BY <1>1, InitIdInv, StepIdInv, PTL DEF Spec, NoDataHole

-----------------------------------------------------------------------------
(* Copies of single messages: one process that loses no answer, messages   *)
(* that are not edited.                                                    *)

\* One worker process, in which nothing fails; every message keeps its text.
NothingFails == Faults = {} /\ MaxCrashes = 0
OneProcess == NothingFails /\ MaxRev <= 1 /\ \A v, w \in Workers : v = w

Mine(t, k) == Live(t) /\ KeyOf(task[t]) = k

\* Only message events are about single messages, and an answer has the id.
OnlyFirstUploads ==
  \A t \in Tasks : Live(t) =>
    /\ rev[task[t].msg] > 0
    /\ task[t].kind \in {"changed", "reply"} \/ task[t].pc = "ingest"
         => KeyOf(task[t]) = ThreadKey(task[t].msg)
    /\ task[t].pc = "record" => task[t].source = task[t].upload

\* While a message is being uploaded the file does not name it; a document
\* of it is the one the file names, or that of the task that will record it.
UploadedOnce ==
  \A m \in Messages \ gone :
    /\ \A t \in Tasks :
         Mine(t, MsgKey(m)) /\ task[t].pc \in {"upload", "record"} => ~Has(entries, MsgKey(m))
    /\ \A d \in DocsOf(MsgKey(m)) :
         \/ SourceOf(entries, MsgKey(m)) = d.id
         \/ \E t \in Tasks :
              Mine(t, MsgKey(m)) /\ task[t].pc = "record" /\ task[t].upload = d.id

StrayInv == OwnInv /\ IdInv /\ OnlyFirstUploads /\ UploadedOnce

LEMMA InitOwnInv == Init => OwnInv
<1> SUFFICES ASSUME Init PROVE Owned /\ ReleaseOwn
  BY InitTypeOK DEF OwnInv
<1>1. \A t \in Tasks : ~Live(t)
  BY DEF Init, Live
<1> QED BY <1>1 DEF Init, Owned, ReleaseOwn, HoldsKey

LEMMA StrayInit == Init => StrayInv
<1> SUFFICES ASSUME Init PROVE StrayInv
  OBVIOUS
<1>1. OwnInv /\ IdInv
  BY InitOwnInv, InitIdInv
<1>2. (\A t \in Tasks : ~Live(t)) /\ docs = {}
  BY DEF Init, Live
<1> QED BY <1>1, <1>2 DEF StrayInv, OnlyFirstUploads, UploadedOnce, Mine, DocsOf

LEMMA DocIds == ASSUME TypeOK PROVE \A d \in docs : d.id \in Nat /\ d.id # NoSource
BY DEF TypeOK, Doc

\* With one process, one task at a time has a message in its hands.
LEMMA OneHolder ==
  ASSUME OneProcess, StrayInv, NEW m \in Messages, NEW t \in Tasks, NEW u \in Tasks,
         Mine(t, MsgKey(m)), Mine(u, MsgKey(m)),
         task[t].pc \in {"upload", "record", "release"}, task[u].pc \in {"upload", "record", "release"}
  PROVE  t = u
<1>1. task[t] \in Busy /\ task[u] \in Busy /\ MsgKey(m) \in Keys
  BY LiveFields, KeyTypes DEF Mine, StrayInv, OwnInv
<1>2. task[t].msg = m /\ task[u].msg = m
  BY <1>1, KeyOfBusy, KeyTypes DEF Mine
<1>3. HoldsKey(t, task[t].worker, MsgKey(m)) /\ HoldsKey(u, task[u].worker, MsgKey(m))
  BY <1>2 DEF HoldsKey, Holds, Mine
<1>4. task[t].worker = task[u].worker /\ task[t].worker \in Workers
  BY <1>1 DEF Busy, OneProcess
<1> QED BY <1>1, <1>3, <1>4 DEF StrayInv, OwnInv, Owned

\* Steps that upload and record nothing.
LEMMA UploadedOnceKept ==
  ASSUME StrayInv, UNCHANGED entries, docs' \subseteq docs, gone \subseteq gone',
         \A u \in Tasks, k \in Keys :
           /\ Mine(u, k)' /\ task'[u].pc \in {"upload", "record"}
                => Has(entries, k) = FALSE \/ (Mine(u, k) /\ task[u].pc \in {"upload", "record"})
           /\ Mine(u, k) /\ task[u].pc = "record"
                => Mine(u, k)' /\ task'[u].pc = "record" /\ task'[u].upload = task[u].upload
  PROVE  UploadedOnce'
<1> SUFFICES ASSUME NEW m \in Messages, m \notin gone'
             PROVE  /\ \A t \in Tasks : Mine(t, MsgKey(m))' /\ task'[t].pc \in {"upload", "record"}
                                          => ~Has(entries, MsgKey(m))
                    /\ \A d \in docs' : d.key = MsgKey(m) =>
                         \/ SourceOf(entries, MsgKey(m)) = d.id
                         \/ \E t \in Tasks : /\ Mine(t, MsgKey(m))' /\ task'[t].pc = "record"
                                             /\ task'[t].upload = d.id
  BY DEF UploadedOnce, DocsOf
<1>1. m \in Messages \ gone /\ MsgKey(m) \in Keys
  BY KeyTypes
<1>2. \A t \in Tasks : Mine(t, MsgKey(m))' /\ task'[t].pc \in {"upload", "record"}
                                          => ~Has(entries, MsgKey(m))
  BY <1>1 DEF StrayInv, UploadedOnce
<1>3. \A d \in docs : d.key = MsgKey(m) =>
        \/ SourceOf(entries, MsgKey(m)) = d.id
        \/ \E t \in Tasks : Mine(t, MsgKey(m)) /\ task[t].pc = "record" /\ task[t].upload = d.id
  BY <1>1 DEF StrayInv, UploadedOnce, DocsOf
<1> QED BY <1>1, <1>2, <1>3

LEMMA DeliveredFirst ==
  ASSUME StrayInv, NEW kind \in Kinds, NEW m \in Messages, NEW inThread \in BOOLEAN, NEW r \in Nat,
         Deliver(kind, m, inThread, r),
         rev'[m] > 0, \A n \in Messages : rev[n] > 0 => rev'[n] > 0,
         gone \subseteq gone', kind \in {"changed", "reply"} => inThread
  PROVE  OnlyFirstUploads' /\ UploadedOnce'
<1>1. PICK t \in Tasks, w \in Workers :
        task[t] = Idle /\ task' = [task EXCEPT ![t] = Event(kind, m, inThread, r, w)]
  BY DEF Deliver
<1> DEFINE e == Event(kind, m, inThread, r, w)
<1>2. /\ e.pc = "start" /\ e.kind = kind /\ e.msg = m /\ e.inThread = inThread
      /\ kind \in {"changed", "reply"} => KeyOf(e) = ThreadKey(m)
  BY DEF Event, KeyOf
<1> HIDE DEF e
<1>3. /\ \A u \in Tasks : u # t => task'[u] = task[u]
      /\ task'[t] = e /\ ~Live(t)
      /\ UNCHANGED <<entries, docs>>
  BY <1>1 DEF StrayInv, OwnInv, TypeOK, Deliver, store, Live, e
<1>4. \A u \in Tasks : Live(u) => task[u].msg \in Messages
  BY LiveFields DEF StrayInv, OwnInv, Busy
<1>5. OnlyFirstUploads'
  BY <1>2, <1>3, <1>4 DEF StrayInv, OnlyFirstUploads, Live
<1>6. UploadedOnce'
  <2>1. \A u \in Tasks, k \in Keys : Mine(u, k) => u # t /\ task'[u] = task[u] /\ Mine(u, k)'
    BY <1>3 DEF Mine, Live
  <2>2. \A u \in Tasks, k \in Keys :
          Mine(u, k)' /\ task'[u].pc \in {"upload", "record"} => Mine(u, k) /\ task'[u] = task[u]
    BY <1>2, <1>3 DEF Mine, Live
  <2> QED BY <1>3, <2>1, <2>2, UploadedOnceKept
<1> QED BY <1>5, <1>6

LEMMA UserFirst ==
  ASSUME OneProcess, StrayInv, NEW m \in Messages, UserStep(m)
  PROVE  OnlyFirstUploads' /\ UploadedOnce'
<1>1. TypeOK /\ rev[m] \in Nat /\ thread[m] \in Nat
  BY DEF StrayInv, OwnInv, TypeOK
<1>2. CASE Post(m)
  <2>1. rev'[m] > 0 /\ (\A n \in Messages : rev[n] > 0 => rev'[n] > 0) /\ gone' = gone
    BY <1>1, <1>2 DEF Post, TypeOK
  <2>2. Deliver("message", m, FALSE, 1)
    BY <1>2 DEF Post
  <2> QED BY <2>1, <2>2, DeliveredFirst DEF Kinds
<1>3. CASE Edit(m)
  BY <1>1, <1>3, BoundsAssumption DEF Edit, Exists, OneProcess
<1>4. CASE Delete(m)
  <2>1. rev[m] > 0 /\ rev' = rev /\ gone \subseteq gone' /\ Deliver("deleted", m, FALSE, rev[m])
    BY <1>4 DEF Delete, Exists
  <2> QED BY <1>1, <2>1, DeliveredFirst DEF Kinds
<1>5. CASE Redeliver(m)
  <2>1. rev[m] > 0 /\ rev' = rev /\ gone' = gone /\ Deliver("message", m, FALSE, 1)
    BY <1>5 DEF Redeliver
  <2> QED BY <1>1, <2>1, DeliveredFirst DEF Kinds
<1>6. ASSUME NEW kind \in Kinds \ {"message"}, Discuss(m, kind)
      PROVE  OnlyFirstUploads' /\ UploadedOnce'
  <2>1. rev[m] > 0 /\ rev' = rev /\ gone' = gone
    BY <1>6 DEF Discuss, Exists
  <2>2. thread[m] + 1 \in Nat
    BY <1>1
  <2>3. Deliver(kind, m, TRUE, thread[m] + 1)
    BY <1>6 DEF Discuss
  <2> QED BY <2>1, <2>2, <2>3, DeliveredFirst
<1> QED BY <1>2, <1>3, <1>4, <1>5, <1>6 DEF UserStep

\* A step of t, after which it is at none of the uploading stages.
LEMMA StepAside ==
  ASSUME StrayInv, NEW t \in Tasks, Live(t), Proceeds(t), UNCHANGED <<entries, rev, gone>>,
         docs' \subseteq docs, task[t].pc # "record",
         \/ task'[t] = Idle
         \/ task'[t].pc \notin {"upload", "record", "ingest"}
         \/ task'[t].pc \in {"upload", "ingest"} /\ KeyOf(task[t]) = ThreadKey(task[t].msg)
  PROVE  OnlyFirstUploads' /\ UploadedOnce'
<1>1. \A u \in Tasks : u # t => task'[u] = task[u]
  BY DEF Proceeds
<1>2. Live(t)' => /\ task'[t].msg = task[t].msg /\ KeyOf(task'[t]) = KeyOf(task[t])
                  /\ task'[t].kind = task[t].kind
  BY SameKey DEF Proceeds, Live, SameEvent
<1>3. OnlyFirstUploads'
  BY <1>1, <1>2 DEF StrayInv, OnlyFirstUploads, Live
<1>4. \A u \in Tasks, k \in Keys :
        u # t => (Mine(u, k)' <=> Mine(u, k)) /\ task'[u] = task[u]
  BY <1>1 DEF Mine, Live
<1>5. CASE ~Live(t)' \/ task'[t].pc \notin {"upload", "record"}
  <2>1. \A u \in Tasks, k \in Keys :
          /\ Mine(u, k)' /\ task'[u].pc \in {"upload", "record"}
               => Mine(u, k) /\ task[u].pc \in {"upload", "record"}
          /\ Mine(u, k) /\ task[u].pc = "record"
               => Mine(u, k)' /\ task'[u].pc = "record" /\ task'[u].upload = task[u].upload
    BY <1>4, <1>5 DEF Mine
  <2> QED BY <1>3, <2>1, UploadedOnceKept
<1>6. CASE Live(t)' /\ task'[t].pc \in {"upload", "record"}
  <2>1. task[t].msg \in Messages /\ KeyOf(task'[t]) = ThreadKey(task[t].msg)
    BY <1>2, <1>6, LiveFields DEF StrayInv, OwnInv, Busy, Live
  <2>2. \A m \in Messages : ~Mine(t, MsgKey(m))' /\ ~Mine(t, MsgKey(m))
    BY <1>2, <1>6, <2>1 DEF Mine, MsgKey, ThreadKey
  <2>3. UploadedOnce'
    <3> SUFFICES ASSUME NEW m \in Messages, m \notin gone'
                 PROVE  /\ \A u \in Tasks : Mine(u, MsgKey(m))' /\ task'[u].pc \in {"upload", "record"}
                                          => ~Has(entries, MsgKey(m))
                        /\ \A d \in docs' : d.key = MsgKey(m) =>
                             \/ SourceOf(entries, MsgKey(m)) = d.id
                             \/ \E u \in Tasks : /\ Mine(u, MsgKey(m))' /\ task'[u].pc = "record"
                                                 /\ task'[u].upload = d.id
      BY DEF UploadedOnce, DocsOf
    <3>1. \A u \in Tasks : (Mine(u, MsgKey(m))' <=> Mine(u, MsgKey(m)))
                           /\ (Mine(u, MsgKey(m)) => task'[u] = task[u])
      BY <1>4, <2>2, KeyTypes
    <3>2. m \in Messages \ gone
      OBVIOUS
    <3>3. \A d \in docs : d.key = MsgKey(m) =>
            \/ SourceOf(entries, MsgKey(m)) = d.id
            \/ \E u \in Tasks : Mine(u, MsgKey(m)) /\ task[u].pc = "record" /\ task[u].upload = d.id
      BY <3>2 DEF StrayInv, UploadedOnce, DocsOf
    <3>4. \A u \in Tasks : Mine(u, MsgKey(m)) /\ task[u].pc \in {"upload", "record"}
                                          => ~Has(entries, MsgKey(m))
      BY <3>2 DEF StrayInv, UploadedOnce
    <3> QED BY <3>1, <3>3, <3>4
  <2> QED BY <1>3, <2>3
<1> QED BY <1>5, <1>6

\* The steps that upload no single message and record nothing.
LEMMA AsideFirst ==
  ASSUME OneProcess, StrayInv, NEW t \in Tasks,
         \/ Ignore(t) \/ ReadOld(t) \/ FetchThread(t) \/ Release(t) \/ Reread(t) \/ DropOld(t)
         \/ LookUp(t) \/ Purge(t)
  PROVE  OnlyFirstUploads' /\ UploadedOnce'
<1>0. TypeOK
  BY DEF StrayInv, OwnInv
<1>1. Live(t) /\ Proceeds(t) /\ task[t] \in Busy
  BY <1>0, TaskEffects DEF TaskStep
<1>2. UNCHANGED <<entries, rev, gone>>
  BY DEF Ignore, ReadOld, FetchThread, Release, Reread, DropOld, LookUp, Purge, slack
<1>3. docs' \subseteq docs
  BY DEF Ignore, ReadOld, FetchThread, Release, Reread, DropOld, LookUp, Purge, store, DeleteDoc
<1>4. CASE Ignore(t)
  BY <1>0, <1>1, <1>2, <1>3, <1>4, TaskEffects, StepAside DEF Ignore
<1>5. CASE ReadOld(t)
  <2>1. task[t].pc = "start" /\ task'[t].pc = "ingest"
    BY <1>0, <1>5, TaskEffects
  <2>2. KeyOf(task[t]) = ThreadKey(task[t].msg)
    BY <1>1, <1>5 DEF ReadOld, StrayInv, OnlyFirstUploads, KeyOf
  <2> QED BY <1>1, <1>2, <1>3, <2>1, <2>2, StepAside
<1>6. CASE FetchThread(t)
  <2>1. /\ KeyOf(task[t]) = ThreadKey(task[t].msg) /\ task[t].pc # "record"
        /\ task'[t] = Idle \/ task'[t].pc \in {"upload", "reread"}
    BY <1>0, <1>6, TaskEffects DEF MovesTo
  <2> QED BY <1>1, <1>2, <1>3, <2>1, StepAside
<1>7. CASE Release(t)
  <2>1. task[t].pc # "record" /\ (task'[t] = Idle \/ task'[t].pc \in {"reread", "start"})
    BY <1>0, <1>1, <1>7, ReturnEffect, RetriedEffect DEF Release, MovesTo, Restarts
  <2> QED BY <1>1, <1>2, <1>3, <2>1, StepAside
<1>8. CASE Reread(t)
  <2>1. task[t].pc # "record" /\ (task'[t] = Idle \/ task'[t].pc = "drop")
    BY <1>0, <1>1, <1>8, GotoEffect, FinishEffect DEF Reread, MovesTo
  <2> QED BY <1>1, <1>2, <1>3, <2>1, StepAside
<1>9. CASE DropOld(t)
  <2>1. task[t].pc # "record" /\ task'[t] = Idle
    BY <1>0, <1>9, FinishEffect DEF DropOld
  <2> QED BY <1>1, <1>2, <1>3, <2>1, StepAside
<1>10. CASE LookUp(t)
  <2>1. task[t].pc # "record" /\ task'[t].pc \in {"remove", "purge"}
    BY <1>0, <1>10, TaskEffects
  <2> QED BY <1>1, <1>2, <1>3, <2>1, StepAside
<1>11. CASE Purge(t)
  <2>1. task[t].pc # "record" /\ task'[t].pc = "remove"
    BY <1>0, <1>1, <1>11, GotoEffect DEF Purge, MovesTo
  <2> QED BY <1>1, <1>2, <1>3, <2>1, StepAside
<1> QED BY <1>4, <1>5, <1>6, <1>7, <1>8, <1>9, <1>10, <1>11

LEMMA ClaimFirst ==
  ASSUME StrayInv, NEW t \in Tasks, Claim(t)
  PROVE  OnlyFirstUploads' /\ UploadedOnce'
<1>0. TypeOK
  BY DEF StrayInv, OwnInv
<1>1. Live(t) /\ Proceeds(t) /\ task[t] \in Busy
  BY <1>0, TaskEffects DEF TaskStep
<1>2. UNCHANGED <<entries, rev, gone, docs>>
  BY DEF Claim, slack, store
<1>3. /\ KeyOf(task[t]) = MsgKey(task[t].msg) /\ task[t].msg \in Messages
      /\ task[t].pc \in {"start", "ingest"}
  BY <1>1 DEF Claim, AtIngest, Busy
<1>4. MsgKey(task[t].msg) # ThreadKey(task[t].msg)
  BY <1>3, KeyTypes
<1>5. task[t].pc = "start" /\ task[t].kind = "message"
  <2>1. task[t].pc # "ingest" /\ task[t].kind # "reply"
    BY <1>1, <1>3, <1>4 DEF StrayInv, OnlyFirstUploads
  <2> QED BY <1>3, <2>1 DEF Claim, AtIngest
<1>6. CASE Skips(task[t])
  <2>1. task'[t] = Idle
    BY <1>0, <1>5, <1>6, FinishEffect DEF Claim, Return
  <2> QED BY <1>1, <1>2, <1>5, <2>1, StepAside
<1>7. CASE ~Skips(task[t])
  <2>1. ~Has(entries, KeyOf(task[t]))
    BY <1>5, <1>7 DEF Skips
  <2>2. MovesTo(t, "upload")
    BY <1>0, <1>1, <1>7, GotoEffect DEF Claim
  <2>3. /\ \A u \in Tasks : u # t => task'[u] = task[u]
        /\ task'[t] # Idle => /\ task'[t].msg = task[t].msg /\ KeyOf(task'[t]) = KeyOf(task[t])
                              /\ task'[t].kind = task[t].kind
    BY SameKey, <1>1 DEF Proceeds, Live, SameEvent
  <2>4. \A u \in Tasks, k \in Keys :
          /\ Mine(u, k)' /\ task'[u].pc \in {"upload", "record"}
               => Has(entries, k) = FALSE \/ (Mine(u, k) /\ task[u].pc \in {"upload", "record"})
          /\ Mine(u, k) /\ task[u].pc = "record"
               => Mine(u, k)' /\ task'[u].pc = "record" /\ task'[u].upload = task[u].upload
    <3>1. ASSUME NEW k \in Keys, Mine(t, k)' PROVE Has(entries, k) = FALSE
      BY <2>1, <2>3, <3>1 DEF Mine, Live, Has
    <3>2. \A u \in Tasks, k \in Keys : u # t => (Mine(u, k)' <=> Mine(u, k)) /\ task'[u] = task[u]
      BY <2>3 DEF Mine, Live
    <3>3. task[t].pc # "record"
      BY <1>5
    <3> QED BY <3>1, <3>2, <3>3
  <2>5. OnlyFirstUploads'
    <3>1. /\ task'[t].pc = "upload" /\ task'[t].kind = "message" /\ task'[t].msg = task[t].msg
          /\ rev[task[t].msg] > 0
      BY <1>1, <1>5, <2>2, <2>3 DEF StrayInv, OnlyFirstUploads, MovesTo, Idle
    <3>2. \A u \in Tasks : u # t => task'[u] = task[u] /\ (Live(u)' <=> Live(u))
      BY <2>3 DEF Live
    <3> QED BY <1>2, <3>1, <3>2 DEF StrayInv, OnlyFirstUploads
  <2> QED BY <1>2, <2>4, <2>5, UploadedOnceKept
<1> QED BY <1>6, <1>7

LEMMA UploadFirst ==
  ASSUME OneProcess, StrayInv, NEW t \in Tasks, Upload(t)
  PROVE  OnlyFirstUploads' /\ UploadedOnce'
<1>0. TypeOK
  BY DEF StrayInv, OwnInv
<1>1. Live(t) /\ Proceeds(t) /\ task[t] \in Busy /\ task[t].pc = "upload"
  BY <1>0, TaskEffects DEF TaskStep, Upload
<1>2. UNCHANGED <<entries, rev, gone>>
  BY DEF Upload, slack
<1>3. Uploaded(t, nextId)
  BY DEF Upload, OneProcess, NothingFails
<1>4. /\ docs' = docs \cup {[id |-> nextId, key |-> KeyOf(task[t]), rev |-> task[t].rev]}
      /\ task'[t].pc = "record" /\ task'[t].upload = nextId /\ task'[t].source = nextId
      /\ \A u \in Tasks : u # t => task'[u] = task[u]
  BY <1>0, <1>1, <1>3 DEF Uploaded, TypeOK, Busy
<1>5. task'[t] # Idle /\ task'[t].msg = task[t].msg /\ KeyOf(task'[t]) = KeyOf(task[t])
      /\ task'[t].kind = task[t].kind
  <2>1. task'[t] # Idle
    BY <1>4 DEF Idle
  <2>2. SameEvent(task'[t], task[t])
    BY <1>1, <2>1 DEF Proceeds
  <2> QED BY <2>1, <2>2, SameKey DEF SameEvent
<1>6. OnlyFirstUploads'
  BY <1>1, <1>2, <1>4, <1>5 DEF StrayInv, OnlyFirstUploads, Live
<1>7. \A u \in Tasks, k \in Keys : (Mine(u, k)' <=> Mine(u, k)) /\ (u # t => task'[u] = task[u])
  BY <1>1, <1>4, <1>5 DEF Mine, Live
<1>8. ASSUME NEW m \in Messages \ gone
      PROVE  /\ \A u \in Tasks : Mine(u, MsgKey(m))' /\ task'[u].pc \in {"upload", "record"}
                                   => ~Has(entries, MsgKey(m))
             /\ \A d \in docs' : d.key = MsgKey(m) =>
                  \/ SourceOf(entries, MsgKey(m)) = d.id
                  \/ \E u \in Tasks : /\ Mine(u, MsgKey(m))' /\ task'[u].pc = "record"
                                      /\ task'[u].upload = d.id
  <2>0. MsgKey(m) \in Keys
    BY KeyTypes
  <2>1. \A u \in Tasks : Mine(u, MsgKey(m))' /\ task'[u].pc \in {"upload", "record"}
                           => ~Has(entries, MsgKey(m))
    BY <2>0, <1>1, <1>7 DEF StrayInv, UploadedOnce
  <2>2. ASSUME NEW d \in docs, d.key = MsgKey(m)
        PROVE  \/ SourceOf(entries, MsgKey(m)) = d.id
               \/ \E u \in Tasks : /\ Mine(u, MsgKey(m))' /\ task'[u].pc = "record"
                                   /\ task'[u].upload = d.id
    <3>1. CASE SourceOf(entries, MsgKey(m)) = d.id
      BY <3>1
    <3>2. ASSUME NEW u \in Tasks, Mine(u, MsgKey(m)), task[u].pc = "record", task[u].upload = d.id
          PROVE  Mine(u, MsgKey(m))' /\ task'[u].pc = "record" /\ task'[u].upload = d.id
      BY <1>1, <1>7, <2>0, <3>2
    <3> QED BY <2>2, <3>1, <3>2 DEF StrayInv, UploadedOnce, DocsOf
  <2>3. ASSUME NEW d \in docs', d.key = MsgKey(m), d \notin docs
        PROVE  Mine(t, MsgKey(m))' /\ task'[t].pc = "record" /\ task'[t].upload = d.id
    BY <1>1, <1>4, <1>7, <2>0, <2>3 DEF Mine
  <2> QED BY <2>1, <2>2, <2>3
<1>9. UploadedOnce'
  BY <1>2, <1>8 DEF UploadedOnce, DocsOf
<1> QED BY <1>6, <1>9

LEMMA RecordFirst ==
  ASSUME OneProcess, StrayInv, NEW t \in Tasks, Record(t)
  PROVE  OnlyFirstUploads' /\ UploadedOnce'
<1>0. TypeOK
  BY DEF StrayInv, OwnInv
<1>1. Live(t) /\ Proceeds(t) /\ task[t] \in Busy /\ task[t].pc = "record"
  BY <1>0, TaskEffects DEF TaskStep, Record
<1>2. UNCHANGED <<docs, rev, gone>>
  BY DEF Record, slack, store
<1>3. task'[t] = Idle \/ task'[t].pc \in {"release", "reread"}
  BY <1>0, <1>1, ReturnEffect, GotoEffect DEF Record, MovesTo
<1>4. /\ \A u \in Tasks : u # t => task'[u] = task[u]
      /\ task'[t] # Idle => /\ task'[t].msg = task[t].msg /\ KeyOf(task'[t]) = KeyOf(task[t])
                            /\ task'[t].kind = task[t].kind
  BY SameKey, <1>1 DEF Proceeds, Live, SameEvent
<1>5. OnlyFirstUploads'
  BY <1>1, <1>2, <1>3, <1>4 DEF StrayInv, OnlyFirstUploads, Live
<1>6. task[t].source = task[t].upload /\ KeyOf(task[t]) \in Keys
  BY <1>1, KeyOfBusy DEF StrayInv, OnlyFirstUploads
<1>7. /\ \A k \in Keys : k # KeyOf(task[t]) => entries'[k] = entries[k]
      /\ SourceOf(entries', KeyOf(task[t])) = task[t].upload
  <2>1. entries' = [entries EXCEPT ![KeyOf(task[t])] =
                      [source_id |-> task[t].upload, uploaded_at |-> task[t].upload]]
    BY <1>6 DEF Record, MarkUploaded
  <2>2. [source_id |-> task[t].upload, uploaded_at |-> task[t].upload] # NoEntry
    BY <1>1 DEF Busy
  <2> QED BY <1>0, <1>6, <2>1, <2>2 DEF SourceOf, Has, TypeOK, Entries
<1>8. ASSUME NEW m \in Messages \ gone
      PROVE  /\ \A u \in Tasks : Mine(u, MsgKey(m))' /\ task'[u].pc \in {"upload", "record"}
                                   => ~Has(entries', MsgKey(m))
             /\ \A d \in docs : d.key = MsgKey(m) =>
                  \/ SourceOf(entries', MsgKey(m)) = d.id
                  \/ \E u \in Tasks : /\ Mine(u, MsgKey(m))' /\ task'[u].pc = "record"
                                      /\ task'[u].upload = d.id
  <2>0. MsgKey(m) \in Keys
    BY KeyTypes
  <2>1. \A u \in Tasks : Mine(u, MsgKey(m))' /\ task'[u].pc \in {"upload", "record"}
                           => u # t /\ Mine(u, MsgKey(m)) /\ task'[u] = task[u]
    BY <1>3, <1>4 DEF Mine, Live
  <2>2. \A u \in Tasks : u # t => (Mine(u, MsgKey(m))' <=> Mine(u, MsgKey(m))) /\ task'[u] = task[u]
    BY <1>4 DEF Mine, Live
  <2>3. CASE MsgKey(m) # KeyOf(task[t])
    <3>1. entries'[MsgKey(m)] = entries[MsgKey(m)] /\ ~Mine(t, MsgKey(m))
      BY <1>7, <2>0, <2>3 DEF Mine
    <3>2. SourceOf(entries', MsgKey(m)) = SourceOf(entries, MsgKey(m))
          /\ (Has(entries', MsgKey(m)) <=> Has(entries, MsgKey(m)))
      BY <3>1 DEF SourceOf, Has
    <3>3. \A u \in Tasks : Mine(u, MsgKey(m)) => Mine(u, MsgKey(m))' /\ task'[u] = task[u]
      BY <2>2, <3>1
    <3> QED BY <2>1, <3>2, <3>3 DEF StrayInv, UploadedOnce, DocsOf
  <2>4. CASE MsgKey(m) = KeyOf(task[t])
    <3>1. Mine(t, MsgKey(m))
      BY <1>1, <2>4 DEF Mine
    <3>2. \A u \in Tasks : Mine(u, MsgKey(m)) /\ task[u].pc \in {"upload", "record"} => u = t
      BY <1>1, <3>1, OneHolder
    <3>3. ~Has(entries, MsgKey(m))
      BY <1>1, <3>1 DEF StrayInv, UploadedOnce
    <3>4. ASSUME NEW d \in docs, d.key = MsgKey(m) PROVE d.id = task[t].upload
      BY <1>0, <3>2, <3>3, <3>4, DocIds DEF StrayInv, UploadedOnce, DocsOf, SourceOf
    <3> QED BY <1>7, <2>1, <2>4, <3>2, <3>4
  <2> QED BY <2>3, <2>4
<1>9. UploadedOnce'
  BY <1>2, <1>8 DEF UploadedOnce, DocsOf
<1> QED BY <1>5, <1>9

LEMMA RemoveFirst ==
  ASSUME StrayInv, NEW t \in Tasks, Remove(t)
  PROVE  OnlyFirstUploads' /\ UploadedOnce'
<1>0. TypeOK
  BY DEF StrayInv, OwnInv
<1>1. Live(t) /\ Proceeds(t) /\ task[t] \in Busy /\ task[t].pc = "remove" /\ task'[t] = Idle
  BY <1>0, TaskEffects, FinishEffect DEF TaskStep, Remove
<1>2. UNCHANGED <<docs, rev, gone>>
  BY DEF Remove, slack, store
<1>3. \A u \in Tasks : u # t => task'[u] = task[u]
  BY <1>1 DEF Proceeds
<1>4. OnlyFirstUploads'
  BY <1>1, <1>2, <1>3 DEF StrayInv, OnlyFirstUploads, Live
<1>5. task[t].msg \in gone /\ task[t].msg \in Messages
  BY <1>1 DEF StrayInv, IdInv, TaskInv, Deleting, Busy
<1>6. \A m \in Messages \ gone : entries'[MsgKey(m)] = entries[MsgKey(m)]
  <2>1. \A m \in Messages \ gone : MsgKey(m) \in Keys /\ MsgKey(m) # MsgKey(task[t].msg)
    BY <1>5, KeyTypes
  <2>2. entries' = [entries EXCEPT ![MsgKey(task[t].msg)] = NoEntry]
    BY DEF Remove, RemoveEntry
  <2> QED BY <1>0, <2>1, <2>2 DEF TypeOK, Entries
<1>7. \A u \in Tasks, m \in Messages \ gone :
        /\ Mine(u, MsgKey(m))' => Mine(u, MsgKey(m)) /\ task'[u] = task[u]
        /\ Mine(u, MsgKey(m)) /\ task[u].pc = "record" => Mine(u, MsgKey(m))' /\ task'[u] = task[u]
  BY <1>1, <1>3 DEF Mine, Live
<1>8. UploadedOnce'
  <2> SUFFICES ASSUME NEW m \in Messages \ gone
               PROVE  /\ \A u \in Tasks : Mine(u, MsgKey(m))' /\ task'[u].pc \in {"upload", "record"}
                                            => ~Has(entries', MsgKey(m))
                      /\ \A d \in docs : d.key = MsgKey(m) =>
                           \/ SourceOf(entries', MsgKey(m)) = d.id
                           \/ \E u \in Tasks : /\ Mine(u, MsgKey(m))' /\ task'[u].pc = "record"
                                               /\ task'[u].upload = d.id
    BY <1>2 DEF UploadedOnce, DocsOf
  <2>1. SourceOf(entries', MsgKey(m)) = SourceOf(entries, MsgKey(m))
        /\ (Has(entries', MsgKey(m)) <=> Has(entries, MsgKey(m)))
    BY <1>6 DEF SourceOf, Has
  <2>2. \A u \in Tasks : Mine(u, MsgKey(m))' /\ task'[u].pc \in {"upload", "record"}
                                            => ~Has(entries', MsgKey(m))
    BY <1>7, <2>1 DEF StrayInv, UploadedOnce
  <2>3. \A d \in docs : d.key = MsgKey(m) =>
          \/ SourceOf(entries', MsgKey(m)) = d.id
          \/ \E u \in Tasks : /\ Mine(u, MsgKey(m))' /\ task'[u].pc = "record"
                              /\ task'[u].upload = d.id
    <3> SUFFICES ASSUME NEW d \in docs, d.key = MsgKey(m), SourceOf(entries, MsgKey(m)) # d.id
                 PROVE  \E u \in Tasks : /\ Mine(u, MsgKey(m))' /\ task'[u].pc = "record"
                                         /\ task'[u].upload = d.id
      BY <2>1
    <3>1. PICK u \in Tasks : Mine(u, MsgKey(m)) /\ task[u].pc = "record" /\ task[u].upload = d.id
      BY DEF StrayInv, UploadedOnce, DocsOf
    <3> QED BY <1>7, <3>1
  <2> QED BY <2>2, <2>3
<1> QED BY <1>4, <1>8

LEMMA StrayStep ==
  ASSUME OneProcess, StrayInv, [Next]_vars
  PROVE  StrayInv'
<1>1. OwnInv' /\ IdInv'
  BY StepOwnInv, StepIdInv DEF StrayInv
<1>2. ASSUME NEW t \in Tasks, TaskStep(t) PROVE OnlyFirstUploads' /\ UploadedOnce'
  <2>1. ~Raise(t) /\ ~Repost(t)
    BY DEF Raise, Repost, OneProcess, NothingFails
  <2> QED BY <1>2, <2>1, AsideFirst, ClaimFirst, UploadFirst, RecordFirst, RemoveFirst DEF TaskStep
<1>3. ASSUME NEW w \in Workers, Crash(w) PROVE FALSE
  BY <1>3 DEF Crash, OneProcess, NothingFails, StrayInv, OwnInv, TypeOK
<1>4. CASE UNCHANGED vars
  <2>1. UNCHANGED <<task, rev, gone, entries, docs>>
    BY <1>4 DEF vars, slack, store
  <2> QED BY <1>1, <2>1 DEF StrayInv, OnlyFirstUploads, UploadedOnce, Mine, Live, DocsOf
<1> QED BY <1>1, <1>2, <1>3, <1>4, UserFirst DEF StrayInv, Next

(* In one process that loses no answer, duplicate deliveries leave no      *)
(* stray copy of a message behind: of the events that overlap, one uploads *)
(* and the others skip.                                                    *)
THEOREM NoStrays == ASSUME OneProcess PROVE Spec => []NoStrayCopies
<1>1. StrayInv => NoStrayCopies
  <2> SUFFICES ASSUME StrayInv, NEW d \in docs, d.key[1] = "slack", d.key[2] \notin gone
               PROVE  \/ SourceOf(entries, d.key) = d.id
                      \/ \E t \in Tasks : /\ task[t] # Idle /\ KeyOf(task[t]) = d.key
                                          /\ task[t].pc = "record" /\ task[t].upload = d.id
    BY DEF NoStrayCopies
  <2>1. d.key[2] \in Messages \ gone /\ d.key = MsgKey(d.key[2])
    BY DEF StrayInv, OwnInv, TypeOK, Doc, Keys, MsgKey
  <2> QED BY <2>1 DEF StrayInv, UploadedOnce, DocsOf, Mine, Live
<1>2. StrayInv /\ [Next]_vars => StrayInv'
  BY StrayStep
<1> QED BY <1>1, <1>2, StrayInit, PTL DEF Spec

=============================================================================
