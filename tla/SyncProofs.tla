---------------------------- MODULE SyncProofs ----------------------------
(***************************************************************************)
(* Theorems about ingestion in the background: the scheduler, the runs      *)
(* over a Gmail connection, and the state file.                             *)
(***************************************************************************)
EXTENDS StateFile, Scheduler, GmailSync, NumberSets

-----------------------------------------------------------------------------
(* Scheduler, for any connections, feeds and jobs.                         *)

JobPcs == {"idle", "rows", "items", "sweep", "ingest"}

\* A pass keeps in `allowed` all that has been selected since it began, and
\* ends as it was before it.
PassesFollow ==
  \A j \in Jobs : IF job[j].pc = "idle" THEN job[j] = NoPass ELSE selectedFeeds \subseteq job[j].allowed

FInv == SchedulerTypeOK /\ PassesFollow /\ SelectionIsFresh

-----------------------------------------------------------------------------
LEMMA PassTypes ==
  /\ NoPass \in JobStates /\ NoPass.pc = "idle" /\ NoPass.at = {} /\ NoPass.found = {}
  /\ NoPass.items = {} /\ NoPass.kind = "slack" /\ Cardinality({}) <= 1
  /\ \A x : Cardinality({x}) <= 1
<1>1. Cardinality({}) <= 1 /\ \A x : Cardinality({x}) <= 1
  BY FS_EmptySet, FS_Singleton
<1> QED BY <1>1 DEF NoPass, JobStates

LEMMA FInvInit == SchedulerInit => FInv
<1> SUFFICES ASSUME SchedulerInit PROVE FInv
  OBVIOUS
<1>1. SchedulerTypeOK
  BY PassTypes DEF SchedulerInit, SchedulerTypeOK, Sources, FeedsOf
<1>2. PassesFollow /\ SelectionIsFresh
  BY PassTypes DEF SchedulerInit, PassesFollow, SelectionIsFresh
<1> QED BY <1>1, <1>2 DEF FInv

\* What a pass may become: a pass of its shape that lists what is allowed.
GoodPass(p, selected) ==
  /\ p \in JobStates /\ Cardinality(p.at) <= 1
  /\ p.found \subseteq (IF p.kind = "slack" THEN Slack ELSE Gmail)
  /\ p.items \subseteq p.allowed
  /\ IF p.pc = "idle" THEN p = NoPass ELSE selected \subseteq p.allowed

LEMMA GoodPasses ==
  FInv <=> /\ SchedulerTypeOK
           /\ \A j \in Jobs : GoodPass(job[j], selectedFeeds)
BY DEF FInv, SchedulerTypeOK, PassesFollow, SelectionIsFresh, GoodPass

LEMMA NoPassIsGood == ASSUME NEW S PROVE GoodPass(NoPass, S)
BY PassTypes DEF GoodPass

\* A step of one pass that leaves the selection as it is.
LEMMA OnePass ==
  ASSUME FInv, NEW j \in Jobs, NEW p, GoodPass(p, selectedFeeds),
         job' = [job EXCEPT ![j] = p], UNCHANGED <<connected, selectedFeeds>>,
         offered \subseteq offered', offered' \subseteq Feeds, pending' \subseteq Feeds,
         stamped' \subseteq Slack \ Broken, queued' \in BOOLEAN
  PROVE  FInv'
<1>1. job' \in [Jobs -> JobStates] /\ \A k \in Jobs : GoodPass(job'[k], selectedFeeds)
  BY GoodPasses DEF SchedulerTypeOK, GoodPass
<1>2. SchedulerTypeOK'
  BY <1>1, GoodPasses DEF SchedulerTypeOK, GoodPass
<1> QED BY <1>1, <1>2 DEF FInv, SchedulerTypeOK, PassesFollow, SelectionIsFresh, GoodPass

LEMMA NextKindIsGood ==
  ASSUME NEW S, NEW p, GoodPass(p, S), p.pc # "idle"
  PROVE  GoodPass(NextKind(p), S)
<1>1. CASE p.kind = "slack"
  <2>1. NextKind(p) = [NoPass EXCEPT !.pc = "rows", !.kind = "gmail", !.allowed = p.allowed]
    BY <1>1 DEF NextKind
  <2> QED BY <1>1, <2>1, PassTypes DEF GoodPass, NoPass, JobStates
<1>2. CASE p.kind # "slack"
  BY <1>2, NoPassIsGood DEF NextKind
<1> QED BY <1>1, <1>2

-----------------------------------------------------------------------------
(* Users, and the process.                                                  *)

LEMMA ChangesKeep ==
  ASSUME FInv, NEW x \in Sources, ConnectSource(x) \/ DisconnectSource(x)
  PROVE  FInv'
<1>1. SchedulerTypeOK'
  BY DEF FInv, SchedulerTypeOK, ConnectSource, DisconnectSource, Change, Sources, FeedsOf
<1>2. selectedFeeds' \subseteq selectedFeeds /\ job' = job
  BY DEF ConnectSource, DisconnectSource
<1> QED BY <1>1, <1>2 DEF FInv, PassesFollow, SelectionIsFresh

LEMMA SelectKeeps == ASSUME FInv, NEW i \in Feeds, Select(i) PROVE FInv'
<1>1. ASSUME NEW j \in Jobs PROVE GoodPass(job'[j], selectedFeeds')
  <2>1. GoodPass(job[j], selectedFeeds) /\ selectedFeeds' = selectedFeeds \cup {i}
    BY GoodPasses DEF Select
  <2>2. job'[j] = [job[j] EXCEPT !.allowed = IF job[j].pc = "idle" THEN {} ELSE @ \cup {i}]
    BY DEF Select
  <2>3. CASE job[j].pc = "idle"
    <3>1. job'[j] = NoPass
      BY <2>1, <2>2, <2>3 DEF GoodPass, NoPass
    <3> QED BY <3>1, NoPassIsGood
  <2>4. CASE job[j].pc # "idle"
    BY <2>1, <2>2, <2>4 DEF GoodPass, JobStates
  <2> QED BY <2>3, <2>4
<1>2. job' \in [Jobs -> JobStates]
  BY <1>1 DEF GoodPass, Select
<1>3. SchedulerTypeOK'
  BY <1>1, <1>2 DEF FInv, SchedulerTypeOK, Select, Change, GoodPass
<1> QED BY <1>1, <1>3 DEF FInv, PassesFollow, SelectionIsFresh, GoodPass

LEMMA RestOfUsers ==
  ASSUME FInv, NEW i \in Feeds, Unselect(i) \/ NewMessage(i)
  PROVE  FInv'
<1>1. SchedulerTypeOK'
  BY DEF FInv, SchedulerTypeOK, Unselect, NewMessage, Change, feedRows
<1>2. selectedFeeds' \subseteq selectedFeeds /\ job' = job
  BY DEF Unselect, NewMessage, feedRows
<1> QED BY <1>1, <1>2 DEF FInv, PassesFollow, SelectionIsFresh

LEMMA RestartKeeps == ASSUME FInv, RestartProcess PROVE FInv'
<1>1. SchedulerTypeOK'
  <2>1. job' = [j \in Jobs |-> NoPass] /\ UNCHANGED <<connected, offered, selectedFeeds, pending, stamped>>
    BY DEF RestartProcess, feedRows
  <2>2. queued' \in BOOLEAN
    BY DEF RestartProcess
  <2>3. \A j \in Jobs : job'[j] = NoPass
    BY <2>1
  <2>4. job' \in [Jobs -> JobStates]
    BY <2>1, PassTypes
  <2> QED BY <2>1, <2>2, <2>3, <2>4, PassTypes DEF FInv, SchedulerTypeOK
<1> QED BY <1>1, PassTypes DEF FInv, PassesFollow, SelectionIsFresh, RestartProcess

-----------------------------------------------------------------------------
(* Passes.                                                                  *)

LEMMA PassOf ==
  ASSUME FInv, NEW j \in Jobs
  PROVE  /\ GoodPass(job[j], selectedFeeds) /\ job[j] \in JobStates
         /\ job \in [Jobs -> JobStates] /\ selectedFeeds \subseteq Feeds /\ connected \subseteq Sources
         /\ offered \subseteq Feeds /\ pending \subseteq Feeds /\ stamped \subseteq Slack \ Broken
         /\ queued \in BOOLEAN
BY GoodPasses DEF SchedulerTypeOK

LEMMA FireKeeps == ASSUME FInv, NEW j \in Jobs, Fire(j) PROVE FInv'
<1> DEFINE p == [NoPass EXCEPT !.pc = "rows", !.allowed = selectedFeeds]
<1>1. GoodPass(p, selectedFeeds)
  BY PassOf, PassTypes DEF GoodPass, NoPass, JobStates
<1>2. job' = [job EXCEPT ![j] = p] /\ UNCHANGED <<feedRows, pending, stamped>> /\ queued' \in BOOLEAN
  BY PassOf DEF Fire
<1> QED BY <1>1, <1>2, PassOf, OnePass DEF feedRows

LEMMA ReadRowsKeeps == ASSUME FInv, NEW j \in Jobs, ReadRows(j) PROVE FInv'
<1> DEFINE p == [job[j] EXCEPT !.pc = "items", !.found = connected \cap OfKind(job[j].kind)]
<1>1. GoodPass(p, selectedFeeds)
  BY PassOf DEF GoodPass, JobStates, OfKind, Sources, ReadRows
<1>2. job' = [job EXCEPT ![j] = p] /\ UNCHANGED <<feedRows, pending, stamped, queued>>
  BY PassOf DEF ReadRows
<1> QED BY <1>1, <1>2, PassOf, OnePass DEF feedRows

LEMMA ReadFeedsKeeps == ASSUME FInv, NEW j \in Jobs, ReadFeeds(j) PROVE FInv'
<1> DEFINE items == {i \in selectedFeeds : Of(i) \in job[j].found}
           p == [job[j] EXCEPT !.pc = "sweep", !.items = items,
                   !.found = IF job[j].kind = "slack" THEN @ ELSE {Of(i) : i \in items}]
<1>1. {Of(i) : i \in items} \subseteq job[j].found /\ items \subseteq selectedFeeds
  OBVIOUS
<1>2. GoodPass(p, selectedFeeds)
  <2> HIDE DEF items
  <2> QED BY <1>1, PassOf DEF GoodPass, JobStates, ReadFeeds
<1>3. job' = [job EXCEPT ![j] = p] /\ UNCHANGED <<feedRows, pending, stamped, queued>>
  BY PassOf DEF ReadFeeds
<1> HIDE DEF p
<1> QED BY <1>2, <1>3, PassOf, OnePass DEF feedRows

LEMMA NextKeeps == ASSUME FInv, NEW j \in Jobs, ReadListFails(j) \/ EndSweep(j) PROVE FInv'
<1>1. GoodPass(NextKind(job[j]), selectedFeeds)
  BY PassOf, NextKindIsGood DEF ReadListFails, EndSweep
<1>2. job' = [job EXCEPT ![j] = NextKind(job[j])] /\ UNCHANGED <<feedRows, pending, stamped, queued>>
  BY DEF ReadListFails, EndSweep
<1> QED BY <1>1, <1>2, PassOf, OnePass DEF feedRows

LEMMA TakeKeeps == ASSUME FInv, NEW j \in Jobs, NEW x \in Sources, Take(j, x) PROVE FInv'
<1> DEFINE mine == job[j].items \cap FeedsOf(x)
           p == [job[j] EXCEPT !.found = @ \ {x}, !.pc = IF mine = {} THEN "sweep" ELSE "ingest",
                               !.at = IF mine = {} THEN {} ELSE {x}]
<1>1. GoodPass(p, selectedFeeds)
  <2> HIDE DEF mine
  <2> QED BY PassOf, PassTypes DEF GoodPass, JobStates, Take, Sources
<1>2. job' = [job EXCEPT ![j] = p] /\ UNCHANGED <<connected, selectedFeeds, pending, stamped, queued>>
  BY PassOf DEF Take
<1>3. offered \subseteq offered' /\ offered' \subseteq Feeds
  BY PassOf DEF Take, FeedsOf
<1> HIDE DEF p
<1> QED BY <1>1, <1>2, <1>3, PassOf, OnePass

LEMMA IngestKeeps == ASSUME FInv, NEW j \in Jobs, Ingest(j) \/ IngestRaises(j) PROVE FInv'
<1> DEFINE p == [job[j] EXCEPT !.pc = "sweep", !.at = {}]
<1>1. GoodPass(p, selectedFeeds)
  BY PassOf, PassTypes DEF GoodPass, JobStates, Ingest, IngestRaises
<1>2. job' = [job EXCEPT ![j] = p] /\ UNCHANGED <<feedRows, queued>>
  BY PassOf DEF Ingest, IngestRaises
<1>3. pending' \subseteq Feeds /\ stamped' \subseteq Slack \ Broken
  BY PassOf DEF Ingest, IngestRaises
<1> HIDE DEF p
<1> QED BY <1>1, <1>2, <1>3, PassOf, OnePass DEF feedRows

-----------------------------------------------------------------------------
LEMMA FInvStep == FInv /\ [SchedulerNext]_schedulerVars => FInv'
<1> SUFFICES ASSUME FInv, [SchedulerNext]_schedulerVars PROVE FInv'
  OBVIOUS
<1>1. CASE UNCHANGED schedulerVars
  BY <1>1 DEF schedulerVars, FInv, SchedulerTypeOK, PassesFollow, SelectionIsFresh
<1>2. CASE SchedulerNext
  BY <1>2, ChangesKeep, SelectKeeps, RestOfUsers, RestartKeeps, FireKeeps, ReadRowsKeeps,
     ReadFeedsKeeps, NextKeeps, TakeKeeps, IngestKeeps DEF SchedulerNext, JobStep
<1> QED BY <1>1, <1>2

(* For any connections, feeds, jobs and failures: every row, list and pass *)
(* keeps its shape, and a pass works on one connection at a time.          *)
THEOREM SchedulerTypeCorrect == SchedulerSpec => []SchedulerTypeOK
<1>1. FInv => SchedulerTypeOK
  BY DEF FInv
<1> QED BY <1>1, FInvInit, FInvStep, PTL DEF SchedulerSpec

(* For any connections, feeds, jobs and failures: whatever users change    *)
(* while a pass reads its lists, it ingests nothing that was not selected  *)
(* at some moment since it began (run_all_workspaces_once).                *)
THEOREM FreshCorrect == SchedulerSpec => []SelectionIsFresh
<1>1. FInv => SelectionIsFresh
  BY DEF FInv
<1> QED BY <1>1, FInvInit, FInvStep, PTL DEF SchedulerSpec

-----------------------------------------------------------------------------
(* GmailSync, for any mails, labels and runs.                              *)

Served == Labels \ Blocked
Reading == {"history", "list", "profile", "fetch"}

\* History ids: every arrival has its own, a label comes with it or later.
HistoryIds ==
  /\ clock > 0 /\ oldest > 0
  /\ \A m \in Mails : added[m] <= clock
  /\ \A m, k \in Mails : added[m] = added[k] /\ added[m] # 0 => m = k
  /\ \A m \in Mails, l \in Labels : tagged[m][l] # 0 => added[m] # 0

\* A run: what it reads fits its budget, and is not older than the mailbox.
GoodRun(p) ==
  /\ p \in RunStates
  /\ p.pc = "idle" => p = NotRunning
  /\ p.pc \notin {"idle", "label"} => p.label \in Served \ p.todo
  /\ p.pc \in {"profile", "fetch"} => p.ids \subseteq Under(p.label) /\ Cardinality(p.ids) <= p.left
  /\ p.pc = "upload" => p.ready \subseteq Under(p.label) \ Unindexable
  /\ \A m \in p.seen : added[m] # 0
  /\ p.newId <= clock /\ (p.pc = "profile" => p.newId = 0) /\ \A l \in Labels : p.marks[l] <= clock
  /\ p.pc # "idle" => p.left + Cardinality(p.seen) >= Cap

GInv ==
  /\ GmailTypeOK /\ HistoryIds
  /\ \A l \in Labels : marks[l] <= clock
  /\ \A r \in Runs : GoodRun(run[r])

-----------------------------------------------------------------------------
(* The mails that a listing takes.                                         *)

\* Of mails that arrived at different times, no more than n are the newest n.
LEMMA NewestAreFew ==
  ASSUME NEW S \in SUBSET Mails, NEW n \in Nat, added \in [Mails -> Nat],
         \A m, k \in S : added[m] = added[k] => m = k
  PROVE  Newest(S, n) \subseteq S /\ Cardinality(Newest(S, n)) <= n
<1> DEFINE T == Newest(S, n)
<1>1. T \subseteq S /\ IsFiniteSet(S) /\ IsFiniteSet(T)
  BY GmailAssumption, FS_Subset DEF Newest
<1>2. CASE T = {}
  BY <1>1, <1>2, FS_EmptySet
<1>3. CASE T # {}
  <2> DEFINE A == {added[m] : m \in T}
  <2>1. A \in SUBSET Nat /\ A # {}
    BY <1>1, <1>3
  <2>2. PICK x \in A : \A y \in A : x <= y
    <3> HIDE DEF A
    <3> QED BY <2>1, LeastExists
  <2>3. PICK m \in T : added[m] = x
    OBVIOUS
  <2> DEFINE Above == {k \in S : added[k] > added[m]}
  <2>4. Cardinality(Above) < n
    BY DEF Newest
  <2>5. T \ {m} \subseteq Above
    BY <1>1, <2>2, <2>3
  <2>6. IsFiniteSet(Above) /\ Cardinality(Above) \in Nat
    BY <1>1, FS_Subset, FS_CardinalityType
  <2> HIDE DEF Above, T
  <2>7. Cardinality(T \ {m}) <= Cardinality(Above)
    BY <2>5, <2>6, FS_Subset
  <2>8. Cardinality(T \ {m}) = Cardinality(T) - 1 /\ Cardinality(T) \in Nat
    BY <1>1, FS_RemoveElement, FS_CardinalityType
  <2> QED BY <1>1, <2>4, <2>6, <2>7, <2>8 DEF T
<1> QED BY <1>2, <1>3

LEMMA OldestAreFew ==
  ASSUME NEW S \in SUBSET Mails, NEW n \in Nat, added \in [Mails -> Nat],
         \A m, k \in S : added[m] = added[k] => m = k
  PROVE  Oldest(S, n) \subseteq S /\ Cardinality(Oldest(S, n)) <= n
<1> DEFINE T == Oldest(S, n)
<1>1. T \subseteq S /\ IsFiniteSet(S) /\ IsFiniteSet(T)
  BY GmailAssumption, FS_Subset DEF Oldest
<1>2. CASE T = {}
  BY <1>1, <1>2, FS_EmptySet
<1>3. CASE T # {}
  <2> DEFINE A == {added[m] : m \in T}
  <2>1. A \in SUBSET Nat /\ A # {} /\ IsFiniteSet(A)
    <3> DEFINE f == [m \in T |-> added[m]]
    <3>1. f \in Surjection(T, A)
      BY DEF Surjection
    <3> HIDE DEF f
    <3>2. IsFiniteSet(A)
      BY <1>1, <3>1, FS_Surjection
    <3> QED BY <1>1, <1>3, <3>2
  <2>2. PICK x \in A : \A y \in A : y <= x
    <3> HIDE DEF A
    <3> QED BY <2>1, MaxExists
  <2>3. PICK m \in T : added[m] = x
    OBVIOUS
  <2> DEFINE Below == {k \in S : added[k] < added[m]}
  <2>4. Cardinality(Below) < n
    BY DEF Oldest
  <2>5. T \ {m} \subseteq Below
    BY <1>1, <2>2, <2>3
  <2>6. IsFiniteSet(Below) /\ Cardinality(Below) \in Nat
    BY <1>1, FS_Subset, FS_CardinalityType
  <2> HIDE DEF Below, T
  <2>7. Cardinality(T \ {m}) <= Cardinality(Below)
    BY <2>5, <2>6, FS_Subset
  <2>8. Cardinality(T \ {m}) = Cardinality(T) - 1 /\ Cardinality(T) \in Nat
    BY <1>1, FS_RemoveElement, FS_CardinalityType
  <2> QED BY <1>1, <2>4, <2>6, <2>7, <2>8 DEF T
<1> QED BY <1>2, <1>3

-----------------------------------------------------------------------------
(* What the steps of a run make of it: p is the run after the step.        *)

Becomes(r, p) == p \in RunStates /\ run' = [run EXCEPT ![r] = p]
Same(p, q) == p.todo = q.todo /\ p.left = q.left /\ p.seen = q.seen /\ p.marks = q.marks

LEMMA StartIs ==
  ASSUME GInv, NEW r \in Runs, NEW manual \in BOOLEAN, Start(r, manual)
  PROVE  \E p \in RunStates :
           /\ Becomes(r, p) /\ p.pc = "label" /\ p.todo = Labels /\ p.left = Cap /\ p.seen = {}
           /\ p.newId = 0 /\ p.ready = {} /\ p.ids = {} /\ p.marks \in {marks, NoMarks}
           /\ faults' = faults => p.marks = marks
<1>1. run[r] = NotRunning /\ run[r] \in RunStates /\ marks \in Marks /\ Cap \in Nat
      /\ faults \in Nat /\ NoMarks \in Marks
  BY GmailAssumption DEF GInv, GmailTypeOK, GoodRun, Start, Steps, Marks, NoMarks
<1>2. PICK snapshot \in {marks, NoMarks} :
        /\ ReadMarks(snapshot)
        /\ Steps(r, "idle",
             [run[r] EXCEPT !.pc = "label", !.manual = manual, !.todo = Labels, !.left = Cap,
                            !.marks = snapshot,
                            !.asked = UNION {Newest(Under(l), PageCap) :
                                               l \in {k \in Labels \ Blocked : manual}}])
  BY DEF Start
<1> DEFINE asked == UNION {Newest(Under(l), PageCap) : l \in {k \in Labels \ Blocked : manual}}
           p == [run[r] EXCEPT !.pc = "label", !.manual = manual, !.todo = Labels, !.left = Cap,
                               !.marks = snapshot, !.asked = asked]
<1>3. asked \in SUBSET Mails
  BY DEF Newest, Under
<1>4. run' = [run EXCEPT ![r] = p]
  BY <1>2 DEF Steps
<1> HIDE DEF asked
<1>5. /\ p \in RunStates /\ p.pc = "label" /\ p.todo = Labels /\ p.left = Cap /\ p.marks = snapshot
      /\ p.seen = run[r].seen /\ p.newId = run[r].newId /\ p.ready = run[r].ready /\ p.ids = run[r].ids
  BY <1>1, <1>3 DEF RunStates, RunPcs
<1>6. run[r].seen = {} /\ run[r].newId = 0 /\ run[r].ready = {} /\ run[r].ids = {}
  BY <1>1 DEF NotRunning
<1>7. faults' = faults => snapshot = marks
  BY <1>1, <1>2 DEF ReadMarks, Fails
<1> HIDE DEF p
<1> QED BY <1>4, <1>5, <1>6, <1>7 DEF Becomes

LEMMA SkipIs ==
  ASSUME GInv, NEW r \in Runs, NEW l \in Labels, SkipLabel(r, l)
  PROVE  \E p \in RunStates :
           /\ Becomes(r, p) /\ p.pc = "label" /\ p.todo = run[r].todo \ {l} /\ p.left = run[r].left
           /\ p.seen = run[r].seen /\ p.marks = run[r].marks /\ p.newId = run[r].newId
           /\ run[r].pc = "label"
<1> DEFINE p == [run[r] EXCEPT !.todo = @ \ {l}]
<1>1. run[r] \in RunStates /\ run[r].pc = "label" /\ run' = [run EXCEPT ![r] = p]
  BY DEF GInv, GmailTypeOK, SkipLabel, Steps
<1>2. /\ p \in RunStates /\ p.pc = run[r].pc /\ p.todo = run[r].todo \ {l} /\ p.left = run[r].left
      /\ p.seen = run[r].seen /\ p.marks = run[r].marks /\ p.newId = run[r].newId
  BY <1>1 DEF RunStates
<1> HIDE DEF p
<1> QED BY <1>1, <1>2 DEF Becomes

LEMMA TakeIs ==
  ASSUME GInv, NEW r \in Runs, NEW l \in Labels, TakeLabel(r, l)
  PROVE  /\ run[r].pc = "label" /\ l \in run[r].todo \ Blocked
         /\ \E p \in RunStates :
              /\ Becomes(r, p) /\ p.pc = (IF run[r].marks[l] # 0 THEN "history" ELSE "list")
              /\ p.todo = run[r].todo \ {l} /\ p.label = l /\ p.left = run[r].left
              /\ p.seen = run[r].seen /\ p.marks = run[r].marks /\ p.newId = run[r].newId
<1> DEFINE p == [run[r] EXCEPT !.pc = IF run[r].marks[l] # 0 THEN "history" ELSE "list",
                               !.todo = @ \ {l}, !.label = l]
<1>1. run[r] \in RunStates /\ run[r].pc = "label" /\ run' = [run EXCEPT ![r] = p]
      /\ l \in run[r].todo \ Blocked
  BY DEF GInv, GmailTypeOK, TakeLabel, Steps
<1>2. /\ p \in RunStates /\ p.pc = (IF run[r].marks[l] # 0 THEN "history" ELSE "list")
      /\ p.todo = run[r].todo \ {l} /\ p.label = l /\ p.left = run[r].left
      /\ p.seen = run[r].seen /\ p.marks = run[r].marks /\ p.newId = run[r].newId
  BY <1>1 DEF RunStates, RunPcs
<1> HIDE DEF p
<1> QED BY <1>1, <1>2 DEF Becomes

LEMMA HistoryIs ==
  ASSUME GInv, NEW r \in Runs, ReadHistory(r)
  PROVE  /\ run[r].pc = "history"
         /\ \E p \in RunStates :
              /\ Becomes(r, p) /\ Same(p, run[r]) /\ p.pc = "fetch" /\ p.label = run[r].label
              /\ p.newId = clock
              /\ p.ids = Oldest({m \in Under(run[r].label) : added[m] > run[r].marks[run[r].label]},
                                Limit(r))
              /\ p.unread = {m \in Under(run[r].label) : added[m] > run[r].marks[run[r].label]} \ p.ids
<1> DEFINE new == {m \in Under(run[r].label) : added[m] > run[r].marks[run[r].label]}
           ids == Oldest(new, Limit(r))
           p == [run[r] EXCEPT !.pc = "fetch", !.ids = ids, !.newId = clock, !.unread = new \ ids]
<1>1. run[r] \in RunStates /\ run[r].pc = "history" /\ run' = [run EXCEPT ![r] = p] /\ clock \in Nat
  BY DEF GInv, GmailTypeOK, ReadHistory, Steps
<1>2. ids \in SUBSET Mails /\ new \in SUBSET Mails
  BY DEF Oldest, Under
<1> HIDE DEF ids, new
<1>3. /\ p \in RunStates /\ p.pc = "fetch" /\ p.label = run[r].label /\ p.newId = clock /\ p.ids = ids
      /\ p.unread = new \ ids /\ Same(p, run[r])
  BY <1>1, <1>2 DEF RunStates, RunPcs, Same
<1> HIDE DEF p
<1> QED BY <1>1, <1>3 DEF Becomes, ids, new

LEMMA InvalidatedIs ==
  ASSUME GInv, NEW r \in Runs, HistoryInvalidated(r)
  PROVE  /\ run[r].pc = "history" /\ run[r].marks[run[r].label] < oldest
         /\ \E p \in RunStates :
              /\ Becomes(r, p) /\ Same(p, run[r]) /\ p.pc = "list" /\ p.label = run[r].label
              /\ p.newId = run[r].newId
<1> DEFINE p == [run[r] EXCEPT !.pc = "list"]
<1>1. /\ run[r] \in RunStates /\ run[r].pc = "history" /\ run' = [run EXCEPT ![r] = p]
      /\ run[r].marks[run[r].label] < oldest
  BY DEF GInv, GmailTypeOK, HistoryInvalidated, Steps
<1>2. p \in RunStates /\ p.pc = "list" /\ p.label = run[r].label /\ Same(p, run[r]) /\ p.newId = run[r].newId
  BY <1>1 DEF RunStates, RunPcs, Same
<1> HIDE DEF p
<1> QED BY <1>1, <1>2 DEF Becomes

LEMMA ListIs ==
  ASSUME GInv, NEW r \in Runs, ListMessages(r)
  PROVE  /\ run[r].pc = "list"
         /\ \E p \in RunStates :
              /\ Becomes(r, p) /\ Same(p, run[r]) /\ p.pc = "profile" /\ p.label = run[r].label
              /\ p.newId = 0 /\ p.ids = Newest(Under(run[r].label), Limit(r))
<1> DEFINE ids == Newest(Under(run[r].label), Limit(r))
           p == [run[r] EXCEPT !.pc = "profile", !.newId = 0, !.ids = ids]
<1>1. run[r] \in RunStates /\ run[r].pc = "list" /\ run' = [run EXCEPT ![r] = p]
  BY DEF GInv, GmailTypeOK, ListMessages, Steps
<1>2. ids \in SUBSET Mails
  BY DEF Newest, Under
<1> HIDE DEF ids
<1>3. /\ p \in RunStates /\ p.pc = "profile" /\ p.label = run[r].label /\ p.newId = 0 /\ p.ids = ids
      /\ Same(p, run[r])
  BY <1>1, <1>2 DEF RunStates, RunPcs, Same
<1> HIDE DEF p
<1> QED BY <1>1, <1>3 DEF Becomes, ids

\* `continue`.
LEMMA NextLabelIs ==
  ASSUME GInv, NEW r \in Runs, NEW from, Steps(r, from, NextLabel(r))
  PROVE  /\ run[r].pc = from
         /\ \E p \in RunStates :
              /\ Becomes(r, p) /\ Same(p, run[r]) /\ p.pc = "label" /\ p.newId = 0
<1> DEFINE p == NextLabel(r)
<1>1. run[r] \in RunStates /\ run[r].pc = from /\ run' = [run EXCEPT ![r] = p]
  BY DEF GInv, GmailTypeOK, Steps
<1>2. p \in RunStates /\ p.pc = "label" /\ Same(p, run[r]) /\ p.newId = 0
  BY <1>1 DEF RunStates, RunPcs, Same, NextLabel, NoLabel
<1> HIDE DEF p
<1> QED BY <1>1, <1>2 DEF Becomes

LEMMA ProfileIs ==
  ASSUME GInv, NEW r \in Runs, GetProfile(r)
  PROVE  /\ run[r].pc = "profile"
         /\ \E p \in RunStates :
              /\ Becomes(r, p) /\ Same(p, run[r]) /\ p.pc = "fetch" /\ p.label = run[r].label
              /\ p.newId \in {clock, run[r].newId} /\ p.ids = run[r].ids
              /\ faults' = faults => p.newId = clock
              /\ p.newId = run[r].newId \/ p.unread = Under(run[r].label) \ run[r].ids
<1> DEFINE p == [run[r] EXCEPT !.pc = "fetch", !.newId = clock,
                               !.unread = Under(run[r].label) \ run[r].ids]
           q == [run[r] EXCEPT !.pc = "fetch"]
<1>1. run[r] \in RunStates /\ run[r].pc = "profile" /\ clock \in Nat /\ faults \in Nat
  BY DEF GInv, GmailTypeOK, GetProfile, Steps
<1>2. \/ run' = [run EXCEPT ![r] = p]
      \/ run' = [run EXCEPT ![r] = q] /\ faults' # faults
  BY <1>1 DEF GetProfile, Steps, Fails
<1>3. /\ p \in RunStates /\ p.pc = "fetch" /\ p.label = run[r].label /\ p.newId = clock
      /\ p.unread = Under(run[r].label) \ run[r].ids /\ p.ids = run[r].ids /\ Same(p, run[r])
  <2>1. Under(run[r].label) \ run[r].ids \in SUBSET Mails
    BY DEF Under
  <2> QED BY <1>1, <2>1 DEF RunStates, RunPcs, Same
<1>4. /\ q \in RunStates /\ q.pc = "fetch" /\ q.label = run[r].label /\ q.newId = run[r].newId
      /\ q.ids = run[r].ids /\ Same(q, run[r])
  BY <1>1 DEF RunStates, RunPcs, Same
<1> HIDE DEF p, q
<1> QED BY <1>1, <1>2, <1>3, <1>4 DEF Becomes

LEMMA FetchIs ==
  ASSUME GInv, NEW r \in Runs, Fetch(r)
  PROVE  /\ run[r].pc = "fetch"
         /\ \E found \in SUBSET (run[r].ids \ run[r].seen), p \in RunStates :
              /\ Becomes(r, p) /\ p.pc = "upload" /\ p.label = run[r].label
              /\ p.todo = run[r].todo /\ p.marks = run[r].marks /\ p.newId = run[r].newId
              /\ p.unread = run[r].unread /\ p.seen = run[r].seen \cup (run[r].ids \ run[r].seen)
              /\ p.ready = Documents(found)
              /\ p.left = run[r].left - Cardinality(Documents(found))
              /\ missed' = missed \cup ((run[r].ids \ run[r].seen) \ found)
<1>1. run[r] \in RunStates /\ run[r].pc = "fetch" /\ Cardinality(run[r].ids) <= run[r].left
  BY DEF GInv, GmailTypeOK, Fetch, Steps, GoodRun
<1> DEFINE new == run[r].ids \ run[r].seen
<1>2. PICK found \in SUBSET new :
        /\ missed' = missed \cup (new \ found)
        /\ Steps(r, "fetch", [run[r] EXCEPT !.pc = "upload", !.seen = @ \cup new,
                                            !.ready = Documents(found),
                                            !.left = @ - Cardinality(Documents(found))])
  BY DEF Fetch
<1> DEFINE p == [run[r] EXCEPT !.pc = "upload", !.seen = @ \cup new, !.ready = Documents(found),
                               !.left = @ - Cardinality(Documents(found))]
<1>3. run' = [run EXCEPT ![r] = p]
  BY <1>2 DEF Steps
<1>4. run[r].ids \in SUBSET Mails /\ run[r].seen \in SUBSET Mails /\ run[r].left \in Nat
  BY <1>1 DEF RunStates
<1>5. run[r].left - Cardinality(Documents(found)) \in Nat /\ Documents(found) \in SUBSET Mails
      /\ new \in SUBSET Mails
  <2>1. Documents(found) \in SUBSET run[r].ids /\ IsFiniteSet(run[r].ids)
    BY <1>4, GmailAssumption, FS_Subset DEF Documents
  <2>2. Cardinality(Documents(found)) <= Cardinality(run[r].ids) /\ Cardinality(Documents(found)) \in Nat
        /\ Cardinality(run[r].ids) \in Nat
    BY <2>1, FS_Subset, FS_CardinalityType
  <2> QED BY <1>1, <1>4, <2>1, <2>2
<1> DEFINE more == run[r].left - Cardinality(Documents(found))
<1> HIDE DEF new
<1>6. /\ p \in RunStates /\ p.pc = "upload" /\ p.label = run[r].label
      /\ p.todo = run[r].todo /\ p.marks = run[r].marks /\ p.newId = run[r].newId
      /\ p.unread = run[r].unread /\ p.seen = run[r].seen \cup new /\ p.ready = Documents(found) /\ p.left = more
  BY <1>1, <1>5 DEF RunStates, RunPcs
<1> HIDE DEF p
<1> QED BY <1>1, <1>2, <1>3, <1>6 DEF Becomes, new

LEMMA UploadIs ==
  ASSUME GInv, NEW r \in Runs, Upload(r)
  PROVE  /\ run[r].pc = "upload"
         /\ \E p \in RunStates :
              /\ Becomes(r, p) /\ Same(p, run[r]) /\ p.pc = "state" /\ p.label = run[r].label
              /\ p.newId = run[r].newId /\ p.unread = run[r].unread
<1> DEFINE p == [run[r] EXCEPT !.pc = "state", !.ready = {}]
<1>1. run[r] \in RunStates /\ run[r].pc = "upload" /\ run' = [run EXCEPT ![r] = p]
  BY DEF GInv, GmailTypeOK, Upload, Steps
<1>2. /\ p \in RunStates /\ p.pc = "state" /\ p.label = run[r].label /\ Same(p, run[r])
      /\ p.newId = run[r].newId /\ p.unread = run[r].unread
  BY <1>1 DEF RunStates, RunPcs, Same
<1> HIDE DEF p
<1> QED BY <1>1, <1>2 DEF Becomes

\* A run that is over, or died.
LEMMA EndIs ==
  /\ NotRunning \in RunStates /\ NotRunning.pc = "idle" /\ NotRunning.seen = {} /\ NotRunning.newId = 0
  /\ NotRunning.marks = NoMarks /\ NoMarks \in Marks /\ \A l \in Labels : NoMarks[l] = 0
BY DEF NotRunning, RunStates, RunPcs, NoLabel, NoMarks, Marks

-----------------------------------------------------------------------------
(* Types, and the budget of a run.                                         *)

LEMMA GInvInit == GmailInit => GInv
<1> SUFFICES ASSUME GmailInit PROVE GInv
  OBVIOUS
<1>1. GmailTypeOK
  BY EndIs DEF GmailInit, GmailTypeOK, Marks, NoMarks
<1>2. HistoryIds /\ \A l \in Labels : marks[l] <= clock
  BY DEF GmailInit, HistoryIds, NoMarks
<1>3. \A r \in Runs : GoodRun(run[r])
  BY EndIs DEF GmailInit, GoodRun
<1> QED BY <1>1, <1>2, <1>3 DEF GInv

\* The mailbox only grows.
LEMMA MailboxKeeps ==
  ASSUME GInv, GmailTypeOK', HistoryIds', clock <= clock', UNCHANGED <<marks, run>>,
         \A m \in Mails : /\ added[m] # 0 => added'[m] = added[m]
                          /\ \A l \in Labels : tagged[m][l] # 0 => tagged'[m][l] # 0
  PROVE  GInv'
<1>1. clock \in Nat /\ clock' \in Nat /\ marks \in Marks
  BY DEF GInv, GmailTypeOK
<1>2. \A l \in Labels : marks[l] <= clock'
  BY <1>1 DEF GInv, Marks
<1>3. ASSUME NEW r \in Runs PROVE GoodRun(run[r])'
  <2>1. GoodRun(run[r]) /\ run[r] \in RunStates
    BY DEF GInv, GoodRun
  <2>2. run[r].newId \in Nat /\ run[r].marks \in [Labels -> Nat] /\ run[r].seen \in SUBSET Mails
    BY <2>1 DEF RunStates, Marks
  <2>3. run[r].newId <= clock' /\ \A l \in Labels : run[r].marks[l] <= clock'
    BY <1>1, <2>1, <2>2 DEF GoodRun
  <2>4. \A l \in Labels : Under(l) \subseteq Under(l)'
    BY DEF Under
  <2>5. run[r].pc \notin {"idle", "label"} => run[r].label \in Labels
    BY <2>1 DEF GoodRun, Served
  <2>6. \A m \in run[r].seen : added'[m] # 0
    BY <2>1, <2>2 DEF GoodRun
  <2>7. /\ run[r].pc \in {"profile", "fetch"} => run[r].ids \subseteq Under(run[r].label)'
        /\ run[r].pc = "upload" => run[r].ready \subseteq Under(run[r].label)' \ Unindexable
    BY <2>1, <2>4, <2>5 DEF GoodRun
  <2> QED BY <2>1, <2>3, <2>6, <2>7 DEF GoodRun
<1> QED BY <1>2, <1>3 DEF GInv

LEMMA ArriveGrows == ASSUME GInv, NEW m \in Mails, Arrive(m)
  PROVE  /\ GInv' /\ clock' = clock + 1 /\ added[m] = 0 /\ added' = [added EXCEPT ![m] = clock + 1]
         /\ \A k \in Mails \ {m} : tagged'[k] = tagged[k]
         /\ UNCHANGED <<oldest, marks, docs, run, missed, passed, faults, expiries, crashes>>
<1>1. /\ clock \in Nat /\ oldest \in Nat /\ added \in [Mails -> Nat]
      /\ tagged \in [Mails -> [Labels -> Nat]] /\ clock > 0 /\ oldest > 0
  BY DEF GInv, GmailTypeOK, HistoryIds
<1>2. /\ clock' = clock + 1 /\ added[m] = 0 /\ added' = [added EXCEPT ![m] = clock + 1]
      /\ UNCHANGED <<oldest, marks, docs, run, missed, passed, faults, expiries, crashes>>
  BY DEF Arrive
<1>3. PICK ls \in SUBSET Labels :
        tagged' = [tagged EXCEPT ![m] = [l \in Labels |-> IF l \in ls THEN clock + 1 ELSE 0]]
  BY DEF Arrive
<1> DEFINE tags == [l \in Labels |-> IF l \in ls THEN clock + 1 ELSE 0]
<1>4. tags \in [Labels -> Nat]
  BY <1>1
<1>5. tagged' = [tagged EXCEPT ![m] = tags]
  BY <1>3
<1> HIDE DEF tags
<1>6. tagged' \in [Mails -> [Labels -> Nat]] /\ added' \in [Mails -> Nat]
  BY <1>1, <1>2, <1>4, <1>5
<1>7. \A l \in Labels : tagged[m][l] = 0
  BY <1>2 DEF GInv, HistoryIds
<1>8. \A k \in Mails \ {m} : tagged'[k] = tagged[k] /\ added'[k] = added[k]
  BY <1>1, <1>2, <1>5
<1>9. added'[m] = clock + 1
  BY <1>1, <1>2
<1>10. GmailTypeOK'
  BY <1>1, <1>2, <1>6 DEF GInv, GmailTypeOK
<1>11. \A k \in Mails : added[k] <= clock /\ added[k] \in Nat
  BY <1>1 DEF GInv, HistoryIds
<1>12. HistoryIds'
  <2>1. \A k \in Mails : added'[k] <= clock'
    BY <1>1, <1>2, <1>8, <1>9, <1>11
  <2>2. \A k, n \in Mails : added'[k] = added'[n] /\ added'[k] # 0 => k = n
    <3>1. \A k \in Mails \ {m} : added'[k] # added'[m]
      BY <1>1, <1>8, <1>9, <1>11
    <3>2. \A k, n \in Mails : added[k] = added[n] /\ added[k] # 0 => k = n
      BY DEF GInv, HistoryIds
    <3> QED BY <1>8, <3>1, <3>2
  <2>3. \A k \in Mails, l \in Labels : tagged'[k][l] # 0 => added'[k] # 0
    BY <1>1, <1>8, <1>9 DEF GInv, HistoryIds
  <2>4. clock' > 0 /\ oldest' > 0
    BY <1>1, <1>2
  <2> QED BY <2>1, <2>2, <2>3, <2>4 DEF HistoryIds
<1>13. GInv'
  BY <1>1, <1>2, <1>7, <1>8, <1>10, <1>12, MailboxKeeps
<1> QED BY <1>2, <1>8, <1>13

LEMMA RelabelGrows == ASSUME GInv, NEW m \in Mails, NEW l \in Labels, Relabel(m, l)
  PROVE  /\ GInv' /\ clock' = clock + 1 /\ tagged[m][l] = 0 /\ tagged' = [tagged EXCEPT ![m][l] = clock + 1]
         /\ UNCHANGED <<added, oldest, marks, docs, run, missed, passed, faults, expiries, crashes>>
<1>1. /\ clock \in Nat /\ oldest \in Nat /\ added \in [Mails -> Nat]
      /\ tagged \in [Mails -> [Labels -> Nat]] /\ clock > 0 /\ oldest > 0
  BY DEF GInv, GmailTypeOK, HistoryIds
<1>2. /\ clock' = clock + 1 /\ added[m] # 0 /\ tagged[m][l] = 0
      /\ tagged' = [tagged EXCEPT ![m][l] = clock + 1]
      /\ UNCHANGED <<added, oldest, marks, docs, run, missed, passed, faults, expiries, crashes>>
  BY DEF Relabel
<1>3. tagged' \in [Mails -> [Labels -> Nat]]
  BY <1>1, <1>2
<1>4. GmailTypeOK'
  BY <1>1, <1>2, <1>3 DEF GInv, GmailTypeOK
<1>5. \A k \in Mails, j \in Labels : tagged'[k][j] = IF k = m /\ j = l THEN clock + 1 ELSE tagged[k][j]
  BY <1>1, <1>2
<1>6. HistoryIds'
  BY <1>1, <1>2, <1>5 DEF GInv, HistoryIds
<1>7. GInv'
  BY <1>1, <1>2, <1>4, <1>5, <1>6, MailboxKeeps
<1> QED BY <1>2, <1>7

LEMMA ExpireKeeps == ASSUME GInv, Expire PROVE GInv'
<1>1. /\ clock \in Nat /\ oldest \in Nat /\ expiries \in Nat /\ clock > 0
      /\ oldest' = clock /\ expiries' = expiries + 1
      /\ UNCHANGED <<clock, added, tagged, marks, docs, run, missed, passed, faults, crashes>>
  BY DEF GInv, GmailTypeOK, HistoryIds, Expire
<1>2. GmailTypeOK' /\ HistoryIds'
  BY <1>1 DEF GInv, GmailTypeOK, HistoryIds
<1> QED BY <1>1, <1>2, MailboxKeeps

\* One run goes on, or ends.
LEMMA OneRun ==
  ASSUME GInv, NEW r \in Runs, NEW p, Becomes(r, p), GoodRun(p), UNCHANGED mailbox,
         docs' \in [Mails -> Nat], missed' \cup passed' \subseteq Mails, {faults, expiries, crashes}' \subseteq Nat,
         marks' \in Marks, \A l \in Labels : marks'[l] <= clock
  PROVE  GInv'
<1>1. run' \in [Runs -> RunStates] /\ \A k \in Runs : run'[k] = IF k = r THEN p ELSE run[k]
  BY DEF GInv, GmailTypeOK, Becomes
<1>2. GmailTypeOK' /\ HistoryIds'
  BY <1>1 DEF GInv, GmailTypeOK, HistoryIds, mailbox
<1>3. \A k \in Runs : GoodRun(run'[k])
  BY <1>1 DEF GInv
<1>4. \A q : GoodRun(q) => GoodRun(q)'
  BY DEF GoodRun, Under, mailbox
<1>5. \A k \in Runs : GoodRun(run[k])'
  BY <1>3, <1>4 DEF GoodRun, Under, mailbox
<1> QED BY <1>2, <1>5 DEF GInv, mailbox

LEMMA FaultTypes ==
  ASSUME GInv, NoFault \/ \E f \in Faults : Fails(f)
  PROVE  faults' \in Nat
BY DEF GInv, GmailTypeOK, NoFault, Fails

\* What the actions of a run leave alone, or do beside the run.
LEMMA RunFrame ==
  ASSUME GInv, NEW r \in Runs,
         \/ \E manual \in BOOLEAN : Start(r, manual)
         \/ \E l \in Labels : SkipLabel(r, l) \/ TakeLabel(r, l)
         \/ ReadHistory(r) \/ HistoryInvalidated(r) \/ ListMessages(r) \/ ReadFails(r) \/ GetProfile(r)
         \/ Fetch(r) \/ Upload(r) \/ UploadRaises(r) \/ WriteState(r)
  PROVE  UNCHANGED mailbox /\ {faults, expiries, crashes}' \subseteq Nat
         /\ (faults' = 0 => faults = 0) /\ UNCHANGED <<expiries, crashes>>
<1>1. UNCHANGED <<mailbox, expiries, crashes>>
  BY DEF Start, SkipLabel, TakeLabel, ReadHistory, HistoryInvalidated, ListMessages, ReadFails,
         GetProfile, Fetch, Upload, UploadRaises, WriteState, Steps
<1>2. NoFault \/ \E f \in Faults : Fails(f)
  BY DEF Start, ReadMarks, SkipLabel, TakeLabel, ReadHistory, HistoryInvalidated, ListMessages,
         ReadFails, GetProfile, Fetch, FetchMessages, Upload, UploadRaises, WriteState, Fails
<1>3. faults' = faults \/ faults' = faults + 1
  BY <1>2 DEF NoFault, Fails
<1> QED BY <1>1, <1>3 DEF GInv, GmailTypeOK

LEMMA RunIs ==
  ASSUME GInv, NEW r \in Runs
  PROVE  /\ GoodRun(run[r]) /\ run[r] \in RunStates /\ run[r].left \in Nat /\ run[r].newId \in Nat
         /\ run[r].marks \in [Labels -> Nat] /\ run[r].seen \in SUBSET Mails
         /\ run[r].ids \in SUBSET Mails /\ run[r].ready \in SUBSET Mails /\ run[r].todo \in SUBSET Labels
         /\ clock \in Nat /\ marks \in [Labels -> Nat] /\ docs \in [Mails -> Nat] /\ missed \cup passed \subseteq Mails
         /\ added \in [Mails -> Nat] /\ tagged \in [Mails -> [Labels -> Nat]] /\ faults \in Nat
<1>1. GoodRun(run[r]) /\ run[r] \in RunStates
  BY DEF GInv, GoodRun
<1>2. /\ clock \in Nat /\ marks \in [Labels -> Nat] /\ docs \in [Mails -> Nat] /\ missed \cup passed \subseteq Mails
      /\ added \in [Mails -> Nat] /\ tagged \in [Mails -> [Labels -> Nat]] /\ faults \in Nat
  BY DEF GInv, GmailTypeOK, Marks
<1> QED BY <1>1, <1>2 DEF RunStates, Marks

\* Mails under one label, and those found later than a watermark.
LEMMA ListingFits ==
  ASSUME GInv, NEW r \in Runs, NEW l \in Labels, NEW S \in SUBSET Under(l)
  PROVE  /\ Limit(r) \in Nat /\ Limit(r) <= run[r].left
         /\ Newest(S, Limit(r)) \subseteq S /\ Cardinality(Newest(S, Limit(r))) <= run[r].left
         /\ Oldest(S, Limit(r)) \subseteq S /\ Cardinality(Oldest(S, Limit(r))) <= run[r].left
<1>1. Limit(r) \in Nat /\ Limit(r) <= run[r].left
  BY RunIs, GmailAssumption DEF Limit
<1>2. /\ S \in SUBSET Mails /\ added \in [Mails -> Nat]
      /\ \A m, k \in S : added[m] = added[k] => m = k
  BY RunIs DEF Under, GInv, HistoryIds
<1>3. IsFiniteSet(Newest(S, Limit(r))) /\ IsFiniteSet(Oldest(S, Limit(r)))
  <2>1. Newest(S, Limit(r)) \in SUBSET Mails /\ Oldest(S, Limit(r)) \in SUBSET Mails
    BY <1>2 DEF Newest, Oldest
  <2> QED BY <2>1, GmailAssumption, FS_Subset
<1>4. /\ Newest(S, Limit(r)) \subseteq S /\ Cardinality(Newest(S, Limit(r))) <= Limit(r)
      /\ Oldest(S, Limit(r)) \subseteq S /\ Cardinality(Oldest(S, Limit(r))) <= Limit(r)
  BY <1>1, <1>2, NewestAreFew, OldestAreFew
<1>5. Cardinality(Newest(S, Limit(r))) \in Nat /\ Cardinality(Oldest(S, Limit(r))) \in Nat
  BY <1>3, FS_CardinalityType
<1> QED BY <1>1, <1>4, <1>5, RunIs

LEMMA StartTypes ==
  ASSUME GInv, NEW r \in Runs, NEW manual \in BOOLEAN, Start(r, manual) PROVE GInv'
<1>1. PICK p \in RunStates :
           /\ Becomes(r, p) /\ p.pc = "label" /\ p.todo = Labels /\ p.left = Cap /\ p.seen = {}
           /\ p.newId = 0 /\ p.ready = {} /\ p.ids = {} /\ p.marks \in {marks, NoMarks}
  BY StartIs
<1>2. \A l \in Labels : p.marks[l] <= clock
  BY <1>1, RunIs, EndIs DEF GInv
<1>3. GoodRun(p)
  BY <1>1, <1>2, RunIs, GmailAssumption, FS_EmptySet DEF GoodRun
<1>4. UNCHANGED <<marks, docs, missed, passed>>
  BY DEF Start
<1> QED BY <1>1, <1>3, <1>4, RunFrame, RunIs, OneRun DEF GInv, Marks

LEMMA LabelTypes ==
  ASSUME GInv, NEW r \in Runs, NEW l \in Labels, SkipLabel(r, l) \/ TakeLabel(r, l) PROVE GInv'
<1>1. PICK p \in RunStates :
           /\ Becomes(r, p) /\ p.pc \in {"label", "history", "list"} /\ p.todo = run[r].todo \ {l}
           /\ p.pc # "label" => p.label = l /\ l \notin Blocked
           /\ p.left = run[r].left /\ p.seen = run[r].seen /\ p.marks = run[r].marks
           /\ p.newId = run[r].newId /\ run[r].pc = "label"
  <2>1. CASE SkipLabel(r, l)
    BY <2>1, SkipIs
  <2>2. CASE TakeLabel(r, l)
    BY <2>2, TakeIs
  <2> QED BY <2>1, <2>2
<1>2. GoodRun(p)
  BY <1>1, RunIs DEF GoodRun, Served
<1>3. UNCHANGED <<marks, docs, missed, passed>>
  BY DEF SkipLabel, TakeLabel
<1> QED BY <1>1, <1>2, <1>3, RunFrame, RunIs, OneRun DEF GInv, Marks

LEMMA HistoryTypes == ASSUME GInv, NEW r \in Runs, ReadHistory(r) PROVE GInv'
<1> DEFINE new == {m \in Under(run[r].label) : added[m] > run[r].marks[run[r].label]}
<1>1. PICK p \in RunStates :
        /\ Becomes(r, p) /\ Same(p, run[r]) /\ p.pc = "fetch" /\ p.label = run[r].label
        /\ p.newId = clock /\ p.ids = Oldest(new, Limit(r))
  BY HistoryIs
<1>2. run[r].pc = "history" /\ run[r].label \in Served \ run[r].todo
  BY HistoryIs, RunIs DEF GoodRun
<1>3. new \subseteq Under(run[r].label) /\ run[r].label \in Labels
  BY <1>2 DEF Served
<1> HIDE DEF new
<1>4. p.ids \subseteq Under(p.label) /\ Cardinality(p.ids) <= p.left
  BY <1>1, <1>3, ListingFits DEF Same
<1>5. GoodRun(p)
  BY <1>1, <1>2, <1>4, RunIs DEF GoodRun, Same
<1>6. UNCHANGED <<marks, docs, missed, passed>>
  BY DEF ReadHistory
<1> QED BY <1>1, <1>5, <1>6, RunFrame, RunIs, OneRun DEF GInv, Marks

LEMMA InvalidatedTypes == ASSUME GInv, NEW r \in Runs, HistoryInvalidated(r) PROVE GInv'
<1>1. PICK p \in RunStates :
        /\ Becomes(r, p) /\ Same(p, run[r]) /\ p.pc = "list" /\ p.label = run[r].label
        /\ p.newId = run[r].newId
  BY InvalidatedIs
<1>2. run[r].pc = "history"
  BY InvalidatedIs
<1>3. GoodRun(p)
  BY <1>1, <1>2, RunIs DEF GoodRun, Same
<1>4. UNCHANGED <<marks, docs, missed, passed>>
  BY DEF HistoryInvalidated
<1> QED BY <1>1, <1>3, <1>4, RunFrame, RunIs, OneRun DEF GInv, Marks

LEMMA ListTypes == ASSUME GInv, NEW r \in Runs, ListMessages(r) PROVE GInv'
<1>1. PICK p \in RunStates :
        /\ Becomes(r, p) /\ Same(p, run[r]) /\ p.pc = "profile" /\ p.label = run[r].label
        /\ p.newId = 0 /\ p.ids = Newest(Under(run[r].label), Limit(r))
  BY ListIs
<1>2. run[r].pc = "list" /\ run[r].label \in Served \ run[r].todo /\ run[r].label \in Labels
  BY ListIs, RunIs DEF GoodRun, Served
<1>3. p.ids \subseteq Under(p.label) /\ Cardinality(p.ids) <= p.left
  BY <1>1, <1>2, ListingFits DEF Same
<1>4. GoodRun(p)
  BY <1>1, <1>2, <1>3, RunIs DEF GoodRun, Same
<1>5. UNCHANGED <<marks, docs, missed, passed>>
  BY DEF ListMessages
<1> QED BY <1>1, <1>4, <1>5, RunFrame, RunIs, OneRun DEF GInv, Marks

LEMMA NextLabelTypes ==
  ASSUME GInv, NEW r \in Runs, NEW from \in RunPcs \ {"idle"}, Steps(r, from, NextLabel(r)),
         {faults, expiries, crashes}' \subseteq Nat, docs' \in [Mails -> Nat], missed' \cup passed' \subseteq Mails,
         marks' \in Marks, \A l \in Labels : marks'[l] <= clock
  PROVE  GInv'
<1>1. PICK p \in RunStates : Becomes(r, p) /\ Same(p, run[r]) /\ p.pc = "label" /\ p.newId = 0
  BY NextLabelIs
<1>2. run[r].pc # "idle"
  BY NextLabelIs
<1>3. GoodRun(p)
  BY <1>1, <1>2, RunIs DEF GoodRun, Same
<1>4. UNCHANGED mailbox
  BY DEF Steps
<1> QED BY <1>1, <1>3, <1>4, OneRun

LEMMA ProfileTypes == ASSUME GInv, NEW r \in Runs, GetProfile(r) PROVE GInv'
<1>1. PICK p \in RunStates :
              /\ Becomes(r, p) /\ Same(p, run[r]) /\ p.pc = "fetch" /\ p.label = run[r].label
              /\ p.newId \in {clock, run[r].newId} /\ p.ids = run[r].ids
  BY ProfileIs
<1>2. run[r].pc = "profile"
  BY ProfileIs
<1>3. GoodRun(p)
  BY <1>1, <1>2, RunIs DEF GoodRun, Same
<1>4. UNCHANGED <<marks, docs, missed, passed>>
  BY DEF GetProfile
<1> QED BY <1>1, <1>3, <1>4, RunFrame, RunIs, OneRun DEF GInv, Marks

\* What was seen is added to what was left before.
LEMMA BudgetKeeps ==
  ASSUME NEW S \in SUBSET Mails, NEW T \in SUBSET Mails, S \cap T = {}, NEW D \in SUBSET T,
         NEW left \in Nat, left + Cardinality(S) >= Cap, left - Cardinality(D) \in Nat
  PROVE  (left - Cardinality(D)) + Cardinality(S \cup T) >= Cap
<1>1. IsFiniteSet(S) /\ IsFiniteSet(T) /\ IsFiniteSet(D)
  BY GmailAssumption, FS_Subset
<1>2. Cardinality(S \cup T) = Cardinality(S) + Cardinality(T)
  <2>1. Cardinality(S \cap T) = 0
    BY FS_EmptySet
  <2>2. Cardinality(S \cup T) = Cardinality(S) + Cardinality(T) - Cardinality(S \cap T)
    BY <1>1, FS_Union
  <2>3. Cardinality(S) \in Nat /\ Cardinality(T) \in Nat
    BY <1>1, FS_CardinalityType
  <2> QED BY <2>1, <2>2, <2>3
<1>3. Cardinality(D) <= Cardinality(T)
  BY <1>1, FS_Subset
<1>4. Cardinality(S) \in Nat /\ Cardinality(T) \in Nat /\ Cardinality(D) \in Nat /\ Cap \in Nat
  BY <1>1, FS_CardinalityType, GmailAssumption
<1> QED BY <1>2, <1>3, <1>4

LEMMA FetchTypes == ASSUME GInv, NEW r \in Runs, Fetch(r) PROVE GInv'
<1> DEFINE new == run[r].ids \ run[r].seen
<1>1. PICK found \in SUBSET new, p \in RunStates :
              /\ Becomes(r, p) /\ p.pc = "upload" /\ p.label = run[r].label
              /\ p.todo = run[r].todo /\ p.marks = run[r].marks /\ p.newId = run[r].newId
              /\ p.unread = run[r].unread /\ p.seen = run[r].seen \cup new
              /\ p.ready = Documents(found)
              /\ p.left = run[r].left - Cardinality(Documents(found))
              /\ missed' = missed \cup (new \ found)
  BY FetchIs
<1>2. /\ run[r].pc = "fetch" /\ run[r].label \in Labels /\ run[r].ids \subseteq Under(run[r].label)
      /\ run[r].left + Cardinality(run[r].seen) >= Cap
  BY FetchIs, RunIs DEF GoodRun, Served
<1>3. new \in SUBSET Mails /\ Documents(found) \in SUBSET new /\ run[r].seen \cap new = {}
  BY RunIs DEF Documents
<1>4. \A m \in new : added[m] # 0
  BY <1>2 DEF Under, GInv, HistoryIds
<1>5. p.ready \subseteq Under(p.label) \ Unindexable
  BY <1>1, <1>2, <1>3 DEF Documents
<1>6. p.left \in Nat
  BY <1>1 DEF RunStates
<1> HIDE DEF new
<1>7. p.left + Cardinality(p.seen) >= Cap
  <2> DEFINE D == Documents(found)
             left == run[r].left
             seen == run[r].seen
  <2>1. /\ D \in SUBSET new /\ left \in Nat /\ seen \in SUBSET Mails /\ left - Cardinality(D) \in Nat
        /\ left + Cardinality(seen) >= Cap /\ seen \cap new = {} /\ p.left = left - Cardinality(D)
        /\ p.seen = seen \cup new
    BY <1>1, <1>2, <1>3, <1>6, RunIs
  <2> HIDE DEF D, left, seen
  <2> QED BY <1>3, <2>1, BudgetKeeps
<1>8. GoodRun(p)
  BY <1>1, <1>2, <1>4, <1>5, <1>7, RunIs DEF GoodRun
<1>9. UNCHANGED <<marks, docs, passed>>
  BY DEF Fetch
<1>10. missed' \cup passed' \subseteq Mails
  BY <1>1, <1>3, <1>9, RunIs
<1> QED BY <1>1, <1>8, <1>9, <1>10, RunFrame, RunIs, OneRun DEF GInv, Marks

LEMMA StoreTypes ==
  ASSUME GInv, NEW S, Store(S)
  PROVE  docs' \in [Mails -> Nat] /\ \A m \in Mails : docs'[m] = IF m \in S THEN docs[m] + 1 ELSE docs[m]
BY DEF Store, GInv, GmailTypeOK

LEMMA UploadTypes == ASSUME GInv, NEW r \in Runs, Upload(r) PROVE GInv'
<1>1. PICK p \in RunStates :
              /\ Becomes(r, p) /\ Same(p, run[r]) /\ p.pc = "state" /\ p.label = run[r].label
              /\ p.newId = run[r].newId /\ p.unread = run[r].unread
  BY UploadIs
<1>2. run[r].pc = "upload"
  BY UploadIs
<1>3. GoodRun(p)
  BY <1>1, <1>2, RunIs DEF GoodRun, Same
<1>4. UNCHANGED marks /\ docs' \in [Mails -> Nat] /\ missed' \cup passed' \subseteq Mails
  BY RunIs, StoreTypes DEF Upload
<1> QED BY <1>1, <1>3, <1>4, RunFrame, RunIs, OneRun DEF GInv, Marks

LEMMA RaisesTypes == ASSUME GInv, NEW r \in Runs, UploadRaises(r) PROVE GInv'
<1>1. UNCHANGED <<marks, missed, passed>> /\ docs' \in [Mails -> Nat] /\ Steps(r, "upload", NextLabel(r))
  BY StoreTypes DEF UploadRaises
<1>2. "upload" \in RunPcs \ {"idle"}
  BY DEF RunPcs
<1> QED BY <1>1, <1>2, RunFrame, RunIs, NextLabelTypes DEF GInv, Marks

LEMMA ReadFailsTypes == ASSUME GInv, NEW r \in Runs, ReadFails(r) PROVE GInv'
<1>1. UNCHANGED <<marks, docs, missed, passed>>
  BY DEF ReadFails
<1>2. PICK from \in {"history", "list"} : Steps(r, from, NextLabel(r))
  BY DEF ReadFails
<1>3. from \in RunPcs \ {"idle"}
  BY DEF RunPcs
<1> QED BY <1>1, <1>2, <1>3, RunFrame, RunIs, NextLabelTypes DEF GInv, Marks

\* The watermark of one label may become the run's new id.
LEMMA WriteIs ==
  ASSUME GInv, NEW r \in Runs, WriteState(r)
  PROVE  /\ run[r].pc = "state" /\ run[r].label \in Labels /\ Steps(r, "state", NextLabel(r))
         /\ UNCHANGED <<docs, missed>> /\ marks' \in [Labels -> Nat]
         /\ passed \subseteq passed' /\ passed' \subseteq Mails
         /\ marks' # marks => run[r].unread \subseteq passed'
         /\ \A l \in Labels : marks'[l] # marks[l] =>
               l = run[r].label /\ run[r].newId # 0 /\ marks'[l] = run[r].newId
         /\ faults' = faults /\ run[r].newId # 0 => marks'[run[r].label] = run[r].newId
<1>1. run[r].pc = "state" /\ run[r].label \in Labels
  BY RunIs DEF WriteState, GoodRun, Served
<1>2. Steps(r, "state", NextLabel(r)) /\ UNCHANGED <<docs, missed>>
  BY DEF WriteState
<1>3. \/ marks' = [marks EXCEPT ![run[r].label] = IF run[r].newId = 0 THEN @ ELSE run[r].newId]
      \/ marks' = marks /\ faults' = faults + 1
  BY DEF WriteState, UpsertMark, Fails
<1>4. \/ marks' = marks /\ passed' = passed
      \/ passed' = passed \cup run[r].unread
  BY DEF WriteState
<1>5. run[r].unread \subseteq Mails
  BY RunIs DEF RunStates
<1> QED BY <1>1, <1>2, <1>3, <1>4, <1>5, RunIs

LEMMA WriteTypes == ASSUME GInv, NEW r \in Runs, WriteState(r) PROVE GInv'
<1>1. \A l \in Labels : marks'[l] <= clock
  BY WriteIs, RunIs DEF GInv, GoodRun
<1>2. "state" \in RunPcs \ {"idle"}
  BY DEF RunPcs
<1> QED BY <1>1, <1>2, WriteIs, RunFrame, RunIs, NextLabelTypes DEF Marks

LEMMA EndTypes == ASSUME GInv, NEW r \in Runs, Finish(r) \/ RunDies(r) PROVE GInv'
<1>1. /\ Becomes(r, NotRunning) /\ UNCHANGED <<mailbox, marks, docs, missed, passed, faults, expiries>>
      /\ crashes' \in {crashes, crashes + 1}
  BY EndIs DEF Finish, RunDies, Becomes
<1>2. GoodRun(NotRunning)
  BY EndIs, RunIs DEF GoodRun
<1>3. {faults, expiries, crashes}' \subseteq Nat
  BY <1>1 DEF GInv, GmailTypeOK
<1> QED BY <1>1, <1>2, <1>3, RunIs, OneRun DEF GInv, Marks

LEMMA GInvNext == ASSUME GInv, GmailNext PROVE GInv'
<1>1. CASE \E m \in Mails : Arrive(m) \/ \E l \in Labels : Relabel(m, l)
  BY <1>1, ArriveGrows, RelabelGrows
<1>2. CASE Expire
  BY <1>2, ExpireKeeps
<1>3. CASE \E r \in Runs : RunStep(r) \/ RunDies(r) \/ \E manual \in BOOLEAN : Start(r, manual)
  BY <1>3, StartTypes, LabelTypes, HistoryTypes, InvalidatedTypes, ListTypes, ReadFailsTypes,
     ProfileTypes, FetchTypes, UploadTypes, RaisesTypes, WriteTypes, EndTypes DEF RunStep
<1> QED BY <1>1, <1>2, <1>3 DEF GmailNext

LEMMA GInvStep == GInv /\ [GmailNext]_gmailVars => GInv'
<1>1. ASSUME GInv, UNCHANGED gmailVars PROVE GInv'
  BY <1>1 DEF gmailVars, mailbox, GInv, GmailTypeOK, HistoryIds, GoodRun, Under
<1> QED BY <1>1, GInvNext

-----------------------------------------------------------------------------
(* Watermarks do not pass a mail that is still owed.                       *)

\* Mail m, with the one label l, has to be ingested yet.
Owed(m, l) ==
  /\ tagged[m][l] # 0 /\ ~Later(m, l) /\ \A k \in Served : tagged[m][k] # 0 => k = l
  /\ m \notin Unindexable /\ docs[m] = 0 /\ m \notin missed \cup passed

\* A run that comes to label l, or is at it, takes m, leaves the watermark below it, or was
\* not told of it.
Passes(p, m, l) ==
  /\ p.marks[l] < added[m]
  /\ m \in p.seen => l \notin p.todo /\ ~(p.pc \in Reading /\ p.label = l)
  /\ p.label = l => /\ p.pc = "fetch"  => m \in p.ids \cup p.unread \/ p.newId < added[m]
                    /\ p.pc = "upload" => m \in p.ready \cup p.unread \/ p.newId < added[m]
                    /\ p.pc = "state"  => m \in p.unread \/ p.newId < added[m]

MailCovered(m, l) == marks[l] < added[m] /\ \A r \in Runs : Passes(run[r], m, l)
CoverInv == GInv /\ \A m \in Mails, l \in Served : Owed(m, l) => MailCovered(m, l)

LEMMA OwedArrived ==
  ASSUME GInv, NEW m \in Mails, NEW l \in Served, Owed(m, l)
  PROVE  added[m] > 0 /\ added[m] \in Nat /\ m \in Under(l) /\ l \in Labels
         /\ \A k \in Served : m \in Under(k) => k = l
BY RunIs DEF GInv, GmailTypeOK, HistoryIds, Owed, Under, Served

LEMMA CoverInit == GmailInit => CoverInv
<1> SUFFICES ASSUME GmailInit PROVE CoverInv
  OBVIOUS
<1>1. \A m \in Mails, l \in Served : ~Owed(m, l)
  BY DEF GmailInit, Owed, Served
<1> QED BY <1>1, GInvInit DEF CoverInv

LEMMA ArriveCovers == ASSUME CoverInv, NEW n \in Mails, Arrive(n) PROVE CoverInv'
<1>1. /\ GInv /\ GInv' /\ clock' = clock + 1 /\ added[n] = 0 /\ added' = [added EXCEPT ![n] = clock + 1]
      /\ \A k \in Mails \ {n} : tagged'[k] = tagged[k]
      /\ UNCHANGED <<marks, docs, run, missed, passed>>
  BY ArriveGrows DEF CoverInv
<1>2. added'[n] = clock + 1 /\ \A k \in Mails \ {n} : added'[k] = added[k]
  BY <1>1 DEF GInv, GmailTypeOK
<1>4. ASSUME NEW m \in Mails, NEW l \in Served, Owed(m, l)' PROVE MailCovered(m, l)'
  <2>1. CASE m = n
    <3>1. marks[l] <= clock /\ marks[l] \in Nat /\ clock \in Nat
      BY <1>1 DEF GInv, GmailTypeOK, Marks, Served
    <3>2. ASSUME NEW r \in Runs PROVE Passes(run[r], m, l)'
      <4>1. /\ run[r].marks[l] <= clock /\ run[r].marks[l] \in Nat /\ run[r].newId <= clock
            /\ run[r].newId \in Nat /\ m \notin run[r].seen
        BY <1>1, <2>1, RunIs DEF GoodRun, Served
      <4> QED BY <1>1, <1>2, <2>1, <3>1, <4>1 DEF Passes
    <3> QED BY <1>1, <1>2, <2>1, <3>1, <3>2 DEF MailCovered
  <2>2. CASE m # n
    <3>1. Owed(m, l)
      BY <1>1, <1>2, <1>4, <2>2 DEF Owed, Later
    <3>2. MailCovered(m, l)
      BY <3>1 DEF CoverInv
    <3> QED BY <1>1, <1>2, <2>2, <3>2 DEF MailCovered, Passes
  <2> QED BY <2>1, <2>2
<1> QED BY <1>1, <1>4 DEF CoverInv

LEMMA RelabelCovers ==
  ASSUME CoverInv, NEW n \in Mails, NEW j \in Labels, Relabel(n, j)
  PROVE  CoverInv'
<1>1. /\ GInv /\ GInv' /\ clock' = clock + 1 /\ tagged[n][j] = 0
      /\ tagged' = [tagged EXCEPT ![n][j] = clock + 1]
      /\ UNCHANGED <<added, marks, docs, run, missed, passed>>
  BY RelabelGrows DEF CoverInv
<1>2. \A k \in Mails, l \in Labels : tagged'[k][l] = IF k = n /\ l = j THEN clock + 1 ELSE tagged[k][l]
  BY <1>1 DEF GInv, GmailTypeOK
<1>3. ASSUME NEW m \in Mails, NEW l \in Served, Owed(m, l)' PROVE MailCovered(m, l)'
  <2>1. l \in Labels /\ added[m] <= clock /\ added[m] \in Nat /\ clock \in Nat
    BY <1>1 DEF GInv, GmailTypeOK, HistoryIds, Served
  <2>2. ~(m = n /\ l = j)
    BY <1>1, <1>2, <1>3, <2>1 DEF Owed, Later
  <2>3. Owed(m, l)
    BY <1>1, <1>2, <1>3, <2>1, <2>2 DEF Owed, Later, Served
  <2>4. MailCovered(m, l)
    BY <2>3 DEF CoverInv
  <2> QED BY <1>1, <2>4 DEF MailCovered, Passes
<1> QED BY <1>1, <1>3 DEF CoverInv

LEMMA ExpireCovers == ASSUME CoverInv, Expire PROVE CoverInv'
<1>1. GInv' /\ UNCHANGED <<added, tagged, marks, docs, run, missed, passed>>
  BY ExpireKeeps DEF CoverInv, Expire
<1> QED BY <1>1 DEF CoverInv, MailCovered, Passes, Owed, Later

\* One run goes on: p is the run after the step.
LEMMA OneRunCovers ==
  ASSUME CoverInv, GInv', NEW r \in Runs, NEW p, Becomes(r, p), UNCHANGED mailbox,
         \A m \in Mails : docs[m] # 0 => docs'[m] # 0, missed \cup passed \subseteq missed' \cup passed',
         \A m \in Mails, l \in Served :
           Owed(m, l) /\ Owed(m, l)' /\ MailCovered(m, l) => marks'[l] < added[m] /\ Passes(p, m, l)
  PROVE  CoverInv'
<1>1. \A k \in Runs : run'[k] = IF k = r THEN p ELSE run[k]
  BY DEF CoverInv, GInv, GmailTypeOK, Becomes
<1>2. ASSUME NEW m \in Mails, NEW l \in Served, Owed(m, l)' PROVE MailCovered(m, l)'
  <2>1. Owed(m, l)
    BY <1>2 DEF Owed, Later, mailbox
  <2>2. MailCovered(m, l)
    BY <2>1 DEF CoverInv
  <2>3. marks'[l] < added[m] /\ Passes(p, m, l)
    BY <1>2, <2>1, <2>2
  <2> QED BY <1>1, <2>2, <2>3 DEF MailCovered, Passes, mailbox
<1> QED BY <1>2 DEF CoverInv

LEMMA StartCovers ==
  ASSUME CoverInv, NEW r \in Runs, NEW manual \in BOOLEAN, Start(r, manual) PROVE CoverInv'
<1>1. GInv /\ GInv' /\ UNCHANGED <<mailbox, marks, docs, missed, passed>>
  BY StartTypes, RunFrame DEF CoverInv, Start
<1>2. PICK p \in RunStates :
           /\ Becomes(r, p) /\ p.pc = "label" /\ p.todo = Labels /\ p.left = Cap /\ p.seen = {}
           /\ p.newId = 0 /\ p.ready = {} /\ p.ids = {} /\ p.marks \in {marks, NoMarks}
  BY <1>1, StartIs
<1>3. ASSUME NEW m \in Mails, NEW l \in Served, Owed(m, l), MailCovered(m, l)
      PROVE  marks'[l] < added[m] /\ Passes(p, m, l)
  BY <1>1, <1>2, <1>3, OwedArrived, EndIs DEF MailCovered, Passes, Reading
<1> QED BY <1>1, <1>2, <1>3, OneRunCovers

LEMMA LabelCovers ==
  ASSUME CoverInv, NEW r \in Runs, NEW k \in Labels, SkipLabel(r, k) \/ TakeLabel(r, k) PROVE CoverInv'
<1>1. GInv /\ GInv' /\ UNCHANGED <<mailbox, marks, docs, missed, passed>>
  BY LabelTypes, RunFrame DEF CoverInv, SkipLabel, TakeLabel
<1>2. PICK p \in RunStates :
           /\ Becomes(r, p) /\ p.pc \in {"label", "history", "list"} /\ p.todo = run[r].todo \ {k}
           /\ p.pc # "label" => p.label = k /\ k \in run[r].todo
           /\ p.seen = run[r].seen /\ p.marks = run[r].marks /\ run[r].pc = "label"
  <2>1. CASE SkipLabel(r, k)
    BY <1>1, <2>1, SkipIs
  <2>2. CASE TakeLabel(r, k)
    BY <1>1, <2>2, TakeIs
  <2> QED BY <2>1, <2>2
<1>3. ASSUME NEW m \in Mails, NEW l \in Served, Owed(m, l), MailCovered(m, l)
      PROVE  marks'[l] < added[m] /\ Passes(p, m, l)
  BY <1>1, <1>2, <1>3 DEF MailCovered, Passes, Reading
<1> QED BY <1>1, <1>2, <1>3, OneRunCovers

LEMMA HistoryCovers == ASSUME CoverInv, NEW r \in Runs, ReadHistory(r) PROVE CoverInv'
<1>1. GInv /\ GInv' /\ UNCHANGED <<mailbox, marks, docs, missed, passed>>
  BY HistoryTypes, RunFrame DEF CoverInv, ReadHistory
<1> DEFINE new == {m \in Under(run[r].label) : added[m] > run[r].marks[run[r].label]}
<1>2. PICK p \in RunStates :
        /\ Becomes(r, p) /\ Same(p, run[r]) /\ p.pc = "fetch" /\ p.label = run[r].label
        /\ p.newId = clock /\ p.unread = new \ p.ids
  BY <1>1, HistoryIs
<1>3. run[r].pc = "history" /\ new \in SUBSET Mails
  BY <1>1, HistoryIs DEF Under
<1> HIDE DEF new
<1>5. ASSUME NEW m \in Mails, NEW l \in Served, Owed(m, l), MailCovered(m, l)
      PROVE  marks'[l] < added[m] /\ Passes(p, m, l)
  <2>1. Passes(run[r], m, l) /\ marks[l] < added[m]
    BY <1>5 DEF MailCovered
  <2>2. run[r].label = l => m \in new
    BY <1>1, <1>5, <2>1, OwedArrived, RunIs DEF Passes, new
  <2> QED BY <1>1, <1>2, <1>3, <2>1, <2>2 DEF Passes, Same, Reading
<1> QED BY <1>1, <1>2, <1>5, OneRunCovers

LEMMA InvalidatedCovers == ASSUME CoverInv, NEW r \in Runs, HistoryInvalidated(r) PROVE CoverInv'
<1>1. GInv /\ GInv' /\ UNCHANGED <<mailbox, marks, docs, missed, passed>>
  BY InvalidatedTypes, RunFrame DEF CoverInv, HistoryInvalidated
<1>2. PICK p \in RunStates :
        /\ Becomes(r, p) /\ Same(p, run[r]) /\ p.pc = "list" /\ p.label = run[r].label
  BY <1>1, InvalidatedIs
<1>3. run[r].pc = "history"
  BY <1>1, InvalidatedIs
<1>4. ASSUME NEW m \in Mails, NEW l \in Served, Owed(m, l), MailCovered(m, l)
      PROVE  marks'[l] < added[m] /\ Passes(p, m, l)
  BY <1>1, <1>2, <1>3, <1>4 DEF MailCovered, Passes, Same, Reading
<1> QED BY <1>1, <1>2, <1>4, OneRunCovers

LEMMA ListCovers == ASSUME CoverInv, NEW r \in Runs, ListMessages(r) PROVE CoverInv'
<1>1. GInv /\ GInv' /\ UNCHANGED <<mailbox, marks, docs, missed, passed>>
  BY ListTypes, RunFrame DEF CoverInv, ListMessages
<1>2. PICK p \in RunStates :
        /\ Becomes(r, p) /\ Same(p, run[r]) /\ p.pc = "profile" /\ p.label = run[r].label
  BY <1>1, ListIs
<1>3. run[r].pc = "list"
  BY <1>1, ListIs
<1>4. ASSUME NEW m \in Mails, NEW l \in Served, Owed(m, l), MailCovered(m, l)
      PROVE  marks'[l] < added[m] /\ Passes(p, m, l)
  BY <1>1, <1>2, <1>3, <1>4 DEF MailCovered, Passes, Same, Reading
<1> QED BY <1>1, <1>2, <1>4, OneRunCovers

LEMMA NextLabelCovers ==
  ASSUME CoverInv, GInv', NEW r \in Runs, NEW from, Steps(r, from, NextLabel(r)),
         \A m \in Mails : docs[m] # 0 => docs'[m] # 0, missed \cup passed \subseteq missed' \cup passed',
         \A m \in Mails, l \in Served :
           Owed(m, l) /\ Owed(m, l)' /\ MailCovered(m, l) => marks'[l] < added[m]
  PROVE  CoverInv'
<1>1. GInv /\ UNCHANGED mailbox
  BY DEF CoverInv, Steps
<1>2. PICK p \in RunStates : Becomes(r, p) /\ Same(p, run[r]) /\ p.pc = "label"
  BY <1>1, NextLabelIs
<1>3. ASSUME NEW m \in Mails, NEW l \in Served, Owed(m, l), Owed(m, l)', MailCovered(m, l)
      PROVE  marks'[l] < added[m] /\ Passes(p, m, l)
  BY <1>2, <1>3 DEF MailCovered, Passes, Same, Reading
<1> QED BY <1>1, <1>2, <1>3, OneRunCovers

LEMMA ReadFailsCovers == ASSUME CoverInv, NEW r \in Runs, ReadFails(r) PROVE CoverInv'
<1>1. GInv /\ GInv' /\ UNCHANGED <<marks, docs, missed, passed>>
  BY ReadFailsTypes DEF CoverInv, ReadFails
<1>2. PICK from : Steps(r, from, NextLabel(r))
  BY DEF ReadFails
<1> QED BY <1>1, <1>2, NextLabelCovers DEF MailCovered

LEMMA ProfileCovers == ASSUME CoverInv, NEW r \in Runs, GetProfile(r) PROVE CoverInv'
<1>1. GInv /\ GInv' /\ UNCHANGED <<mailbox, marks, docs, missed, passed>>
  BY ProfileTypes, RunFrame DEF CoverInv, GetProfile
<1>2. PICK p \in RunStates :
              /\ Becomes(r, p) /\ Same(p, run[r]) /\ p.pc = "fetch" /\ p.label = run[r].label
              /\ p.ids = run[r].ids
              /\ p.newId = run[r].newId \/ p.unread = Under(run[r].label) \ run[r].ids
  BY <1>1, ProfileIs
<1>3. run[r].pc = "profile"
  BY <1>1, ProfileIs
<1>4. ASSUME NEW m \in Mails, NEW l \in Served, Owed(m, l), MailCovered(m, l)
      PROVE  marks'[l] < added[m] /\ Passes(p, m, l)
  <2>1. Passes(run[r], m, l) /\ marks[l] < added[m]
    BY <1>4 DEF MailCovered
  <2>2. run[r].label = l => m \in p.ids \cup p.unread \/ p.newId < added[m]
    <3>1. m \in Under(l) /\ added[m] > 0
      BY <1>1, <1>4, OwedArrived
    <3>2. CASE p.unread = Under(run[r].label) \ run[r].ids
      BY <1>2, <3>1, <3>2
    <3>3. CASE p.newId = run[r].newId
      BY <1>1, <1>3, <3>1, <3>3, RunIs DEF GoodRun
    <3> QED BY <1>2, <3>2, <3>3
  <2>3. p.marks[l] < added[m]
    BY <1>2, <2>1 DEF Passes, Same
  <2>4. m \in p.seen => l \notin p.todo /\ ~(p.pc \in Reading /\ p.label = l)
    BY <1>2, <1>3, <2>1 DEF Passes, Same, Reading
  <2> QED BY <1>1, <1>2, <2>1, <2>2, <2>3, <2>4 DEF Passes
<1> QED BY <1>1, <1>2, <1>4, OneRunCovers

LEMMA FetchCovers == ASSUME CoverInv, NEW r \in Runs, Fetch(r) PROVE CoverInv'
<1>1. GInv /\ GInv' /\ UNCHANGED <<mailbox, marks, docs, passed>>
  BY FetchTypes, RunFrame DEF CoverInv, Fetch
<1> DEFINE new == run[r].ids \ run[r].seen
<1>2. PICK found \in SUBSET new, p \in RunStates :
              /\ Becomes(r, p) /\ p.pc = "upload" /\ p.label = run[r].label
              /\ p.todo = run[r].todo /\ p.marks = run[r].marks /\ p.newId = run[r].newId
              /\ p.unread = run[r].unread /\ p.seen = run[r].seen \cup new
              /\ p.ready = Documents(found)
              /\ missed' = missed \cup (new \ found)
  BY <1>1, FetchIs
<1>3. /\ run[r].pc = "fetch" /\ run[r].label \in Served \ run[r].todo
      /\ run[r].ids \subseteq Under(run[r].label)
  BY <1>1, FetchIs, RunIs DEF GoodRun
<1>4. ASSUME NEW m \in Mails, NEW l \in Served, Owed(m, l), Owed(m, l)', MailCovered(m, l)
      PROVE  marks'[l] < added[m] /\ Passes(p, m, l)
  <2>1. Passes(run[r], m, l) /\ marks[l] < added[m]
    BY <1>4 DEF MailCovered
  <2>2. m \in new => run[r].label = l
    BY <1>1, <1>3, <1>4, OwedArrived
  <2>3. m \in new => m \in p.ready
    BY <1>2, <1>4 DEF Owed, Documents
  <2>4. run[r].label = l => m \notin run[r].seen /\ (m \in run[r].ids \cup run[r].unread \/ run[r].newId < added[m])
    BY <1>3, <2>1 DEF Passes, Reading
  <2> QED BY <1>1, <1>2, <1>3, <2>1, <2>2, <2>3, <2>4 DEF Passes, Reading
<1> QED BY <1>1, <1>2, <1>4, OneRunCovers

LEMMA UploadCovers == ASSUME CoverInv, NEW r \in Runs, Upload(r) PROVE CoverInv'
<1>1. GInv /\ GInv' /\ UNCHANGED <<mailbox, marks, passed>>
  BY UploadTypes, RunFrame DEF CoverInv, Upload
<1>2. PICK p \in RunStates :
              /\ Becomes(r, p) /\ Same(p, run[r]) /\ p.pc = "state" /\ p.label = run[r].label
              /\ p.newId = run[r].newId /\ p.unread = run[r].unread
  BY <1>1, UploadIs
<1>3. run[r].pc = "upload"
  BY <1>1, UploadIs
<1>4. /\ \A m \in Mails : docs[m] # 0 => docs'[m] # 0
      /\ missed \subseteq missed'
      /\ \A m \in run[r].ready : docs'[m] # 0 \/ m \in missed'
  <2>1. PICK S \in SUBSET run[r].ready : Store(S) /\ missed' = missed \cup (run[r].ready \ S)
    BY DEF Upload
  <2>2. \A m \in Mails : docs[m] \in Nat /\ docs'[m] = IF m \in S THEN docs[m] + 1 ELSE docs[m]
    BY <1>1, <2>1, StoreTypes DEF GInv, GmailTypeOK
  <2> QED BY <1>1, <2>1, <2>2, RunIs
<1>5. ASSUME NEW m \in Mails, NEW l \in Served, Owed(m, l), Owed(m, l)', MailCovered(m, l)
      PROVE  marks'[l] < added[m] /\ Passes(p, m, l)
  <2>1. m \notin run[r].ready
    BY <1>4, <1>5 DEF Owed
  <2> QED BY <1>1, <1>2, <1>3, <1>5, <2>1 DEF MailCovered, Passes, Same, Reading
<1> QED BY <1>1, <1>2, <1>4, <1>5, OneRunCovers

LEMMA RaisesCovers == ASSUME CoverInv, NEW r \in Runs, UploadRaises(r) PROVE CoverInv'
<1>1. GInv /\ GInv' /\ UNCHANGED <<marks, missed, passed>> /\ Steps(r, "upload", NextLabel(r))
  BY RaisesTypes DEF CoverInv, UploadRaises
<1>2. \A m \in Mails : docs[m] # 0 => docs'[m] # 0
  BY <1>1, StoreTypes, RunIs DEF UploadRaises
<1> QED BY <1>1, <1>2, NextLabelCovers DEF MailCovered

LEMMA WriteCovers == ASSUME CoverInv, NEW r \in Runs, WriteState(r) PROVE CoverInv'
<1>1. /\ GInv /\ GInv' /\ UNCHANGED <<docs, missed>> /\ Steps(r, "state", NextLabel(r))
      /\ run[r].pc = "state" /\ passed \subseteq passed'
      /\ marks' # marks => run[r].unread \subseteq passed'
      /\ \A l \in Labels : marks'[l] # marks[l] => l = run[r].label /\ marks'[l] = run[r].newId
  BY WriteTypes, WriteIs DEF CoverInv
<1>2. ASSUME NEW m \in Mails, NEW l \in Served, Owed(m, l), Owed(m, l)', MailCovered(m, l)
      PROVE  marks'[l] < added[m]
  <2>1. CASE marks'[l] = marks[l]
    BY <1>2, <2>1 DEF MailCovered
  <2>2. CASE marks'[l] # marks[l]
    <3>1. l = run[r].label /\ marks'[l] = run[r].newId /\ m \notin run[r].unread
      BY <1>1, <1>2, <2>2 DEF Served, Owed
    <3> QED BY <1>1, <1>2, <3>1 DEF MailCovered, Passes
  <2> QED BY <2>1, <2>2
<1> QED BY <1>1, <1>2, NextLabelCovers

LEMMA EndCovers == ASSUME CoverInv, NEW r \in Runs, Finish(r) \/ RunDies(r) PROVE CoverInv'
<1>1. GInv /\ GInv' /\ Becomes(r, NotRunning) /\ UNCHANGED <<mailbox, marks, docs, missed, passed>>
  BY EndTypes, EndIs DEF CoverInv, Finish, RunDies, Becomes
<1>2. ASSUME NEW m \in Mails, NEW l \in Served, Owed(m, l), MailCovered(m, l)
      PROVE  marks'[l] < added[m] /\ Passes(NotRunning, m, l)
  BY <1>1, <1>2, EndIs, OwedArrived DEF MailCovered, Passes, Reading
<1> QED BY <1>1, <1>2, OneRunCovers

LEMMA CoverStep ==
  ASSUME CoverInv, [GmailNext]_gmailVars
  PROVE  CoverInv'
<1>1. CASE \E m \in Mails : Arrive(m) \/ \E l \in Labels : Relabel(m, l)
  BY <1>1, ArriveCovers, RelabelCovers
<1>2. CASE Expire
  BY <1>2, ExpireCovers
<1>3. CASE \E r \in Runs : RunStep(r) \/ RunDies(r) \/ \E manual \in BOOLEAN : Start(r, manual)
  BY <1>3, StartCovers, LabelCovers, HistoryCovers, InvalidatedCovers, ListCovers, ReadFailsCovers,
     ProfileCovers, FetchCovers, UploadCovers, RaisesCovers, WriteCovers, EndCovers DEF RunStep
<1>4. CASE UNCHANGED gmailVars
  <2>1. GInv'
    BY <1>4, GInvStep DEF CoverInv
  <2> QED BY <1>4, <2>1 DEF gmailVars, mailbox, CoverInv, MailCovered, Passes, Owed, Later
<1> QED BY <1>1, <1>2, <1>3, <1>4 DEF GmailNext

(* Any number of runs, overlapping and failing as they like, mail arriving *)
(* at any moment, listings cut off anywhere: the watermark of a mail's     *)
(* only label does not pass a mail that is neither stored nor counted as   *)
(* failed, if the run that wrote it was told of the mail                   *)
(* (run_workspace_gmail_ingest writes the state last).                     *)
THEOREM GmailMarksCover == GmailSpec => []WatermarkCovers
<1>1. GmailInit => CoverInv
  BY CoverInit
<1>2. CoverInv /\ [GmailNext]_gmailVars => CoverInv'
  BY CoverStep
<1>3. CoverInv => WatermarkCovers
  <2> SUFFICES ASSUME CoverInv, NEW m \in Mails, NEW l \in Labels \ Blocked,
                      Came(m) = {l}, \A k \in Labels \ Blocked : tagged[m][k] # 0 => k = l,
                      m \notin Unindexable, docs[m] = 0, m \notin missed \cup passed
               PROVE  marks[l] < added[m]
    BY DEF WatermarkCovers
  <2>1. tagged[m][l] # 0 /\ ~Later(m, l)
    BY DEF Came
  <2> QED BY <2>1 DEF CoverInv, MailCovered, Owed, Served
<1> QED BY <1>1, <1>2, <1>3, PTL DEF GmailSpec

(* Rows, watermarks and the variables of every run keep their types; in    *)
(* particular the budget of a run stays a natural number (`remaining`).    *)
THEOREM GmailTypeCorrect == GmailSpec => []GmailTypeOK
<1>1. GInv => GmailTypeOK
  BY DEF GInv
<1> QED BY <1>1, GInvInit, GInvStep, PTL DEF GmailSpec

-----------------------------------------------------------------------------
(* One run after the other: no mail is ingested twice under a label.       *)

AllWell == faults = 0 /\ expiries = 0 /\ crashes = 0

\* Labels under which m was ingested, or is about to be entered as ingested by p.
Counted(m, p) ==
  {l \in Labels : /\ tagged[m][l] # 0
                  /\ marks[l] >= added[m] \/ (p.pc = "state" /\ p.label = l /\ p.newId >= added[m])}

\* What a run read of the watermarks is still so, and it takes nothing below them.
ReadsFresh(p) ==
  /\ p.pc # "idle" => \A l \in p.todo : p.marks[l] = marks[l]
  /\ p.pc \in Reading \cup {"upload"} => p.marks[p.label] = marks[p.label]
  /\ p.pc = "history" => marks[p.label] # 0
  /\ p.pc \in {"list", "profile"} => marks[p.label] = 0
  /\ p.pc \in {"fetch", "upload", "state"} => p.newId >= marks[p.label]
  /\ p.pc = "fetch" => \A m \in p.ids : marks[p.label] < added[m] /\ added[m] <= p.newId
  /\ p.pc = "upload" => \A m \in p.ready : marks[p.label] < added[m] /\ added[m] <= p.newId

CopiesFit(p) == \A m \in Mails : docs[m] <= Cardinality(Counted(m, p))

CopyInv ==
  /\ GInv
  /\ AllWell => oldest = 1 /\ \A r \in Runs : ReadsFresh(run[r]) /\ CopiesFit(run[r])

LEMMA CountedTypes ==
  ASSUME NEW m, NEW p
  PROVE  /\ IsFiniteSet(Counted(m, p)) /\ Cardinality(Counted(m, p)) \in Nat
         /\ IsFiniteSet(Counted(m, p))' /\ Cardinality(Counted(m, p))' \in Nat
<1>1. Counted(m, p) \in SUBSET Labels /\ Counted(m, p)' \in SUBSET Labels
  BY DEF Counted
<1> QED BY <1>1, GmailAssumption, FS_Subset, FS_CardinalityType

LEMMA CopyInit == GmailInit => CopyInv
<1> SUFFICES ASSUME GmailInit PROVE CopyInv
  OBVIOUS
<1>1. ASSUME NEW r \in Runs PROVE ReadsFresh(run[r]) /\ CopiesFit(run[r])
  <2>1. run[r] = NotRunning /\ \A m \in Mails : docs[m] = 0
    BY DEF GmailInit
  <2> QED BY <2>1, EndIs, CountedTypes DEF ReadsFresh, CopiesFit, Reading
<1> QED BY <1>1, GInvInit DEF CopyInv, GmailInit

\* The copies stay, and labels are added.
LEMMA CountsGrow ==
  ASSUME NEW m \in Mails, NEW p, NEW q, docs[m] \in Nat, docs[m] <= Cardinality(Counted(m, p)),
         docs'[m] = docs[m], Counted(m, p) \subseteq Counted(m, q)'
  PROVE  docs'[m] <= Cardinality(Counted(m, q))'
<1> DEFINE C == Counted(m, p)
           D == Counted(m, q)'
<1>1. IsFiniteSet(C) /\ IsFiniteSet(D) /\ Cardinality(C) \in Nat /\ Cardinality(D) \in Nat
  BY CountedTypes
<1>2. Cardinality(C) <= Cardinality(D)
  <2> HIDE DEF C, D
  <2>1. C \in SUBSET D
    BY DEF C, D
  <2> QED BY <1>1, <2>1, FS_Subset
<1> QED BY <1>1, <1>2

LEMMA MailboxCopies ==
  ASSUME CopyInv, GInv', NEW n \in Mails,
         UNCHANGED <<oldest, marks, docs, run, faults, expiries, crashes>>,
         \A m \in Mails : added[m] # 0 => added'[m] = added[m],
         \A m \in Mails : m # n \/ added[m] # 0 =>
            \A l \in Labels : tagged[m][l] # 0 => tagged'[m][l] # 0
  PROVE  CopyInv'
<1> SUFFICES ASSUME AllWell' PROVE oldest' = 1 /\ \A r \in Runs : (ReadsFresh(run[r]) /\ CopiesFit(run[r]))'
  BY DEF CopyInv
<1>1. GInv /\ AllWell /\ oldest = 1 /\ \A r \in Runs : ReadsFresh(run[r]) /\ CopiesFit(run[r])
  BY DEF CopyInv, AllWell
<1>2. ASSUME NEW r \in Runs PROVE ReadsFresh(run[r])'
  <2>1. /\ run[r].pc = "fetch" => \A m \in run[r].ids : m \in Mails /\ added[m] # 0
        /\ run[r].pc = "upload" => \A m \in run[r].ready : m \in Mails /\ added[m] # 0
    BY <1>1, RunIs DEF GoodRun, Under, Served, GInv, HistoryIds
  <2> QED BY <1>1, <2>1 DEF ReadsFresh
<1>3. ASSUME NEW r \in Runs, NEW m \in Mails PROVE docs'[m] <= Cardinality(Counted(m, run[r]))'
  <2>1. \A l \in Labels : tagged[m][l] # 0 => added[m] # 0
    BY <1>1 DEF GInv, HistoryIds
  <2>2. Counted(m, run[r]) \subseteq Counted(m, run[r])'
    BY <2>1 DEF Counted
  <2>3. docs[m] \in Nat /\ docs[m] <= Cardinality(Counted(m, run[r])) /\ docs'[m] = docs[m]
    BY <1>1, RunIs DEF CopiesFit
  <2>4. run'[r] = run[r]
    OBVIOUS
  <2> DEFINE p == run[r]
  <2> HIDE DEF p
  <2>5. docs'[m] <= Cardinality(Counted(m, p))'
    BY <2>2, <2>3, <2>4, CountsGrow DEF p
  <2> QED BY <2>5 DEF p
<1> QED BY <1>1, <1>2, <1>3 DEF CopiesFit

\* One run goes on: p is the run after the step.
LEMMA OneRunCopies ==
  ASSUME CopyInv, GInv', NEW r, Runs = {r}, NEW p, Becomes(r, p), UNCHANGED mailbox, AllWell' => AllWell,
         AllWell' /\ ReadsFresh(run[r]) /\ CopiesFit(run[r]) =>
            ReadsFresh(p)' /\ \A m \in Mails : docs'[m] <= Cardinality(Counted(m, p)')
  PROVE  CopyInv'
<1>1. run' = [k \in Runs |-> p] /\ run'[r] = p
  BY DEF CopyInv, GInv, GmailTypeOK, Becomes
<1>2. ASSUME AllWell' PROVE oldest' = 1 /\ (ReadsFresh(run[r]) /\ CopiesFit(run[r]))'
  <2>1. AllWell /\ oldest = 1 /\ ReadsFresh(run[r]) /\ CopiesFit(run[r])
    BY <1>2 DEF CopyInv
  <2>2. ReadsFresh(p)' /\ \A m \in Mails : docs'[m] <= Cardinality(Counted(m, p)')
    BY <1>2, <2>1
  <2> QED BY <1>1, <2>1, <2>2 DEF ReadsFresh, CopiesFit, Counted, mailbox
<1> QED BY <1>2 DEF CopyInv

\* A step that stores nothing and enters nothing.
LEMMA QuietStep ==
  ASSUME CopyInv, GInv', NEW r, Runs = {r}, NEW p, Becomes(r, p),
         UNCHANGED <<mailbox, marks, docs, expiries, crashes>>, faults' = 0 => faults = 0,
         run[r].pc # "state", ReadsFresh(run[r]) /\ AllWell' => ReadsFresh(p)
  PROVE  CopyInv'
<1>1. AllWell' => AllWell
  BY DEF AllWell
<1>2. ASSUME AllWell', ReadsFresh(run[r]), CopiesFit(run[r])
      PROVE  ReadsFresh(p)' /\ \A m \in Mails : docs'[m] <= Cardinality(Counted(m, p)')
  <2>1. ReadsFresh(p)'
    BY <1>2 DEF ReadsFresh, mailbox
  <2>2. ASSUME NEW m \in Mails PROVE docs'[m] <= Cardinality(Counted(m, p)')
    <3> DEFINE q == run[r]
    <3>1. Counted(m, q) \subseteq Counted(m, p)' /\ docs[m] \in Nat /\ docs'[m] = docs[m]
      BY RunIs DEF Counted, mailbox, CopyInv
    <3>2. docs[m] <= Cardinality(Counted(m, q))
      BY <1>2 DEF CopiesFit
    <3> HIDE DEF q
    <3> QED BY <3>1, <3>2, CountsGrow
  <2> QED BY <2>1, <2>2
<1> QED BY <1>1, <1>2, OneRunCopies

LEMMA StartCopies ==
  ASSUME CopyInv, NEW r, Runs = {r}, NEW manual \in BOOLEAN, Start(r, manual) PROVE CopyInv'
<1>1. /\ GInv /\ GInv' /\ UNCHANGED <<mailbox, marks, docs, expiries, crashes>>
      /\ (faults' = 0 => faults = 0) /\ run[r].pc = "idle"
  BY StartTypes, RunFrame DEF CopyInv, Start, Steps
<1>2. PICK p \in RunStates :
        /\ Becomes(r, p) /\ p.pc = "label" /\ p.todo = Labels
        /\ faults' = faults => p.marks = marks
  BY <1>1, StartIs
<1>3. faults' = 0 => p.marks = marks
  BY <1>1, <1>2
<1>4. ReadsFresh(run[r]) /\ AllWell' => ReadsFresh(p)
  BY <1>2, <1>3 DEF ReadsFresh, AllWell, Reading
<1> QED BY <1>1, <1>2, <1>4, QuietStep

LEMMA LabelCopies ==
  ASSUME CopyInv, NEW r, Runs = {r}, NEW k \in Labels, SkipLabel(r, k) \/ TakeLabel(r, k)
  PROVE  CopyInv'
<1>1. /\ GInv /\ GInv' /\ UNCHANGED <<mailbox, marks, docs, expiries, crashes>>
      /\ (faults' = 0 => faults = 0)
  BY LabelTypes, RunFrame DEF CopyInv, SkipLabel, TakeLabel
<1>2. PICK p \in RunStates :
           /\ Becomes(r, p) /\ p.todo = run[r].todo \ {k} /\ p.marks = run[r].marks
           /\ p.pc # "label" => /\ p.label = k /\ k \in run[r].todo
                                /\ p.pc = IF run[r].marks[k] # 0 THEN "history" ELSE "list"
           /\ run[r].pc = "label"
  <2>1. CASE SkipLabel(r, k)
    BY <1>1, <2>1, SkipIs
  <2>2. CASE TakeLabel(r, k)
    BY <1>1, <2>2, TakeIs
  <2> QED BY <2>1, <2>2
<1>3. ReadsFresh(run[r]) => ReadsFresh(p)
  BY <1>2 DEF ReadsFresh, Reading
<1> QED BY <1>1, <1>2, <1>3, QuietStep

LEMMA HistoryCopies == ASSUME CopyInv, NEW r, Runs = {r}, ReadHistory(r) PROVE CopyInv'
<1>1. /\ GInv /\ GInv' /\ UNCHANGED <<mailbox, marks, docs, expiries, crashes>>
      /\ (faults' = 0 => faults = 0)
  BY HistoryTypes, RunFrame DEF CopyInv, ReadHistory
<1> DEFINE new == {m \in Under(run[r].label) : added[m] > run[r].marks[run[r].label]}
<1>2. PICK p \in RunStates :
        /\ Becomes(r, p) /\ Same(p, run[r]) /\ p.pc = "fetch" /\ p.label = run[r].label
        /\ p.newId = clock /\ p.ids = Oldest(new, Limit(r))
  BY <1>1, HistoryIs
<1>3. run[r].pc = "history" /\ run[r].label \in Labels
  BY <1>1, HistoryIs, RunIs DEF GoodRun, Served
<1>4. p.ids \subseteq new
  BY <1>2 DEF Oldest
<1>5. \A m \in new : m \in Mails /\ added[m] <= clock /\ added[m] > run[r].marks[run[r].label]
  BY <1>1 DEF Under, GInv, HistoryIds
<1>6. marks[run[r].label] <= clock /\ marks[run[r].label] \in Nat /\ clock \in Nat
  BY <1>1, <1>3, RunIs DEF GInv
<1> HIDE DEF new
<1>7. ReadsFresh(run[r]) => ReadsFresh(p)
  <2> SUFFICES ASSUME ReadsFresh(run[r]) PROVE ReadsFresh(p)
    OBVIOUS
  <2>1. run[r].marks[run[r].label] = marks[run[r].label]
    BY <1>3 DEF ReadsFresh, Reading
  <2>2. \A m \in p.ids : marks[run[r].label] < added[m] /\ added[m] <= clock
    BY <1>1, <1>4, <1>5, <1>6, <2>1, RunIs
  <2>3. \A l \in p.todo : p.marks[l] = marks[l]
    BY <1>2, <1>3 DEF ReadsFresh, Same
  <2> QED BY <1>2, <1>6, <2>1, <2>2, <2>3 DEF ReadsFresh, Reading, Same
<1> QED BY <1>1, <1>2, <1>3, <1>7, QuietStep

LEMMA InvalidatedCopies == ASSUME CopyInv, NEW r, Runs = {r}, HistoryInvalidated(r) PROVE CopyInv'
<1>1. /\ GInv /\ GInv' /\ UNCHANGED <<mailbox, marks, docs, expiries, crashes>>
      /\ (faults' = 0 => faults = 0)
  BY InvalidatedTypes, RunFrame DEF CopyInv, HistoryInvalidated
<1>2. PICK p \in RunStates : Becomes(r, p) /\ Same(p, run[r]) /\ p.pc = "list" /\ p.label = run[r].label
  BY <1>1, InvalidatedIs
<1>3. /\ run[r].pc = "history" /\ run[r].label \in Labels /\ run[r].marks[run[r].label] < oldest
  BY <1>1, InvalidatedIs, RunIs DEF GoodRun, Served
<1>4. AllWell' => oldest = 1
  BY <1>1 DEF AllWell, CopyInv
<1>5. ReadsFresh(run[r]) /\ AllWell' => FALSE
  BY <1>1, <1>3, <1>4, RunIs DEF ReadsFresh, Reading
<1> QED BY <1>1, <1>2, <1>3, <1>5, QuietStep

LEMMA ListCopies == ASSUME CopyInv, NEW r, Runs = {r}, ListMessages(r) PROVE CopyInv'
<1>1. /\ GInv /\ GInv' /\ UNCHANGED <<mailbox, marks, docs, expiries, crashes>>
      /\ (faults' = 0 => faults = 0)
  BY ListTypes, RunFrame DEF CopyInv, ListMessages
<1>2. PICK p \in RunStates :
        /\ Becomes(r, p) /\ Same(p, run[r]) /\ p.pc = "profile" /\ p.label = run[r].label
  BY <1>1, ListIs
<1>3. run[r].pc = "list"
  BY <1>1, ListIs
<1>4. ReadsFresh(run[r]) => ReadsFresh(p)
  BY <1>2, <1>3 DEF ReadsFresh, Reading, Same
<1> QED BY <1>1, <1>2, <1>3, <1>4, QuietStep

LEMMA ReadFailsCopies == ASSUME CopyInv, NEW r, Runs = {r}, ReadFails(r) PROVE CopyInv'
<1>1. /\ GInv /\ GInv' /\ UNCHANGED <<mailbox, marks, docs, expiries, crashes>>
      /\ (faults' = 0 => faults = 0)
  BY ReadFailsTypes, RunFrame DEF CopyInv, ReadFails
<1>2. PICK from \in {"history", "list"} : Steps(r, from, NextLabel(r))
  BY DEF ReadFails
<1>3. PICK p \in RunStates : Becomes(r, p) /\ Same(p, run[r]) /\ p.pc = "label"
  BY <1>1, <1>2, NextLabelIs
<1>4. run[r].pc \in {"history", "list"}
  BY <1>2 DEF Steps
<1>5. ReadsFresh(run[r]) => ReadsFresh(p)
  BY <1>3, <1>4 DEF ReadsFresh, Reading, Same
<1> QED BY <1>1, <1>3, <1>4, <1>5, QuietStep

LEMMA ProfileCopies == ASSUME CopyInv, NEW r, Runs = {r}, GetProfile(r) PROVE CopyInv'
<1>1. /\ GInv /\ GInv' /\ UNCHANGED <<mailbox, marks, docs, expiries, crashes>>
      /\ (faults' = 0 => faults = 0)
  BY ProfileTypes, RunFrame DEF CopyInv, GetProfile
<1>2. PICK p \in RunStates :
              /\ Becomes(r, p) /\ Same(p, run[r]) /\ p.pc = "fetch" /\ p.label = run[r].label
              /\ p.ids = run[r].ids
              /\ faults' = faults => p.newId = clock
  BY <1>1, ProfileIs
<1>3. /\ run[r].pc = "profile" /\ run[r].label \in Labels /\ run[r].ids \subseteq Under(run[r].label)
      /\ clock \in Nat
  BY <1>1, ProfileIs, RunIs DEF GoodRun, Served
<1>4. \A m \in run[r].ids : added[m] > 0 /\ added[m] <= clock
  BY <1>1, <1>3, RunIs DEF Under, GInv, HistoryIds
<1>5. AllWell' => p.newId = clock
  BY <1>1, <1>2 DEF AllWell
<1>6. ReadsFresh(run[r]) /\ AllWell' => ReadsFresh(p)
  BY <1>2, <1>3, <1>4, <1>5 DEF ReadsFresh, Reading, Same
<1> QED BY <1>1, <1>2, <1>3, <1>6, QuietStep

LEMMA FetchCopies == ASSUME CopyInv, NEW r, Runs = {r}, Fetch(r) PROVE CopyInv'
<1>1. /\ GInv /\ GInv' /\ UNCHANGED <<mailbox, marks, docs, expiries, crashes>>
      /\ (faults' = 0 => faults = 0)
  BY FetchTypes, RunFrame DEF CopyInv, Fetch
<1> DEFINE new == run[r].ids \ run[r].seen
<1>2. PICK found \in SUBSET new, p \in RunStates :
              /\ Becomes(r, p) /\ p.pc = "upload" /\ p.label = run[r].label
              /\ p.todo = run[r].todo /\ p.marks = run[r].marks /\ p.newId = run[r].newId
              /\ p.ready = Documents(found)
  BY <1>1, FetchIs
<1>3. run[r].pc = "fetch" /\ p.ready \subseteq run[r].ids
  BY <1>1, <1>2, FetchIs DEF Documents
<1>4. ReadsFresh(run[r]) => ReadsFresh(p)
  BY <1>2, <1>3 DEF ReadsFresh, Reading
<1> QED BY <1>1, <1>2, <1>3, <1>4, QuietStep

LEMMA RaisesCopies == ASSUME CopyInv, NEW r, Runs = {r}, UploadRaises(r) PROVE CopyInv'
<1>1. GInv /\ GInv' /\ faults' = faults + 1 /\ faults \in Nat /\ Steps(r, "upload", NextLabel(r))
  BY RaisesTypes, RunIs DEF CopyInv, UploadRaises, Fails
<1> QED BY <1>1 DEF CopyInv, AllWell

LEMMA UploadCopies == ASSUME CopyInv, NEW r, Runs = {r}, Upload(r) PROVE CopyInv'
<1>1. /\ GInv /\ GInv' /\ UNCHANGED <<mailbox, marks, expiries, crashes>>
      /\ (faults' = 0 => faults = 0) /\ faults \in Nat
  BY UploadTypes, RunFrame, RunIs DEF CopyInv, Upload
<1>2. PICK p \in RunStates :
              /\ Becomes(r, p) /\ Same(p, run[r]) /\ p.pc = "state" /\ p.label = run[r].label
              /\ p.newId = run[r].newId /\ p.unread = run[r].unread
  BY <1>1, UploadIs
<1>3. /\ run[r].pc = "upload" /\ run[r].label \in Labels /\ run[r].ready \subseteq Under(run[r].label)
  BY <1>1, UploadIs, RunIs DEF GoodRun, Served
<1>4. AllWell' => AllWell
  BY <1>1 DEF AllWell
<1>5. ASSUME AllWell', ReadsFresh(run[r]), CopiesFit(run[r])
      PROVE  ReadsFresh(p)' /\ \A m \in Mails : docs'[m] <= Cardinality(Counted(m, p)')
  <2>1. ReadsFresh(p)'
    BY <1>1, <1>2, <1>3, <1>5 DEF ReadsFresh, Same, Reading
  <2>2. Store(run[r].ready)
    BY <1>1, <1>5 DEF Upload, Fails, AllWell
  <2>3. ASSUME NEW m \in Mails PROVE docs'[m] <= Cardinality(Counted(m, p)')
    <3> DEFINE q == run[r]
               C == Counted(m, q)
               D == Counted(m, p)'
    <3>1. /\ docs[m] \in Nat /\ docs[m] <= Cardinality(C)
          /\ docs'[m] = IF m \in q.ready THEN docs[m] + 1 ELSE docs[m]
      BY <1>1, <1>5, <2>2, StoreTypes, RunIs DEF CopiesFit
    <3>2. IsFiniteSet(C) /\ IsFiniteSet(D) /\ Cardinality(C) \in Nat /\ Cardinality(D) \in Nat
      BY CountedTypes
    <3>3. C \subseteq D
      BY <1>1, <1>2, <1>3 DEF Counted, mailbox
    <3>4. m \in q.ready => q.label \notin C /\ q.label \in D
      BY <1>1, <1>2, <1>3, <1>5, RunIs DEF Counted, Under, mailbox, ReadsFresh
    <3> HIDE DEF q, C, D
    <3>5. CASE m \notin q.ready
      <4>1. Cardinality(C) <= Cardinality(D)
        BY <3>2, <3>3, FS_Subset
      <4> QED BY <3>1, <3>2, <3>5, <4>1 DEF D
    <3>6. CASE m \in q.ready
      <4>1. Cardinality(C \cup {q.label}) = Cardinality(C) + 1 /\ C \cup {q.label} \in SUBSET D
        BY <3>2, <3>3, <3>4, <3>6, FS_AddElement
      <4>2. Cardinality(C \cup {q.label}) <= Cardinality(D)
        BY <3>2, <4>1, FS_Subset
      <4> QED BY <3>1, <3>2, <3>6, <4>1, <4>2 DEF D
    <3> QED BY <3>5, <3>6
  <2> QED BY <2>1, <2>3
<1> QED BY <1>1, <1>2, <1>4, <1>5, OneRunCopies

LEMMA WriteCopies == ASSUME CopyInv, NEW r, Runs = {r}, WriteState(r) PROVE CopyInv'
<1>1. /\ GInv /\ GInv' /\ UNCHANGED <<mailbox, docs, expiries, crashes>> /\ (faults' = 0 => faults = 0)
      /\ run[r].pc = "state" /\ run[r].label \in Labels \ run[r].todo /\ Steps(r, "state", NextLabel(r))
      /\ \A l \in Labels : marks'[l] # marks[l] =>
            l = run[r].label /\ run[r].newId # 0 /\ marks'[l] = run[r].newId
      /\ faults' = faults /\ run[r].newId # 0 => marks'[run[r].label] = run[r].newId
  BY WriteTypes, WriteIs, RunFrame, RunIs DEF CopyInv, GoodRun, Served
<1>2. PICK p \in RunStates : Becomes(r, p) /\ Same(p, run[r]) /\ p.pc = "label"
  BY <1>1, NextLabelIs
<1>3. AllWell' => AllWell /\ faults' = faults
  BY <1>1 DEF AllWell
<1>4. ASSUME AllWell', ReadsFresh(run[r]), CopiesFit(run[r])
      PROVE  ReadsFresh(p)' /\ \A m \in Mails : docs'[m] <= Cardinality(Counted(m, p)')
  <2>1. \A l \in p.todo : l \in Labels /\ marks'[l] = marks[l] /\ run[r].marks[l] = marks[l]
    BY <1>1, <1>2, <1>4, RunIs DEF ReadsFresh, Same
  <2>2. ReadsFresh(p)'
    BY <1>2, <2>1 DEF ReadsFresh, Same, Reading
  <2>3. ASSUME NEW m \in Mails PROVE docs'[m] <= Cardinality(Counted(m, p)')
    <3> DEFINE q == run[r]
    <3>1. docs[m] \in Nat /\ docs[m] <= Cardinality(Counted(m, q)) /\ docs'[m] = docs[m]
      BY <1>1, <1>4, RunIs DEF CopiesFit
    <3>2. ASSUME NEW l \in Labels, tagged[m][l] # 0,
                 marks[l] >= added[m] \/ (q.label = l /\ q.newId >= added[m])
          PROVE  marks'[l] >= added[m]
      <4>1. added[m] > 0 /\ added[m] \in Nat /\ marks[l] \in Nat /\ q.newId \in Nat
        BY <1>1, <3>2, RunIs DEF GInv, HistoryIds
      <4>2. q.label = l /\ q.newId # 0 => marks'[l] = q.newId /\ q.newId >= marks[l]
        BY <1>1, <1>3, <1>4 DEF ReadsFresh
      <4>3. ~(q.label = l /\ q.newId # 0) => marks'[l] = marks[l]
        BY <1>1
      <4> HIDE DEF q
      <4> QED BY <3>2, <4>1, <4>2, <4>3
    <3>3. Counted(m, q) \subseteq Counted(m, p)'
      BY <1>1, <3>2 DEF Counted, mailbox
    <3> HIDE DEF q
    <3> QED BY <3>1, <3>3, CountsGrow
  <2> QED BY <2>2, <2>3
<1> QED BY <1>1, <1>2, <1>3, <1>4, OneRunCopies

LEMMA EndCopies == ASSUME CopyInv, NEW r, Runs = {r}, Finish(r) \/ RunDies(r) PROVE CopyInv'
<1>1. GInv /\ GInv' /\ Becomes(r, NotRunning) /\ UNCHANGED <<mailbox, marks, docs, faults, expiries>>
  BY EndTypes, EndIs DEF CopyInv, Finish, RunDies, Becomes
<1>2. CASE Finish(r)
  <2>1. UNCHANGED crashes /\ run[r].pc = "label"
    BY <1>2 DEF Finish
  <2>2. ReadsFresh(NotRunning)
    BY EndIs DEF ReadsFresh, Reading
  <2> QED BY <1>1, <2>1, <2>2, QuietStep
<1>3. CASE RunDies(r)
  <2>1. crashes' = crashes + 1 /\ crashes \in Nat
    BY <1>1, <1>3 DEF RunDies, GInv, GmailTypeOK
  <2> QED BY <1>1, <2>1 DEF CopyInv, AllWell
<1> QED BY <1>2, <1>3

LEMMA CopyStep == ASSUME NEW r, Runs = {r}, CopyInv, [GmailNext]_gmailVars PROVE CopyInv'
<1>1. CASE \E m \in Mails : Arrive(m)
  <2>1. PICK m \in Mails : Arrive(m)
    BY <1>1
  <2>2. /\ GInv' /\ added[m] = 0 /\ added' = [added EXCEPT ![m] = clock + 1]
        /\ \A k \in Mails \ {m} : tagged'[k] = tagged[k]
        /\ UNCHANGED <<oldest, marks, docs, run, faults, expiries, crashes>>
    BY <2>1, ArriveGrows DEF CopyInv
  <2>3. \A k \in Mails : added[k] # 0 => added'[k] = added[k]
    BY <2>2 DEF CopyInv, GInv, GmailTypeOK
  <2> QED BY <2>2, <2>3, MailboxCopies
<1>2. CASE \E m \in Mails, l \in Labels : Relabel(m, l)
  <2>1. PICK m \in Mails, l \in Labels : Relabel(m, l)
    BY <1>2
  <2>2. /\ GInv /\ GInv' /\ clock' = clock + 1 /\ tagged' = [tagged EXCEPT ![m][l] = clock + 1]
        /\ UNCHANGED <<added, oldest, marks, docs, run, faults, expiries, crashes>>
    BY <2>1, RelabelGrows DEF CopyInv
  <2>3. \A k \in Mails, j \in Labels : tagged[k][j] # 0 => tagged'[k][j] # 0
    BY <2>2, RunIs DEF GInv, GmailTypeOK
  <2> QED BY <2>2, <2>3, MailboxCopies
<1>3. CASE Expire
  <2>1. GInv' /\ expiries' = expiries + 1 /\ expiries \in Nat
    BY <1>3, ExpireKeeps DEF CopyInv, Expire, GInv, GmailTypeOK
  <2> QED BY <2>1 DEF CopyInv, AllWell
<1>4. CASE \E k \in Runs : RunStep(k) \/ RunDies(k) \/ \E manual \in BOOLEAN : Start(k, manual)
  <2>1. RunStep(r) \/ RunDies(r) \/ \E manual \in BOOLEAN : Start(r, manual)
    BY <1>4
  <2> QED BY <2>1, StartCopies, LabelCopies, HistoryCopies, InvalidatedCopies, ListCopies,
     ReadFailsCopies, ProfileCopies, FetchCopies, UploadCopies, RaisesCopies, WriteCopies, EndCopies
     DEF RunStep
<1>5. CASE UNCHANGED gmailVars
  <2>1. GInv'
    BY <1>5, GInvStep DEF CopyInv
  <2> QED BY <1>5, <2>1 DEF gmailVars, mailbox, CopyInv, AllWell, ReadsFresh, CopiesFit, Counted
<1> QED BY <1>1, <1>2, <1>3, <1>4, <1>5 DEF GmailNext

(* With one run after the other, as long as nothing fails, no mail has more *)
(* copies than labels: a run reads the history after the watermark that    *)
(* the run before it wrote, and a label without one is listed only once.   *)
THEOREM GmailCopies == ASSUME NEW r, Runs = {r} PROVE GmailSpec => []CopiesPerLabel
<1>1. GmailInit => CopyInv
  BY CopyInit
<1>2. CopyInv /\ [GmailNext]_gmailVars => CopyInv'
  BY CopyStep
<1>3. CopyInv => CopiesPerLabel
  <2> SUFFICES ASSUME CopyInv, AllWell, NEW m \in Mails
               PROVE  docs[m] <= Cardinality({l \in Labels : tagged[m][l] # 0})
    BY DEF CopiesPerLabel, AllWell
  <2> DEFINE C == Counted(m, run[r])
             D == {l \in Labels : tagged[m][l] # 0}
  <2>1. docs[m] <= Cardinality(C) /\ docs[m] \in Nat
    BY RunIs DEF CopyInv, CopiesFit
  <2>2. C \in SUBSET D /\ IsFiniteSet(D)
    BY GmailAssumption, FS_Subset DEF Counted
  <2> HIDE DEF C, D
  <2>3. Cardinality(C) <= Cardinality(D) /\ Cardinality(C) \in Nat /\ Cardinality(D) \in Nat
    BY <2>2, FS_Subset, FS_CardinalityType
  <2>4. docs[m] <= Cardinality(D)
    BY <2>1, <2>3
  <2> QED BY <2>4 DEF D
<1> QED BY <1>1, <1>2, <1>3, PTL DEF GmailSpec

-----------------------------------------------------------------------------
(* StateFile: with fcntl, updates are atomic.                              *)

\* Where a writer holds the lock, where it still owes its update, and where
\* its copy is current.
Critical(w) == pc[w] \in {"load", "open", "write", "replace", "unlock"}
Pending(w)  == pc[w] \in {"lock", "load", "open", "write", "replace"}
HasCurrent(w)    == pc[w] \in {"open", "write", "replace"}

\* One writer at a time is in the section.
Exclusive == \A w \in Writers : Critical(w) => lock = w

\* The file is whole and holds updates that were begun.
FileWhole == file \in SUBSET issued

\* A writer at work has one update, which no other writer has and, while it
\* is pending, the file does not contain.
OwnUpdate == \A w \in Writers : pc[w] # "idle" => \E u \in issued : upd[w] = {u}
Disjoint  == \A v, w \in Writers :
               v # w /\ pc[v] # "idle" /\ pc[w] # "idle" => upd[v] # upd[w]
NotYet    == \A w \in Writers : Pending(w) => upd[w] \cap file = {}

\* A writer that has not yet read the file has not failed to read it.
Unread == \A w \in Writers : pc[w] \in {"lock", "load"} => upd[w] \cap blind = {}
BlindBegun == blind \in SUBSET issued

\* What a writer saves: the file plus its update, or the update of a failed
\* read.  A copy about to be saved is that, and so is the tmp file about to
\* be renamed.
Copy(w) == (IF upd[w] \subseteq blind THEN {} ELSE file) \cup upd[w]
CopyFresh == \A w \in Writers : HasCurrent(w) => mem[w] = Copy(w)
TmpFresh  == \A w \in Writers : pc[w] = "replace" => tmp = mem[w]

(* The inductive invariant: Exclusive keeps the file still between a       *)
(* writer's load and its rename, which CopyFresh and TmpFresh need;        *)
(* FileWhole follows from them, and OwnUpdate, Disjoint and NotYet make    *)
(* every rename one new update; Unread and BlindBegun say whose copies     *)
(* left the file out.                                                      *)
IInv == /\ FileTypeOK /\ Exclusive /\ FileWhole
        /\ OwnUpdate /\ Disjoint /\ NotYet
        /\ CopyFresh /\ TmpFresh /\ Unread /\ BlindBegun

USE WritersAssumption, UpdatesAssumption

LEMMA InitIInv == FileInit => IInv
<1> SUFFICES ASSUME FileInit PROVE IInv
  OBVIOUS
<1>1. FileTypeOK
  BY DEF FileInit, FileTypeOK
<1>2. Exclusive /\ FileWhole /\ OwnUpdate /\ Disjoint /\ NotYet /\ CopyFresh /\ TmpFresh
  BY DEF FileInit, Exclusive, FileWhole, OwnUpdate, Disjoint, NotYet, CopyFresh, TmpFresh,
         Critical, Pending, HasCurrent
<1>3. Unread /\ BlindBegun
  BY DEF FileInit, Unread, BlindBegun
<1> QED
  BY <1>1, <1>2, <1>3 DEF IInv

LEMMA StepIInv == HasFcntl = TRUE /\ IInv /\ [FileNext]_fileVars => IInv'
<1> SUFFICES ASSUME HasFcntl = TRUE, IInv, [FileNext]_fileVars PROVE IInv'
  OBVIOUS
<1> USE DEF IInv, Goto
<1>0. /\ \A w \in Writers : upd[w] \in SUBSET Updates /\ mem[w] \in SUBSET Updates
      /\ file # Torn
  BY DEF FileTypeOK, FileWhole, Torn
<1>1. ASSUME NEW w \in Writers, BeginUpdate(w) PROVE IInv'
  <2>1. PICK u \in Updates \ issued :
          upd' = [upd EXCEPT ![w] = {u}] /\ issued' = issued \cup {u}
    BY <1>1 DEF BeginUpdate
  <2>2. /\ pc[w] = "idle" /\ pc' = [pc EXCEPT ![w] = "lock"]
        /\ UNCHANGED <<file, tmp, lock, mem, blind>>
    BY <1>1 DEF BeginUpdate
  <2>3. FileTypeOK'
    BY <2>1, <2>2 DEF FileTypeOK
  <2>4. Exclusive' /\ CopyFresh' /\ TmpFresh'
    BY <2>1, <2>2 DEF FileTypeOK, Exclusive, CopyFresh, Copy, TmpFresh, Critical, HasCurrent
  <2>8. Unread' /\ BlindBegun'
    BY <2>1, <2>2 DEF FileTypeOK, Unread, BlindBegun
  <2>5. FileWhole' /\ OwnUpdate'
    BY <2>1, <2>2 DEF FileTypeOK, FileWhole, OwnUpdate
  <2>6. Disjoint'
    BY <2>1, <2>2 DEF FileTypeOK, Disjoint, OwnUpdate
  <2>7. NotYet'
    BY <2>1, <2>2 DEF FileTypeOK, NotYet, FileWhole, Pending
  <2> QED
    BY <2>3, <2>4, <2>5, <2>6, <2>7, <2>8
<1>2. ASSUME NEW w \in Writers, Acquire(w) PROVE IInv'
  <2>1. FileTypeOK'
    BY <1>2 DEF Acquire, FileTypeOK
  <2>2. Exclusive'
    BY <1>2 DEF Acquire, FileTypeOK, Exclusive, Critical
  <2>3. FileWhole' /\ OwnUpdate' /\ Disjoint' /\ NotYet' /\ CopyFresh' /\ TmpFresh'
    BY <1>2 DEF Acquire, FileTypeOK, FileWhole, OwnUpdate, Disjoint, NotYet, CopyFresh, Copy,
                TmpFresh, Pending, HasCurrent
  <2>4. Unread' /\ BlindBegun'
    BY <1>2 DEF Acquire, FileTypeOK, Unread, BlindBegun
  <2> QED
    BY <2>1, <2>2, <2>3, <2>4
<1>3. ASSUME NEW w \in Writers, Load(w) \/ LoadFails(w) PROVE IInv'
  <2>1. /\ pc[w] = "load" /\ pc' = [pc EXCEPT ![w] = "open"]
        /\ UNCHANGED <<file, tmp, lock, upd, issued>>
    BY <1>3 DEF Load, LoadFails
  <2>2. PICK u \in issued : upd[w] = {u} /\ u \notin blind
    BY <2>1 DEF OwnUpdate, Unread
  <2>3. \/ mem' = [mem EXCEPT ![w] = file \cup {u}] /\ blind' = blind
        \/ mem' = [mem EXCEPT ![w] = {u}] /\ blind' = blind \cup {u}
    BY <1>0, <1>3, <2>2 DEF Load, LoadFails
  <2>4. FileTypeOK'
    BY <2>1, <2>2, <2>3, <1>0 DEF FileTypeOK, FileWhole
  <2>5. Exclusive' /\ FileWhole' /\ OwnUpdate' /\ Disjoint' /\ NotYet'
    BY <2>1 DEF FileTypeOK, Exclusive, FileWhole, OwnUpdate, Disjoint, NotYet, Critical, Pending
  <2>6. \A v \in Writers : v # w => ~HasCurrent(v)
    BY <2>1 DEF Exclusive, Critical, HasCurrent
  <2>7. \A v \in Writers : HasCurrent(v)' => v = w
    BY <2>1, <2>6 DEF HasCurrent, FileTypeOK
  <2>8. mem'[w] = Copy(w)'
    BY <2>1, <2>2, <2>3 DEF Copy, FileTypeOK
  <2>9. CopyFresh' /\ TmpFresh'
    BY <2>1, <2>7, <2>8 DEF FileTypeOK, CopyFresh, TmpFresh, HasCurrent
  <2>10. Unread'
    <3> SUFFICES ASSUME NEW v \in Writers, pc'[v] \in {"lock", "load"}
                 PROVE  upd[v] \cap blind' = {}
      BY <2>1 DEF Unread
    <3>1. v # w /\ pc[v] = pc'[v]
      BY <2>1 DEF FileTypeOK
    <3>2. PICK x \in issued : upd[v] = {x} /\ x \notin blind
      BY <3>1 DEF OwnUpdate, Unread
    <3>3. x # u
      BY <2>1, <2>2, <3>1, <3>2 DEF Disjoint
    <3> QED
      BY <2>3, <3>2, <3>3
  <2>11. BlindBegun'
    BY <2>1, <2>2, <2>3 DEF BlindBegun
  <2> QED
    BY <2>4, <2>5, <2>9, <2>10, <2>11
<1>4. ASSUME NEW w \in Writers, OpenTmp(w) PROVE IInv'
  <2>1. FileTypeOK'
    BY <1>4 DEF OpenTmp, FileTypeOK
  <2>2. Exclusive' /\ FileWhole' /\ OwnUpdate' /\ Disjoint' /\ NotYet' /\ CopyFresh'
    BY <1>4 DEF OpenTmp, FileTypeOK, Exclusive, FileWhole, OwnUpdate, Disjoint, NotYet,
                CopyFresh, Copy, Critical, Pending, HasCurrent
  <2>3. TmpFresh'
    BY <1>4 DEF OpenTmp, FileTypeOK, Exclusive, TmpFresh, Critical
  <2>4. Unread' /\ BlindBegun'
    BY <1>4 DEF OpenTmp, FileTypeOK, Unread, BlindBegun
  <2> QED
    BY <2>1, <2>2, <2>3, <2>4
<1>5. ASSUME NEW w \in Writers, WriteTmp(w) PROVE IInv'
  <2>1. FileTypeOK'
    BY <1>5, <1>0 DEF WriteTmp, FileTypeOK
  <2>2. Exclusive' /\ FileWhole' /\ OwnUpdate' /\ Disjoint' /\ NotYet' /\ CopyFresh'
    BY <1>5 DEF WriteTmp, FileTypeOK, Exclusive, FileWhole, OwnUpdate, Disjoint, NotYet,
                CopyFresh, Copy, Critical, Pending, HasCurrent
  <2>3. TmpFresh'
    BY <1>5 DEF WriteTmp, FileTypeOK, Exclusive, TmpFresh, Critical
  <2>4. Unread' /\ BlindBegun'
    BY <1>5 DEF WriteTmp, FileTypeOK, Unread, BlindBegun
  <2> QED
    BY <2>1, <2>2, <2>3, <2>4
<1>6. ASSUME NEW w \in Writers, Replace(w) PROVE IInv'
  <2>1. /\ pc[w] = "replace" /\ pc' = [pc EXCEPT ![w] = "unlock"]
        /\ UNCHANGED <<lock, mem, upd, issued, blind>>
    BY <1>6 DEF Replace
  <2>2. tmp = Copy(w) /\ tmp # Absent
    BY <2>1, <1>0 DEF TmpFresh, CopyFresh, HasCurrent, FileTypeOK, Absent
  <2>3. file' \in {upd[w], file \cup upd[w]} /\ tmp' = Absent
    BY <1>6, <2>2 DEF Replace, Copy
  <2>4. PICK u \in issued : upd[w] = {u}
    BY <2>1 DEF OwnUpdate
  <2>5. FileTypeOK'
    BY <2>1, <2>3, <1>0 DEF FileTypeOK, FileWhole
  <2>6. Exclusive' /\ OwnUpdate' /\ Disjoint'
    BY <2>1 DEF FileTypeOK, Exclusive, OwnUpdate, Disjoint, Critical
  <2>7. FileWhole'
    BY <2>1, <2>3, <2>4 DEF FileWhole
  <2>8. NotYet'
    <3> SUFFICES ASSUME NEW v \in Writers, Pending(v)' PROVE upd[v] \cap file' = {}
      BY <2>1 DEF NotYet
    <3>1. v # w /\ Pending(v)
      BY <2>1 DEF Pending, FileTypeOK
    <3>2. PICK x \in issued : upd[v] = {x}
      BY <3>1 DEF OwnUpdate, Pending
    <3>3. x # u
      BY <2>1, <2>4, <3>1, <3>2 DEF Disjoint, Pending
    <3>4. x \notin file
      BY <3>1, <3>2 DEF NotYet
    <3> QED
      BY <2>3, <2>4, <3>2, <3>3, <3>4
  <2>9. CopyFresh' /\ TmpFresh'
    BY <2>1 DEF FileTypeOK, Exclusive, Critical, CopyFresh, TmpFresh, HasCurrent
  <2>10. Unread' /\ BlindBegun'
    BY <2>1 DEF FileTypeOK, Unread, BlindBegun
  <2> QED
    BY <2>5, <2>6, <2>7, <2>8, <2>9, <2>10
<1>7. ASSUME NEW w \in Writers, Raise(w) PROVE IInv'
  <2>1. FileTypeOK'
    BY <1>7 DEF Raise, FileTypeOK
  <2>2. Exclusive' /\ FileWhole' /\ OwnUpdate' /\ Disjoint'
    BY <1>7 DEF Raise, FileTypeOK, Exclusive, FileWhole, OwnUpdate, Disjoint, Critical
  <2>3. NotYet' /\ CopyFresh' /\ TmpFresh' /\ Unread' /\ BlindBegun'
    BY <1>7 DEF Raise, FileTypeOK, NotYet, CopyFresh, Copy, TmpFresh, Unread, BlindBegun, Pending,
                HasCurrent
  <2> QED
    BY <2>1, <2>2, <2>3
<1>8. ASSUME NEW w \in Writers, Unlock(w) \/ Crash(w) PROVE IInv'
  <2>1. /\ pc' = [pc EXCEPT ![w] = "idle"]
        /\ lock' = IF lock = w THEN NoWriter ELSE lock
        /\ UNCHANGED <<file, tmp, mem, upd, issued, blind>>
    BY <1>8 DEF Unlock, Crash
  <2>2. FileTypeOK'
    BY <2>1 DEF FileTypeOK
  <2>3. Exclusive' /\ FileWhole' /\ OwnUpdate' /\ Disjoint'
    BY <2>1 DEF FileTypeOK, Exclusive, FileWhole, OwnUpdate, Disjoint, Critical
  <2>4. NotYet' /\ CopyFresh' /\ TmpFresh' /\ Unread' /\ BlindBegun'
    BY <2>1 DEF FileTypeOK, NotYet, CopyFresh, Copy, TmpFresh, Unread, BlindBegun, Pending, HasCurrent
  <2> QED
    BY <2>2, <2>3, <2>4
<1>9. CASE UNCHANGED fileVars
  BY <1>9 DEF fileVars, FileTypeOK, Exclusive, FileWhole, OwnUpdate, Disjoint, NotYet, CopyFresh,
              Copy, TmpFresh, Unread, BlindBegun, Critical, Pending, HasCurrent
<1> QED
  BY <1>1, <1>2, <1>3, <1>4, <1>5, <1>6, <1>7, <1>8, <1>9 DEF FileNext, Step

(* Type correctness of the file protocol, with the lock or without it.     *)
THEOREM FileTypeCorrect == FileSpec => []FileTypeOK
<1>1. FileInit => FileTypeOK
  BY DEF FileInit, FileTypeOK
<1>2. FileTypeOK /\ [FileNext]_fileVars => FileTypeOK'
  <2> SUFFICES ASSUME FileTypeOK, [FileNext]_fileVars PROVE FileTypeOK'
    OBVIOUS
  <2> USE DEF FileTypeOK, Goto
  <2>1. ASSUME NEW w \in Writers, BeginUpdate(w) PROVE FileTypeOK'
    BY <2>1 DEF BeginUpdate
  <2>2. ASSUME NEW w \in Writers, Acquire(w) PROVE FileTypeOK'
    BY <2>2 DEF Acquire
  <2>3. ASSUME NEW w \in Writers, Load(w) \/ LoadFails(w) PROVE FileTypeOK'
    <3>1. (IF file = Torn THEN {} ELSE file) \cup upd[w] \in SUBSET Updates
      OBVIOUS
    <3> QED
      BY <2>3, <3>1 DEF Load, LoadFails
  <2>4. ASSUME NEW w \in Writers, OpenTmp(w) \/ WriteTmp(w) \/ Raise(w) PROVE FileTypeOK'
    BY <2>4 DEF OpenTmp, WriteTmp, Raise
  <2>5. ASSUME NEW w \in Writers, Replace(w) PROVE FileTypeOK'
    BY <2>5 DEF Replace
  <2>6. ASSUME NEW w \in Writers, Unlock(w) \/ Crash(w) PROVE FileTypeOK'
    BY <2>6 DEF Unlock, Crash
  <2>7. CASE UNCHANGED fileVars
    BY <2>7 DEF fileVars
  <2> QED
    BY <2>1, <2>2, <2>3, <2>4, <2>5, <2>6, <2>7 DEF FileNext, Step
<1> QED
  BY <1>1, <1>2, PTL DEF FileSpec

(* No writer ever renames anything but the current file plus its update,   *)
(* or its update alone after its own read of the file failed (save_locked, *)
(* locked and _load in ingestion_state.py).                                *)
THEOREM ReplaceComplete == HasFcntl = TRUE /\ FileSpec => []ReplaceIsComplete
<1> SUFFICES ASSUME HasFcntl = TRUE PROVE FileSpec => []ReplaceIsComplete
  OBVIOUS
<1>1. IInv => ReplaceIsComplete
  BY DEF IInv, ReplaceIsComplete, CopyFresh, Copy, TmpFresh, HasCurrent
<1>2. IInv /\ [FileNext]_fileVars => IInv'
  BY StepIInv
<1> QED
  BY <1>1, <1>2, InitIInv, PTL DEF FileSpec

(* Every step of the file protocol is an atomic update of the file, the    *)
(* failed read of a writer, the fresh start that writer makes of it, or    *)
(* leaves the file alone.  Other modules take a locked section for one     *)
(* step, which it is as long as the reads succeed.                         *)
THEOREM FileIsAtomic == HasFcntl = TRUE /\ FileSpec => ImplementsAtomicUpdates
<1> SUFFICES ASSUME HasFcntl = TRUE PROVE FileSpec => ImplementsAtomicUpdates
  OBVIOUS
<1>1. FileInit => Atomic!Init
  BY DEF FileInit, Atomic!Init
<1>2. IInv /\ [FileNext]_fileVars => [Atomic!Next]_<<file, blind>>
  <2> SUFFICES ASSUME IInv, [FileNext]_fileVars, <<file, blind>>' # <<file, blind>>
               PROVE  Atomic!Next
    OBVIOUS
  <2>1. PICK w \in Writers : Replace(w) \/ LoadFails(w)
    BY DEF FileNext, Step, BeginUpdate, Acquire, Load, OpenTmp, WriteTmp, Raise, Unlock, Crash,
           fileVars
  <2>2. PICK u \in issued : upd[w] = {u}
    BY <2>1 DEF Replace, LoadFails, IInv, OwnUpdate
  <2>3. u \notin file /\ u \in Updates
    BY <2>1, <2>2 DEF Replace, LoadFails, IInv, NotYet, Pending, FileTypeOK
  <2>4. CASE Replace(w)
    <3>1. file' \in {file, Copy(w)} /\ blind' = blind
      BY <2>4 DEF Replace, IInv, CopyFresh, TmpFresh, HasCurrent
    <3>2. file' = Copy(w)
      BY <3>1
    <3>3. CASE u \in blind
      BY <2>2, <2>3, <3>1, <3>2, <3>3 DEF Copy, Atomic!Next, Atomic!StartOver
    <3>4. CASE u \notin blind
      BY <2>2, <2>3, <3>1, <3>2, <3>4 DEF Copy, Atomic!Next, Atomic!Apply, Atomic!Fresh
    <3> QED
      BY <3>3, <3>4
  <2>5. CASE LoadFails(w)
    <3>1. u \notin blind
      BY <2>2, <2>5 DEF LoadFails, IInv, Unread
    <3> QED
      BY <2>2, <2>3, <2>5, <3>1 DEF LoadFails, Atomic!Next, Atomic!FailedRead, Atomic!Fresh
  <2> QED
    BY <2>1, <2>4, <2>5
<1>3. IInv /\ [FileNext]_fileVars => IInv'
  BY StepIInv
<1> QED
  BY <1>1, <1>2, <1>3, InitIInv, PTL DEF FileSpec, ImplementsAtomicUpdates, Atomic!Spec
=============================================================================
