----------------------------- MODULE Scheduler ------------------------------
(***************************************************************************)
(* The periodic sweep (scheduler.py) and the lists it works from           *)
(* (list_active_workspaces_with_slack and _with_gmail of                   *)
(* supabase_client.py).                                                    *)
(*                                                                         *)
(* A job takes Slack first, then Gmail: it reads the connections, then the *)
(* selected channels or labels, and works the list it has read off, while  *)
(* users connect, disconnect and select.  What one ingestion does is the   *)
(* matter of BulkIngest and GmailSync; here it stores what is pending in   *)
(* the items of its list, counts failures, or raises.                      *)
(***************************************************************************)
EXTENDS Naturals, FiniteSets

CONSTANTS Slack, Gmail,                          \* installations and connections
          Feeds, Of(_),                          \* channels and labels, and whose they are
          Bad,                                   \* items that always fail
          Broken,                                \* those whose ingestion always raises
          Jobs,                                  \* "interval", and "startup" if it is configured
          MaxChanges, MaxSweepFaults, MaxStarts  \* bounds

ASSUME SchedulerAssumption ==
  /\ \A i \in Feeds : Of(i) \in Slack \cup Gmail
  /\ Bad \subseteq Feeds /\ Broken \subseteq Slack \cup Gmail
  /\ "interval" \in Jobs /\ Jobs \subseteq {"interval", "startup"}
  /\ {MaxChanges, MaxSweepFaults, MaxStarts} \subseteq Nat

VARIABLES connected, offered, selectedFeeds,  \* Supabase's rows
          pending,                            \* items with messages that are not in HydraDB
          stamped,                            \* workspaces with hydradb_last_sync_at
          job,                                \* job -> the pass it executes
          queued,                             \* has the startup run been queued but not begun?
          changes, sweepFaults, starts        \* counters for the bounds

feedRows == <<connected, offered, selectedFeeds>>
counts == <<changes, sweepFaults, starts>>
schedulerVars == <<connected, offered, selectedFeeds, pending, stamped, job, queued,
                   changes, sweepFaults, starts>>

Sources == Slack \cup Gmail
FeedsOf(x) == {i \in Feeds : Of(i) = x}
NoPass == [pc |-> "idle", kind |-> "slack", found |-> {}, items |-> {}, at |-> {}, allowed |-> {}]
JobStates == [pc : {"idle", "rows", "items", "sweep", "ingest"}, kind : {"slack", "gmail"},
              found : SUBSET Sources, items : SUBSET Feeds, at : SUBSET Sources,
              allowed : SUBSET Feeds]

SchedulerTypeOK ==
  /\ connected \subseteq Sources /\ stamped \subseteq Slack \ Broken
  /\ selectedFeeds \subseteq offered /\ offered \subseteq Feeds /\ pending \subseteq Feeds
  /\ job \in [Jobs -> JobStates] /\ queued \in BOOLEAN
  /\ \A j \in Jobs : /\ Cardinality(job[j].at) <= 1
                     /\ job[j].found \subseteq (IF job[j].kind = "slack" THEN Slack ELSE Gmail)

SchedulerInit ==
  /\ connected \in SUBSET Sources
  /\ offered = {i \in Feeds : Of(i) \in Gmail \cap connected}
  /\ selectedFeeds = {} /\ pending = {} /\ stamped = {}
  /\ job = [j \in Jobs |-> NoPass]
  /\ queued = ("startup" \in Jobs)
  /\ changes = 0 /\ sweepFaults = 0 /\ starts = 0

-----------------------------------------------------------------------------
(* Users, and the process.                                                 *)

Change ==
  /\ changes < MaxChanges /\ changes' = changes + 1
  /\ UNCHANGED <<stamped, queued, sweepFaults, starts>>

\* Connecting Gmail lists its labels; disconnecting takes the rows away.
ConnectSource(x) ==
  /\ Change /\ x \notin connected
  /\ connected' = connected \cup {x}
  /\ offered' = IF x \in Gmail THEN offered \cup FeedsOf(x) ELSE offered
  /\ UNCHANGED <<selectedFeeds, pending, job>>

DisconnectSource(x) ==
  /\ Change /\ x \in connected
  /\ connected' = connected \ {x}
  /\ offered' = offered \ FeedsOf(x) /\ selectedFeeds' = selectedFeeds \ FeedsOf(x)
  /\ UNCHANGED <<pending, job>>

\* A job that is under way may or may not see it.
Select(i) ==
  /\ Change /\ i \in offered \ selectedFeeds
  /\ selectedFeeds' = selectedFeeds \cup {i}
  /\ job' = [j \in Jobs |->
       [job[j] EXCEPT !.allowed = IF job[j].pc = "idle" THEN {} ELSE @ \cup {i}]]
  /\ UNCHANGED <<connected, offered, pending>>

Unselect(i) ==
  /\ Change /\ i \in selectedFeeds
  /\ selectedFeeds' = selectedFeeds \ {i}
  /\ UNCHANGED <<connected, offered, pending, job>>

NewMessage(i) ==
  /\ Change /\ i \notin pending
  /\ pending' = pending \cup {i}
  /\ UNCHANGED <<feedRows, job>>

\* The process dies and comes back: start_scheduler.
RestartProcess ==
  /\ starts < MaxStarts /\ starts' = starts + 1
  /\ job' = [j \in Jobs |-> NoPass]
  /\ queued' = ("startup" \in Jobs)
  /\ UNCHANGED <<feedRows, pending, stamped, changes, sweepFaults>>

-----------------------------------------------------------------------------
(* One pass: run_all_workspaces_once, in _job_wrapper.                     *)

\* max_instances = 1: a job that is under way is not started again.
Fire(j) ==
  /\ job[j].pc = "idle" /\ (j = "startup" => queued)
  /\ job' = [job EXCEPT ![j] = [NoPass EXCEPT !.pc = "rows", !.allowed = selectedFeeds]]
  /\ queued' = IF j = "startup" THEN FALSE ELSE queued
  /\ UNCHANGED <<feedRows, pending, stamped, counts>>

OfKind(k) == IF k = "slack" THEN Slack ELSE Gmail

\* What follows when the list is worked off, or could not be read.
NextKind(p) ==
  IF p.kind = "slack" THEN [NoPass EXCEPT !.pc = "rows", !.kind = "gmail", !.allowed = p.allowed]
  ELSE NoPass

ReadRows(j) ==
  /\ job[j].pc = "rows"
  /\ job' = [job EXCEPT ![j].pc = "items", ![j].found = connected \cap OfKind(job[j].kind)]
  /\ UNCHANGED <<feedRows, pending, stamped, queued, counts>>

\* Mutant of ReadFeeds: items of connections that are gone by now, too.
ReadFeedsAlways(j) ==
  /\ job[j].pc = "items"
  /\ LET items == {i \in offered : Of(i) \in job[j].found}
     IN job' = [job EXCEPT ![j].pc = "sweep", ![j].items = items,
                           ![j].found = IF job[j].kind = "slack" THEN @
                                        ELSE {Of(i) : i \in items}]
  /\ UNCHANGED <<feedRows, pending, stamped, queued, counts>>

\* A Slack workspace without a selection stays on the list, a Gmail
\* connection does not.
ReadFeeds(j) ==
  /\ job[j].pc = "items"
  /\ LET items == {i \in selectedFeeds : Of(i) \in job[j].found}
     IN job' = [job EXCEPT ![j].pc = "sweep", ![j].items = items,
                           ![j].found = IF job[j].kind = "slack" THEN @
                                        ELSE {Of(i) : i \in items}]
  /\ UNCHANGED <<feedRows, pending, stamped, queued, counts>>

\* Supabase raises: an empty list.
ReadListFails(j) ==
  /\ job[j].pc \in {"rows", "items"} /\ sweepFaults < MaxSweepFaults
  /\ sweepFaults' = sweepFaults + 1
  /\ job' = [job EXCEPT ![j] = NextKind(job[j])]
  /\ UNCHANGED <<feedRows, pending, stamped, queued, changes, starts>>

\* Mutant of Take: a workspace without channels is skipped before its
\* channels are refreshed.
TakeSelected(j, x) ==
  LET mine == job[j].items \cap FeedsOf(x)
  IN /\ job[j].pc = "sweep" /\ x \in job[j].found
     /\ \/ offered' = offered \cup (IF x \in Slack \cap connected /\ mine # {}
                                THEN FeedsOf(x) ELSE {})
           /\ UNCHANGED sweepFaults
        \/ /\ sweepFaults < MaxSweepFaults /\ sweepFaults' = sweepFaults + 1 /\ UNCHANGED offered
     /\ job' = [job EXCEPT ![j].found = @ \ {x},
                           ![j].pc = IF mine = {} THEN "sweep" ELSE "ingest",
                           ![j].at = IF mine = {} THEN {} ELSE {x}]
     /\ UNCHANGED <<connected, selectedFeeds, pending, stamped, queued, changes, starts>>

\* The next of the list; the channels of a Slack workspace are refreshed,
\* which may fail.
Take(j, x) ==
  LET mine == job[j].items \cap FeedsOf(x)
  IN /\ job[j].pc = "sweep" /\ x \in job[j].found
     /\ \/ offered' = offered \cup (IF x \in Slack \cap connected THEN FeedsOf(x) ELSE {})
           /\ UNCHANGED sweepFaults
        \/ /\ sweepFaults < MaxSweepFaults /\ sweepFaults' = sweepFaults + 1 /\ UNCHANGED offered
     /\ job' = [job EXCEPT ![j].found = @ \ {x},
                           ![j].pc = IF mine = {} THEN "sweep" ELSE "ingest",
                           ![j].at = IF mine = {} THEN {} ELSE {x}]
     /\ UNCHANGED <<connected, selectedFeeds, pending, stamped, queued, changes, starts>>

\* The ingestion, with the token of the row the sweep read, returns; a clean
\* Slack run is stamped, if Supabase lets it.
Ingest(j) ==
  /\ job[j].pc = "ingest"
  /\ \E x \in job[j].at :
       LET mine == job[j].items \cap FeedsOf(x)
       IN /\ x \notin Broken
          /\ pending' = pending \ (mine \ Bad)
          /\ \/ stamped' = stamped \cup (IF x \in Slack /\ mine \cap Bad = {} THEN {x} ELSE {})
                /\ UNCHANGED sweepFaults
             \/ /\ sweepFaults < MaxSweepFaults /\ sweepFaults' = sweepFaults + 1 /\ UNCHANGED stamped
  /\ job' = [job EXCEPT ![j].pc = "sweep", ![j].at = {}]
  /\ UNCHANGED <<feedRows, queued, changes, starts>>

\* Mutant of IngestRaises: nobody catches it before _job_wrapper does.
IngestAborts(j) ==
  /\ job[j].pc = "ingest" /\ job[j].at \subseteq Broken \cup (Sources \ connected)
  /\ job' = [job EXCEPT ![j] = NoPass]
  /\ UNCHANGED <<feedRows, pending, stamped, queued, counts>>

\* It raises; so it may when the connection, and its token, went since the
\* list was read.  The next.
IngestRaises(j) ==
  /\ job[j].pc = "ingest" /\ job[j].at \subseteq Broken \cup (Sources \ connected)
  /\ job' = [job EXCEPT ![j].pc = "sweep", ![j].at = {}]
  /\ UNCHANGED <<feedRows, pending, stamped, queued, counts>>

EndSweep(j) ==
  /\ job[j].pc = "sweep" /\ job[j].found = {}
  /\ job' = [job EXCEPT ![j] = NextKind(job[j])]
  /\ UNCHANGED <<feedRows, pending, stamped, queued, counts>>

JobStep(j) ==
  \/ ReadRows(j) \/ ReadFeeds(j) \/ ReadListFails(j)
  \/ \E x \in Sources : Take(j, x)
  \/ Ingest(j) \/ IngestRaises(j) \/ EndSweep(j)

SchedulerNext ==
  \/ \E x \in Sources : ConnectSource(x) \/ DisconnectSource(x)
  \/ \E i \in Feeds : Select(i) \/ Unselect(i) \/ NewMessage(i)
  \/ RestartProcess
  \/ \E j \in Jobs : Fire(j) \/ JobStep(j)

SchedulerSpec == SchedulerInit /\ [][SchedulerNext]_schedulerVars

(* The interval comes round again and again, and no call blocks for ever.  *)
SchedulerFairness == \A j \in Jobs : WF_schedulerVars(Fire(j)) /\ WF_schedulerVars(JobStep(j))
SchedulerFairSpec == SchedulerSpec /\ SchedulerFairness

-----------------------------------------------------------------------------
(* Properties.                                                             *)

(* What is ingested was selected at some moment since the pass began: a    *)
(* pass that begins after a channel was unselected does not touch it.      *)
SelectionIsFresh ==
  \A j \in Jobs : job[j].items \subseteq job[j].allowed

(* run_all_workspaces_once: whatever raises or fails for ever elsewhere,   *)
(* and whatever dies, a selected channel or label that works gets its      *)
(* pending messages stored.                                                *)
PendingStored ==
  \A i \in Feeds \ Bad : Of(i) \notin Broken =>
    []<>(i \notin pending \/ i \notin selectedFeeds)

(* A new channel of a connected workspace comes to the picker by itself,   *)
(* also when nothing is selected yet.                                      *)
ChannelsAppear ==
  \A i \in Feeds : []<>(Of(i) \notin connected \/ i \in offered)

(* Sweeps reach everything that works, and everything new.                 *)
SweepsReachAll == PendingStored /\ ChannelsAppear

(* "never run two ingestions in parallel" (start_scheduler).               *)
OnePassAtATime == \A j, k \in Jobs : job[j].pc # "idle" /\ job[k].pc # "idle" => j = k

(* "A partial failure (some channels OK, others bad) still counts -- the   *)
(* alternative would mean we never mark a workspace as synced if a single  *)
(* bad channel persists."                                                  *)
PartialRunsCount ==
  \A x \in Slack \ Broken :
    (<>[](x \in connected /\ \E i \in FeedsOf(x) \ Bad : i \in selectedFeeds)) => <>(x \in stamped)
=============================================================================
