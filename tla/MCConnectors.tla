----------------------------- MODULE MCConnectors ----------------------------
(* The connectors for TLC: the Slack webhook's dedupe, the Slack            *)
(* connection, the channel selection, the Gmail connection, the Gmail       *)
(* ingestion and the scheduler.  They share no variable here, so they are   *)
(* checked side by side: part says which of them moves in a behaviour, the  *)
(* others stay as they begin.                                               *)
EXTENDS EventDedupe, SlackConnection, Selection, GmailConnection, GmailSync, Scheduler, TLC

CONSTANTS t1, c1, w1, g1, l1

VARIABLE part

\* Two channels, of one Slack team or of two.
FirstIsT1(c) == IF c = c1 \/ Cardinality(Teams) = 1 THEN t1 ELSE CHOOSE t \in Teams : t # t1

\* The scheduler's feeds: the label of g1, the channels of w1.
OwnerOf(i) == IF i = l1 THEN g1 ELSE w1

Symmetry == Permutations(Workers) \cup Permutations(Callers)

(* Every part keeps its types: values, rows, requests and passes are of    *)
(* the shapes the code gives them.                                         *)
Types ==
  TypeOK /\ ConnectionTypeOK /\ SelectionTypeOK /\ GmailTypeOK /\ SchedulerTypeOK

Parts == {"dedupe", "connection", "selection", "token", "gmail", "scheduler"}

ConnectorsInit ==
  /\ part \in Parts
  /\ part = "scheduler" \/ connected = {}
  /\ Init /\ ConnectionInit /\ SelectionInit /\ TokenInit /\ GmailInit /\ SchedulerInit

ConnectorsNext ==
  /\ UNCHANGED part
  /\ \/ /\ part = "dedupe" /\ Next
        /\ UNCHANGED <<connectionVars, selectionVars, tokenVars, gmailVars, schedulerVars>>
     \/ /\ part = "connection" /\ ConnectionNext
        /\ UNCHANGED <<vars, selectionVars, tokenVars, gmailVars, schedulerVars>>
     \/ /\ part = "selection" /\ SelectionNext
        /\ UNCHANGED <<vars, connectionVars, tokenVars, gmailVars, schedulerVars>>
     \/ /\ part = "token" /\ TokenNext
        /\ UNCHANGED <<vars, connectionVars, selectionVars, gmailVars, schedulerVars>>
     \/ /\ part = "gmail" /\ GmailNext
        /\ UNCHANGED <<vars, connectionVars, selectionVars, tokenVars, schedulerVars>>
     \/ /\ part = "scheduler" /\ SchedulerNext
        /\ UNCHANGED <<vars, connectionVars, selectionVars, tokenVars, gmailVars>>

ConnectorsSpec ==
  /\ ConnectorsInit
  /\ [][ConnectorsNext]_<<part, vars, connectionVars, selectionVars, tokenVars, gmailVars,
                          schedulerVars>>
==============================================================================
