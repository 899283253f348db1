----------------------------- MODULE LabelPicker -----------------------------
(***************************************************************************)
(* The Gmail panel of the web client (GmailSettings.jsx) and the routes    *)
(* behind it: choose an account, tick labels, save, disconnect.            *)
(*                                                                         *)
(* When the account changes, its labels are asked for; nothing cancels the *)
(* request before, and whatever arrives is shown and ticked.  Buttons are  *)
(* disabled while a save or a removal is under way, but not while labels   *)
(* load.  Closing the panel forgets its state, not its requests.           *)
(*                                                                         *)
(* A save writes the whole selection at once here; its two updates are the *)
(* matter of Selection.  A list that could not be read is empty, with or   *)
(* without a message.  "Run ingest" and messages are left out.             *)
(***************************************************************************)
EXTENDS Naturals, FiniteSets

CONSTANTS Accounts, NoAccount,
          Labels, LabelsOf(_),          \* of an account
          LabelFailures,                \* may requests fail?
          MaxLabelLoads, MaxLabelSaves  \* bounds

ASSUME PickerAssumption ==
  /\ NoAccount \notin Accounts /\ \A a \in Accounts : LabelsOf(a) \subseteq Labels
  /\ LabelFailures \in BOOLEAN /\ MaxLabelLoads \in Nat /\ MaxLabelSaves \in Nat

VARIABLES conns, chosenLabels,     \* gmail_connections; gmail_labels with is_selected
          listed, account,         \* connections, activeConnId
          labels, selectedIds,     \* labels, selectedIds
          listing, loadingLabels,  \* loadingConns, loadingLabels
          labelBusy,               \* "no", "save", "reread", "remove", "relist"
          gets,                    \* GETs of labels under way
          labelPosts, removals,    \* saves and removals under way
          labelLoads, labelSaves,  \* how often (bounds)
          \* History of the list on screen: its account, the number of its GET, has no
          \* save overtaken it, and were ticks changed since?
          labelsOf, labelsN, labelsFresh, labelsTouched

labelServer == <<conns, chosenLabels>>
labelScreen == <<listed, account, listing>>
labelList == <<labels, selectedIds, labelsOf, labelsN, labelsFresh, labelsTouched>>
labelVars == <<conns, chosenLabels, listed, account, labels, selectedIds, listing,
               loadingLabels, labelBusy, gets, labelPosts, removals, labelLoads, labelSaves, labelsOf, labelsN,
               labelsFresh, labelsTouched>>

LabelInit ==
  /\ conns \in SUBSET Accounts
  /\ chosenLabels \in [Accounts -> SUBSET Labels]
  /\ \A a \in Accounts : chosenLabels[a] \subseteq (IF a \in conns THEN LabelsOf(a) ELSE {})
  /\ listed = {} /\ account = NoAccount /\ labels = {} /\ selectedIds = {}
  /\ listing = TRUE /\ loadingLabels = FALSE /\ labelBusy = "no"
  /\ gets = {} /\ labelPosts = {} /\ removals = {} /\ labelLoads = 0 /\ labelSaves = 0
  /\ labelsOf = NoAccount /\ labelsN = 0 /\ labelsFresh = FALSE /\ labelsTouched = FALSE

-----------------------------------------------------------------------------
(* Loading.                                                                *)

ShowLabels(ids, on, of, n, fresh) ==
  /\ labels' = ids /\ selectedIds' = on
  /\ labelsOf' = of /\ labelsN' = n /\ labelsFresh' = fresh /\ labelsTouched' = FALSE

ClearLabels == ShowLabels({}, {}, NoAccount, 0, FALSE)

\* refreshLabels up to its request.
AskLabels(a, save) ==
  /\ labelLoads < MaxLabelLoads /\ labelLoads' = labelLoads + 1
  /\ gets' = gets \cup {[n |-> labelLoads', acc |-> a, save |-> save, pc |-> "asked",
                         ids |-> {}, on |-> {}, fresh |-> FALSE]}
  /\ loadingLabels' = TRUE

\* Mutant of Effect: only the list of no account is replaced.
EffectOnce(a) ==
  IF a = account \/ (account # NoAccount /\ a # NoAccount) THEN
    UNCHANGED <<labelList, gets, loadingLabels, labelLoads>>
  ELSE IF a = NoAccount THEN ClearLabels /\ UNCHANGED <<gets, loadingLabels, labelLoads>>
  ELSE AskLabels(a, FALSE) /\ UNCHANGED labelList

\* The effect that follows activeConnId.
Effect(a) ==
  IF a = account THEN UNCHANGED <<labelList, gets, loadingLabels, labelLoads>>
  ELSE IF a = NoAccount THEN ClearLabels /\ UNCHANGED <<gets, loadingLabels, labelLoads>>
  ELSE AskLabels(a, FALSE) /\ UNCHANGED labelList

First(accs) == IF account \in accs THEN {account} ELSE IF accs = {} THEN {NoAccount} ELSE accs

\* refreshConnections.
Connections ==
  /\ listing /\ listing' = FALSE
  /\ \E accs \in {conns} \cup (IF LabelFailures THEN {{}} ELSE {}) : \E a \in First(accs) :
       listed' = accs /\ account' = a /\ Effect(a)
  /\ labelBusy' = IF labelBusy = "relist" THEN "no" ELSE labelBusy
  /\ UNCHANGED <<labelServer, labelPosts, removals, labelSaves>>

\* gmail_labels_list reads the rows of the connection.
ReadLabels(g) ==
  /\ g.pc = "asked"
  /\ \E r \in {IF g.acc \in conns THEN [ids |-> LabelsOf(g.acc), on |-> chosenLabels[g.acc]]
               ELSE [ids |-> {}, on |-> {}]}
              \cup (IF LabelFailures THEN {[ids |-> {}, on |-> {}]} ELSE {}) :
       gets' = (gets \ {g}) \cup {[g EXCEPT !.pc = "read", !.ids = r.ids, !.on = r.on,
                                       !.fresh = TRUE]}
  /\ UNCHANGED <<labelServer, labelScreen, labelList, loadingLabels, labelBusy,
                 labelPosts, removals, labelLoads, labelSaves>>

\* Its answer, whatever account is active by now.
LabelsArrive(g) ==
  /\ g.pc = "read" /\ gets' = gets \ {g}
  /\ ShowLabels(g.ids, g.on, g.acc, g.n, g.fresh)
  /\ loadingLabels' = FALSE
  /\ labelBusy' = IF g.save THEN "no" ELSE labelBusy
  /\ UNCHANGED <<labelServer, labelScreen, labelPosts, removals, labelLoads, labelSaves>>

-----------------------------------------------------------------------------
(* The user.                                                               *)

LabelsEnabled == ~listing /\ labelBusy = "no"

SwitchAccount(a) ==
  /\ LabelsEnabled /\ a \in listed \ {account}
  /\ account' = a /\ Effect(a)
  /\ UNCHANGED <<labelServer, listed, listing, labelBusy, labelPosts, removals, labelSaves>>

RefreshLabels ==
  /\ LabelsEnabled /\ account # NoAccount
  /\ AskLabels(account, FALSE)
  /\ UNCHANGED <<labelServer, labelScreen, labelList, labelBusy, labelPosts, removals,
                 labelSaves>>

\* toggleLabel; there is no list while it loads.
Toggle(l) ==
  /\ LabelsEnabled /\ ~loadingLabels /\ l \in labels /\ labelsTouched' = TRUE
  /\ selectedIds' = (selectedIds \ {l}) \cup ({l} \ selectedIds)
  /\ UNCHANGED <<labelServer, labelScreen, labels, labelsOf, labelsN, labelsFresh,
                 loadingLabels, labelBusy, gets, labelPosts, removals, labelLoads, labelSaves>>

\* handleSave up to its request, whatever is shown; `of` is for a property only.
SaveLabels ==
  /\ LabelsEnabled /\ account # NoAccount /\ labelSaves < MaxLabelSaves
  /\ labelSaves' = labelSaves + 1 /\ labelBusy' = "save"
  /\ labelPosts' = labelPosts \cup {[n |-> labelSaves', acc |-> account, ids |-> selectedIds,
                                  own |-> TRUE, of |-> labelsOf]}
  /\ UNCHANGED <<labelServer, labelScreen, labelList, loadingLabels, gets, removals,
                 labelLoads>>

\* handleRemove up to its request.
RemoveAccount ==
  /\ LabelsEnabled /\ account # NoAccount /\ labelBusy' = "remove"
  /\ removals' = removals \cup {[acc |-> account, own |-> TRUE]}
  /\ UNCHANGED <<labelServer, labelScreen, labelList, loadingLabels, gets, labelPosts,
                 labelLoads, labelSaves>>

LabelsLeft(requests) == {[r EXCEPT !.own = FALSE] : r \in requests}

\* A new panel; answers to the old one are nobody's.
Mount ==
  /\ labelLoads < MaxLabelLoads /\ labelLoads' = labelLoads + 1
  /\ listed' = {} /\ account' = NoAccount /\ ClearLabels
  /\ listing' = TRUE /\ loadingLabels' = FALSE /\ labelBusy' = "no" /\ gets' = {}
  /\ labelPosts' = LabelsLeft(labelPosts) /\ removals' = LabelsLeft(removals)
  /\ UNCHANGED labelSaves

\* The panel is closed and opened again.
Reopen == Mount /\ UNCHANGED labelServer

\* The page goes to Google and comes back with another account.
ConnectAccount(a) ==
  /\ LabelsEnabled /\ a \notin conns
  /\ conns' = conns \cup {a} /\ UNCHANGED chosenLabels
  /\ Mount

-----------------------------------------------------------------------------
(* The server; a request may fail, or do its work and lose its answer.     *)

LabelOutcomes(found) ==
  IF ~found THEN {[done |-> FALSE, ok |-> FALSE]}
  ELSE {[done |-> TRUE, ok |-> TRUE]}
       \cup (IF LabelFailures THEN [done : BOOLEAN, ok : {FALSE}] ELSE {})

\* gmail_labels_save, and the rest of handleSave: "Re-read so the UI mirrors
\* persisted truth."
LabelsSaved(p) ==
  /\ p \in labelPosts /\ labelPosts' = labelPosts \ {p}
  /\ \E o \in LabelOutcomes(p.acc \in conns) :
       /\ chosenLabels' = IF o.done THEN [chosenLabels EXCEPT ![p.acc] = p.ids \cap LabelsOf(p.acc)]
                          ELSE chosenLabels
       /\ IF p.own /\ o.ok
          THEN labelBusy' = "reread" /\ AskLabels(account, TRUE)
               /\ UNCHANGED labelsFresh
          ELSE /\ labelBusy' = (IF p.own THEN "no" ELSE labelBusy)
               /\ gets' = (IF o.done THEN {[g EXCEPT !.fresh = FALSE] : g \in gets} ELSE gets)
               /\ labelsFresh' = (labelsFresh /\ ~o.done)
               /\ UNCHANGED <<loadingLabels, labelLoads>>
  /\ UNCHANGED <<conns, labelScreen, labels, selectedIds, labelsOf, labelsN, labelsTouched,
                 removals, labelSaves>>

\* gmail_connection_delete, and the rest of handleRemove.
Removed(d) ==
  /\ d \in removals /\ removals' = removals \ {d}
  /\ \E o \in LabelOutcomes(d.acc \in conns) :
       /\ conns' = IF o.done THEN conns \ {d.acc} ELSE conns
       /\ chosenLabels' = IF o.done THEN [chosenLabels EXCEPT ![d.acc] = {}] ELSE chosenLabels
       /\ listing' = (listing \/ (d.own /\ o.ok))
       /\ labelBusy' = IF ~d.own THEN labelBusy ELSE IF o.ok THEN "relist" ELSE "no"
  /\ UNCHANGED <<listed, account, labelList, loadingLabels, gets, labelPosts, labelLoads,
                 labelSaves>>

LabelNext ==
  \/ Connections \/ RefreshLabels \/ SaveLabels \/ RemoveAccount \/ Reopen
  \/ \E g \in gets : ReadLabels(g) \/ LabelsArrive(g)
  \/ \E a \in Accounts : SwitchAccount(a) \/ ConnectAccount(a)
  \/ \E l \in Labels : Toggle(l)
  \/ \E p \in labelPosts : LabelsSaved(p)
  \/ \E d \in removals : Removed(d)

LabelSpec == LabelInit /\ [][LabelNext]_labelVars

-----------------------------------------------------------------------------
(* Properties.                                                             *)

(* The list on screen is one list of one account and the ticks are among   *)
(* it, whatever answers arrived in whatever order, or were overtaken by a  *)
(* switch, a removal or a panel closed and opened again.                   *)
ScreenIsOneList ==
  /\ selectedIds \subseteq labels
  /\ labels # {} => labels \subseteq LabelsOf(labelsOf)

(* "The picker reloads whenever the active connection changes": the newest *)
(* list asked for is always that of the active account, and when it is the *)
(* one on screen, its account is the one named above it.                   *)
NewestIsActive ==
  account # NoAccount =>
    /\ \A g \in gets : g.n = labelLoads => g.acc = account
    /\ labels # {} /\ labelsN = labelLoads => labelsOf = account

(* "Re-read so the UI mirrors persisted truth": when the newest list is on *)
(* screen, its ticks are the selection that is stored for the account,     *)
(* unless the user has changed them since, or a save that this panel gave  *)
(* up, or whose answer was lost, took effect after it was read.            *)
NewestTicks ==
  /\ labels # {} /\ labelsN = labelLoads /\ labelsFresh /\ ~labelsTouched
  /\ account \in conns
  => selectedIds = chosenLabels[account]

(* What arrives last is shown, but what was asked for last is right.       *)
LabelsAgree == ScreenIsOneList /\ NewestIsActive /\ NewestTicks

-----------------------------------------------------------------------------
(* What a reader of the panel's comments would expect, and the code does   *)
(* not give: its buttons stay enabled while labels load.                   *)

Calm == LabelsEnabled /\ ~loadingLabels /\ gets = {}

(* Not so: "Labels belong to a CONNECTION": once everything has arrived,   *)
(* the labels on screen are those of the account named above them.         *)
PickerShowsActive == Calm /\ labels # {} => labelsOf = account

(* Not so: what a save writes to an account was ticked in a list of that   *)
(* account's labels.                                                       *)
SavedLabelsWereShown == \A p \in labelPosts : p.of = p.acc
==============================================================================
