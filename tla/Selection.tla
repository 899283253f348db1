----------------------------- MODULE Selection ------------------------------
(***************************************************************************)
(* Choosing what is ingested: the slack_channels rows of a workspace, or   *)
(* the gmail_labels rows of a connection (supabase_client.py and the       *)
(* routes of main.py that call it).                                        *)
(*                                                                         *)
(* A save replaces the selection by two updates, "true where listed" and   *)
(* "false elsewhere", and the bot opt-in of channels by two more, if it    *)
(* brings a bot list.  A refresh inserts rows and leaves the flags of      *)
(* existing ones alone.  Each update is one statement; saves interleave    *)
(* between them, and any update may fail, which ends the request with 502  *)
(* and what was written so far.  Labels have no bot list.                  *)
(*                                                                         *)
(* Nothing serialises saves, so the properties speak of a group of them:   *)
(* the saves since a moment at which none was under way.                   *)
(***************************************************************************)
EXTENDS Naturals, FiniteSets

CONSTANTS Items,     \* channels, or labels
          Savers,    \* requests that may run at the same time
          MaxGroup   \* bound: saves of a group

ASSUME SelectionAssumption == MaxGroup \in Nat

VARIABLES known,     \* items that have a row
          selected,  \* is_selected
          bots,      \* include_bot_messages
          save,      \* saver -> the save it executes
          group      \* the saves since none was under way (history)

selectionVars == <<known, selected, bots, save, group>>

Pcs == {"idle", "true", "false", "botsTrue", "botsFalse"}
NotSaving == [pc |-> "idle", ids |-> {}, listed |-> FALSE, botIds |-> {}]
Saves == [pc : Pcs, ids : SUBSET Items, listed : BOOLEAN, botIds : SUBSET Items]

\* What was selected when the group began, what its saves asked for, whether one of them
\* has reached its end, or was cut short; botsThrough: one with a bot list has.
Asks == SUBSET SUBSET Items
Groups == [saves : Nat, base : SUBSET Items, botBase : SUBSET Items,
           asked : Asks, botsAsked : Asks,
           through : BOOLEAN, botsThrough : BOOLEAN, cut : BOOLEAN]

SelectionTypeOK ==
  /\ known \subseteq Items /\ selected \subseteq known /\ bots \subseteq known
  /\ save \in [Savers -> Saves]
  /\ group \in Groups

EmptyGroup(base, botBase) ==
  [saves |-> 0, base |-> base, botBase |-> botBase, asked |-> {}, botsAsked |-> {},
   through |-> FALSE, botsThrough |-> FALSE, cut |-> FALSE]

SelectionInit ==
  /\ known = {} /\ selected = {} /\ bots = {}
  /\ save = [s \in Savers |-> NotSaving]
  /\ group = EmptyGroup({}, {})

Quiet == \A s \in Savers : save[s].pc = "idle"

-----------------------------------------------------------------------------
\* Mutant of Refresh: the upsert writes the flags, too.
RefreshClears(items) ==
  /\ known' = known \cup items
  /\ selected' = selected \ items
  /\ UNCHANGED <<bots, save, group>>

\* GET refreshes the rows from Slack or Gmail, which may name some only.
Refresh(items) ==
  /\ known' = known \cup items
  /\ UNCHANGED <<selected, bots, save, group>>

\* POST with rows the picker has shown; `listed`: the bot list is given, of which the
\* selected ones count.
Begin(s, ids, listed, botIds) ==
  LET g == IF Quiet THEN EmptyGroup(selected, bots) ELSE group
  IN /\ save[s].pc = "idle"
     /\ ids \subseteq known /\ botIds \subseteq known
     /\ listed \/ botIds = {}
     /\ g.saves < MaxGroup
     /\ save' = [save EXCEPT ![s] = [pc |-> IF ids = {} THEN "false" ELSE "true",
                                     ids |-> ids, listed |-> listed, botIds |-> botIds \cap ids]]
     /\ group' = [g EXCEPT !.saves = @ + 1, !.asked = @ \cup {ids},
                           !.botsAsked = IF listed THEN @ \cup {botIds \cap ids} ELSE @]
     /\ UNCHANGED <<known, selected, bots>>

\* What comes after the selection: the bot flags, if they were listed.
AfterSelection(s) ==
  IF ~save[s].listed THEN "idle"
  ELSE IF save[s].botIds = {} THEN "botsFalse" ELSE "botsTrue"

\* The save goes on at pc; at its end it has gone through.
GoTo(s, pc) ==
  /\ save' = [save EXCEPT ![s] = IF pc = "idle" THEN NotSaving ELSE [@ EXCEPT !.pc = pc]]
  /\ group' = IF pc # "idle" THEN group
              ELSE [group EXCEPT !.through = TRUE, !.botsThrough = @ \/ save[s].listed]

SetTrue(s) ==
  /\ save[s].pc = "true"
  /\ selected' = selected \cup (save[s].ids \cap known)
  /\ GoTo(s, "false")
  /\ UNCHANGED <<known, bots>>

\* Mutant of SetFalse: the second update is left out.
SetFalseForgotten(s) ==
  /\ save[s].pc = "false"
  /\ GoTo(s, AfterSelection(s))
  /\ UNCHANGED <<known, selected, bots>>

SetFalse(s) ==
  /\ save[s].pc = "false"
  /\ selected' = selected \cap save[s].ids
  /\ GoTo(s, AfterSelection(s))
  /\ UNCHANGED <<known, bots>>

BotsTrue(s) ==
  /\ save[s].pc = "botsTrue"
  /\ bots' = bots \cup (save[s].botIds \cap known)
  /\ GoTo(s, "botsFalse")
  /\ UNCHANGED <<known, selected>>

\* Mutant of BotsFalse: channels that stay selected only.
BotsFalseSelected(s) ==
  /\ save[s].pc = "botsFalse"
  /\ bots' = bots \ (save[s].ids \ save[s].botIds)
  /\ GoTo(s, "idle")
  /\ UNCHANGED <<known, selected>>

BotsFalse(s) ==
  /\ save[s].pc = "botsFalse"
  /\ bots' = bots \cap save[s].botIds
  /\ GoTo(s, "idle")
  /\ UNCHANGED <<known, selected>>

\* Supabase raises: 502, nothing is rolled back.  The update at hand was not executed.
Fail(s) ==
  /\ save[s].pc # "idle"
  /\ save' = [save EXCEPT ![s] = NotSaving]
  /\ group' = [group EXCEPT !.cut = TRUE]
  /\ UNCHANGED <<known, selected, bots>>

\* It was executed, and only its answer is lost.
FailAfter(s) ==
  /\ \/ /\ save[s].pc = "true" /\ selected' = selected \cup (save[s].ids \cap known)
        /\ UNCHANGED bots
     \/ /\ save[s].pc = "false" /\ selected' = selected \cap save[s].ids
        /\ UNCHANGED bots
     \/ /\ save[s].pc = "botsTrue" /\ bots' = bots \cup (save[s].botIds \cap known)
        /\ UNCHANGED selected
     \/ /\ save[s].pc = "botsFalse" /\ bots' = bots \cap save[s].botIds
        /\ UNCHANGED selected
  /\ save' = [save EXCEPT ![s] = NotSaving]
  /\ group' = [group EXCEPT !.cut = TRUE]
  /\ UNCHANGED known

SelectionNext ==
  \/ \E items \in SUBSET Items : Refresh(items)
  \/ \E s \in Savers :
       \/ \E ids, botIds \in SUBSET Items, listed \in BOOLEAN : Begin(s, ids, listed, botIds)
       \/ SetTrue(s) \/ SetFalse(s) \/ BotsTrue(s) \/ BotsFalse(s) \/ Fail(s) \/ FailAfter(s)

SelectionSpec == SelectionInit /\ [][SelectionNext]_selectionVars

-----------------------------------------------------------------------------
\* What was so before the saves, or one of them asked for, may be so; what was so and all
\* of them asked for, must.
Between(before, asks, found) ==
  /\ \A i \in found : i \in before \/ \E ids \in asks : i \in ids
  /\ \A i \in before : (\A ids \in asks : i \in ids) => i \in found

\* What all of them asked for is so, and nothing is that none of them asked for.
AsAsked(asks, found) ==
  /\ \A i \in found : \E ids \in asks : i \in ids
  /\ \A i \in Items : (\A ids \in asks : i \in ids) => i \in found

(* However many saves overlap, and whichever of them fail: a reader sees   *)
(* everything that was selected before and that every save keeps, and      *)
(* nothing that neither was selected before nor is asked for by a save.    *)
(* So it is with the bot opt-ins.                                          *)
ReadersSeeOldOrNew ==
  /\ Between(group.base, group.asked, selected)
  /\ Between(group.botBase, group.botsAsked, bots)

(* Once no save is under way and one has gone through, what the saves      *)
(* agree on is so: after a single save its selection, also when it follows *)
(* one that was cut short, and only what overlapping saves disagree on is  *)
(* open.  If one with a bot list has gone through, so are the opt-ins.     *)
SavesTakeEffect ==
  Quiet => /\ group.through => AsAsked(group.asked, selected)
           /\ group.botsThrough => AsAsked(group.botsAsked, bots)

(* The docstring of set_selected_gmail_labels: "Two updates (one for True, *)
(* one for False) so the database stays consistent with the new            *)
(* selection".  When all saves have gone through, one of them is what is   *)
(* selected.                                                               *)
SelectionIsOneSaved ==
  Quiet /\ group.through /\ ~group.cut => selected \in group.asked

(* The comment in set_selected_channels: "so unselected channels can never *)
(* carry a stale True".                                                    *)
UnselectedCarryNoTrue == Quiet /\ group.through /\ ~group.cut => bots \subseteq selected
=============================================================================
