--------------------------- MODULE SlackConnection --------------------------
(***************************************************************************)
(* Connecting one workspace to Slack (slack_oauth.py, the Slack routes of  *)
(* main.py, slack_installations and slack_channels in supabase_client.py). *)
(*                                                                         *)
(* An OAuth callback exchanges a code for a bot token and upserts the      *)
(* workspace's only installation row; reconnecting keeps the row's id.     *)
(* The picker refreshes the channel rows with the token it read; the rows  *)
(* refer to the installation and go with it.  Disconnecting reads the row, *)
(* revokes its token at Slack and then deletes whatever row there is.      *)
(* Requests interleave between these calls.  Which channels are selected   *)
(* is the matter of Selection; OAuth state tokens that are forged, expired *)
(* or for other workspaces change nothing.                                 *)
(***************************************************************************)
EXTENDS Naturals, FiniteSets

CONSTANTS Teams,     \* Slack teams somebody may choose on Slack's page
          Channels, TeamOf(_),
          Callers,   \* requests that may run at the same time
          Failures,  \* may Supabase or Slack fail?
          MaxTokens  \* bound: OAuth callbacks

ASSUME ConnectionAssumption ==
  /\ \A c \in Channels : TeamOf(c) \in Teams
  /\ Failures \in BOOLEAN /\ MaxTokens \in Nat

VARIABLES install,      \* slack_installations: the row, or None
          channelRows,  \* slack_channels: channel -> id of its installation, 0 for none
          live,         \* tokens Slack accepts
          tokens,       \* tokens issued so far: the last one
          lastId,       \* the last installation id
          serving,      \* request -> its local variables
          gone,         \* tokens of deleted rows (history)
          tried         \* tokens auth.revoke was called for (history)

connectionVars == <<install, channelRows, live, tokens, lastId, serving, gone, tried>>

None == [id |-> 0, token |-> 0, team |-> "none"]
Installs == [id : Nat, token : Nat, team : Teams \cup {"none"}]
NotServing == [pc |-> "idle", row |-> None, fresh |-> {}, shown |-> {}]
ReqStates == [pc : {"idle", "upsert", "list", "rows", "show", "shown", "revoke", "delete"},
              row : Installs, fresh : SUBSET Channels, shown : SUBSET Channels]

ConnectionTypeOK ==
  /\ tokens \in Nat /\ lastId \in Nat
  /\ install \in Installs /\ install.id \in 0..lastId
  /\ channelRows \in [Channels -> 0..lastId]
  /\ live \subseteq 1..tokens
  /\ serving \in [Callers -> ReqStates]
  /\ gone \subseteq 1..tokens /\ tried \subseteq 1..tokens

ConnectionInit ==
  /\ install = None /\ channelRows = [c \in Channels |-> 0]
  /\ live = {} /\ tokens = 0 /\ lastId = 0
  /\ serving = [p \in Callers |-> NotServing]
  /\ gone = {} /\ tried = {}

TeamChannels(t) == {c \in Channels : TeamOf(c) = t}
Known == {c \in Channels : channelRows[c] # 0}

-----------------------------------------------------------------------------
(* GET /api/slack/oauth/callback                                           *)

\* oauth.v2.access: the user chose team t, Slack issues a token.
Exchange(p, t) ==
  /\ serving[p].pc = "idle" /\ tokens < MaxTokens
  /\ tokens' = tokens + 1
  /\ live' = live \cup {tokens + 1}
  /\ serving' = [serving EXCEPT ![p] = [NotServing EXCEPT !.pc = "upsert",
                 !.row = [id |-> 0, token |-> tokens + 1, team |-> t]]]
  /\ UNCHANGED <<install, channelRows, lastId, gone, tried>>

\* Mutant of Upsert: the id is not counted.
UpsertUncounted(p) ==
  /\ serving[p].pc = "upsert"
  /\ install' = [serving[p].row EXCEPT !.id = IF install = None THEN lastId + 1 ELSE install.id]
  /\ serving' = [serving EXCEPT ![p] = NotServing]
  /\ UNCHANGED <<channelRows, live, tokens, lastId, gone, tried>>

\* upsert_slack_installation, on_conflict = workspace_id.
Upsert(p) ==
  /\ serving[p].pc = "upsert"
  /\ lastId' = IF install = None THEN lastId + 1 ELSE lastId
  /\ install' = [serving[p].row EXCEPT !.id = IF install = None THEN lastId + 1 ELSE install.id]
  /\ serving' = [serving EXCEPT ![p] = NotServing]
  /\ UNCHANGED <<channelRows, live, tokens, gone, tried>>

\* Supabase raises: persist_failed.
UpsertFails(p) ==
  /\ Failures /\ serving[p].pc = "upsert"
  /\ serving' = [serving EXCEPT ![p] = NotServing]
  /\ UNCHANGED <<install, channelRows, live, tokens, lastId, gone, tried>>

-----------------------------------------------------------------------------
(* GET /api/slack/channels, and the refresh at the start of a sweep.       *)

ReadInstall(p) ==
  /\ serving[p].pc = "idle" /\ install # None
  /\ serving' = [serving EXCEPT ![p] = [NotServing EXCEPT !.pc = "list", !.row = install]]
  /\ UNCHANGED <<install, channelRows, live, tokens, lastId, gone, tried>>

\* conversations.list: all channels of the token's team, part of them when a
\* page fails, none for a token that was revoked.
ListChannels(p) ==
  /\ serving[p].pc = "list"
  /\ \E fresh \in SUBSET TeamChannels(serving[p].row.team) :
       /\ serving[p].row.token \notin live => fresh = {}
       /\ ~Failures /\ serving[p].row.token \in live => fresh = TeamChannels(serving[p].row.team)
       /\ serving' = [serving EXCEPT ![p].pc = IF fresh = {} THEN "show" ELSE "rows",
                             ![p].fresh = fresh]
  /\ UNCHANGED <<install, channelRows, live, tokens, lastId, gone, tried>>

\* Mutant of UpsertChannels: without the installation's id nothing ties the
\* rows to it (the schema before phase 3).
UpsertUntied(p) ==
  /\ serving[p].pc = "rows"
  /\ channelRows' = [c \in Channels |-> IF c \in serving[p].fresh THEN serving[p].row.id ELSE channelRows[c]]
  /\ serving' = [serving EXCEPT ![p].pc = "show"]
  /\ UNCHANGED <<install, live, tokens, lastId, gone, tried>>

\* upsert_slack_channels: refused when the installation is gone (the foreign
\* key), or when Supabase fails.
UpsertChannels(p) ==
  /\ serving[p].pc = "rows"
  /\ \/ /\ install.id = serving[p].row.id
        /\ channelRows' = [c \in Channels |-> IF c \in serving[p].fresh THEN serving[p].row.id ELSE channelRows[c]]
     \/ (Failures \/ install.id # serving[p].row.id) /\ UNCHANGED channelRows
  /\ serving' = [serving EXCEPT ![p].pc = "show"]
  /\ UNCHANGED <<install, live, tokens, lastId, gone, tried>>

\* list_workspace_channels: what the picker gets to see.
Show(p) ==
  /\ serving[p].pc = "show"
  /\ serving' = [serving EXCEPT ![p].pc = "shown", ![p].shown = Known]
  /\ UNCHANGED <<install, channelRows, live, tokens, lastId, gone, tried>>

Answered(p) ==
  /\ serving[p].pc = "shown"
  /\ serving' = [serving EXCEPT ![p] = NotServing]
  /\ UNCHANGED <<install, channelRows, live, tokens, lastId, gone, tried>>

-----------------------------------------------------------------------------
(* DELETE /api/slack/disconnect                                            *)

Disconnect(p) ==
  /\ serving[p].pc = "idle" /\ install # None
  /\ serving' = [serving EXCEPT ![p] = [NotServing EXCEPT !.pc = "revoke", !.row = install]]
  /\ UNCHANGED <<install, channelRows, live, tokens, lastId, gone, tried>>

\* auth.revoke, fire and forget.
Revoke(p) ==
  /\ serving[p].pc = "revoke"
  /\ tried' = tried \cup {serving[p].row.token}
  /\ live' \in {live \ {serving[p].row.token}} \cup (IF Failures THEN {live} ELSE {})
  /\ serving' = [serving EXCEPT ![p].pc = "delete"]
  /\ UNCHANGED <<install, channelRows, tokens, lastId, gone>>

\* delete_slack_installation deletes by workspace; its channels go with it.
Delete(p) ==
  /\ serving[p].pc = "delete" /\ install # None
  /\ gone' = gone \cup {install.token}
  /\ install' = None
  /\ channelRows' = [c \in Channels |-> IF channelRows[c] = install.id THEN 0 ELSE channelRows[c]]
  /\ serving' = [serving EXCEPT ![p] = NotServing]
  /\ UNCHANGED <<live, tokens, lastId, tried>>

\* Nothing to delete, or Supabase raises: 500.
DeleteFails(p) ==
  /\ serving[p].pc = "delete" /\ (Failures \/ install = None)
  /\ serving' = [serving EXCEPT ![p] = NotServing]
  /\ UNCHANGED <<install, channelRows, live, tokens, lastId, gone, tried>>

RequestStep(p) ==
  \/ Upsert(p) \/ UpsertFails(p)
  \/ ListChannels(p) \/ UpsertChannels(p) \/ Show(p) \/ Answered(p)
  \/ Revoke(p) \/ Delete(p) \/ DeleteFails(p)

ConnectionNext == \E p \in Callers :
  \/ \E t \in Teams : Exchange(p, t)
  \/ ReadInstall(p) \/ Disconnect(p) \/ RequestStep(p)

ConnectionSpec == ConnectionInit /\ [][ConnectionNext]_connectionVars

-----------------------------------------------------------------------------
(* Properties.                                                             *)

(* Channel rows belong to the installation there is: after a disconnect,   *)
(* whatever refreshes it overtakes, no channel is left that a sweep or the *)
(* webhook would take for this workspace's.                                *)
ChannelsFollowInstall ==
  \A c \in Known : install # None /\ channelRows[c] = install.id

(* The row is replaced, never duplicated, by a reconnect: its id changes   *)
(* only through a disconnect, which a refresh under way relies on.         *)
IdKept == [][install # None /\ install' # None => install'.id = install.id]_connectionVars

(* slack_disconnect: "Revoke with Slack first so the token can't be reused *)
(* after we delete our local record."                                      *)
DeletedWereRevoked == gone \subseteq tried

(* slack_channels_list: "so the user always sees the current state of      *)
(* their Slack workspace"; once nothing else is under way, what the picker *)
(* shows are channels of the team that is connected.                       *)
PickerShowsTeam ==
  \A p \in Callers :
    serving[p].pc = "shown" /\ (\A q \in Callers \ {p} : serving[q].pc = "idle") =>
      serving[p].shown \subseteq TeamChannels(install.team)
=============================================================================
