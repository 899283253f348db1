---------------------------- MODULE ChannelPicker ----------------------------
(***************************************************************************)
(* The Slack panel of the web client (SlackSettings.jsx), the routes       *)
(* behind it, and the workspace its requests go to (WorkspaceContext.jsx,  *)
(* authHeaders in api.js).                                                 *)
(*                                                                         *)
(* A request waits for the access token and then reads the active          *)
(* workspace for its header.  The panel loads when it is opened; while it  *)
(* loads it has no buttons.  Switching the workspace reloads and closes    *)
(* nothing: the list of one workspace stays while requests go to another.  *)
(*                                                                         *)
(* A save writes the whole selection at once here, see Selection; what     *)
(* connecting does beside the panel is SlackConnection.  A list that could *)
(* not be read is empty, and can be saved like any other.  "Run ingest",   *)
(* the confirmation of Disconnect and messages are left out.               *)
(***************************************************************************)
EXTENDS Naturals, FiniteSets

CONSTANTS Workspaces, NoWorkspace,
          PanelChannels, ChannelsOf(_),  \* of the Slack team a workspace connects
          SlowHeaders,                   \* may the access token need a refresh over the network?
          ChannelFailures,               \* may requests fail?
          MaxRequests                    \* bound

ASSUME ChannelAssumption ==
  /\ NoWorkspace \notin Workspaces
  /\ \A w \in Workspaces : ChannelsOf(w) \subseteq PanelChannels
  /\ {SlowHeaders, ChannelFailures} \subseteq BOOLEAN /\ MaxRequests \in Nat

VARIABLES installed, chosen, storedBots,        \* slack_installations, slack_channels
          home,                                 \* _activeWorkspaceId
          connected, shown, ticked, botTicked,  \* what the panel shows
          loading, busy,                        \* busy: "no", "save", "disconnect"
          reqs,                                 \* requests under way
          requests,                             \* made so far (bound)
          \* History of the list on screen: its workspace, was another one made active since
          \* that was read, were ticks changed on either side since it was loaded?
          channelsOf, moved, touched

server == <<installed, chosen, storedBots>>
panelVars == <<connected, shown, ticked, botTicked, channelsOf, moved, touched>>
channelVars == <<installed, chosen, storedBots, home, connected, shown, ticked, botTicked,
                 loading, busy, reqs, requests, channelsOf, moved, touched>>

-----------------------------------------------------------------------------
(* Requests.                                                               *)

Request(kind, w, ids, botIds) ==
  [n |-> requests + 1, kind |-> kind, pc |-> "sent", own |-> TRUE, at |-> home, to |-> w,
   chans |-> {}, ids |-> ids, bots |-> botIds, of |-> channelsOf,
   moved |-> kind # "get" /\ moved, stale |-> FALSE, found |-> FALSE]

\* jsonFetch; `rest` are the other requests.
Ask(rest, kind, ids, botIds) ==
  /\ requests < MaxRequests /\ requests' = requests + 1
  /\ \/ reqs' = rest \cup {Request(kind, home, ids, botIds)}
     \/ /\ SlowHeaders
        /\ reqs' = rest \cup {[Request(kind, NoWorkspace, ids, botIds) EXCEPT !.pc = "token"]}

Left == {[r EXCEPT !.own = FALSE] : r \in {q \in reqs : q.kind # "get"}}

\* The state of a panel that was opened just now, or will be.
Unmounted ==
  /\ connected' = FALSE /\ shown' = {} /\ ticked' = {} /\ botTicked' = {}
  /\ channelsOf' = NoWorkspace /\ moved' = FALSE /\ touched' = FALSE

ChannelInit ==
  /\ installed \in SUBSET Workspaces /\ home \in Workspaces
  /\ chosen \in [Workspaces -> SUBSET PanelChannels]
  /\ \A w \in Workspaces : chosen[w] \subseteq (IF w \in installed THEN ChannelsOf(w) ELSE {})
  /\ storedBots = [w \in Workspaces |-> {}]
  /\ connected = FALSE /\ shown = {} /\ ticked = {} /\ botTicked = {}
  /\ channelsOf = NoWorkspace /\ moved = FALSE /\ touched = FALSE
  /\ loading = FALSE /\ busy = "no" /\ reqs = {} /\ requests = 0

-----------------------------------------------------------------------------
(* The user.                                                               *)

\* Opening the panel, perhaps while requests of an earlier one are under way.
OpenPanel ==
  /\ Unmounted /\ Ask(Left, "get", {}, {}) /\ loading' = TRUE /\ busy' = "no"
  /\ UNCHANGED <<server, home>>

Enabled == connected /\ ~loading /\ busy = "no"

RefreshChannels ==
  /\ Enabled /\ Ask(reqs, "get", {}, {}) /\ loading' = TRUE
  /\ UNCHANGED <<server, home, panelVars, busy>>

\* toggleChannel: a channel that is unticked loses its bot tick.
ToggleChannel(c) ==
  /\ connected /\ ~loading /\ busy # "save" /\ c \in shown
  /\ ticked' = (ticked \ {c}) \cup ({c} \ ticked)
  /\ botTicked' = IF c \in ticked THEN botTicked \ {c} ELSE botTicked
  /\ touched' = TRUE
  /\ UNCHANGED <<server, home, connected, shown, channelsOf, moved, loading, busy, reqs,
                 requests>>

ToggleBots(c) ==
  /\ connected /\ ~loading /\ busy # "save" /\ c \in shown \cap ticked
  /\ botTicked' = (botTicked \ {c}) \cup ({c} \ botTicked)
  /\ touched' = TRUE
  /\ UNCHANGED <<server, home, connected, shown, ticked, channelsOf, moved, loading, busy,
                 reqs, requests>>

\* handleSave up to its request, whatever is shown.
SaveChannels ==
  /\ Enabled
  /\ Ask(reqs, "save", ticked, botTicked \cap ticked) /\ busy' = "save"
  /\ UNCHANGED <<server, home, panelVars, loading>>

\* handleDisconnect up to its request.
Disconnect ==
  /\ Enabled /\ Ask(reqs, "disconnect", {}, {}) /\ busy' = "disconnect"
  /\ UNCHANGED <<server, home, panelVars, loading>>

\* The page goes to Slack, comes back, and the panel is closed.
Connect ==
  /\ ~loading /\ busy = "no"
  /\ installed' = installed \cup {home} /\ reqs' = Left /\ Unmounted
  /\ UNCHANGED <<chosen, storedBots, home, loading, busy, requests>>

\* What was sent for a list, or will be sent with the ticks of one.
Moved(r) == [r EXCEPT !.moved = @ \/ (IF r.kind = "get" THEN r.pc # "token" ELSE r.pc = "token")]

\* setActiveWorkspaceId; the panel and its requests go on.
Switch(w) ==
  /\ w # home /\ home' = w
  /\ moved' = TRUE /\ reqs' = {Moved(r) : r \in reqs}
  /\ UNCHANGED <<server, connected, shown, ticked, botTicked, channelsOf, touched, loading, busy,
                 requests>>

-----------------------------------------------------------------------------
(* The server and its answers.                                             *)

\* authHeaders: the token is there, the workspace is read.
Send(r) ==
  /\ r.pc = "token"
  /\ reqs' = (reqs \ {r}) \cup {[r EXCEPT !.pc = "sent", !.to = home]}
  /\ UNCHANGED <<server, home, panelVars, loading, busy, requests>>

\* slack_channels_list.
Read(r) ==
  /\ r.kind = "get" /\ r.pc = "sent"
  /\ \/ r.to \in installed
        /\ reqs' = (reqs \ {r}) \cup {[r EXCEPT !.pc = "read", !.found = TRUE,
                                                !.chans = ChannelsOf(r.to),
                                               !.ids = chosen[r.to], !.bots = storedBots[r.to]]}
     \/ /\ r.to \notin installed \/ ChannelFailures
        /\ reqs' = (reqs \ {r}) \cup {[r EXCEPT !.pc = "read"]}
     \/ (r.to \in installed /\ ChannelFailures)
        /\ reqs' = (reqs \ {r}) \cup {[r EXCEPT !.pc = "read", !.found = TRUE]}
  /\ UNCHANGED <<server, home, panelVars, loading, busy, requests>>

\* Mutant of Arrive: the bot ticks are not set.
ArriveWithoutBots(r) ==
  /\ r.kind = "get" /\ r.pc = "read" /\ reqs' = reqs \ {r}
  /\ connected' = r.found /\ shown' = r.chans /\ ticked' = r.ids
  /\ channelsOf' = r.to /\ moved' = r.moved /\ touched' = r.stale
  /\ loading' = FALSE /\ busy' = "no"
  /\ UNCHANGED <<server, home, botTicked, requests>>

\* The rest of refresh, and of the handleSave that waits for it.
Arrive(r) ==
  /\ r.kind = "get" /\ r.pc = "read" /\ reqs' = reqs \ {r}
  /\ connected' = r.found /\ shown' = r.chans /\ ticked' = r.ids /\ botTicked' = r.bots
  /\ channelsOf' = r.to /\ moved' = r.moved /\ touched' = r.stale
  /\ loading' = FALSE /\ busy' = "no"
  /\ UNCHANGED <<server, home, requests>>

\* A request may fail, or do its work and lose its answer.
Outcomes(found) ==
  {[done |-> found, ok |-> found]}
    \cup (IF ChannelFailures THEN [done : {FALSE, found}, ok : {FALSE}] ELSE {})

\* What an answer to nobody changes makes lists stale that were read before.
Others(r) == {IF ~r.own /\ q.pc = "read" THEN [q EXCEPT !.stale = TRUE] ELSE q : q \in reqs \ {r}}

\* slack_channels_save, and the rest of handleSave.
ChannelsSaved(r) ==
  /\ r.kind = "save" /\ r.pc = "sent"
  /\ \E o \in Outcomes(r.to \in installed) :
       /\ chosen' = IF o.done THEN [chosen EXCEPT ![r.to] = r.ids \cap ChannelsOf(r.to)] ELSE chosen
       /\ storedBots' = IF o.done THEN [storedBots EXCEPT ![r.to] = r.bots \cap ChannelsOf(r.to)]
                        ELSE storedBots
       /\ IF r.own /\ o.ok THEN Ask(Others(r), "get", {}, {}) /\ loading' = TRUE /\ busy' = busy
          ELSE /\ reqs' = Others(r) /\ busy' = (IF r.own THEN "no" ELSE busy)
               /\ UNCHANGED <<loading, requests>>
  /\ touched' = (touched \/ ~r.own)
  /\ UNCHANGED <<installed, home, connected, shown, ticked, botTicked, channelsOf, moved>>

\* slack_disconnect, and the rest of handleDisconnect.
Disconnected(r) ==
  /\ r.kind = "disconnect" /\ r.pc = "sent" /\ reqs' = Others(r)
  /\ \E o \in Outcomes(r.to \in installed) :
       /\ installed' = IF o.done THEN installed \ {r.to} ELSE installed
       /\ chosen' = IF o.done THEN [chosen EXCEPT ![r.to] = {}] ELSE chosen
       /\ storedBots' = IF o.done THEN [storedBots EXCEPT ![r.to] = {}] ELSE storedBots
       /\ IF r.own /\ o.ok THEN Unmounted
          ELSE /\ touched' = TRUE
               /\ UNCHANGED <<connected, shown, ticked, botTicked, channelsOf, moved>>
  /\ busy' = IF r.own THEN "no" ELSE busy
  /\ UNCHANGED <<home, loading, requests>>

ChannelNext ==
  \/ OpenPanel \/ RefreshChannels \/ SaveChannels \/ Disconnect \/ Connect
  \/ \E c \in PanelChannels : ToggleChannel(c) \/ ToggleBots(c)
  \/ \E w \in Workspaces : Switch(w)
  \/ \E r \in reqs : Send(r) \/ Read(r) \/ Arrive(r) \/ ChannelsSaved(r) \/ Disconnected(r)

ChannelSpec == ChannelInit /\ [][ChannelNext]_channelVars

-----------------------------------------------------------------------------
(* Properties.                                                             *)

(* The list on screen is one list of one workspace, every tick is in it    *)
(* and a bot tick is on a ticked channel, through switches, saves, panels  *)
(* closed and opened, and answers to requests of earlier ones.             *)
WholeChannelList ==
  /\ botTicked \subseteq ticked /\ ticked \subseteq shown
  /\ shown # {} => shown \subseteq ChannelsOf(channelsOf)

(* A save goes to the workspace whose channels were ticked, unless another *)
(* one was made active between the list's request and the save's own,      *)
(* however long either waits for its token.                                *)
SavedWhereShown ==
  \A r \in reqs : r.kind = "save" /\ r.pc # "token" /\ ~r.moved => r.to = r.of

(* "Re-read from the server so the checkbox state matches what was just    *)
(* persisted": unless somebody has changed one of them since, the ticks    *)
(* are what is stored for the workspace whose channels are shown, wherever *)
(* saves have gone meanwhile.                                              *)
ChannelTicksPersisted ==
  shown # {} /\ ~touched => ticked = chosen[channelsOf] /\ botTicked = storedBots[channelsOf]

(* The panel is about one workspace, though perhaps not the active one.    *)
ChannelsAgree == WholeChannelList /\ SavedWhereShown /\ ChannelTicksPersisted

-----------------------------------------------------------------------------
(* What a reader of the comments would expect, and the code does not give. *)

(* Not so: "workspace-id flips don't disturb live requests": a request     *)
(* goes to the workspace that was active when it was made.                 *)
RequestsKeepWorkspace == \A r \in reqs : r.pc # "token" => r.to = r.at

(* Not so: what is saved for a workspace was ticked in a list of its       *)
(* channels.                                                               *)
SavedChannelsWereShown == \A r \in reqs : r.kind = "save" /\ r.pc # "token" => r.to = r.of
==============================================================================
