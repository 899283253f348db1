------------------------------- MODULE MCClient ------------------------------
(* The browser's side for TLC: the chat page, saved answers and share       *)
(* links, the Gmail label picker and the Slack channel picker.  They share  *)
(* no variable here, so they are checked side by side: part says which of   *)
(* them moves in a behaviour, the others stay as they begin.                *)
EXTENDS ChatClient, SavedAnswers, LabelPicker, ChannelPicker

CONSTANTS a1, inbox, l2, w1, c1, c2

VARIABLE part

\* LabelPicker: every account has an INBOX, the other a label besides.
InboxAndOne(a) == IF a = a1 THEN {inbox} ELSE {inbox, l2}

\* ChannelPicker: w1 and w2 share a channel.
OneIsShared(w) == IF w = w1 THEN {c1, c2} ELSE {c2}

Parts == {"chat", "saved", "labels", "channels"}

\* The pickers begin with what is stored; without it when they do not move.
Still ==
  /\ part = "labels" \/ conns = {}
  /\ part = "channels" \/ (installed = {} /\ home = w1)

Init ==
  /\ part \in Parts
  /\ Still
  /\ ChatInit /\ SavedInit /\ LabelInit /\ ChannelInit

Next ==
  /\ UNCHANGED part
  /\ \/ /\ part = "chat" /\ ChatNext
        /\ UNCHANGED <<savedVars, labelVars, channelVars>>
     \/ /\ part = "saved" /\ SavedNext
        /\ UNCHANGED <<chatVars, labelVars, channelVars>>
     \/ /\ part = "labels" /\ LabelNext
        /\ UNCHANGED <<chatVars, savedVars, channelVars>>
     \/ /\ part = "channels" /\ ChannelNext
        /\ UNCHANGED <<chatVars, savedVars, labelVars>>

Spec == Init /\ [][Next]_<<part, chatVars, savedVars, labelVars, channelVars>>
==============================================================================
