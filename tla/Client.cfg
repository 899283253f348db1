\* Safety of the client, each component on its own.
SPECIFICATION Spec
CONSTANTS
  a1 = a1
  inbox = inbox
  l2 = l2
  w1 = w1
  c1 = c1
  c2 = c2
  \* ChatClient: three questions, one clear, failures
  MaxTurns = 3
  MaxClears = 1
  Failures = TRUE
  \* SavedAnswers: one member, one reader, requests that fail
  Slots = {1, 2}
  Members = {m1}
  Readers = {r1}
  MaxShown = 2
  MaxSaves = 2
  MaxLinks = 1
  MaxLoads = 2
  \* LabelPicker: two accounts, requests that fail
  NoAccount = none
  Labels = {inbox, l2}
  LabelsOf <- InboxAndOne
  Accounts = {a1, a2}
  LabelFailures = TRUE
  MaxLabelLoads = 3
  MaxLabelSaves = 1
  \* ChannelPicker: two workspaces, switched at any time; a slow token; requests that fail
  NoWorkspace = none
  PanelChannels = {c1, c2}
  ChannelsOf <- OneIsShared
  Workspaces = {w1, w2}
  SlowHeaders = TRUE
  ChannelFailures = TRUE
  MaxRequests = 3
INVARIANTS TurnIsWhole SavedAgree LabelsAgree ChannelsAgree
CHECK_DEADLOCK FALSE
