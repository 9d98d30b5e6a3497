\* The web client alone: the socket of an earlier channel comes back and shows its messages.
CONSTANTS
  a = a  b = b  m1 = m1  m2 = m2  None = None
  AutoReconnect = TRUE
  SdkMaxSockets = 1
  SdkMaxCalls = 0
  SdkMaxDisconnects = 0
  SdkMaxFaults = 0
  Channels = {a, b}
  Messages = {m1, m2}
  ChanOf <- MC_ChanOf
  Own = {}
  MaxSockets = 4
  MaxAttempts = 1
  MaxSelects = 2
  MaxFaults = 0
  DeskChannels = {a, b}
  DeskMessages = {m1, m2}
  DeskChanOf <- MC_ChanOf
  DeskOwn = {m1}
  DeskMaxSockets = 2
  DeskMaxAttempts = 1
  DeskMaxSelects = 0
  DeskMaxFaults = 0
  DeskNone = None
SPECIFICATION Spec
INVARIANT OnlyCurrentChannel
CHECK_DEADLOCK FALSE
