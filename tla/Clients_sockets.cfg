\* One client at a time: two calls and two disconnects of the SDK, two changes
\* of channel on the web, a second service on the desktop, one or two faults.
CONSTANTS
  a = a  b = b  m1 = m1  m2 = m2  None = None
  AutoReconnect = TRUE
  SdkMaxSockets = 6
  SdkMaxCalls = 2
  SdkMaxDisconnects = 2
  SdkMaxFaults = 2
  Channels = {a, b}
  Messages = {m1, m2}
  ChanOf <- MC_ChanOf
  Own = {m1}
  MaxSockets = 5
  MaxAttempts = 2
  MaxSelects = 2
  MaxFaults = 1
  DeskChannels = {a, b}
  DeskMessages = {m1, m2}
  DeskChanOf <- MC_ChanOf
  DeskOwn = {m1}
  DeskMaxSockets = 5
  DeskMaxAttempts = 1
  DeskMaxSelects = 2
  DeskMaxFaults = 1
  DeskNone = None
SPECIFICATION Spec
INVARIANTS SdkInv ChatInv ShownOnce DeskInv DeskOwnChannel
PROPERTIES SdkRecovers StaysShown ChannelReconnects
CHECK_DEADLOCK FALSE
