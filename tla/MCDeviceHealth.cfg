SPECIFICATION FairSpec
CONSTANTS
  d1 = d1
  d2 = d2
  Devices = {d1, d2}
  s1 = s1
  Streams = {s1}
  NoDevice = NoDevice
  MaxFlips = 2
CHECK_DEADLOCK FALSE
INVARIANTS
  TypeOK
  PublishedOrSignalled
  CopyMatchesFlags
  SenderHasReceiver
  NoLostWakeup
PROPERTIES
  PublishedSettles
  ViewSettles
  Heartbeat
  ShutdownCompletes
  ImplementsStreams
