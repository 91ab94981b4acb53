SPECIFICATION Spec
CONSTANTS
  d1 = d1
  Devices = {d1}
  s1 = s1
  Streams = {s1}
  NoDevice = NoDevice
  MaxFlips = 1
CHECK_DEADLOCK FALSE
PROPERTIES
  FreshAtSend
