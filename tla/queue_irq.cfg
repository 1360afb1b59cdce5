SPECIFICATION Spec
CONSTANTS
  Size <- MCSize
  Laps <- MCLaps
  UsbIrq = TRUE
  HostResets = TRUE
  KeepAlive = 2
  ClkModulus = 4
  MaxFrames = 9
INVARIANT QueuedWhole
INVARIANT QueuedInOrder
PROPERTY CompleteUntouched
CHECK_DEADLOCK FALSE
