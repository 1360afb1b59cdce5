SPECIFICATION Spec
CONSTANTS
  Size <- MCSize
  Laps <- MCLaps
  UsbIrq = TRUE
  HostResets = FALSE
  KeepAlive = 2
  ClkModulus = 4
  MaxFrames = 9
INVARIANT DeliveredWhole
CHECK_DEADLOCK FALSE
