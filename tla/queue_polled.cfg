SPECIFICATION FairSpec
CONSTANTS
  Size <- MCSize
  Laps <- MCLaps
  UsbIrq = FALSE
  HostResets = TRUE
  KeepAlive = 2
  ClkModulus = 4
  MaxFrames = 7
INVARIANT TypeOK
PROPERTY FifoSpec
PROPERTY StreamAlive
PROPERTY EventuallySent
