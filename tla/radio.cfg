SPECIFICATION RadioSpec
CONSTANTS
  Wrap = 23
  Period = 11
  MaxTime = 80
  TX_ENABLE = TRUE
  Modes = {"EGO_FOLLOW", "EGO_CONTINUOUS_RX", "EGO_JAM", "other"}
INVARIANT NoChannelTwice
INVARIANT HeardRight
INVARIANT EgoInStep
PROPERTY HopEnds
CHECK_DEADLOCK FALSE
