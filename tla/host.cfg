SPECIFICATION Spec
CONSTANTS
  Scripts <- Given
  PKTS_PER_XFER = 2
  Numbers = 4
  Callbacks <- CallbacksUsed
  NUM_BANKS = 2
  Channels <- FewChannels
  Heard = {0, 1}
  Levels = {0, 1}
  Starts = {35}
  Gaps = {6, 19}
  Wrap = 50
  Modulus = 66
  Slot = 25
  Preamble = 16
  CLK_TUNE_TIME = 9
  Offsets = {0, 20}
  packet_counter_max = 2
  Laps = {1, 2}
  Inquiry = {2}
  Limit = 1
  MaxPackets = 4
INVARIANT PacketsKept
INVARIANT HandleHeld
INVARIANT ReportsRight
PROPERTY HostEnds
CHECK_DEADLOCK FALSE
