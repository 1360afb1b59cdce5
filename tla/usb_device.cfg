SPECIFICATION Spec
CONSTANTS
  PacketSize = 16
  MaxPacket = 16
  Revision <- MCRevision
  compile_info <- MCCompileInfo
  Issued <- MCIssued
  MaxTimeouts = 1
  MaxResets = 1
PROPERTY InOrder
PROPERTY TruthfulResult
PROPERTY CommandsMeanIt
PROPERTY AllEnds
CHECK_DEADLOCK FALSE
