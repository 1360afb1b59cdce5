SPECIFICATION FairSpec
CONSTANT Channels <- MCChannels
INVARIANT TypeOK
INVARIANT BufferParity
INVARIANT PacketWhole
INVARIANT RetunedMarked
PROPERTY StopHonoured
