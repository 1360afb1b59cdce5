SPECIFICATION FairSpec
INVARIANT IdleIsQuiet
INVARIANT PolledAlone
INVARIANT DmaServed
PROPERTY RequestHonoured
