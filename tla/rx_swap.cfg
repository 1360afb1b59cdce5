SPECIFICATION Spec
CONSTANT Channels <- MCChannels
INVARIANT ActiveIsWritten
