SPECIFICATION FairSpec
CONSTANTS MaxChunks = 2
PROPERTIES ImplementsStream CloseEndsTunnel NextWriteTells
CHECK_DEADLOCK FALSE
