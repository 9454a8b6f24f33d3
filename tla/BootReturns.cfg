SPECIFICATION Spec
CONSTANTS
    N = 2
    Hart = {0, 1}
    MaxRounds = 1
    ChunkWords = 1
PROPERTY MainReturns
CHECK_DEADLOCK FALSE
