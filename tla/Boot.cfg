SPECIFICATION Spec
CONSTANTS
    N = 3
    Hart = {0, 1, 2}
    MaxRounds = 1
    ChunkWords = 1
INVARIANTS AllRaised InitBeforeMain AllPrinted WokenByMain
PROPERTY EveryHartStarts
CHECK_DEADLOCK FALSE
