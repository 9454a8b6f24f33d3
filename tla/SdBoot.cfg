SPECIFICATION Spec
CONSTANTS
    End = 4
    Alt = 12
    Ram = 17
    Space = 20
    Chunk = 3
    MAX_BLOCK_CNT = 2
    SectorBytes = 2
    DtbSize = 2
    DtbSlack = 1
    Page = 2
    Cards <- TheCards
    NoCard <- Empty
    MaxSwaps = 2
    MaxFaults = 1
INVARIANTS ImageInPlace DtbInPlace ScratchIntact
PROPERTY Boots
CHECK_DEADLOCK FALSE
