SPECIFICATION Spec
CONSTANTS
    None = None
    CmdTimeout = 3
    DataTimeout = 2
    InitDelay = 1
    FifoSize = 2
    MaxReq = 2
    Deadline = 7
    Kinds <- MCKinds
INVARIANTS TypeOK ResponseIsOwn DataSuccessIsReal  WatchdogFirst
PROPERTIES SuccessLeavesQuiet EveryRequestDone
