SPECIFICATION BarrierSpec
CONSTANTS
    Hart = {h0, h1, h2, h3}
    MaxRounds = 3
INVARIANTS NobodyPassesEarly
PROPERTY ImplementsRendezvous
CHECK_DEADLOCK FALSE
