CONSTANTS
    c1 = c1
    c2 = c2
    Consumers <- MCConsumers
    NumPartitions = 2
    SegmentMessages = 1
    BatchSize = 2
    MaxMessages = 3
    MaxRestarts = 0
    MaxTornWrites = 0

SPECIFICATION LifeSpec

INVARIANTS
    TypeOK
    SegmentsTileLog
    PollLinearizable
    ConsumedInOrder
