SPECIFICATION FairSpec
CONSTANTS
    s1 = s1
    s2 = s2
    Streamers <- TwoStreamers
    ChannelCap = 1
    BatchMax = 3
    FillGap = 1
    MaxRows = 3
    MaxFailures = 1
CHECK_DEADLOCK FALSE
INVARIANTS
    TypeOK
    EachRowOnceInOrder
    EmptyWhileWaiting
    DrainedAtExit
    WrittenIsStored
    StatsTellTheTruth
    BatchWaitBounded
PROPERTIES
    SendersUnblock
    ShutdownCompletes
    ImplementsQueue
