SPECIFICATION Spec
CONSTANTS
    near = near
    far = far
    Contracts <- NearAndFar
    ExpiryDay <- NearFirst
    Parses <- NearParses
    FarFuture = 99
    Quotes <- SomeLegs
    MinuteLen = 2
    DayMinutes = 2
    BucketLen = 4
    Lookback = 4
    RawKeep = 1
    GraceDays = 1
    MaxTicks = 2
    MaxTime = 8
    MaxFaults = 1
INVARIANTS
    OnlyClosedBuckets
