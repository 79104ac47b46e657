SPECIFICATION Spec
CONSTANTS
    t1 = t1
    t2 = t2
    Ticks <- MCTicks
    IndexOf <- MCIndexOf
    MinuteLen = 2
    DayMinutes = 2
    RawKeep = 1
    MinuteKeep = 4
    DayKeep = 5
    MaxTime = 7
    MaxFaults = 1
    BucketLen = 4
    Lookback = 5
    Prices = {1, 2}
SYMMETRY SameIndex
INVARIANTS
    TypeOK
    OnTimeTicksKept
    RolledUp
    WholeMinuteBars
    WholeDayBars
    IndexAnswersAreTrue
PROPERTIES
    BarsNeverShrink
    ImplementsLedger
