SPECIFICATION FairSpec
CONSTANTS
    t1 = t1
    t2 = t2
    Ticks <- MCOneTick
    IndexOf <- MCOneTickIndexOf
    MinuteLen = 2
    DayMinutes = 2
    RawKeep = 1
    MinuteKeep = 1
    DayKeep = 1
    MaxTime = 5
    MaxFaults = 1
    BucketLen = 4
    Lookback = 5
    Prices = {1, 2}
PROPERTIES
    TicksReachBars
    TiersCatchUp
