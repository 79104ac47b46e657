SPECIFICATION Spec
CONSTANTS
    s1 = s1
    s2 = s2
    Streamers <- TwoStreamers
    DayLen = 8
    Opens = 2
    Closes = 6
    InactiveSwitch = 2
    IdlePoll = 2
    TicksPerUnit = 2
PROPERTIES
    QuietStaysIdle
