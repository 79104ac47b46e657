SPECIFICATION Spec
CONSTANTS
    Second = 4
    DayLen = 24
    Offsets <- ClocksDiffer
    RefreshInterval = 12
    VacuumEvery = 3
    MaxJob = 3
    MaxRuns = 6
INVARIANTS
    TypeOK
    VacuumNotOverdue
    RepeatsBounded
PROPERTIES
    NoDaySkipped
    RunsNearTarget
