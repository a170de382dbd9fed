SPECIFICATION Spec
CONSTANTS
    FullWidth = 4
    NarrowWidths = {2, 3}
    CounterPolicy <- MCCounterPolicy
    Word = 16
    Scale = 4
    DeclaredSubjects <- MCDeclared
    DerivePolicy <- MCDerivePolicy
    AggregateLimits <- MCAggregateLimits
    MaxAggregated = 6
    Device = 1
    Bits = 2
    DeclaredWidth = 2
    Reports <- MCReports
    Increments = {1, 2}
    Restarted = {3}
    MaxDropped = 2
    MaxReadings = 3
    MaxFaults = 1
    MaxQueries = 2
    MaxHeld = 3
INVARIANTS
    TypeOK
    LossIsReal
    EachItemHeard
    RecoveredTaints
    AggregatesAreReal
    BucketsAreComplete
CHECK_DEADLOCK FALSE
