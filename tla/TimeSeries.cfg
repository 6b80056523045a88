SPECIFICATION FairSpec
CONSTANTS
    MaxSamples = 4
    MaxDay = 2
    MaxInFlight = 2
    MaxFaults = 2
INVARIANTS
    Inv
    CollectsOneDay
    StoredSamplesSurvive
    NoSampleCountedTwice
    AggregatesAreDated
PROPERTY
    SetDataFinishes
CHECK_DEADLOCK FALSE
