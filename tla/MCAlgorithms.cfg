SPECIFICATION MCSpec
CONSTANTS
    Names <- MCNames
    Declarations <- MCDeclarations
    MinLimit = 0
    MaxLimit = 8
    InitialLimit = 3
    Alpha = 1
    Smoothing = 20
    WindowSize = 10
    Latencies = {10, 40}
    ShedLatency = 1
    MaxShifts = 2
    Scale = 10
    CORSConfigs <- MCConfigs
    CorsRequests <- MCRequests
    Segments <- MCSegments
    MaxInt = 11
    FloatDigits = 2
    Objects <- MCObjects
    Height <- MCHeight
    MaxI64 = 3
    MaxU64 = 7
    MaxI128 = 8
    MaxDepth = 3
    NONE = none
INVARIANTS
    EachOnce
    NeedsSupplied
    CycleVerdictExact
    LimitInRange
    CorsAgrees
    CoercionExact
    JsonMeaningKept
PROPERTY Recovers
CHECK_DEADLOCK FALSE
