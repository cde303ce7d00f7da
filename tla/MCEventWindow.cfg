CONSTANTS
    mdns = mdns
    mdnsRule = mdnsRule
    tcp = tcp
    Kinds <- MCKinds
    Key <- MCKey
    PassSets <- MCPassSets
    NoiseSets <- MCNoiseSets
    Requests <- MCRequests
    MinWindowSize = 2
    MaxWindowSize = 4
    MaxBatch = 2
    MaxArrivals = 5
SPECIFICATION Spec
INVARIANTS
    TypeOK
    WindowBounded
    CaptureContiguous
    ClearedStayCleared
    NoHoles
    VisiblePasses
    RowsAccountForVisible
    RowsPublished
PROPERTIES
    PausedFrozen
