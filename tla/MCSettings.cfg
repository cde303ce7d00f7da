CONSTANTS
    MinWindowSize = 2
    MaxWindowSize = 4
    DefaultSize = 4
    DeclaredWidth = 1
    Columns <- MCColumns
    HiddenDefault <- MCHiddenDefault
    Widths <- MCWidths
    Requests <- MCRequests
    NoisePortSets <- MCNoisePortSets
    TimeFormats = {"local", "utc"}
    DefaultTime = "local"
    Bars <- MCBars
    HandWritten <- MCHandWritten
    Events <- MCEvents
    Within <- MCWithin
    MaxChanges = 1
    MaxLaunches = 3
SPECIFICATION Spec
CHECK_DEADLOCK FALSE
INVARIANTS
    TypeOK
    PreferencesSurvive
    LayoutSurvives
    OrderAlwaysValid
    NegateComplements
