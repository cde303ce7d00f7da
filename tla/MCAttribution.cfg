CONSTANTS
    Snapshots <- MCSnapshots
    Events <- MCEvents
    Processes = {"svc", "other"}
    Dumps <- MCDumps
    Limit = 1
    MaxLoads = 2
SPECIFICATION Spec
INVARIANTS
    TypeOK
    NeverMisleads
    MatchedIsBest
    FiltersKeepTheirNames
    BroadNeverOutranks
    DetailAgrees
