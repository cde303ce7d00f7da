CONSTANTS
    ChanCap = 1
    MaxEntries = 3
    MaxPoll = 2
    MaxSources = 3
SPECIFICATION FairSpec
INVARIANTS
    TypeOK
    SingleProducer
PROPERTIES
    FeedSpec
    StopTerminates
    Delivered
    Quiesces
