CONSTANTS
    ChanCap = 1
    MaxEntries = 2
    MaxPoll = 1
    MaxSources = 2
SPECIFICATION Spec
PROPERTIES
    AbortedReadIsSilent
