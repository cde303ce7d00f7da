CONSTANTS
    MaxVersion = 2
    MaxGen = 4
SPECIFICATION Spec
INVARIANT ReloadedIsFresh
