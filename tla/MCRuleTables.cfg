CONSTANTS
    MaxVersion = 2
    MaxGen = 4
SPECIFICATION FairSpec
INVARIANTS
    TypeOK
    ButtonTellsReload
PROPERTIES
    RevertsItsOwn
    TransientEnds
