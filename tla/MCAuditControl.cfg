CONSTANT MaxLaunches = 2
SPECIFICATION Spec
INVARIANTS
    TypeOK
    RestoredAtEnd
    LaunchPolicyKept
    ButtonTellsPolicy
    SourceFollowsAuditing
