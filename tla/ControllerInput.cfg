SPECIFICATION FairSpec
CONSTANTS
    Limit = 1
    CircularRange = 2
    MapSize = 2
    FeedForward = {0, 1}
    MaxInputs = 2
INVARIANTS
    TypeOK
    NoTransientFromRest
    SettledAtInput
    MapComplete
PROPERTIES
    SetpointFollows
