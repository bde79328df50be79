SPECIFICATION FairSpec
CONSTANTS
    Window = 2
    Cells = 2
    Capacity = 2
    Sectors = 6
    Shapes <- SomeShapes
    MaxPass = 2
    MaxPosted = 2
    MaxErrors = 1
    MaxGen = 1
INVARIANTS NoWriteIsLost  CompletionReachesGuest DetachIsClean
CHECK_DEADLOCK FALSE
PROPERTIES  DrainAndStagingEnd
