SPECIFICATION FairSpec
CONSTANTS
    Window = 2
    Cells = 2
    Capacity = 2
    Sectors = 6
    Shapes <- SomeShapes
    MaxPass = 4
    MaxPosted = 2
    MaxErrors = 0
    MaxGen = 0
CHECK_DEADLOCK FALSE
PROPERTY NoRetryNeedsAGuestExit
