SPECIFICATION FairSpec
CONSTANTS
    Clients = {0, 1}
    Keys = {1}
    Batches <- OneKey
    EventCap = 2
    BatchEvents = 2
    Managed = {0}
    MaxGen = 0
PROPERTY ReleasesAreIndependent
CHECK_DEADLOCK FALSE
