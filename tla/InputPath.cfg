SPECIFICATION FairSpec
CONSTANTS
    Clients = {0}
    Keys = {1, 2}
    Batches <- TwoKeys
    EventCap = 3
    BatchEvents = 3
    Managed = {0}
    MaxGen = 1
INVARIANTS HeldStateIsExact PageIsLive
PROPERTIES ReleaseIsOrdered LostConnectionReleases DetachCompletes
CHECK_DEADLOCK FALSE
