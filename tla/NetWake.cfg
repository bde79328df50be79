SPECIFICATION FairSpec
CONSTANTS
    Capacity = 2
    HostFrames = 2
    Passes = 2
INVARIANTS
    
    NobodySleepsOnWork
PROPERTIES
    TxIsDrained
    PolledRxIsPulled
