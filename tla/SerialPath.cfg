SPECIFICATION FairSpec
CONSTANTS
    RxCapacity = 2
    TxCapacity = 1
    Chunk = 1
    MaxGen = 1
    MaxTyped = 3
    MaxPrinted = 4
CHECK_DEADLOCK FALSE
INVARIANTS NoByteOutlivesItsGuest
PROPERTIES OutputIsDrained InputReachesGuest 
