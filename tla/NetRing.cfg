SPECIFICATION Spec
CONSTANTS
    Capacity = 3
    Modulus = 6
    Source = "vmm"
    GivesBack = FALSE
INVARIANTS
    EachBufferInOnePlace
PROPERTY
    ImplementsFifo
