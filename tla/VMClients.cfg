SPECIFICATION Spec
CONSTANTS
    Configured = {"PRIMARY", "SECONDARY"}
    Console = TRUE
    Vibe = TRUE
    Word = 4
INVARIANTS HandleOwnsSlot 
PROPERTIES NoVmIsLost HandleNeverReissued
CHECK_DEADLOCK FALSE
