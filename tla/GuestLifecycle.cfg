SPECIFICATION FairSpec
CONSTANTS
    Enabled = {"NET", "BLK", "SERIAL", "INPUT", "GRAPHICS"}
    MaxGen = 2
INVARIANTS
    NoRevokedBacking
    PublishedGuestIsWhole
    DeadHoldsNothing
PROPERTIES
    AdmissionStops
    ImplementsContract
    DestroyCompletes
    CleanupCompletes
