SPECIFICATION SpawnSpec
CONSTANTS
    MaxActive = 2
    Gens = 2
    Originals = {o1, o2, o3}
    NoCap = NoCap
    Children = {c1, c2}
    Extras = 2
    LedgerMax = 2
SYMMETRY Symmetry
INVARIANTS LockStep LoansAreRevocable RunningChildIsWhole FailedSpawnLeavesNothing LedgerIsHonest
