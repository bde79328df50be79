SPECIFICATION Spec
CONSTANTS
    MaxActive = 2
    Gens = 3
    MaxLoans = 7
INVARIANTS StaleIdIsInert OpenIsClosable
