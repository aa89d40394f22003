SPECIFICATION FairSpec
CONSTANTS
    Commands = {p1, p2, p3}
INVARIANTS
    Exclusion
    DispatchedOnRecoveredVault
PROPERTIES
    WriterIsServed
