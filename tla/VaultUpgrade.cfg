SPECIFICATION FairSpec
CONSTANTS
    Ids = {v1, v2}
    Draws = {d1, d2}
    None = none
INVARIANTS
    RecoveryDecides
    BackupsOpen
PROPERTIES
    MutationBackedUp
    UpgradeCompletes
