SPECIFICATION Spec
CONSTANTS
    ManagedFiles = 1
    MaxRestores = 3
INVARIANTS
    TreeOK
    VaultWhole
    OriginalsKept
    RefusalsExplained
    LeftoversExplained
PROPERTIES
    SettledExactly
CHECK_DEADLOCK FALSE
