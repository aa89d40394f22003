SPECIFICATION FairSpec
CONSTANTS
    MachineKeys = {k1, k2, k3, k4}
    Wrappings = {w1, w2}
    None = none
    MaxGeneration = 4
    Records = {r1, r2, r3}
INVARIANTS
    MachineRecordsOpen
    ClearedMeansSanitized
    RetiredOnce
    CommitPointDecides
PROPERTIES
    SanitizationCompletes
    BundlesSucceed
