SPECIFICATION CommandsSpec
CONSTANTS
    Policies <- MCPolicies
    Keys = {k1, k2}
    None = none
    MaxGeneration = 3
    Unset = unset
    p = p
    q = q
    d = d
    e = e
    n = n
    k1 = k1
    k2 = k2
    c1 = c1
    c2 = c2
    Projects = {p, q}
    Environments = {d, e}
    Visible = {n}
    Hidden = {h}
    Scopes <- MCScopes
    Commands = {c1, c2}
    MaxRecords = 2
SYMMETRY Symmetry
INVARIANTS
    RecoveryDecides
    ReportedChangeHolds
    RecordsFollowPolicy
    RecordsOpen
    RunsAreAuthorized
    ChangeHasKeys
    EvaluationMeansRules
PROPERTIES
    ChangesAtCommit
    BulkDeletesWhatWasConfirmed
CHECK_DEADLOCK FALSE
