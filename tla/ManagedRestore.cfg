SPECIFICATION Spec
CONSTANTS
    Database = db
    KeyFile = key
    Files = {db, key, wal}
    Managed = {db, key}
    Content = {c1, c2}
    Absent = absent
SYMMETRY ContentSymmetry
INVARIANTS
    OriginalRecoverable
    AllOrNothing
    RefusalsExplained
    ReportedOutcomeHolds
    NothingLeftBehind
PROPERTIES
    EvidenceKept
    Implements
