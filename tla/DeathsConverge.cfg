SPECIFICATION Spec
CONSTANTS
    Database = db
    KeyFile = key
    Files = {db, key, wal}
    Managed = {db, key}
    Content = {c1, c2}
    Absent = absent
INVARIANT
    DeathsConverge
