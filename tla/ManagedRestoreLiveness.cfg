SPECIFICATION FairSpec
CONSTANTS
    Database = db
    KeyFile = key
    Files = {db, key}
    Managed = {db, key}
    Content = {c1}
    Absent = absent
PROPERTIES
    Converges
