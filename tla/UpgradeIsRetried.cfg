SPECIFICATION Spec
CONSTANTS
    Ids = {v1}
    Draws = {d1}
    None = none
INVARIANT UpgradeIsRetried
