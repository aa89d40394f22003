SPECIFICATION FairSpec
CONSTANTS
    Char <- MCChar
    Values <- MCValues
    MinLeakLength <- MCMinLeakLength
    Texts <- MCTexts
    Kinds <- MCKinds
    Procs = {l, d}
    Leader = l
INVARIANTS
    NoSecretForwarded
    CleanExitIsComplete
PROPERTIES
    ConfirmedMeansListedDead
    TerminationEnds
CHECK_DEADLOCK FALSE
