CONSTANTS
    r1 = r1
    r2 = r2
    f = f
    s1 = s1
    s2 = s2
    NONE = NONE
    Run <- TwoRuns
    File <- OneFile
    Stamp <- TwoStamps
    MAX_CHANGES = 2
    Mortal <- TwoRuns
SPECIFICATION FairSpec
INVARIANT PidOfHolder
PROPERTY ChangeReported
CHECK_DEADLOCK FALSE
