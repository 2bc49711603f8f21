SPECIFICATION FairSpec
CONSTANTS
    sub = sub
    f = f
    g = g
    ROOT = ROOT
    NONE = NONE
    Run = {1, 2}
    Mortal = {1, 2}
    Relative = {2}
    Sub <- Subs
    File <- Files
    dir <- Where
    Time <- Times
    Size <- Sizes
    MAX_CHANGES = 2
INVARIANTS OneDaemon DeletedWasMissing
PROPERTIES StopsAndFrees ChangeReported
CHECK_DEADLOCK FALSE
