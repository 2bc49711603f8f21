CONSTANTS
    t1 = t1
    t2 = t2
    Changer <- TwoChangers
    Value <- TwoValues
SPECIFICATION EnvFairSpec
INVARIANT FlagAgrees
PROPERTIES LatestSent ServerFollows
CHECK_DEADLOCK FALSE
