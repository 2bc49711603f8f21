CONSTANTS
    p1 = p1
    c1 = c1
    c2 = c2
    NONE = NONE
    Prod <- OneProd
    Cons <- TwoCons
    MAX_RECORD = 2
    FILE_SIZE = 4
    MAX_ADDS = 3
    Len <- LenOfThree
    Mortal <- OneProd
SPECIFICATION Spec
INVARIANTS OneAtATime KeptOnlyEmpty FileOfWholeLines RecordsConserved
SYMMETRY ConsumersAlike
CHECK_DEADLOCK FALSE
