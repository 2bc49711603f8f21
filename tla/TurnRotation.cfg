CONSTANTS
    NUM_PROCESSES = 2
    SHARED_MEM_SIZE = 8
    WordLen <- ShortWords
SPECIFICATION FairSpec
INVARIANTS TypeOK PrintedInTurn
PROPERTY TurnGoesRound
CHECK_DEADLOCK FALSE
