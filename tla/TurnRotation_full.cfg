CONSTANTS
    NUM_PROCESSES = 3
    SHARED_MEM_SIZE = 4
    WordLen <- ShortWords
SPECIFICATION QuietSpec
PROPERTY FullBufferEnds
CHECK_DEADLOCK FALSE
