SPECIFICATION FairSpec
CONSTANTS
    Rounds = 5
    BUFFER_SIZE = 20
INVARIANTS
    OneTurn
    PassedToPartner
    PrintsTheText
PROPERTIES
    TextByTurns
    BothFinish
CHECK_DEADLOCK FALSE
