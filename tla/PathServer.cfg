CONSTANTS
    c1 = c1
    c2 = c2
    r = r
    a = a
    q = q
    b = b
    k = k
    f = f
    NONE = NONE
    Client <- TwoClients
    Single <- SecondSingle
    Dir <- Tree
    Other <- Files
    Parent <- TreeParent
    Locked <- Closed
    Hidden <- Unexamined
    Trees <- TwoTrees
    Asked <- RootOrFile
    BACKLOG = 1
    MAX_ASKS = 2
    MAX_CHANGES = 1
SPECIFICATION ServerFairSpec
INVARIANTS AnswerIsMine ListingComplete
PROPERTIES AnswerComes ZombiesReaped
CHECK_DEADLOCK FALSE
