CONSTANTS
    root = root
    f = f
    d = d
    u = u
    f2 = f2
    g = g
    x = x
    none = none
    Entry <- Tree
    START <- root
    Parent <- TreeParent
    Dirs <- TreeDirs
    FileOf <- TreeFile
    Inode <- TreeInode
    Bytes <- TreeBytes
    Unreadable <- UUnreadable
    Unstatable <- XUnstatable
    BUFFER_SIZE = 2
    MAX_INODES = 4
    NIL <- none
SPECIFICATION ScanFairSpec
INVARIANTS TotalExact ScanComplete
PROPERTIES ImplementsStream Termination
CHECK_DEADLOCK FALSE
