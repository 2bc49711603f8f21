SPECIFICATION FairSpec
CONSTANTS
    a = a
    b = b
    NUM_PORTS = 2
    MAX_CLIENTS = 2
    Client <- TwoClients
    Messages = 1
INVARIANTS TableIsTheConnections NeverWaitsForOne
PROPERTIES EveryMessageRead StopsOnSignal
CHECK_DEADLOCK FALSE
