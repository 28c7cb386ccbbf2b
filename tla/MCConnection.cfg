CONSTANTS
    CLIENT_ISN = 0
    SERVER_ISN = 0
    FIN_SEQ = 0
    DataAcks = {1}
    MaxInFlight = 2
SPECIFICATION FairSpec
INVARIANTS AcceptedIsConnected ClosedByBoth ConnectionInv
PROPERTIES ImplementsLifecycle ClientConnects CloseReturns
CHECK_DEADLOCK FALSE
