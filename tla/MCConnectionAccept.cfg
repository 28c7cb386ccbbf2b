CONSTANTS
    CLIENT_ISN = 0
    SERVER_ISN = 0
    FIN_SEQ = 0
    DataAcks = {1}
    MaxInFlight = 1
SPECIFICATION FairSpec
PROPERTIES ConnectedIsAccepted
CHECK_DEADLOCK FALSE
