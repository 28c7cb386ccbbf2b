CONSTANTS
    CLIENT_ISN = 0
    SERVER_ISN = 0
    FIN_SEQ = 0
    DataAcks = {1}
    MaxInFlight = 2
SPECIFICATION Spec
INVARIANTS FinAckIsForFin
CHECK_DEADLOCK FALSE
