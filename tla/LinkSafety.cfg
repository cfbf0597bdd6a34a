SPECIFICATION BoardSpec
CONSTANTS
    SocketTicks = 4
    LoginTicks = 2
    Servers = {1}
    Lates = 1
INVARIANTS
    TypeOK
    SendsOnOpenedSocket
    AcceptedSession
    HeartbeatNeedsLogin
PROPERTIES
    DeadLinkDetected
