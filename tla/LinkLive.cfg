SPECIFICATION LiveSpec
CONSTANTS
    SocketTicks = 3
    LoginTicks = 2
    Servers = {2}
    Lates = 1
PROPERTIES
    Failover
    EventuallyLoggedIn
