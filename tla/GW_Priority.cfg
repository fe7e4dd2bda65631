SPECIFICATION GatewaySpec
CONSTANTS
    Sources <- MCSources
    Unreadable = Unreadable
    NoSources = NoSources
    NoRequest = NoRequest
    Requests <- MCRequests
    Ports = 2
    Tab = {t1, t2}
    MaxLosses = 1
CHECK_DEADLOCK FALSE
INVARIANTS
    PriorityAsDocumented
