SPECIFICATION ServicesSpec
CONSTANTS
    h1 = h1
    h2 = h2
    anon = anon
    mask = mask
    none = none
    Sockets = {w1, w2}
    MaxSessions = 1
    Capacity = 2
    MaxLines = 4
    MaxMs = 2
    Late = 1
    RoCallers = {c1, c2}
    RoConns = {k1, k2, k3, k4}
    RoNone = none
    RoBase = 1
    RoTop = 2
    RoMaxTime = 2
    LwClients = {w1, w2}
    LwSenders = {loop, scan}
    LwLoop = loop
    LwNobody = nobody
    LwMaxChange = 2
    CfHosts = {h1, h2}
    CfAnon = anon
    CfNone = none
    CfMask = mask
    CfNets = {1}
    CfBadNets = 0
    CfLists <- HostLists
    CfTemplate <- Template
    CfJobs = {j1, j2}
    CfMaxTime = 1
    CfMaxWrites = 2
    TlRequests = {q1, q2, q3, q4}
    TlStreams = {q1}
    TlMax = 2
    TlWindow = 2
    TlMaxTime = 2
INVARIANT ServicesTypeOK
INVARIANT LimitKept
INVARIANT ClosedCleanly
INVARIANT LinesAccounted
INVARIANT PageWhole
INVARIANT OneConnection
INVARIANT UpdateReachesAll
INVARIANT SecretsStay
INVARIANT BackupKept
INVARIANT WindowKept
PROPERTY SlotsFreed
PROPERTY LinesSettle
PROPERTY RunAnswers
PROPERTY PageCatchesUp
PROPERTY CommandsEnd
CHECK_DEADLOCK FALSE
