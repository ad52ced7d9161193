SPECIFICATION MCSpec
CHECK_DEADLOCK FALSE
CONSTANTS
    Users = {u1}
    Plugins = {}
    Threshold = 2
    IpGens <- CIpGens
    Name <- CName
    Boot <- CBoot
    Deps <- CDeps
    Api <- CApi
    PlNone = "none"
    Insts = {"radio1", "bridge1"}
    Slow = {"bridge1"}
    PlFailing = {"radio1"}
    Vanishing = {"radio1"}
    EarlyRequests = FALSE
    AnSubs = {s1}
    AnCount = 3
    AnQueueMax = 2
    AnBoxMax = 1
    AnSlow = 1
    WpKind = "executor"
    WpTasks = {w1, w2}
    WpWorkers = {v1, v2}
    WpMax = 2
    DsTokens = {k1, k2}
    DsSockets = {w1}
    DsMaxSessions = 2
    DsMaxSockets = 1
    DsPasswords = 2
    DsCrashes = 0
    DsValidators <- CDsValidators
    DfClients = {f1}
    DfValues <- CDfValues
    DfChanges = 3
    DfResync = 2
    BrPlugins = 3
    AcVersions = 2
    AcRequests = {r1}
    TlVersions = 2
    RsRequests = {q1}
    TcFetchers = {p1}
    TcTiles = {t1}
    TcMax = 2
    TfPrimary = {h1, h2}
    TfMaxFlips = 3
    TaTimers = {m1, m2}
    TpHubs = {h1}
    TpCommunity = {h1}
    TpListed = {h2}
    TpAlias = {h1}
    TpTarget = 1
    TpCap = 3
    TePeers = {p1, p2, p3}
    TeMax = 2
    TeAnnounces = 4
    ThNodes = {n1}
    ThDown = 2
    ThChecks = 2
PROPERTIES
    ServicesGoOn
    DashboardFollows
    ApplicationGoesOn
