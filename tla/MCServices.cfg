SPECIFICATION MCSpec
CHECK_DEADLOCK FALSE
CONSTANTS
    Users = {u1}
    Plugins = {p1}
    Threshold = 2
    IpGens <- CIpGens
    Name <- CName
    Boot <- CBoot
    Deps <- CDeps
    Api <- CApi
    PlNone = "none"
    Insts = {"radio1", "bridge1", "bridge2"}
    Slow = {"bridge1"}
    PlFailing = {"radio1", "bridge2"}
    Vanishing = {"radio1"}
    EarlyRequests = FALSE
    MgReleases = 2
    MgRetain = 1
    MgRows = {1, 2}
    MgRuns = 3
    AtProcs = {1}
    AtReleases = {1, 2, 3}
    AtFeatureSets <- CAtFeatureSets
    AtRetain = 2
    AtInstalled = {0, 2}
    AtMaxRuns = 2
    AtMaxRecovers = 1
    AnSubs = {s1}
    AnCount = 4
    AnQueueMax = 1
    AnBoxMax = 2
    AnSlow = 1
    WpKind = "bus"
    WpTasks = {w1, w2, w3}
    WpWorkers = {v1, v2}
    WpMax = 2
    DsTokens = {k1, k2}
    DsSockets = {s_1, s_2}
    DsMaxSessions = 1
    DsMaxSockets = 1
    DsPasswords = 3
    DsCrashes = 1
    DsValidators <- CDsValidators
    DfClients = {f1, f2}
    DfValues <- CDfValues
    DfChanges = 2
    DfResync = 2
    BrPlugins = 3
    AcVersions = 3
    AcRequests = {r1, r2}
    TlVersions = 3
    RsRequests = {q1, q2, q3}
    TcFetchers = {p1, p2, p3}
    TcTiles = {t1, t2, t3}
    TcMax = 2
    TfPrimary = {h1, h2}
    TfMaxFlips = 3
    TaTimers = {m1, m2}
    TpHubs = {h1, h2, h3}
    TpCommunity = {h1, h2}
    TpListed = {h2}
    TpAlias = {h1}
    TpTarget = 1
    TpCap = 3
    TePeers = {p1, p2, p3}
    TeMax = 2
    TeAnnounces = 4
    ThNodes = {n1}
    ThDown = 2
    ThChecks = 16
    FtLinks = {l1, l2}
    FsJobs = {u1, u2}
    FsNames = {0, 1, 2}
    FsMaxCrashes = 1
    RqCommands = {1, 2, 3}
    CbCalls = {b1, b2}
SYMMETRY Symmetric
INVARIANTS
    StoppedIsInactive
    MigrationsUndone
    VisitorsServed
PROPERTIES
    SessionsGuarded
    HungIsFinal
    DispatchOrdered
    DashboardTruthful
    TransactionsAtomic
    
    PluginsContained
    ProbeHysteresis
