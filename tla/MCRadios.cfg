SPECIFICATION MCSpec
CHECK_DEADLOCK FALSE
CONSTANTS
    DdRestarts = 2
    DdPipelines = 3
    FmGens = 4
    FmEpochs = 2
    FmRestarts = 1
    FmAutoPlay = TRUE
    FmOvertakes = FALSE
    SrPaths = {p1, p2}
    SrEndpoints = {e1, e2}
    SrKeys <- CSrKeys
    SrThreads = {t1, t2}
    SrMax = 2
    Procs = {x1, x2}
    NodeNums = {1, 2}
    MaxPacketId = 5
    BlockSize = 2
    SerialMode = "listener"
    MaxOpens = 5
    AutoReset = TRUE
    UsbReset = TRUE
    OpenThreshold = 2
    MaxResets = 4
    MaxEpochs = 3
    MqClients = {"c1", "c2"}
    MqMaxAttempts = 2
    OutMsgs = {m1, m2, m3}
    OutMax = 1
    InItems = {i1, i2, i3}
    InMax = 1
    InSources = {lora, mqtt}
    SeenKeys = {k1, k2, k3, k4}
    SeenMax = 2
    SeenClean = 2
    SeenAccepts = 2
    NodeIds = {n0, n1, n2, n3}
    NodeSelf = n0
    NodeMax = 2
    NodeEvery = 2
    RlProcs = {p1, p2}
    RlMax = 1
    RlWindow = 2
    RlTolerance = 0
    RlBehind = 2
    RlEnd = 2
    RlBoots = 2
    HpCallers = {a}
    HpGens = 2
    HpFlights = 2
    HpWorkers = 2
    McThreshold = 2
    McGens = 4
    ObClients = 2
    ObGens = 2
    OmClients = 3
    OmLosses = 2
    OmExpiries = 2
    MbJobs = {e1, e2}
    MbTexts = {t1, t2}
    MbOperators = {o1}
    MbTtl = 1
    MbMax = 2
    MbThreshold = 1
    MbTicks = 2
    MbEvents = 2
    MbToggles = 2
    MrJobs = {j1, j2}
    MrNodes = {m1}
    MrCooldown = 2
    MrMax = 1
    MrTicks = 2
    MrMessages = 3
    MrStops = 1
SYMMETRY Symmetric
INVARIANTS
    PacketIdsSafe
    SerialLinkSafe
    BrokerSessionsEnd
    DonglesHeld
    MeshCoreSafe
PROPERTIES
    RecoveryBounded
    TrafficInOrder
    SerialClaimsHold
    MeshAnswers
