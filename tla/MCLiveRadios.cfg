SPECIFICATION MCSpec
CHECK_DEADLOCK FALSE
CONSTANTS
    None = "none"
    Regs = {"wx", "ais", "ism"}
    Owner <- COwner
    Prio <- CPrio
    Gens <- CGens
    Ids <- CIds
    Outsiders = {}
    Override = TRUE
    Unplugs = FALSE
    Capturing = {}
    Stopping = {}
    Failing = {}
    Shutdowns = FALSE
    MaxRestarts = 1
    DdRestarts = 1
    DdPipelines = 2
    FmGens = 2
    FmEpochs = 2
    FmRestarts = 1
    FmAutoPlay = FALSE
    FmOvertakes = FALSE
    SerialMode = "listener"
    MaxOpens = 2
    AutoReset = TRUE
    UsbReset = TRUE
    OpenThreshold = 2
    MaxResets = 2
    MaxEpochs = 2
    MqClients = {"c1", "c2"}
    MqMaxAttempts = 1
    OutMsgs = {m1, m2}
    OutMax = 1
    InItems = {i1, i2}
    InMax = 1
    InSources = {lora, mqtt}
    SeenKeys = {k1, k2, k3, k4}
    SeenMax = 2
    SeenClean = 2
    SeenAccepts = 2
    NodeIds = {n0, n1, n2, n3}
    NodeSelf = n0
    NodeMax = 2
    NodeEvery = 2
    HpCallers = {a}
    HpGens = 1
    HpFlights = 2
    HpWorkers = 1
    Msgs = {x}
    Radio <- CRadio
    Kind <- CKind
    Broadcasts = {}
    QueueMax = 1
    PendingMax = 1
    MaxLives = 1
    McThreshold = 1
    McGens = 3
    OmClients = 3
    OmLosses = 2
    OmExpiries = 2
    ObClients = 1
    ObGens = 2
PROPERTIES
    MessagesSettle
    DonglesServed
    LinksSettle
