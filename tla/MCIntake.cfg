SPECIFICATION MCSpec
CHECK_DEADLOCK FALSE
CONSTANTS
    HiMsg <- CHiMsg
    OldRow <- COldRow
    HistoryLimit = 1
    PruneGap = 1
    HiWallMax = 2
    HiLives = 2
    Reactions <- CReactions
    SnWriters = {t1, t2}
    Snappers = {"s1"}
    CastTtl = 2
    CastMin = 1
    ConvTtl = 2
    SnTimeMax = 3
    PnNodes = {"n1", "n2", "n3"}
    PnHops = {1, 2}
    PnKept = 2
    PnFailsMax = 3
    PnStale = 2
    PnTimeMax = 2
    PnFailing = {"f1"}
    NiProcs = {t1, t2}
    NiKeys = 3
    NiRestoresMax = 1
    NiEditsMax = 1
    CfCalls = {"c1", "c2"}
    CfCallsMax = 3
    CfHasPath = TRUE
    SdMsgs = {"m1", "m2"}
    SdReceipts = {"m2"}
    SdLinks = 2
    RdThreads = {t1, t2}
    UbDevices = {"a", "b", "p"}
    UbPlain = {"p"}
    UbThreads = {t1, t2}
    UbPlugsMax = 2
    NnDays = 1
    NnHearsMax = 2
    NsCallers = {t1, t2}
    NsListsMax = 4
    ChCalls = {t1, t2}
    ChSlots = 2
    ChLinksMax = 2
    MxMsgs = {"m1"}
    MxGens = 2
    MdMsgs = {"m1", "m2"}
    MdTtl = 2
    MdCap = 2
    MdTimeMax = 3
SYMMETRY Symmetric
INVARIANTS
    IdentityHeld
PROPERTIES
    HistoryKept
    GatewayLifeHeld
