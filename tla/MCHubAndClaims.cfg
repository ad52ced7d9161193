SPECIFICATION MCSpec
CHECK_DEADLOCK FALSE
CONSTANTS
    ClCallers = {fm, adsb}
    Serials = {s1}
    Indexes <- CIndexes
    NoSerial = NoSerial
    NoRequest = NoRequest
    MaxClaims = 2
    Msgs = {x, y}
    Radio <- CRadio
    Kind <- CKind
    Broadcasts = {}
    QueueMax = 1
    PendingMax = 1
    MaxLives = 2
    SmSources = {1, 2}
    SmFiles = {f1, f2}
    SmIdentity = f1
    SmMaxWrites = 1
    RtRoots = {q1, q2}
    RtManaged = {g1}
    RtMaxKills = 2
    CgMaxEdits = 1
SYMMETRY Symmetric
PROPERTIES
    MessagesKept
    ClaimsAreOwned
    StateKept
