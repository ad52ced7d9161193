SPECIFICATION Spec
CONSTANTS
    wx = wx
    apt = apt
    ais = ais
    ism = ism
    ais1 = ais1
    ais2 = ais2
    adsb = adsb
    None = None
    Owner <- MCOwner
    Prio <- MCPrio
    Gens <- MCTokens
    Ids <- MCTokens
    Outsiders = {}
    Override = TRUE
    Unplugs = FALSE
    Capturing = {}
    Stopping = {}
    Failing = {}
    Shutdowns = FALSE
    MaxRestarts = 1
    Regs = {wx, apt, ais, ism}
INVARIANTS PipelinesAreClaimed
PROPERTIES ArbitrationRules
