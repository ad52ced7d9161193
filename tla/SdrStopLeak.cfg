SPECIFICATION FairSpec
CONSTANTS
    wx = wx
    apt = apt
    ais = ais
    ism = ism
    ais1 = ais1
    ais2 = ais2
    adsb = adsb
    None = None
    Owner <- MCOwner
    Prio <- MCPrio
    Gens <- MCTokens
    Ids <- MCTokens
    Outsiders = {}
    Override = TRUE
    Unplugs = FALSE
    Capturing = {}
    Stopping = {ais}
    Failing = {}
    Shutdowns = FALSE
    MaxRestarts = 1
    Regs = {wx, ais}
PROPERTIES CriticalServed
