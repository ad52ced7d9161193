SPECIFICATION Spec
CONSTANTS
    wx = wx
    apt = apt
    ais = ais
    ism = ism
    ais1 = ais1
    ais2 = ais2
    adsb = adsb
    None = None
    Owner <- MCOwner
    Prio <- MCPrio
    Gens <- MCTokens
    Ids <- MCTokens
    Outsiders = {adsb}
    Override = TRUE
    Unplugs = TRUE
    Capturing = {wx}
    Stopping = {}
    Failing = {ais}
    Shutdowns = FALSE
    MaxRestarts = 1
    Regs = {wx, ais}
INVARIANTS TypeOK FaultsContained
