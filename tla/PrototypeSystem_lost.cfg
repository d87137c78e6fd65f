SPECIFICATION SysSpec
CONSTANTS
    Handlers = {h1, h2}
    Ids = {p, q}
    Messages <- MCMessages
    MaxFaults = 0
    MaxClicks = 1
    None = None
    Empty = Empty
    Torn = Torn
    Booting = Booting
    Exited = Exited
SYMMETRY Symmetry
INVARIANT DeployedStaysListed
CHECK_DEADLOCK FALSE
