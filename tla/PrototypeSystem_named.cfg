SPECIFICATION SysSpec
CONSTANTS
    Handlers = {h1, h2, h3}
    Ids = {p, q, r}
    Messages <- MCMessages
    MaxFaults = 0
    MaxClicks = 2
    None = None
    Empty = Empty
    Torn = Torn
    Booting = Booting
    Exited = Exited
SYMMETRY Symmetry
PROPERTY RemovesNamedApp
CHECK_DEADLOCK FALSE
