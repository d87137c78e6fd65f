SPECIFICATION SysFairSpec
CONSTANTS
    Handlers = {h1, h2}
    Ids = {p, q}
    Messages <- MCMessages
    MaxFaults = 0
    MaxClicks = 2
    None = None
    Empty = Empty
    Torn = Torn
    Booting = Booting
    Exited = Exited
INVARIANT SysTypeOK
INVARIANT ListedOnce
PROPERTY PageCatchesUp
CHECK_DEADLOCK FALSE
