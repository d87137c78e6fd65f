SPECIFICATION FairSpec
CONSTANTS
    Handlers = {h1, h2, h3}
    p = p
    q = q
    Ids = {p, q}
    Messages <- MCMessages
    MaxFaults = 1
    None = None
    Empty = Empty
    Torn = Torn
    Booting = Booting
    Exited = Exited
INVARIANT TypeOK
INVARIANT IInv
INVARIANT OneEntryPerId
PROPERTY NoEntryLost
PROPERTY ImplementsRegistry
PROPERTY ListIsAllOrNothing
PROPERTY AckedFilesIntact
PROPERTY AckedRunIsNew
PROPERTY EveryMessageAnswered
CHECK_DEADLOCK FALSE
