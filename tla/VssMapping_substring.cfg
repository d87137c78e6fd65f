SPECIFICATION Spec
CONSTANTS
    seat = seat
    seatBelt = seatBelt
    sig = sig
    sig2 = sig2
    dbc0 = dbc0
    dbc1 = dbc1
    h1 = h1
    h2 = h2
    h3 = h3
    Handlers = {h1, h2, h3}
    Vss <- MCVss
    Signals <- MCSignals
    Feeds <- MCFeeds
    FrameOf <- MCFrameOf
    Within <- Nested
    Mappings <- NestedMappings
    ApiLists <- MCApiLists
    Kinds = {"map"}
    MayFail = {}
    MaxFaults = 0
    Orchestrator = FALSE
    NoSignal = NoSignal
    Absent = Absent
    Torn = Torn
    None = None
    Stopped = Stopped
PROPERTY OnlyNamedApiChanges
CHECK_DEADLOCK FALSE
