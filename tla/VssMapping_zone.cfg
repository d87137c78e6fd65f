SPECIFICATION Spec
CONSTANTS
    seat = seat
    seatBelt = seatBelt
    sig = sig
    sig2 = sig2
    dbc0 = dbc0
    dbc1 = dbc1
    h1 = h1
    h2 = h2
    h3 = h3
    Handlers = {h1, h2}
    Vss <- MCVss
    Signals <- MCSignals
    Feeds <- MCFeeds
    FrameOf <- MCFrameOf
    Within <- Apart2
    Mappings <- FewMappings
    ApiLists <- MCApiLists
    Kinds = {"map", "reset"}
    MayFail = {"json"}
    MaxFaults = 1
    Orchestrator = TRUE
    NoSignal = NoSignal
    Absent = Absent
    Torn = Torn
    None = None
    Stopped = Stopped
INVARIANT ZoneFollows
SYMMETRY Symmetry
CHECK_DEADLOCK FALSE
