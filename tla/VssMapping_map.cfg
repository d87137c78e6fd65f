SPECIFICATION FairSpec
CONSTANTS
    seat = seat
    seatBelt = seatBelt
    sig = sig
    sig2 = sig2
    dbc0 = dbc0
    dbc1 = dbc1
    h1 = h1
    h2 = h2
    h3 = h3
    Handlers = {h1, h2}
    Vss <- MCVss
    Signals <- MCSignals
    Feeds <- MCFeeds
    FrameOf <- MCFrameOf
    Within <- Apart2
    Mappings <- AllMappings
    ApiLists <- MCApiLists
    Kinds = {"map", "reset", "set"}
    MayFail = {"save", "flush", "json", "model", "open"}
    MaxFaults = 1
    Orchestrator = FALSE
    NoSignal = NoSignal
    Absent = Absent
    Torn = Torn
    None = None
    Stopped = Stopped
INVARIANT TypeOK
INVARIANT OneFeederPerFeed
INVARIANT SupportedMatches
PROPERTY SuccessHeals
PROPERTY FeedersFollowMapping
PROPERTY EveryRequestAnswered
CHECK_DEADLOCK FALSE
