SPECIFICATION FairSpec
CONSTANTS
    p = p
    q = q
    Ids <- MCIds
    Pages = {"services", "vapps"}
    Preinstalled <- OneApp
    WithImage <- OnlyP
    MaxClicks = 1
    MaxInstalls = 1
    MaxRestarts = 1
    None = None
    Broken = Broken
INVARIANT TypeOK
INVARIANT EachAppOnce
INVARIANT RunsItsOwnImage
INVARIANT KeptOnlyWhenEmpty
CHECK_DEADLOCK FALSE
PROPERTY PageShowsFile
PROPERTY TogglesFollowDocker
