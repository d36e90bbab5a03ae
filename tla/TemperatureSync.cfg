CONSTANTS
    RequestWindow = 2
    Expiry = 1
    Gaps = {1, 2}
    LossyBus = TRUE
    MaxTime = 4
    Auxiliary = TRUE
    Threaded = TRUE
    MaxQueue = 1
SPECIFICATION Spec
CHECK_DEADLOCK FALSE
INVARIANTS
    DecodedSampleIsWhole
    NoStaleSnapshot
    ForeignOnlyAfterMissedRequest
    PublishedSampleIsWhole
    WaterGoesWithAir
    SettledAlarms
    WaitingIsFetched
PROPERTIES
    SnapshotReplacesWhole
    EverySampleIsOvertaken
    ImplementsFeed
