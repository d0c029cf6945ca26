SPECIFICATION Spec
CONSTANTS
    AnnounceList <- MCAnnounceList
    Intervals <- MCIntervals
    MinIntervals <- MCMinIntervals
    Steps = {3}
    MaxTime = 3
    MaxCalls = 5
INVARIANTS
    TrackersKept
    RecentFirst
    NobodyWaitsLonger
CHECK_DEADLOCK FALSE
