SPECIFICATION Spec
CONSTANTS
    AnnounceList <- MCOneTier
    Intervals = {3, 20}
    MinIntervals = {0}
    Steps = {3}
    MaxTime = 9
    MaxCalls = 6
INVARIANT
    FailuresAreConsecutive
CHECK_DEADLOCK FALSE
