CONSTANTS
    None = None
    Attempts = {a1, a2}
    Pubs = {}
    Subs = {s1}
    MaxSlots = 1
    MinBackoffMs = 1
    MaxBackoffMs = 2
    StaticEnable = FALSE
    PullUrls = {"rtsp"}
    RetryNums = {0}
    AutoStops = {1}
    StartCap = 2
SPECIFICATION FairSpec
PROPERTIES AttemptResolves DeadSessionLeaves WantedPullStarts
CHECK_DEADLOCK FALSE
