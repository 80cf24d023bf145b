CONSTANTS
    None = None
    Sessions = {s1, s2, s3}
    Chatty = {s3}
    StaticUrls = {u1}
    ApiUrls = {u2, r1}
    RtspUrls = {r1}
    MaxSlots = 1
    RetryNums = {0, 1}
    MinBackoffMs = 1
    MaxBackoffMs = 3
    StartCap = 3
SPECIFICATION FairSpec
INVARIANTS PushesAccounted
PROPERTIES PushFollowsInput TargetPushed
CHECK_DEADLOCK FALSE
