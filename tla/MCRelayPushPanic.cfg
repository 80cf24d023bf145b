CONSTANTS
    None = None
    Sessions = {s1, s2, s3}
    Chatty = {}
    StaticUrls = {u1}
    ApiUrls = {u1}
    RtspUrls = {}
    MaxSlots = 1
    RetryNums = {0, 1}
    MinBackoffMs = 1
    MaxBackoffMs = 3
    StartCap = 3
SPECIFICATION Spec
SYMMETRY SessionSymmetry
INVARIANTS PanicsRecovered
CHECK_DEADLOCK FALSE
