CONSTANTS
    None = None
    Attempts = {a1, a2}
    Pubs = {p1}
    Subs = {}
    MaxSlots = 1
    MinBackoffMs = 1
    MaxBackoffMs = 2
    StaticEnable = FALSE
    PullUrls = {"rtmp", "rtsp"}
    RetryNums = {1}
    AutoStops <- Never
    StartCap = 3
SPECIFICATION Spec
SYMMETRY AttemptSymmetry
INVARIANTS AtMostOneInput AttemptsAccounted
PROPERTIES ImplementsInStream
CHECK_DEADLOCK FALSE
