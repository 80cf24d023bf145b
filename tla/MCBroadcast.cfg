CONSTANTS
    Setups <- MCSetups
    RtmpSubs = {r1, r2}
    FlvSubs = {f1}
    Pushes = {p1}
    MsgTypes = {"vsh", "key", "inter", "audio"}
    MergeSize = 2
    MaxMsgs = 5
    MaxPubs = 2
SPECIFICATION Spec
INVARIANTS CacheIsRecentGops NoFrameTwiceOrSkipped JoinsDecodable ViewersGetHeaders
CHECK_DEADLOCK FALSE
