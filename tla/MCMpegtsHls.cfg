CONSTANTS
    FragmentNum = 2
    DeleteThreshold = 1
    FragmentDuration = 2
    MaxFragmentDuration = 4
    ForceSplit = 6
    NegForceSplit = 1
    ProbeSize = 2
    DelayByAudio = 1
    DelayByVideo = 2
    MaxMsgs = 6
    Situations <- SixSituations
SPECIFICATION Spec
INVARIANTS PlaylistIsNewestClosed NothingLostOnceOpen StartsWithKey
CHECK_DEADLOCK FALSE
