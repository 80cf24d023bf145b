CONSTANTS
  Clients <- AllClients
  RtmpClients <- AllRtmpClients
  MaxAuths = 2
  RtspConns = {k1, k2}
  MaxAsked = 2
  MaxSessions = 3
  RtmpConns = {k1, k2}
  Names = {a, b}
  MaxCommands = 2
  Csids = {4, 6}
  TsMax = 3
  FirstSize = 1
  LalSize = 2
  OtherSizes = {2, 4}
  Kinds <- SmallMessages
  Stamps = {2, 3, 4}
  MaxMessages = 3
  Streams <- SmallStreams
  M = 32
  Word = 1048576
  Start = 28
  Gap = 2
  MaxFeeds = 6
  MaxSrs = 1
  Scale = 2
  MaxQueue = 4
  MaxIter = 2
  Rotate = 10
  MaxInterval = 30
  Intervals <- Irregular
  MaxQueued = 7
  Pubs <- SomePublishers
  WaitAudio = 100
  MaxAnalyze = 3
  TsWord = 256
  MaxGiven = 4
  MaxLost = 1
  JpegRequests = {q1, q2}
  PoolSize = 1
  HttpMax = 2
  FrameStamps = {0, 1}
  MaxKeys = 2
  CascadePlans <- SomePlans
  Validity = 12
  KeepInterval = 5
  BackoffCap = 8
  AuthFloor = 6
  CatalogTtl = 2
  UpStreams = {a, b}
  GbStreams = {b}
  Tolerated = 0
SPECIFICATION LayerSpec
INVARIANTS
  EndIsEnd ConnLeaves NoDescribeForgotten ComposedIsSent ReceptionRight CascadeViews
  RemuxedInOrder KeysDecodable SilenceKeepsUp SnapshotCurrent
PROPERTIES
  EndIsTold MergedByTime
CHECK_DEADLOCK FALSE
