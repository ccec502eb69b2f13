CONSTANTS
  Schemas = {"s1", "s2", "s3"}
  Initiators = {"client"}
  MaxInitiations = 1
  MaxResets = 0
  Base = 4
  MaxGroups = 3
  Half = 16
  FrameTypes = {1, 5}
  Bodies <- MCBodies
  MaxFrames = 2
  MaxLost = 3
  Names <- MCNames
  Ids = {0, 1, 2, 4}
  Agents = {"a1", "a2"}
  NameSize <- MCNameSize
  Requests <- MCRequests
  Securities <- MCSecurities
  MaxMessage = 4096
  NonceLimit = 8
  MaxMade = 2
  MaxPosts = 3
  MaxDamage = 1
  Members = {"a", "b"}
  Interval = 2
  GraceMisses = 2
  MaxTime = 10
  Codecs = {"a"}
  Links <- MCLinks
  Messages = {"m1", "m2", "m3"}
  WarmupHits = 3
  MaxAlias = 2
  MaxSent = 9
  Payloads <- MCPayloads
  ChunkSizes = {2}
  MaxArrived = 3
  Widths = {1, 2, 4}
  MaxLength = 4
  StreamSizes = {1, 2, 3, 4, 8}
  Labels <- MCLabels
  Tasks <- MCTasks
  Owners <- MCOwners
  States <- MCStates
  Steps <- MCSteps
  MaxCalls = 3
SPECIFICATION StandaloneSpec
INVARIANTS IntsSurvive PrefixRead NumbersAsPromised TransferKeepsIds Accounted AsSent OnceOnly RefusedForCause ReadsAsWritten Reassembled ShowsText DeadAfterMisses ReadsBack
PROPERTIES TakesTurns
CHECK_DEADLOCK FALSE
