CONSTANTS
  a = a
  b = b
  Senders <- TwoThreads
  Walk <- SmallWalk
  MaxTargets <- NoLimit
  PacketStreams = 1
  Batch = 1
  Retries = 0
  UseList = FALSE
  ListOfIps = {}
  MaxRuntime = TRUE
  Dryrun = FALSE
  Responses <- Replies
  MaxCaptured = 1
  Confs <- Talkative
  WindowSize = 1
  Paddings = {0}
  StackWords = {0}
  FilterKeeps <- KeepAll
  MaxResults = 1
  MaxFailures = 1
  MinHitrate = TRUE
SPECIFICATION ScanSpec
INVARIANTS CaptureOpenInUse ListensBeforeProbing ReceiverOutlivesSenders FailuresReported
PROPERTIES ScanTermination
