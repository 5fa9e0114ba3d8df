CONSTANTS
  a = a
  b = b
  Senders <- TwoThreads
  Walk <- UnevenWalk
  MaxTargets <- NoLimit
  PacketStreams = 1
  Batch = 2
  Retries = 0
  UseList = FALSE
  ListOfIps = {}
  MaxRuntime = FALSE
  Dryrun = TRUE
SPECIFICATION SendSpec
INVARIANTS EveryTargetProbed
