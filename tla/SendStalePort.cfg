CONSTANTS
  a = a
  b = b
  Senders <- TwoThreads
  Walk <- TwoPortWalk
  MaxTargets <- NoLimit
  PacketStreams = 1
  Batch = 2
  Retries = 0
  UseList = TRUE
  ListOfIps <- OddIps
  MaxRuntime = FALSE
  Dryrun = FALSE
SPECIFICATION SendSpec
INVARIANTS NoProbeTwice
