CONSTANTS
  a = a
  b = b
  Senders <- TwoThreads
  Walk <- OnePortWalk
  MaxTargets <- TwoForA
  PacketStreams = 2
  Batch = 3
  Retries = 1
  UseList = TRUE
  ListOfIps <- OddIps
  MaxRuntime = TRUE
  Dryrun = FALSE
SPECIFICATION SendSpec
INVARIANTS Accounting LossAtCleanup NoProbeTwice WithinMaxTargets CompleteMeansFlushed RestProbed
