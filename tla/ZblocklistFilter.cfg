CONSTANTS
  AddrBits = 4
  RadixLength = 2
  PageBits = 2
  NumPages = 4
  Entries <- SomeEntries
  MaxEntries = 2
  LineAddrs = {5, 6}
  MaxLines = 3
SPECIFICATION Spec
INVARIANTS TreeMatchesLists IndexEnumeratesAllowed OutputIsFilteredInput
CHECK_DEADLOCK FALSE
