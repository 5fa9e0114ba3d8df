CONSTANTS
  MaxNodes = 3
  Headers <- SomeHeaders
  Rows <- SomeRows
  MaxRows = 2
SPECIFICATION Spec
INVARIANTS FileIsInput StdoutIsFiltered
PROPERTIES ZteeTermination
