\* A batch in which an address comes back.
SPECIFICATION Spec
CONSTANTS
  BatchContainers <- OneBatch
  SingleContainers <- None
  Batches <- Returning
  Origin = "o"
  Blank = "blank"
  TooLong <- Long
  NoId = "0"
  MaxConns = 1
  MaxAttempts = 1
  Faults <- NoFaults
INVARIANT RowsMatch
