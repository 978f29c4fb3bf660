\* Two logins on their way to the table.
SPECIFICATION FairPipeline
CONSTANTS
  Sizes <- MCSizes
  MaxBatch = 2
  MaxTries = 2
  MaxItems = 3
  Faults <- MCFaults
  NanosPerMilli = 4
  MillisPerSec = 3
  Limit = 128
  Times <- MCTimes
  MaxUnheard = 1
INVARIANTS RowsBounded TableInOrder
PROPERTIES EventsArrive SendingEnds
