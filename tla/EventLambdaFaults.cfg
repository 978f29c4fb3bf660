\* Two batch containers and one for single events, while the database fails
\* in every way.
SPECIFICATION FairSpec
CONSTANTS
  BatchContainers <- TwoBatch
  SingleContainers <- OneSingle
  Batches <- PlainBatches
  Origin = "o"
  Blank = "blank"
  TooLong <- Long
  NoId = "0"
  MaxConns = 1
  MaxAttempts = 3
  Faults <- AllHere
INVARIANTS TypeOK AllOrNothing AnsweredIsStored RowsMatch
PROPERTY SingleRecovers
