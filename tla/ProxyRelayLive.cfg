\* What must happen, under the fairness of the scheduler and the mutex.
SPECIFICATION FairSpec
CONSTANTS
  Sizes <- MCUnits
  MaxBatch = 2
  MaxTries = 2
  MaxItems = 3
  Faults <- Ending
PROPERTIES QueueEmpties TermEnds NobodyWaitsForever
