\* Every fault at once, and every size of event.
SPECIFICATION Spec
CONSTANTS
  Sizes <- MCSizes
  MaxBatch = 2
  MaxTries = 2
  MaxItems = 3
  Faults <- Everything
INVARIANTS TypeOK InOrder BatchFits
PROPERTIES Contract EveryLossHasACause
