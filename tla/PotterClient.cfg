\* Outages, refusals, lost answers and a crash while events are sent.
SPECIFICATION FairSpec
CONSTANTS
  Events <- MCEvents
  MaxElapsed = 2
  MaxInterval = 2
  MaxOutages = 2
  MaxLost = 1
  Faults <- MCFaults
INVARIANTS TypeOK ShortOutageLosesNothing
PROPERTIES Contract EveryEventSettles
