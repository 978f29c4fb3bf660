\* Clear against Get and Set.
SPECIFICATION FairSpec
CONSTANTS
  Users <- MCUsers
  Keys <- MCKeys
  Values <- MCValues
  Absent = 0
INVARIANT TypeOK
PROPERTIES ClearForgets ClearReturns
