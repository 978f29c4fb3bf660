\* The pots under their supervisor.
SPECIFICATION FairSpec
CONSTANTS
  Conns <- MCConns
  Scripts <- MCScripts
  All <- MCAll
  Optional <- MCOptional
  ScratchSize = 2
  Requests <- MCRequests
  Faults <- MCFaults
INVARIANTS TypeOK PotsOutliveEachOther ReportsOwnLogin
PROPERTIES ProcessEnds EveryClientHandled EveryLoginReported
\* Processes end.
CHECK_DEADLOCK FALSE
