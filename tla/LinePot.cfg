\* Sessions of the FTP and the POP pot.
SPECIFICATION FairSpec
CONSTANTS
  Ftp <- MCFtp
  Pop <- MCPop
  Lines <- MCLines
  Endings <- MCEndings
  MaxLines = 3
  Faults <- MCFaults
INVARIANTS TypeOK OwnCredentials
PROPERTIES Contract EveryPassReported
\* Sessions end.
CHECK_DEADLOCK FALSE
