\* One container with the cache, rows that expire, locations that change.
SPECIFICATION FairSpec
CONSTANTS
  Containers <- OneContainer
  Addrs <- HostAndIP
  NotIPv4 <- Hosts
  Local = "local"
  Locs <- Places2
  NoAddr = "none"
  Ttl = 1
  UseCache = TRUE
  MaxEvents = 2
  MaxClock = 4
  MaxMoves = 2
  Faults <- NoFaults
INVARIANTS NoRepeatedRow HandledIsMarked
PROPERTY EventsResolved
\* A Lambda that receives no more events rests.
CHECK_DEADLOCK FALSE
