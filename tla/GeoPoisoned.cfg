\* The id of the origin is cached under the remote address.
SPECIFICATION Spec
CONSTANTS
  Containers <- OneContainer
  Addrs <- ThreeAddrs
  NotIPv4 <- Hosts
  Local = "local"
  Locs <- OnePlace
  NoAddr = "none"
  Ttl = 1
  UseCache = TRUE
  MaxEvents = 3
  MaxClock = 0
  MaxMoves = 0
  Faults <- NoFaults
INVARIANT GeoMatches
\* A Lambda that receives no more events rests.
CHECK_DEADLOCK FALSE
