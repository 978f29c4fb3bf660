\* Two containers, every fault, no cache.
SPECIFICATION Spec
CONSTANTS
  Containers <- TwoContainers
  Addrs <- TwoIPs
  NotIPv4 <- NoHosts
  Local = "local"
  Locs <- OnePlace
  NoAddr = "none"
  Ttl = 0
  UseCache = FALSE
  MaxEvents = 2
  MaxClock = 1
  MaxMoves = 0
  Faults <- Failing
INVARIANTS TypeOK GeoMatches FreshWhenMarked
\* A Lambda that receives no more events rests.
CHECK_DEADLOCK FALSE
