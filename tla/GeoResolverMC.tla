---------------------------- MODULE GeoResolverMC ----------------------------
(***************************************************************************)
(* Instances of GeoResolver for TLC.  A month lasts one unit of time in    *)
(* GeoAlone, so a row written at 0 expires when the clock shows 2; in      *)
(* GeoRace a row expires with the next tick, which takes fewer of them.    *)
(***************************************************************************)
EXTENDS GeoResolver

TwoContainers == {"c1", "c2"}
OneContainer == {"c1"}
HostAndIP == {"local", "host"}
TwoIPs == {"a", "local"}
ThreeAddrs == {"a", "local", "host"}
Hosts == {"host"}
NoHosts == {}
Places2 == {"X", "Y"}
OnePlace == {"X"}
NoFaults == {}
Failing == {"db", "service", "blank", "kill"}
=============================================================================
