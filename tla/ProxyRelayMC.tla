----------------------------- MODULE ProxyRelayMC -----------------------------
(***************************************************************************)
(* Instances of ProxyRelay for TLC.  A batch holds 2 units.  The sizes 1,  *)
(* 2 and 3 reach every case of the loop of Drain: a batch filled exactly,  *)
(* one that ends with the queue, one whose next event does not fit, and an *)
(* event larger than any batch.                                            *)
(***************************************************************************)
EXTENDS ProxyRelay

MCSizes == {1, 2, 3}
MCUnits == {1}

Everything == AllFaults
Ending == {"garbled", "refuse", "net", "term", "serve"}
=============================================================================
