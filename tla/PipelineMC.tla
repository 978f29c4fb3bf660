------------------------------ MODULE PipelineMC ------------------------------
(***************************************************************************)
(* Two logins on their way to the table, in units of time in which a       *)
(* second has 12 nanoseconds and the times of the logins are in different  *)
(* seconds of a program with 8-bit numbers.  Two events and one lost       *)
(* answer fill a batch and begin a second one; a second event of size 2    *)
(* overflows a batch that has the first.  What ProxyRelay shows for itself *)
(* is left to its own runs: an event larger than any batch, bodies that do *)
(* not decode, errors of the queue, signals and the end of the listener.   *)
(***************************************************************************)
EXTENDS Pipeline

MCSizes == {1, 2}
MCTimes == <<10, 15>>
MCFaults == {"refuse", "lostAck", "net"}
=============================================================================
