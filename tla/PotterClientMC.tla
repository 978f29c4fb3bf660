----------------------------- MODULE PotterClientMC -----------------------------
(***************************************************************************)
(* An instance of PotterClient for TLC: two events under way at the same   *)
(* time, two outages, and pauses shorter and longer than what is left of   *)
(* the time for retries.                                                   *)
(***************************************************************************)
EXTENDS PotterClient

MCEvents == {"e1", "e2"}
MCFaults == AllFaults
=============================================================================
