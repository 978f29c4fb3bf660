---------------------------- MODULE EventLambdaMC ----------------------------
(***************************************************************************)
(* Instances of EventLambda for TLC.                                       *)
(***************************************************************************)
EXTENDS EventLambda

TwoBatch == {"c1", "c2"}
OneBatch == {"c1"}
OneSingle == {"s1"}
None == {}

\* An address twice in a row, two addresses, one without, one too long.
PlainBatches == {<<"a", "a">>, <<"a", "b", "b">>, <<"a", "blank">>, <<"a", "long">>}
\* An address that comes back after another.
Returning == {<<"a", "b", "a">>}
Long == {"long"}

AllHere == AllFaults
NoFaults == {}
=============================================================================
