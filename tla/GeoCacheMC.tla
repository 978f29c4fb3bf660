------------------------------ MODULE GeoCacheMC ------------------------------
(***************************************************************************)
(* Two users, two shards and one value are enough for every order of a     *)
(* Get, a Set and the removals of a Clear; the value of an entry does not  *)
(* matter to them.                                                         *)
(***************************************************************************)
EXTENDS GeoCache

MCUsers == {"u1", "u2"}
MCKeys == {"a", "b"}
MCValues == {1}
=============================================================================
