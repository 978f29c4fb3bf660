------------------------------ MODULE EventTime ------------------------------
(***************************************************************************)
(* EventTime (api/event.go, api/types.go): the time of an event, and what  *)
(* becomes of it each time the event is encoded and decoded.  Inside a     *)
(* program a time is a number of nanoseconds since 1970, in JSON a number  *)
(* of milliseconds.  Division in Go truncates towards zero.                *)
(***************************************************************************)
EXTENDS Integers

CONSTANTS
  NanosPerMilli,   \* 10^6 in the code
  MillisPerSec,    \* 10^3
  Limit            \* UnixNano is an int64: 2^63 is one too many

ASSUME TimeAssumption ==
  NanosPerMilli \in Nat \ {0} /\ MillisPerSec \in Nat \ {0} /\ Limit \in Nat \ {0}

Quo(a, b) == IF a >= 0 THEN a \div b ELSE -((-a) \div b)
Rem(a, b) == a - b * Quo(a, b)

\* What such an integer holds of n.
Wrap(n) == ((n + Limit) % (2 * Limit)) - Limit

\* Mutant of MarshalTime: the milliseconds within the second only.
MarshalTimeOfSecond(ns) == Rem(Quo(Wrap(ns), NanosPerMilli), MillisPerSec)

\* MarshalJSON
MarshalTime(ns) == Quo(Wrap(ns), NanosPerMilli)

\* UnmarshalJSON: time.Unix of the whole seconds and of the rest in nanoseconds.
UnmarshalTime(ms) ==
  Quo(ms, MillisPerSec) * MillisPerSec * NanosPerMilli
    + Rem(ms, MillisPerSec) * NanosPerMilli
==============================================================================
