----------------------------- MODULE SendContract -----------------------------
(***************************************************************************)
(* What the potter promises about the events its pots report, seen by the  *)
(* server it sends them to (cmd/potter.go, RecordEvent of api/event.go).   *)
(* An event is handed over at most once more than answers about it were    *)
(* lost, it counts as sent only after a 200 or 202 that was heard or after *)
(* an answer that declined it, and after its end it is handed over no      *)
(* more.  Each event travels for itself.  PotterClient implements this     *)
(* contract, and Pipeline uses it for the pots in front of the proxy.      *)
(***************************************************************************)
EXTENDS Naturals

CONSTANT Events

VARIABLES state,     \* "new", "open", "sent" or "lost"
          copies,    \* how often the server took each event
          unheard,   \* how many of these answers were lost
          refused    \* the events it answered with another status

cvars == <<state, copies, unheard, refused>>

ContractInit ==
  /\ state = [e \in Events |-> "new"]
  /\ copies = [e \in Events |-> 0]
  /\ unheard = [e \in Events |-> 0]
  /\ refused = {}

Begin(e) ==
  /\ state[e] = "new"
  /\ state' = [state EXCEPT ![e] = "open"]
  /\ UNCHANGED <<copies, unheard, refused>>

\* How an attempt leaves an event.
Becomes(e, s) == state[e] = "open" /\ state' = [state EXCEPT ![e] = s]
FailsOnce(e) == Becomes(e, "open") \/ Becomes(e, "lost")

Taken(e) == copies' = [copies EXCEPT ![e] = @ + 1]

Deliver(e) == Becomes(e, "sent") /\ Taken(e) /\ UNCHANGED <<unheard, refused>>

DeliverUnheard(e) ==
  /\ FailsOnce(e)
  /\ Taken(e)
  /\ unheard' = [unheard EXCEPT ![e] = @ + 1]
  /\ UNCHANGED refused

Decline(e) ==
  /\ FailsOnce(e) \/ Becomes(e, "sent")
  /\ refused' = refused \cup {e}
  /\ UNCHANGED <<copies, unheard>>

\* The retries of an event end, or the process and every event with it.
GiveUp(lost) ==
  /\ \A e \in lost : state[e] = "open"
  /\ state' = [e \in Events |-> IF e \in lost THEN "lost" ELSE state[e]]
  /\ UNCHANGED <<copies, unheard, refused>>

ContractNext ==
  \/ \E e \in Events : Begin(e) \/ Deliver(e) \/ DeliverUnheard(e) \/ Decline(e)
  \/ \E lost \in SUBSET Events : GiveUp(lost)

Contract == ContractInit /\ [][ContractNext]_cvars
==============================================================================
