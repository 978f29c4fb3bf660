---------------------------- MODULE RelayContract ----------------------------
(***************************************************************************)
(* What the proxy (cmd/proxy.go) promises the API server, seen from        *)
(* outside: events are accepted one by one, and the server stores batches. *)
(* A batch is a run of events accepted one after the other, all of them    *)
(* decodable; batches are stored in the order of acceptance and share no   *)
(* event.  The one repetition allowed is that of the latest batch, when    *)
(* the client retries a request whose answer it did not understand.        *)
(* Events may be lost between two batches: the contract is silent on that, *)
(* because the code is.  ProxyRelay implements this contract.              *)
(***************************************************************************)
EXTENDS Integers, Sequences

CONSTANT Sizes   \* the possible sizes of an event

VARIABLES log,       \* the accepted events; an event is named by its position
          recorded   \* the batches the server stored, in order

cvars == <<log, recorded>>

LastOf(s) == s[Len(s)]

\* The position of the latest event stored so far.
HighMark == IF recorded = <<>> THEN 0 ELSE LastOf(LastOf(recorded))

\* The events lo, lo + 1, ..., hi as a batch.
Run(lo, hi) == [k \in 1 .. (hi - lo + 1) |-> lo + k - 1]

ContractInit == log = <<>> /\ recorded = <<>>

Accept == /\ \E size \in Sizes, ok \in BOOLEAN :
                log' = Append(log, [size |-> size, ok |-> ok])
          /\ UNCHANGED recorded

Deliver == /\ \E lo \in HighMark + 1 .. Len(log) : \E hi \in lo .. Len(log) :
                 /\ \A i \in lo .. hi : log[i].ok
                 /\ recorded' = Append(recorded, Run(lo, hi))
           /\ UNCHANGED log

Redeliver == /\ recorded # <<>>
             /\ recorded' = Append(recorded, LastOf(recorded))
             /\ UNCHANGED log

ContractNext == Accept \/ Deliver \/ Redeliver

Contract == ContractInit /\ [][ContractNext]_cvars
==============================================================================
