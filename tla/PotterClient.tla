------------------------------ MODULE PotterClient ------------------------------
(***************************************************************************)
(* What becomes of an event after a pot has started sendEvent: a lookup of *)
(* the client's name, potterClient.Send (cmd/potter.go), which starts one  *)
(* more goroutine, and there EventClient.RecordEvent (api/event.go) with   *)
(* its exponential backoff.  Events travel at the same time and do not     *)
(* wait for each other.                                                    *)
(*                                                                         *)
(* Time is measured in steps of the backoff.  Every clock below counts up  *)
(* to one more than MaxElapsed, the 15 minutes after which Retry gives up: *)
(* beyond that nothing asks how late it is.                                *)
(***************************************************************************)
EXTENDS Naturals

CONSTANTS
  Events,       \* what the pots report
  MaxElapsed,   \* MaxElapsedTime of the backoff
  MaxInterval,  \* the longest pause between two attempts
  MaxOutages,   \* bound: how often the server becomes unreachable
  MaxLost,      \* bound: answers of the server that are lost, for each event
  Faults        \* which faults a configuration lets happen

\* "status" an answer other than 200 and 202, "silent" a server that takes a
\* request and does not answer, "crash" the end of the process.  Outages and lost
\* answers are bounded by their own constants.
AllFaults == {"status", "silent", "crash"}

ASSUME TimesAssumption == MaxElapsed \in Nat /\ MaxInterval \in Nat \ {0}
ASSUME CountsAssumption == MaxOutages \in Nat /\ MaxLost \in Nat
ASSUME ClientFaultsAssumption == Faults \subseteq AllFaults

VARIABLES
  stage,      \* where the goroutines of each event are
  age,        \* time since its first attempt
  pause,      \* time until its next attempt
  reachable,  \* the server accepts connections
  outage,     \* how long the latest outage has lasted
  outages,    \* how many there were
  stored,     \* how often the server has stored each event
  lost,       \* history: the lost answers about each event
  refused,    \* history: the events answered with another status
  silent      \* history: the events about which the server kept silent

net == <<reachable, outage, outages>>
vars == <<stage, age, pause, net, stored, lost, refused, silent>>

Clock == 0 .. MaxElapsed + 1
Later(t) == IF t <= MaxElapsed THEN t + 1 ELSE t
Sooner(t) == IF t > 0 THEN t - 1 ELSE t

Init ==
  /\ stage = [e \in Events |-> "new"]
  /\ age = [e \in Events |-> 0]
  /\ pause = [e \in Events |-> 0]
  /\ reachable = TRUE
  /\ outage = 0
  /\ outages = 0
  /\ stored = [e \in Events |-> 0]
  /\ lost = [e \in Events |-> 0]
  /\ refused = {}
  /\ silent = {}

-----------------------------------------------------------------------------

\* Mutant of Trying: the time of the retries begins with the lookup.
TryingFromLookup(e) == stage[e] \in {"lookup", "try", "hung", "pause"}

\* RecordEvent is under way, and with it the time that Retry measures.
Trying(e) == stage[e] \in {"try", "hung", "pause"}

\* Time passes.  A server in reach answers within a step, unless it is silent; a
\* request to one out of reach can take longer to fail.
Tick ==
  /\ reachable => \A e \in Events : stage[e] # "try"
  /\ age' = [e \in Events |-> IF Trying(e) THEN Later(age[e]) ELSE age[e]]
  /\ pause' = [e \in Events |-> Sooner(pause[e])]
  /\ outage' = IF reachable THEN outage ELSE Later(outage)
  /\ UNCHANGED <<stage, reachable, outages, stored, lost, refused, silent>>

OutageBegins ==
  /\ reachable
  /\ outages < MaxOutages
  /\ reachable' = FALSE
  /\ outage' = 0
  /\ outages' = outages + 1
  /\ UNCHANGED <<stage, age, pause, stored, lost, refused, silent>>

OutageEnds ==
  /\ ~reachable
  /\ reachable' = TRUE
  /\ UNCHANGED <<stage, age, pause, outage, outages, stored, lost, refused, silent>>

\* The goroutines end with the process.
Crash ==
  /\ "crash" \in Faults
  /\ stage' = [e \in Events |-> IF stage[e] \in {"new", "sent", "failed"} THEN stage[e]
                                ELSE "gone"]
  /\ UNCHANGED <<age, pause, net, stored, lost, refused, silent>>

-----------------------------------------------------------------------------
(***************************************************************************)
(* sendEvent and Send                                                      *)
(***************************************************************************)

\* go sendEvent of a pot; it looks up the name of the client.
SendEvent(e) ==
  /\ stage[e] = "new"
  /\ stage' = [stage EXCEPT ![e] = "lookup"]
  /\ UNCHANGED <<age, pause, net, stored, lost, refused, silent>>

\* Whatever the lookup yields, Send starts the goroutine that records.
Send(e) ==
  /\ stage[e] = "lookup"
  /\ stage' = [stage EXCEPT ![e] = "try"]
  /\ UNCHANGED <<age, pause, net, stored, lost, refused, silent>>

-----------------------------------------------------------------------------
(***************************************************************************)
(* RecordEvent                                                             *)
(***************************************************************************)

\* Mutant of TimeIsUp: one step too early.
TimeIsUpEarly(e) == age[e] >= MaxElapsed
\* ... or never, which is what a MaxElapsedTime of 0 means.
TimeIsUpNever(e) == stage[e] = "new"

\* NextBackOff: MaxElapsedTime is exceeded.
TimeIsUp(e) == age[e] > MaxElapsed

\* What Retry does about an error.
Again(e) ==
  \/ /\ ~TimeIsUp(e)
     /\ stage' = [stage EXCEPT ![e] = "pause"]
     /\ \E t \in 1 .. MaxInterval : pause' = [pause EXCEPT ![e] = t]
  \/ /\ TimeIsUp(e)
     /\ stage' = [stage EXCEPT ![e] = "failed"]
     /\ UNCHANGED pause

Stores(e) == stored' = [stored EXCEPT ![e] = @ + 1]

\* RecordEvent returns a nil error.
Returns(e) == stage' = [stage EXCEPT ![e] = "sent"] /\ UNCHANGED pause

\* 200 or 202, even when the body of the answer cannot be read.
Answered(e) ==
  /\ stage[e] = "try"
  /\ reachable
  /\ Stores(e)
  /\ Returns(e)
  /\ UNCHANGED <<age, net, lost, refused, silent>>

\* http.Post fails after the server has stored the event.
AnswerLost(e) ==
  /\ stage[e] = "try"
  /\ reachable
  /\ lost[e] < MaxLost
  /\ lost' = [lost EXCEPT ![e] = @ + 1]
  /\ Stores(e)
  /\ Again(e)
  /\ UNCHANGED <<age, net, refused, silent>>

\* Another status: transport returns the error of reading the body, which is
\* nil unless that failed, so that the event counts as recorded.
OtherStatus(e) ==
  /\ "status" \in Faults
  /\ stage[e] = "try"
  /\ reachable
  /\ refused' = refused \cup {e}
  /\ Returns(e) \/ Again(e)
  /\ UNCHANGED <<age, net, stored, lost, silent>>

\* Mutant of Unreached: the error is not returned to Retry.
UnreachedIgnored(e) == Returns(e)

\* What an error of the transport leads to.
Unreached(e) == Again(e)

NoAnswer(e) ==
  /\ stage[e] = "try"
  /\ ~reachable
  /\ Unreached(e)
  /\ UNCHANGED <<age, net, stored, lost, refused, silent>>

\* The server takes the request and neither answers nor closes the connection.
\* http.Post has no timeout.  Whether the event is stored, nobody hears.
Silence(e) ==
  /\ "silent" \in Faults
  /\ stage[e] = "try"
  /\ reachable
  /\ stage' = [stage EXCEPT ![e] = "hung"]
  /\ silent' = silent \cup {e}
  /\ \/ UNCHANGED <<stored, lost>>
     \/ /\ lost[e] < MaxLost
        /\ lost' = [lost EXCEPT ![e] = @ + 1]
        /\ Stores(e)
  /\ UNCHANGED <<age, pause, net, refused>>

\* The connection of such a request breaks after all, and http.Post fails.
Breaks(e) ==
  /\ stage[e] = "hung"
  /\ Again(e)
  /\ UNCHANGED <<age, net, stored, lost, refused, silent>>

\* The pause is over.
Wake(e) ==
  /\ stage[e] = "pause"
  /\ pause[e] = 0
  /\ stage' = [stage EXCEPT ![e] = "try"]
  /\ UNCHANGED <<age, pause, net, stored, lost, refused, silent>>

-----------------------------------------------------------------------------

Attempt(e) == Answered(e) \/ AnswerLost(e) \/ OtherStatus(e) \/ NoAnswer(e)

Step(e) == Send(e) \/ Attempt(e) \/ Wake(e)

Next ==
  \/ Tick \/ OutageBegins \/ OutageEnds \/ Crash
  \/ \E e \in Events : SendEvent(e) \/ Step(e) \/ Silence(e) \/ Breaks(e)

Spec == Init /\ [][Next]_vars

\* Time passes and the goroutines run; a request is answered, fails or meets a
\* silent server.  An outage need not end, nor a silence.
FairSpec == Spec /\ WF_vars(Tick) /\ \A e \in Events : WF_vars(Step(e))

-----------------------------------------------------------------------------

\* Every variable has its type.  An event whose attempts have not begun has
\* no age, one that waits for an answer for good met a silent server, and a
\* server that was never away has no outage.
TypeOK ==
  /\ stage \in [Events -> {"new", "lookup", "try", "hung", "pause", "sent", "failed",
                           "gone"}]
  /\ age \in [Events -> Clock] /\ pause \in [Events -> 0 .. MaxInterval]
  /\ reachable \in BOOLEAN /\ outage \in Clock /\ outages \in 0 .. MaxOutages
  /\ stored \in [Events -> Nat] /\ lost \in [Events -> 0 .. MaxLost]
  /\ refused \subseteq Events /\ silent \subseteq Events
  /\ \A e \in Events : stage[e] \in {"new", "lookup"} => age[e] = 0 /\ stored[e] = 0
  /\ \A e \in Events : stage[e] = "hung" => e \in silent
  /\ \A e \in Events : pause[e] > 0 => stage[e] \in {"pause", "gone"}
  /\ outages = 0 => reachable /\ outage = 0

\* RecordEvent gives up an event only when the server was out of reach for
\* longer than MaxElapsed without a break.  (Where neither another status, a
\* silence nor a lost answer can fail an attempt, and for the first outage.)
ShortOutageLosesNothing ==
  outages <= 1 => \A e \in Events :
    stage[e] = "failed" /\ e \notin refused \cup silent /\ lost[e] = 0 =>
      outage > MaxElapsed

\* What the stages of an event are to the server.
State(e) == CASE stage[e] = "new"                               -> "new"
              [] stage[e] \in {"lookup", "try", "hung", "pause"} -> "open"
              [] stage[e] = "sent"                              -> "sent"
              [] stage[e] \in {"failed", "gone"}                 -> "lost"

Abstract == INSTANCE SendContract
              WITH state   <- [e \in Events |-> State(e)],
                   copies  <- stored,
                   unheard <- lost

\* However attempts, outages, silences, lost answers and a crash fall together: an event
\* is stored again only after a lost answer, it counts as sent only when it
\* was stored or refused, and after its end no attempt is left behind.
Contract == Abstract!Contract

\* The goroutine of an event stays behind for ever only in a request that the
\* server neither answers nor breaks off (http.Post of api/event.go:179 has no
\* timeout): every other event is settled, through outages without an end,
\* refusals, lost answers and silences that did break off.
EveryEventSettles ==
  \A e \in Events :
    stage[e] = "lookup" ~> \/ stage[e] \in {"sent", "failed", "gone"}
                           \/ [](stage[e] = "hung")
=============================================================================
