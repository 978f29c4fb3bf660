-------------------------- MODULE PotterClientProofs --------------------------
(***************************************************************************)
(* Proofs about PotterClient, for every set of events and every length of  *)
(* the retries: type correctness, that an outage shorter than the retries  *)
(* loses nothing, and that the potter implements SendContract.             *)
(***************************************************************************)
EXTENDS PotterClient, TLAPS

USE TimesAssumption, CountsAssumption

Stages == {"new", "lookup", "try", "hung", "pause", "sent", "failed", "gone"}

\* Init establishes the types.
LEMMA TypeInit == Init => TypeOK
  BY DEF Init, net, TypeOK, Clock

\* What Again does keeps the types of stage and pause.
LEMMA AgainType ==
  ASSUME TypeOK, NEW e \in Events, Again(e), stage[e] \in {"try", "hung"}
  PROVE  /\ stage' \in [Events -> Stages]
         /\ pause' \in [Events -> 0 .. MaxInterval]
         /\ stage'[e] \in {"pause", "failed"}
         /\ \A f \in Events : f # e => stage'[f] = stage[f] /\ pause'[f] = pause[f]
         /\ pause'[e] > 0 => stage'[e] = "pause"
<1>1. pause[e] = 0
  BY DEF TypeOK
<1>2. CASE TimeIsUp(e)
  BY <1>1, <1>2 DEF Again, TypeOK, Stages
<1>3. CASE ~TimeIsUp(e)
  BY <1>3 DEF Again, TypeOK, Stages
<1> QED BY <1>2, <1>3

\* An attempt keeps the types.
LEMMA AttemptType ==
  ASSUME TypeOK, NEW e \in Events, Attempt(e)
  PROVE  TypeOK'
<1> USE DEF net
<1>1. stage[e] = "try"
  BY DEF Attempt, Answered, AnswerLost, OtherStatus, NoAnswer
<1>2. CASE Answered(e)
  BY <1>1, <1>2 DEF Answered, Stores, Returns, TypeOK
<1>3. CASE AnswerLost(e)
  <2>1. Again(e)
    BY <1>3 DEF AnswerLost
  <2> QED BY <1>1, <1>3, <2>1, AgainType DEF AnswerLost, Stores, TypeOK, Stages
<1>4. CASE OtherStatus(e)
  <2>1. CASE Returns(e)
    BY <1>1, <1>4, <2>1 DEF OtherStatus, Returns, TypeOK
  <2>2. CASE Again(e)
    BY <1>1, <1>4, <2>2, AgainType DEF OtherStatus, TypeOK, Stages
  <2> QED BY <1>4, <2>1, <2>2 DEF OtherStatus
<1>5. CASE NoAnswer(e)
  BY <1>1, <1>5, AgainType DEF NoAnswer, Unreached, TypeOK, Stages
<1> QED BY <1>2, <1>3, <1>4, <1>5 DEF Attempt

\* A silent server, and the end of the silence, keep the types.
LEMMA SilenceType ==
  ASSUME TypeOK, NEW e \in Events, Silence(e) \/ Breaks(e)
  PROVE  TypeOK'
<1> USE DEF net
<1>1. CASE Silence(e)
  <2>1. stored' \in [Events -> Nat] /\ lost' \in [Events -> 0 .. MaxLost]
    BY <1>1 DEF Silence, Stores, TypeOK
  <2>2. /\ stage' = [stage EXCEPT ![e] = "hung"] /\ stage[e] = "try"
        /\ silent' = silent \cup {e} /\ UNCHANGED <<age, pause, net, refused>>
        /\ \A f \in Events : f # e => stored'[f] = stored[f]
    BY <1>1 DEF Silence, Stores, TypeOK
  <2> QED BY <2>1, <2>2 DEF TypeOK
<1>2. CASE Breaks(e)
  BY <1>2, AgainType DEF Breaks, TypeOK, Stages
<1> QED BY <1>1, <1>2

\* Every step keeps the types.
LEMMA TypeNext == TypeOK /\ [Next]_vars => TypeOK'
<1> SUFFICES ASSUME TypeOK, [Next]_vars PROVE TypeOK'
  OBVIOUS
<1> USE DEF net
<1>1. CASE Tick
  <2>1. /\ age' \in [Events -> Clock]
        /\ \A e \in Events : stage[e] \in {"new", "lookup"} => age'[e] = 0
    BY <1>1 DEF Tick, TypeOK, Clock, Later, Trying
  <2>2. /\ pause' \in [Events -> 0 .. MaxInterval]
        /\ \A e \in Events : pause'[e] > 0 => pause[e] > 0
    BY <1>1 DEF Tick, TypeOK, Sooner
  <2>3. outage' \in Clock /\ (outages = 0 => outage' = 0)
    BY <1>1 DEF Tick, TypeOK, Clock, Later
  <2> QED BY <1>1, <2>1, <2>2, <2>3 DEF Tick, TypeOK
<1>2. CASE OutageBegins
  <2>1. outages' \in 0 .. MaxOutages /\ outages' # 0 /\ outage' \in Clock
    BY <1>2 DEF OutageBegins, TypeOK, Clock
  <2>2. reachable' \in BOOLEAN
    BY <1>2 DEF OutageBegins
  <2> QED BY <1>2, <2>1, <2>2 DEF OutageBegins, TypeOK
<1>3. CASE OutageEnds
  BY <1>3 DEF OutageEnds, TypeOK
<1>4. CASE Crash
  BY <1>4 DEF Crash, TypeOK
<1>5. ASSUME NEW e \in Events, SendEvent(e) PROVE TypeOK'
  BY <1>5 DEF SendEvent, TypeOK
<1>6. ASSUME NEW e \in Events, Step(e) PROVE TypeOK'
  <2>1. CASE Send(e)
    BY <2>1 DEF Send, TypeOK
  <2>2. CASE Wake(e)
    BY <2>2 DEF Wake, TypeOK
  <2> QED BY <1>6, <2>1, <2>2, AttemptType DEF Step
<1>7. CASE UNCHANGED vars
  BY <1>7 DEF vars, TypeOK
<1> QED BY <1>1, <1>2, <1>3, <1>4, <1>5, <1>6, <1>7, SilenceType DEF Next

\* Every variable of the potter keeps its type; the age of an event and the
\* length of an outage stay within the clock.
THEOREM TypeCorrect == Spec => []TypeOK
  BY TypeInit, TypeNext, PTL DEF Spec

-----------------------------------------------------------------------------
(***************************************************************************)
(* Short outages                                                           *)
(***************************************************************************)

\* Why ShortOutageLosesNothing holds, during the first outage and after it: an
\* event that nothing but the outage can fail began its attempts while the
\* server was in reach, and then an attempt would have ended them at once, or
\* it is not older than the outage.
Tried(e) == Trying(e) /\ e \notin refused \cup silent /\ lost[e] = 0

NotOlder ==
  outages <= 1 => \A e \in Events : Tried(e) =>
    /\ outages = 0 => stage[e] = "try" /\ age[e] = 0
    /\ ~reachable => age[e] <= outage

OutageInv == NotOlder /\ ShortOutageLosesNothing

\* No event is under way at the start.
LEMMA OutageInit == Init => OutageInv
  BY DEF Init, net, OutageInv, NotOlder, Tried, Trying, ShortOutageLosesNothing

\* An attempt keeps it: the only one that can fail without a status or a lost
\* answer is one to a server out of reach.
LEMMA OutageAttempt ==
  ASSUME TypeOK, OutageInv, NEW e \in Events, Attempt(e)
  PROVE  OutageInv'
<1> USE DEF net
<1>1. stage[e] = "try" /\ UNCHANGED <<age, net>>
  BY DEF Attempt, Answered, AnswerLost, OtherStatus, NoAnswer
<1>2. CASE Answered(e)
  BY <1>1, <1>2 DEF Answered, Returns, OutageInv, NotOlder, Tried, Trying,
                    ShortOutageLosesNothing, TypeOK
<1>3. CASE AnswerLost(e)
  <2>1. Again(e) /\ lost'[e] # 0 /\ UNCHANGED <<refused, silent>>
    BY <1>3 DEF AnswerLost, TypeOK
  <2>2. \A f \in Events : f # e => stage'[f] = stage[f] /\ lost'[f] = lost[f]
    BY <1>1, <1>3, <2>1, AgainType DEF AnswerLost, TypeOK
  <2> QED BY <1>1, <2>1, <2>2 DEF OutageInv, NotOlder, Tried, Trying,
                                  ShortOutageLosesNothing
<1>4. CASE OtherStatus(e)
  <2>1. e \in refused' /\ refused \subseteq refused' /\ UNCHANGED <<lost, silent>>
    BY <1>4 DEF OtherStatus
  <2>2. \A f \in Events : f # e => stage'[f] = stage[f]
    BY <1>1, <1>4, AgainType DEF OtherStatus, Returns, TypeOK
  <2>3. \A f \in Events : f # e => (f \in refused' <=> f \in refused)
    BY <1>4 DEF OtherStatus
  <2> QED BY <1>1, <2>1, <2>2, <2>3 DEF OutageInv, NotOlder, Tried, Trying,
                                        ShortOutageLosesNothing
<1>5. CASE NoAnswer(e)
  <2>1. Again(e) /\ ~reachable /\ UNCHANGED <<lost, refused, silent>>
    BY <1>5 DEF NoAnswer, Unreached
  <2>2. \A f \in Events : f # e => stage'[f] = stage[f]
    BY <1>1, <2>1, AgainType
  <2>3. outages # 0
    BY <2>1 DEF TypeOK
  <2>4. NotOlder'
    BY <1>1, <2>1, <2>2, <2>3 DEF OutageInv, NotOlder, Tried, Trying
  <2>5. ASSUME stage'[e] = "failed", outages <= 1, e \notin refused \cup silent, lost[e] = 0
        PROVE  outage > MaxElapsed
    <3>1. age[e] > MaxElapsed
      BY <1>1, <2>1, <2>5 DEF Again, TimeIsUp, TypeOK
    <3>2. age[e] <= outage
      BY <1>1, <2>1, <2>5 DEF OutageInv, NotOlder, Tried, Trying
    <3> QED BY <3>1, <3>2 DEF TypeOK, Clock
  <2>6. ShortOutageLosesNothing'
    BY <1>1, <2>1, <2>2, <2>5 DEF OutageInv, ShortOutageLosesNothing
  <2> QED BY <2>4, <2>6 DEF OutageInv
<1> QED BY <1>2, <1>3, <1>4, <1>5 DEF Attempt

\* Silence exempts its event.
LEMMA OutageSilence ==
  ASSUME TypeOK, OutageInv, NEW e \in Events, Silence(e) \/ Breaks(e)
  PROVE  OutageInv'
<1>1. /\ e \in silent' /\ silent \subseteq silent' /\ UNCHANGED refused
      /\ UNCHANGED <<age, net>>
      /\ \A f \in Events : f # e => stage'[f] = stage[f] /\ lost'[f] = lost[f]
  <2>1. CASE Silence(e)
    BY <2>1 DEF Silence, TypeOK
  <2>2. CASE Breaks(e)
    BY <2>2, AgainType DEF Breaks, TypeOK
  <2> QED BY <2>1, <2>2
<1> QED BY <1>1 DEF net, OutageInv, NotOlder, Tried, Trying, ShortOutageLosesNothing

\* Every step keeps it.
LEMMA OutageNext == TypeOK /\ OutageInv /\ [Next]_vars => OutageInv'
<1> SUFFICES ASSUME TypeOK, OutageInv, [Next]_vars PROVE OutageInv'
  OBVIOUS
<1> USE DEF net, OutageInv
<1>1. CASE Tick
  <2>1. UNCHANGED <<stage, reachable, outages, lost, refused, silent>>
    BY <1>1 DEF Tick
  <2>2. reachable => UNCHANGED outage
    BY <1>1 DEF Tick
  <2>3. ~reachable => outage' = Later(outage)
    BY <1>1 DEF Tick
  <2>4. \A e \in Events : age'[e] = IF Trying(e) THEN Later(age[e]) ELSE age[e]
    BY <1>1 DEF Tick
  <2>5. outage' >= outage
    BY <2>2, <2>3 DEF TypeOK, Clock, Later
  <2>6. ShortOutageLosesNothing'
    <3>1. outage \in Nat /\ outage' \in Nat /\ MaxElapsed \in Nat
      BY <2>2, <2>3 DEF TypeOK, Clock, Later
    <3> QED BY <2>1, <2>5, <3>1 DEF ShortOutageLosesNothing
  <2>7. ASSUME NEW e \in Events, outages <= 1, Tried(e)
        PROVE  /\ outages = 0 => stage[e] = "try" /\ age'[e] = 0
               /\ ~reachable => age'[e] <= outage'
    <3>1. CASE outages = 0
      <4>1. reachable /\ stage[e] = "try"
        BY <2>7, <3>1 DEF NotOlder, TypeOK
      <4> QED BY <1>1, <4>1 DEF Tick
    <3>2. CASE outages # 0 /\ ~reachable
      <4>1. age[e] <= outage /\ age'[e] = Later(age[e])
        BY <2>4, <2>7, <3>2 DEF NotOlder, Tried
      <4> QED BY <2>3, <3>2, <4>1 DEF TypeOK, Clock, Later
    <3> QED BY <3>1, <3>2
  <2>8. NotOlder'
    BY <2>1, <2>7 DEF NotOlder, Tried, Trying
  <2> QED BY <2>6, <2>8
<1>2. CASE OutageBegins
  BY <1>2 DEF OutageBegins, TypeOK, NotOlder, Tried, Trying, ShortOutageLosesNothing,
              Clock
<1>3. CASE OutageEnds
  <2>1. outages # 0 /\ reachable' /\ UNCHANGED <<stage, age, outage, outages, lost, refused, silent>>
    BY <1>3 DEF OutageEnds, TypeOK
  <2> QED BY <2>1 DEF NotOlder, Tried, Trying, ShortOutageLosesNothing
<1>4. CASE Crash
  BY <1>4 DEF Crash, TypeOK, NotOlder, Tried, Trying, ShortOutageLosesNothing
<1>5. ASSUME NEW e \in Events, SendEvent(e) PROVE OutageInv'
  BY <1>5 DEF SendEvent, TypeOK, NotOlder, Tried, Trying, ShortOutageLosesNothing
<1>6. ASSUME NEW e \in Events, Send(e) PROVE OutageInv'
  <2>1. age[e] = 0
    BY <1>6 DEF Send, TypeOK
  <2> QED BY <1>6, <2>1 DEF Send, TypeOK, NotOlder, Tried, Trying,
                            ShortOutageLosesNothing, Clock
<1>7. ASSUME NEW e \in Events, Wake(e) PROVE OutageInv'
  BY <1>7 DEF Wake, TypeOK, NotOlder, Tried, Trying, ShortOutageLosesNothing
<1>8. CASE UNCHANGED vars
  BY <1>8 DEF vars, NotOlder, Tried, Trying, ShortOutageLosesNothing
<1> QED BY <1>1, <1>2, <1>3, <1>4, <1>5, <1>6, <1>7, <1>8, OutageAttempt, OutageSilence
        DEF Next, Step

\* No event is given up because of an outage that the retries outlast,
\* wherever in it the first attempt falls.
THEOREM ShortOutages == Spec => []ShortOutageLosesNothing
<1>1. OutageInv => ShortOutageLosesNothing
  BY DEF OutageInv
<1> QED BY <1>1, OutageInit, OutageNext, TypeCorrect, PTL DEF Spec

-----------------------------------------------------------------------------
(***************************************************************************)
(* SendContract                                                            *)
(***************************************************************************)

\* The stages in which an event is under way.
LEMMA StateValues ==
  ASSUME NEW e \in Events, stage[e] \in Stages
  PROVE  /\ State(e) = "new"  <=> stage[e] = "new"
         /\ State(e) = "open" <=> stage[e] \in {"lookup", "try", "hung", "pause"}
         /\ State(e) = "sent" <=> stage[e] = "sent"
         /\ State(e) = "lost" <=> stage[e] \in {"failed", "gone"}
         /\ State(e) \in {"new", "open", "sent", "lost"}
  BY DEF State, Stages

States == [e \in Events |-> State(e)]

\* A step of one event is one of its state.
LEMMA StateChanges ==
  ASSUME TypeOK, TypeOK', NEW e \in Events,
         \A f \in Events : f # e => stage'[f] = stage[f]
  PROVE  States' = [States EXCEPT ![e] = State(e)']
<1>1. ASSUME NEW f \in Events, f # e PROVE State(f)' = State(f)
  BY <1>1 DEF State
<1> QED BY <1>1 DEF States

\* What Again does with an event that was being tried.
LEMMA AgainRefines ==
  ASSUME TypeOK, TypeOK', NEW e \in Events, Again(e), stage[e] \in {"try", "hung"}
  PROVE  /\ States' = [States EXCEPT ![e] = State(e)']
         /\ States[e] = "open" /\ State(e)' \in {"open", "lost"}
<1>1. stage'[e] \in {"pause", "failed"}
  BY AgainType
<1>2. State(e) = "open" /\ State(e)' \in {"open", "lost"}
  BY <1>1 DEF State
<1> QED BY <1>2, AgainType, StateChanges DEF States

\* Returns leaves an event sent.
LEMMA ReturnsRefines ==
  ASSUME TypeOK, TypeOK', NEW e \in Events, Returns(e), stage[e] = "try"
  PROVE  /\ States' = [States EXCEPT ![e] = "sent"]
         /\ States[e] = "open"
<1>1. /\ stage'[e] = "sent"
      /\ \A f \in Events : f # e => stage'[f] = stage[f]
  BY DEF Returns, TypeOK
<1>2. State(e) = "open" /\ State(e)' = "sent"
  BY <1>1 DEF State
<1> QED BY <1>1, <1>2, StateChanges DEF States

\* An attempt that fails without the server is a step of the contract.
LEMMA FailureRefines ==
  ASSUME TypeOK, TypeOK', NEW e \in Events, Again(e), stage[e] \in {"try", "hung"},
         UNCHANGED <<stored, lost, refused>>
  PROVE  [Abstract!ContractNext]_(Abstract!cvars)
<1> USE DEF States
<1>1. CASE State(e)' = "open"
  <2>1. States' = States
    BY <1>1, AgainRefines
  <2> QED BY <2>1 DEF Abstract!cvars
<1>2. CASE State(e)' = "lost"
  <2>1. Abstract!GiveUp({e})
    BY <1>2, AgainRefines DEF Abstract!GiveUp
  <2> QED BY <2>1 DEF Abstract!ContractNext
<1> QED BY <1>1, <1>2, AgainRefines

\* A silent server may have stored the event; the end of the silence is a failure.
LEMMA SilenceRefines ==
  ASSUME TypeOK, TypeOK', NEW e \in Events, Silence(e) \/ Breaks(e)
  PROVE  [Abstract!ContractNext]_(Abstract!cvars)
<1> USE DEF States, Abstract!Becomes
<1>1. CASE Silence(e)
  <2>1. /\ stage[e] = "try" /\ stage'[e] = "hung" /\ UNCHANGED refused
        /\ \A f \in Events : f # e => stage'[f] = stage[f]
    BY <1>1 DEF Silence, TypeOK
  <2>2. State(e) = "open" /\ State(e)' = "open"
    BY <2>1 DEF State
  <2>3. States' = [States EXCEPT ![e] = "open"] /\ States[e] = "open" /\ States' = States
    BY <2>1, <2>2, StateChanges
  <2>4. CASE UNCHANGED <<stored, lost>>
    BY <2>1, <2>3, <2>4 DEF Abstract!cvars
  <2>5. CASE lost' = [lost EXCEPT ![e] = @ + 1] /\ Stores(e)
    <3>1. Abstract!DeliverUnheard(e)
      BY <2>1, <2>3, <2>5
         DEF Stores, Abstract!DeliverUnheard, Abstract!FailsOnce, Abstract!Taken
    <3> QED BY <3>1 DEF Abstract!ContractNext
  <2> QED BY <1>1, <2>4, <2>5 DEF Silence
<1>2. CASE Breaks(e)
  BY <1>2, FailureRefines DEF Breaks
<1> QED BY <1>1, <1>2

\* Every attempt is a step of the contract.
LEMMA AttemptRefines ==
  ASSUME TypeOK, TypeOK', NEW e \in Events, Attempt(e)
  PROVE  [Abstract!ContractNext]_(Abstract!cvars)
<1> USE DEF net, States, Abstract!Becomes
<1>1. stage[e] = "try"
  BY DEF Attempt, Answered, AnswerLost, OtherStatus, NoAnswer
<1>2. CASE Answered(e)
  <2>1. Returns(e)
    BY <1>2 DEF Answered
  <2>2. Abstract!Deliver(e)
    BY <1>1, <1>2, <2>1, ReturnsRefines
       DEF Answered, Stores, Abstract!Deliver, Abstract!Taken
  <2> QED BY <2>2 DEF Abstract!ContractNext
<1>3. CASE AnswerLost(e)
  <2>1. Again(e)
    BY <1>3 DEF AnswerLost
  <2>2. Abstract!FailsOnce(e)
    BY <1>1, <2>1, AgainRefines DEF Abstract!FailsOnce
  <2>3. Abstract!DeliverUnheard(e)
    BY <1>3, <2>2 DEF AnswerLost, Stores, Abstract!DeliverUnheard, Abstract!Taken
  <2> QED BY <2>3 DEF Abstract!ContractNext
<1>4. CASE OtherStatus(e)
  <2>1. Abstract!FailsOnce(e) \/ Abstract!Becomes(e, "sent")
    BY <1>1, <1>4, AgainRefines, ReturnsRefines DEF OtherStatus, Abstract!FailsOnce
  <2>2. Abstract!Decline(e)
    BY <1>4, <2>1 DEF OtherStatus, Abstract!Decline
  <2> QED BY <2>2 DEF Abstract!ContractNext
<1>5. CASE NoAnswer(e)
  BY <1>1, <1>5, FailureRefines DEF NoAnswer, Unreached
<1> QED BY <1>2, <1>3, <1>4, <1>5 DEF Attempt

\* The initial state of the client is one of the contract.
LEMMA RefinesInit == Init => Abstract!ContractInit
  BY DEF Init, State, Abstract!ContractInit

\* Every step of the client is a step of the contract or none of its concern.
LEMMA RefinesNext ==
  TypeOK /\ TypeOK' /\ [Next]_vars => [Abstract!ContractNext]_(Abstract!cvars)
<1> SUFFICES ASSUME TypeOK, TypeOK', [Next]_vars
             PROVE  [Abstract!ContractNext]_(Abstract!cvars)
  OBVIOUS
<1> USE DEF net
<1>1. ASSUME UNCHANGED <<stage, stored, lost, refused>>
      PROVE  UNCHANGED Abstract!cvars
  BY <1>1 DEF Abstract!cvars, State
<1>2. CASE Crash
  <2> DEFINE open == {e \in Events : State(e) = "open"}
  <2>1. \A e \in Events : State(e)' = IF e \in open THEN "lost" ELSE State(e)
    BY <1>2 DEF Crash, State, TypeOK
  <2>2. Abstract!GiveUp(open)
    BY <1>2, <2>1 DEF Crash, Abstract!GiveUp
  <2> QED BY <2>2 DEF Abstract!ContractNext
<1>3. ASSUME NEW e \in Events, SendEvent(e)
      PROVE  [Abstract!ContractNext]_(Abstract!cvars)
  <2>1. /\ State(e) = "new" /\ State(e)' = "open"
        /\ \A f \in Events : f # e => stage'[f] = stage[f]
    BY <1>3 DEF SendEvent, State, TypeOK
  <2>2. Abstract!Begin(e)
    BY <1>3, <2>1, StateChanges DEF SendEvent, Abstract!Begin, States
  <2> QED BY <2>2 DEF Abstract!ContractNext
<1>4. ASSUME NEW e \in Events, Send(e) \/ Wake(e)
      PROVE  [Abstract!ContractNext]_(Abstract!cvars)
  <2>1. \A f \in Events : State(f)' = State(f)
    BY <1>4 DEF Send, Wake, State, TypeOK
  <2> QED BY <1>4, <2>1 DEF Send, Wake, Abstract!cvars
<1>5. CASE Tick \/ OutageBegins \/ OutageEnds \/ UNCHANGED vars
  BY <1>1, <1>5 DEF Tick, OutageBegins, OutageEnds, vars
<1> QED BY <1>2, <1>3, <1>4, <1>5, AttemptRefines, SilenceRefines DEF Next, Step

\* The client of the pots implements SendContract: an event is stored again
\* only after a lost answer, it counts as sent only when it was stored or
\* refused, and after its end no attempt is left behind.
THEOREM ClientImplementsContract == Spec => Contract
  BY TypeCorrect, RefinesInit, RefinesNext, PTL DEF Spec, Contract, Abstract!Contract
=============================================================================
