--------------------------- MODULE PipelineProofs ---------------------------
(***************************************************************************)
(* Proofs about Pipeline, for any logins and all values of its other       *)
(* constants: that its parts behave as ProxyRelay and as SendContract, how *)
(* often an event can be in the table, and in which order events are.      *)
(***************************************************************************)
EXTENDS Pipeline, ProxyRelayProofs, FiniteSetTheorems

USE TimeAssumption, TimesAssumption, UnheardAssumption

\* The numbers of the logins.
LEMMA EventsAreNumbers == \A e \in Events : e \in Nat /\ e > 0
  BY DEF Events

-----------------------------------------------------------------------------
(***************************************************************************)
(* The parts                                                               *)
(***************************************************************************)

\* A step of Pipeline is a step of the proxy, or none.
LEMMA ProxyNext == [PipelineNext]_pipeVars => [Next]_vars
<1> SUFFICES ASSUME [PipelineNext]_pipeVars PROVE [Next]_vars
  OBVIOUS
<1>1. CASE ProxyStep
  <2>1. ASSUME NEW d \in Drainers, Request(d) PROVE Attempt(d)
    BY <2>1 DEF Request, Attempt
  <2> QED BY <1>1, <2>1 DEF ProxyStep, Next
<1>2. CASE Changes
  BY <1>2 DEF Changes
<1>3. ASSUME NEW e \in Events,
             Login(e) \/ Post(e) \/ PostUnheard(e) \/ PostDeclined(e) \/ PostsEnd(e)
      PROVE  [Next]_vars
  BY <1>3 DEF Login, Post, PostUnheard, Posts, PostDeclined, PostsEnd, Next
<1>4. CASE UNCHANGED pipeVars
  BY <1>4 DEF pipeVars
<1> QED BY <1>1, <1>2, <1>3, <1>4 DEF PipelineNext

\* The proxy between the potter and the Lambda does nothing but what it does
\* among arbitrary clients and servers, so that what is proved of ProxyRelay
\* holds here.
THEOREM PipelineRunsProxy == PipelineSpec => Spec
<1>1. PipelineInit => Init
  BY DEF PipelineInit
<1> QED BY <1>1, ProxyNext, PTL DEF PipelineSpec, Spec

\* A step of Pipeline is a step of the potter, or none.
LEMMA SenderNext == [PipelineNext]_pipeVars => [Sender!ContractNext]_(Sender!cvars)
<1> SUFFICES ASSUME [PipelineNext]_pipeVars
             PROVE  [Sender!ContractNext]_(Sender!cvars)
  OBVIOUS
<1>1. CASE (ProxyStep /\ UNCHANGED <<potter, lambda>>) \/ Changes \/ UNCHANGED pipeVars
  BY <1>1 DEF Changes, pipeVars, potter, Sender!cvars
<1>2. ASSUME NEW e \in Events, PostsEnd(e) PROVE Sender!ContractNext
  <2>1. {e} \in SUBSET Events
    OBVIOUS
  <2> QED BY <1>2, <2>1 DEF PostsEnd, Sender!ContractNext
<1>3. ASSUME NEW e \in Events, Login(e) \/ Post(e) \/ PostUnheard(e) \/ PostDeclined(e)
      PROVE  Sender!ContractNext
  BY <1>3 DEF Login, Post, PostUnheard, PostDeclined, Sender!ContractNext
<1> QED BY <1>1, <1>2, <1>3 DEF PipelineNext

\* The potter in front of the proxy keeps its contract.
THEOREM PipelineRunsPotter == PipelineSpec => Sender!Contract
<1>1. PipelineInit => Sender!ContractInit
  BY DEF PipelineInit
<1> QED BY <1>1, SenderNext, PTL DEF PipelineSpec, Sender!Contract

-----------------------------------------------------------------------------
(***************************************************************************)
(* The potter                                                              *)
(***************************************************************************)

PotterTypes ==
  /\ state \in [Events -> {"new", "open", "sent", "lost"}]
  /\ copies \in [Events -> Nat]
  /\ unheard \in [Events -> Nat]
  /\ earlier \in [Events -> SUBSET Events]
  /\ owner \in Seq(Events)
  /\ Len(owner) = Len(log)

\* The proxy takes an event once more than its answers are lost, at most.
HandedOver ==
  \A e \in Events : /\ copies[e] <= unheard[e] + 1
                    /\ state[e] \in {"new", "open"} => copies[e] <= unheard[e]

\* Logins come in order, and those that count as sent before one of them come
\* before it and stay sent.
InTurn == \A e \in Events : state[e] # "new" => \A f \in 1 .. e - 1 : state[f] # "new"

SentBefore ==
  \A f \in Events : \A e \in earlier[f] :
    state[f] # "new" /\ state[e] = "sent" /\ e < f

\* A payload comes after its login, and after every payload of an event that
\* was sent before that login.
Payloads ==
  \A y \in 1 .. Len(owner) :
    /\ state[owner[y]] # "new"
    /\ \A x \in 1 .. Len(owner) : owner[x] \in earlier[owner[y]] => x < y

\* The payloads of an event can be numbered from 1 to the number of times the
\* proxy took it.
Numbered ==
  \E n \in [1 .. Len(owner) -> Nat \ {0}] :
    /\ \A x \in 1 .. Len(owner) : n[x] <= copies[owner[x]]
    /\ \A x, y \in 1 .. Len(owner) : owner[x] = owner[y] /\ n[x] = n[y] => x = y

PotterInv ==
  PotterTypes /\ HandedOver /\ InTurn /\ SentBefore /\ Payloads /\ Numbered

\* Nothing is sent at the start.
LEMMA PotterInit == PipelineInit => PotterInv
<1> SUFFICES ASSUME PipelineInit PROVE PotterInv
  OBVIOUS
<1>1. /\ state = [e \in Events |-> "new"] /\ copies = [e \in Events |-> 0]
      /\ unheard = [e \in Events |-> 0] /\ earlier = [e \in Events |-> {}]
      /\ owner = <<>> /\ log = <<>>
  BY DEF PipelineInit, Sender!ContractInit, Init
<1>2. PotterTypes /\ HandedOver /\ InTurn /\ SentBefore
  BY <1>1 DEF PotterTypes, HandedOver, InTurn, SentBefore
<1>3. Payloads
  BY <1>1 DEF Payloads
<1>4. Numbered
  <2>1. Len(owner) = 0
    BY <1>1
  <2>2. PICK n \in [1 .. Len(owner) -> Nat \ {0}] : TRUE
    <3>1. [x \in 1 .. Len(owner) |-> 1] \in [1 .. Len(owner) -> Nat \ {0}]
      OBVIOUS
    <3> QED BY <3>1
  <2>3. \A x \in 1 .. Len(owner) : FALSE
    BY <2>1
  <2> QED BY <2>2, <2>3 DEF Numbered
<1> QED BY <1>2, <1>3, <1>4 DEF PotterInv

\* ServeHTTP puts one payload into the log or none.
LEMMA LogGrows ==
  ASSUME TypeOK, ServeHTTP
  PROVE  log' = log \/ Len(log') = Len(log) + 1
<1>1. ASSUME NEW size \in Sizes, NEW ok \in BOOLEAN, Store(size, ok)
      PROVE  Len(log') = Len(log) + 1
  BY <1>1 DEF Store, TypeOK
<1> QED BY <1>1 DEF ServeHTTP

\* Nothing else puts anything there.
LEMMA LogStays ==
  ASSUME ProxyStep
  PROVE  log' = log
<1>1. CASE Restart \/ Listen \/ ListenFails \/ ServeFails \/ MainReturns
  BY <1>1 DEF Restart, Listen, ListenFails, ServeFails, MainReturns
<1>2. CASE Tick \/ ReceiveSignal \/ HandOff \/ OsExit \/ \E s \in Signals : Signal(s)
  BY <1>2 DEF Tick, ReceiveSignal, HandOff, OsExit, Signal
<1>3. ASSUME NEW d \in Drainers, Lock(d) \/ DrainStep(d) PROVE log' = log
  BY <1>3 DEF Lock, DrainStep, EndLoop, DropOverflow, Undecodable, Collect
<1>4. ASSUME NEW d \in Drainers, Request(d) PROVE log' = log
  BY <1>4 DEF Request, Accepted, Rejected, Panics
<1> QED BY <1>1, <1>2, <1>3, <1>4 DEF ProxyStep

\* The state of an event that is open moves on.
LEMMA OpenMoves ==
  ASSUME PotterInv, NEW e \in Events, NEW s \in {"open", "sent", "lost"},
         Sender!Becomes(e, s), earlier' = earlier
  PROVE  /\ state' \in [Events -> {"new", "open", "sent", "lost"}]
         /\ state[e] = "open" /\ state'[e] = s
         /\ \A f \in Events : f # e => state'[f] = state[f]
         /\ InTurn' /\ SentBefore'
<1>1. /\ state[e] = "open" /\ state'[e] = s
      /\ \A f \in Events : f # e => state'[f] = state[f]
      /\ state' \in [Events -> {"new", "open", "sent", "lost"}]
  BY DEF Sender!Becomes, PotterInv, PotterTypes
<1>2. \A f \in Events : state'[f] = "new" <=> state[f] = "new"
  BY <1>1
<1>3. InTurn'
  <2>1. ASSUME NEW g \in Events, NEW f \in 1 .. g - 1 PROVE f \in Events
    BY <2>1 DEF Events
  <2> QED BY <1>2, <2>1 DEF PotterInv, InTurn
<1>4. SentBefore'
  <2>1. ASSUME NEW f \in Events, NEW g \in earlier[f]
        PROVE  state'[f] # "new" /\ state'[g] = "sent" /\ g < f
    <3>1. g \in Events /\ state[f] # "new" /\ state[g] = "sent" /\ g < f
      BY DEF PotterInv, PotterTypes, SentBefore
    <3> QED BY <1>1, <1>2, <3>1
  <2> QED BY <2>1 DEF SentBefore
<1> QED BY <1>1, <1>3, <1>4

\* Payloads and their numbers stay when the log and the logins do.
LEMMA PayloadsStay ==
  ASSUME PotterInv, UNCHANGED <<log, owner, earlier>>,
         \A f \in Events : state[f] # "new" => state'[f] # "new",
         \A f \in Events : copies'[f] >= copies[f] /\ copies'[f] \in Nat
  PROVE  Payloads' /\ Numbered'
<1>1. /\ owner \in Seq(Events) /\ \A x \in 1 .. Len(owner) : owner[x] \in Events
      /\ copies \in [Events -> Nat]
  BY DEF PotterInv, PotterTypes
<1>2. Payloads'
  BY <1>1 DEF PotterInv, Payloads
<1>3. Numbered'
  <2>1. PICK n \in [1 .. Len(owner) -> Nat \ {0}] :
          /\ \A x \in 1 .. Len(owner) : n[x] <= copies[owner[x]]
          /\ \A x, y \in 1 .. Len(owner) : owner[x] = owner[y] /\ n[x] = n[y] => x = y
    BY DEF PotterInv, Numbered
  <2>2. ASSUME NEW x \in 1 .. Len(owner) PROVE n[x] <= copies'[owner[x]]
    <3>1. /\ n[x] \in Nat /\ n[x] <= copies[owner[x]] /\ owner[x] \in Events
          /\ copies[owner[x]] \in Nat
      BY <1>1, <2>1
    <3> QED BY <3>1
  <2> QED BY <2>1, <2>2 DEF Numbered
<1> QED BY <1>2, <1>3

\* An event that is handed over once more puts at most one payload at the end.
LEMMA PayloadJoins ==
  ASSUME TypeOK, PotterInv, NEW e \in Events, state[e] = "open", Posts(e),
         Sender!Taken(e), state'[e] # "new",
         \A f \in Events : f # e => state'[f] = state[f]
  PROVE  /\ owner' \in Seq(Events) /\ Len(owner') = Len(log')
         /\ copies' \in [Events -> Nat]
         /\ copies'[e] = copies[e] + 1
         /\ \A f \in Events : f # e => copies'[f] = copies[f]
         /\ Payloads' /\ Numbered'
<1> DEFINE z == Len(owner) + 1
<1>1. /\ owner \in Seq(Events) /\ Len(owner) = Len(log) /\ Len(owner) \in Nat
      /\ \A x \in 1 .. Len(owner) : owner[x] \in Events
      /\ copies \in [Events -> Nat] /\ earlier' = earlier
  BY DEF PotterInv, PotterTypes, Posts
<1>2. /\ copies' \in [Events -> Nat]
      /\ copies'[e] = copies[e] + 1
      /\ \A f \in Events : f # e => copies'[f] = copies[f]
  BY <1>1 DEF Sender!Taken
<1>3. \A f \in Events : copies'[f] >= copies[f] /\ copies'[f] \in Nat
  <2> TAKE f \in Events
  <2>1. copies[f] \in Nat
    BY <1>1
  <2> QED BY <1>2, <2>1
<1>4. \A f \in Events : state[f] # "new" => state'[f] # "new"
  OBVIOUS
<1>5. CASE log' = log
  <2>1. owner' = owner
    BY <1>5 DEF Posts
  <2> QED BY <1>1, <1>2, <1>3, <1>4, <1>5, <2>1, PayloadsStay
<1>6. CASE log' # log
  <2>1. owner' = Append(owner, e) /\ Len(log') = Len(log) + 1
    BY <1>6, LogGrows DEF Posts
  <2>2. /\ owner' \in Seq(Events) /\ Len(owner') = z /\ owner'[z] = e
        /\ \A x \in 1 .. Len(owner) : owner'[x] = owner[x]
        /\ \A x \in 1 .. z : x = z \/ x \in 1 .. Len(owner)
        /\ z \in 1 .. z /\ \A x \in 1 .. Len(owner) : x \in 1 .. z /\ x < z /\ x # z
    BY <1>1, <2>1
  <2> HIDE DEF z
  <2>3. \A f \in Events : e \notin earlier[f]
    BY DEF PotterInv, SentBefore
  <2>4. Payloads'
    <3>1. ASSUME NEW y \in 1 .. z PROVE state'[owner'[y]] # "new"
      <4>1. CASE y = z
        BY <2>2, <4>1
      <4>2. CASE y \in 1 .. Len(owner)
        <5>1. state[owner[y]] # "new" /\ owner[y] \in Events
          BY <1>1, <4>2 DEF PotterInv, Payloads
        <5> QED BY <1>4, <2>2, <4>2, <5>1
      <4> QED BY <2>2, <4>1, <4>2
    <3>2. ASSUME NEW x \in 1 .. z, NEW y \in 1 .. z, owner'[x] \in earlier[owner'[y]]
          PROVE  x < y
      <4>1. owner'[y] \in Events
        BY <1>1, <2>2
      <4>2. x # z
        BY <2>2, <2>3, <3>2, <4>1
      <4>3. CASE y = z
        BY <2>2, <4>2, <4>3
      <4>4. CASE y # z
        BY <2>2, <3>2, <4>2, <4>4 DEF PotterInv, Payloads
      <4> QED BY <4>3, <4>4
    <3> QED BY <1>1, <2>2, <3>1, <3>2 DEF Payloads
  <2>5. Numbered'
    <3>1. PICK n \in [1 .. Len(owner) -> Nat \ {0}] :
            /\ \A x \in 1 .. Len(owner) : n[x] <= copies[owner[x]]
            /\ \A x, y \in 1 .. Len(owner) : owner[x] = owner[y] /\ n[x] = n[y] => x = y
      BY DEF PotterInv, Numbered
    <3> DEFINE m == [x \in 1 .. z |-> IF x = z THEN copies'[e] ELSE n[x]]
    <3>2. copies'[e] \in Nat \ {0} /\ copies[e] \in Nat
      BY <1>1, <1>2
    <3>3. m \in [1 .. z -> Nat \ {0}]
      BY <2>2, <3>2
    <3>4. /\ \A x \in 1 .. Len(owner) : m[x] = n[x] /\ n[x] \in Nat
          /\ m[z] = copies'[e]
      BY <2>2
    <3> HIDE DEF m
    <3>5. ASSUME NEW x \in 1 .. Len(owner)
          PROVE  m[x] <= copies'[owner[x]] /\ (owner[x] = e => m[x] < m[z])
      <4>1. /\ m[x] \in Nat /\ m[x] <= copies[owner[x]] /\ owner[x] \in Events
            /\ copies[owner[x]] \in Nat
        BY <1>1, <3>1, <3>4
      <4> QED BY <1>2, <1>3, <3>2, <3>4, <4>1
    <3>6. ASSUME NEW x \in 1 .. z PROVE m[x] <= copies'[owner'[x]]
      <4>1. CASE x = z
        BY <2>2, <3>2, <3>4, <4>1
      <4>2. CASE x \in 1 .. Len(owner)
        BY <2>2, <3>5, <4>2
      <4> QED BY <2>2, <4>1, <4>2
    <3>7. ASSUME NEW x \in 1 .. z, NEW y \in 1 .. z, owner'[x] = owner'[y], m[x] = m[y]
          PROVE  x = y
      <4>1. ASSUME NEW a \in 1 .. Len(owner), owner'[a] = e PROVE m[a] # m[z]
        <5>1. m[a] \in Nat /\ m[z] \in Nat /\ m[a] < m[z]
          BY <2>2, <3>2, <3>4, <3>5, <4>1
        <5> QED BY <5>1
      <4>2. CASE x = z \/ y = z
        BY <2>2, <3>7, <4>1, <4>2
      <4>3. CASE x \in 1 .. Len(owner) /\ y \in 1 .. Len(owner)
        <5>1. owner[x] = owner[y] /\ n[x] = n[y]
          BY <2>2, <3>4, <3>7, <4>3
        <5> QED BY <3>1, <4>3, <5>1
      <4> QED BY <2>2, <4>2, <4>3
    <3>8. \E k \in [1 .. z -> Nat \ {0}] :
            /\ \A x \in 1 .. z : k[x] <= copies'[owner'[x]]
            /\ \A x, y \in 1 .. z : owner'[x] = owner'[y] /\ k[x] = k[y] => x = y
      BY <3>3, <3>6, <3>7
    <3>9. Len(owner') = z
      BY <2>2
    <3> QED BY <3>8, <3>9, Zenon DEF Numbered
  <2> QED BY <1>2, <2>1, <2>2, <2>4, <2>5, <1>1
<1> QED BY <1>5, <1>6

\* A step of another part leaves the potter alone.
LEMMA PotterStays ==
  ASSUME PotterInv, UNCHANGED <<log, potter>>
  PROVE  PotterInv'
<1>1. UNCHANGED <<log, state, copies, unheard, owner, earlier>>
  BY DEF potter
<1>2. \A f \in Events : copies'[f] >= copies[f] /\ copies'[f] \in Nat
  <2> TAKE f \in Events
  <2>1. copies[f] \in Nat
    BY DEF PotterInv, PotterTypes
  <2> QED BY <1>1, <2>1
<1>3. Payloads' /\ Numbered'
  BY <1>1, <1>2, PayloadsStay
<1> QED BY <1>1, <1>3 DEF PotterInv, PotterTypes, HandedOver, InTurn, SentBefore

\* A login begins.
LEMMA LoginKeeps ==
  ASSUME PotterInv, NEW e \in Events, Login(e)
  PROVE  PotterInv'
<1>1. /\ state[e] = "new" /\ UNCHANGED <<copies, unheard, log, owner>>
      /\ \A f \in 1 .. e - 1 : state[f] # "new"
      /\ state' = [state EXCEPT ![e] = "open"]
      /\ earlier' = [earlier EXCEPT ![e] = {f \in Events : state[f] = "sent"}]
  BY DEF Login, Sender!Begin, vars
<1>2. PotterTypes
  BY DEF PotterInv
<1>3. /\ state'[e] = "open" /\ \A f \in Events : f # e => state'[f] = state[f]
      /\ earlier'[e] = {f \in Events : state[f] = "sent"}
      /\ \A f \in Events : f # e => earlier'[f] = earlier[f]
      /\ PotterTypes'
  BY <1>1, <1>2 DEF PotterTypes
<1>4. HandedOver'
  BY <1>1, <1>3 DEF PotterInv, HandedOver
<1>5. InTurn'
  <2>1. ASSUME NEW g \in Events, NEW f \in 1 .. g - 1 PROVE f \in Events
    BY <2>1 DEF Events
  <2>2. ASSUME NEW g \in Events, state'[g] # "new", NEW f \in 1 .. g - 1
        PROVE  state'[f] # "new"
    BY <1>1, <1>3, <2>1, <2>2 DEF PotterInv, InTurn
  <2> QED BY <2>2 DEF InTurn
<1>6. SentBefore'
  <2>1. ASSUME NEW g \in Events, state[g] = "sent" PROVE g < e /\ state'[g] = "sent"
    <3>1. g # e /\ state[g] # "new"
      BY <1>1, <2>1
    <3>2. ~(e < g)
      <4>1. e < g => e \in 1 .. g - 1
        BY DEF Events
      <4> QED BY <1>1, <3>1, <4>1 DEF PotterInv, InTurn
    <3> QED BY <1>3, <2>1, <3>1, <3>2, EventsAreNumbers
  <2>2. ASSUME NEW f \in Events, f # e, NEW g \in earlier[f]
        PROVE  state'[f] # "new" /\ state'[g] = "sent" /\ g < f
    <3>1. g \in Events /\ state[f] # "new" /\ state[g] = "sent" /\ g < f
      BY <1>2, <2>2 DEF PotterInv, PotterTypes, SentBefore
    <3> QED BY <1>3, <2>1, <2>2, <3>1
  <2> QED BY <1>3, <2>1, <2>2 DEF SentBefore
<1>7. \A x \in 1 .. Len(owner) : owner[x] \in Events /\ owner[x] # e
  BY <1>1, <1>2 DEF PotterInv, PotterTypes, Payloads
<1>8. Payloads'
  BY <1>1, <1>3, <1>7 DEF PotterInv, Payloads
<1>9. Numbered'
  BY <1>1 DEF PotterInv, Numbered
<1> QED BY <1>3, <1>4, <1>5, <1>6, <1>8, <1>9 DEF PotterInv

\* A POST reaches the proxy, and its answer the potter or not.
LEMMA PostKeeps ==
  ASSUME TypeOK, PotterInv, NEW e \in Events, NEW s \in {"open", "sent", "lost"},
         Posts(e), Sender!Becomes(e, s), Sender!Taken(e),
         \/ s = "sent" /\ unheard' = unheard
         \/ unheard' = [unheard EXCEPT ![e] = @ + 1]
  PROVE  PotterInv'
<1>1. earlier' = earlier
  BY DEF Posts
<1>2. /\ state' \in [Events -> {"new", "open", "sent", "lost"}]
      /\ state[e] = "open" /\ state'[e] = s
      /\ \A f \in Events : f # e => state'[f] = state[f]
      /\ InTurn' /\ SentBefore'
  BY <1>1, OpenMoves
<1>3. /\ owner' \in Seq(Events) /\ Len(owner') = Len(log')
      /\ copies' \in [Events -> Nat]
      /\ copies'[e] = copies[e] + 1
      /\ \A f \in Events : f # e => copies'[f] = copies[f]
      /\ Payloads' /\ Numbered'
  BY <1>2, PayloadJoins
<1>4. /\ unheard \in [Events -> Nat] /\ copies \in [Events -> Nat] /\ HandedOver
      /\ earlier \in [Events -> SUBSET Events]
  BY DEF PotterInv, PotterTypes
<1>5. /\ unheard' \in [Events -> Nat]
      /\ \A f \in Events : f # e => unheard'[f] = unheard[f]
      /\ (s = "sent" /\ unheard'[e] = unheard[e]) \/ unheard'[e] = unheard[e] + 1
  BY <1>4
<1>6. HandedOver'
  <2>1. ASSUME NEW f \in Events, f # e
        PROVE  /\ copies'[f] <= unheard'[f] + 1
               /\ state'[f] \in {"new", "open"} => copies'[f] <= unheard'[f]
    BY <1>2, <1>3, <1>4, <1>5, <2>1 DEF HandedOver
  <2>2. /\ copies'[e] <= unheard'[e] + 1
        /\ state'[e] \in {"new", "open"} => copies'[e] <= unheard'[e]
    <3>1. /\ copies[e] \in Nat /\ unheard[e] \in Nat /\ copies[e] <= unheard[e]
          /\ copies'[e] = copies[e] + 1
      BY <1>2, <1>3, <1>4 DEF HandedOver
    <3> QED BY <1>2, <1>5, <3>1
  <2> QED BY <2>1, <2>2 DEF HandedOver
<1>7. PotterTypes'
  BY <1>1, <1>2, <1>3, <1>4, <1>5 DEF PotterTypes
<1> QED BY <1>2, <1>3, <1>6, <1>7 DEF PotterInv

\* An attempt that the proxy does not take, or the end of the attempts.
LEMMA EndKeepsPotter ==
  ASSUME PotterInv, NEW e \in Events, NEW s \in {"open", "sent", "lost"},
         Sender!Becomes(e, s),
         UNCHANGED <<log, owner, earlier, copies, unheard>>
  PROVE  PotterInv'
<1>1. /\ state' \in [Events -> {"new", "open", "sent", "lost"}]
      /\ state[e] = "open" /\ state'[e] = s
      /\ \A f \in Events : f # e => state'[f] = state[f]
      /\ InTurn' /\ SentBefore'
  BY OpenMoves
<1>2. \A f \in Events : copies[f] \in Nat
  BY DEF PotterInv, PotterTypes
<1>3. \A f \in Events : copies'[f] >= copies[f] /\ copies'[f] \in Nat
  BY <1>2
<1>4. Payloads' /\ Numbered'
  BY <1>1, <1>3, PayloadsStay
<1>5. PotterTypes' /\ HandedOver'
  BY <1>1 DEF PotterInv, PotterTypes, HandedOver
<1> QED BY <1>1, <1>4, <1>5 DEF PotterInv

\* Every step keeps what is known of the potter.
LEMMA PotterNext == TypeOK /\ PotterInv /\ [PipelineNext]_pipeVars => PotterInv'
<1> SUFFICES ASSUME TypeOK, PotterInv, [PipelineNext]_pipeVars PROVE PotterInv'
  OBVIOUS
<1>1. CASE ProxyStep /\ UNCHANGED <<potter, lambda>>
  BY <1>1, LogStays, PotterStays
<1>2. CASE Changes \/ UNCHANGED pipeVars
  BY <1>2, PotterStays DEF Changes, pipeVars, vars
<1>3. ASSUME NEW e \in Events, Login(e) PROVE PotterInv'
  BY <1>3, LoginKeeps
<1>4. ASSUME NEW e \in Events, Post(e) PROVE PotterInv'
  BY <1>4, PostKeeps DEF Post, Sender!Deliver
<1>5. ASSUME NEW e \in Events, PostUnheard(e) PROVE PotterInv'
  <2>1. /\ Posts(e) /\ Sender!Taken(e)
        /\ Sender!Becomes(e, "open") \/ Sender!Becomes(e, "lost")
        /\ unheard' = [unheard EXCEPT ![e] = @ + 1]
    BY <1>5 DEF PostUnheard, Sender!DeliverUnheard, Sender!FailsOnce
  <2> QED BY <2>1, PostKeeps
<1>6. ASSUME NEW e \in Events, PostDeclined(e) PROVE PotterInv'
  <2>1. /\ \E s \in {"open", "sent", "lost"} : Sender!Becomes(e, s)
        /\ UNCHANGED <<log, owner, earlier, copies, unheard>>
    BY <1>6 DEF PostDeclined, Sender!Decline, Sender!FailsOnce, vars
  <2> QED BY <2>1, EndKeepsPotter
<1>7. ASSUME NEW e \in Events, PostsEnd(e) PROVE PotterInv'
  <2>1. Sender!Becomes(e, "lost")
    <3>1. /\ state[e] = "open" /\ state \in [Events -> {"new", "open", "sent", "lost"}]
          /\ state' = [f \in Events |-> IF f \in {e} THEN "lost" ELSE state[f]]
      BY <1>7 DEF PostsEnd, Sender!GiveUp, PotterInv, PotterTypes
    <3> QED BY <3>1 DEF Sender!Becomes
  <2>2. UNCHANGED <<log, owner, earlier, copies, unheard>>
    BY <1>7 DEF PostsEnd, Sender!GiveUp, vars
  <2> QED BY <2>1, <2>2, EndKeepsPotter
<1> QED BY <1>1, <1>2, <1>3, <1>4, <1>5, <1>6, <1>7 DEF PipelineNext

-----------------------------------------------------------------------------
(***************************************************************************)
(* The attempts of a batch                                                 *)
(***************************************************************************)

\* The places of a batch in the table can be numbered, up to the number of
\* attempts that were used while it is in hand.
Tried ==
  \E n \in [1 .. Len(recorded) -> 1 .. MaxTries] :
    /\ \A i, j \in 1 .. Len(recorded) :
         recorded[i] = recorded[j] /\ n[i] = n[j] => i = j
    /\ \A d \in Drainers : \A i \in 1 .. Len(recorded) :
         pc[d] = "send" /\ recorded[i] = events[d] => n[i] <= tries[d]

\* A step that stores nothing: whoever sends has the batch it had, and has
\* used no fewer attempts, or begins to send a batch it has just collected.
StoresNothing ==
  /\ recorded' = recorded
  /\ \A d \in Drainers : pc'[d] = "send" =>
       /\ events'[d] = events[d]
       /\ (pc[d] = "send" /\ tries'[d] >= tries[d]) \/ pc[d] = "loop"

\* A step that stores the batch of d, which goes on to its next attempt or
\* ends.
StoresOnce(d) ==
  /\ pc[d] = "send" /\ Stores(d)
  /\ \A c \in Drainers : pc'[c] = "send" =>
       c = d /\ events'[d] = events[d] /\ tries'[d] = tries[d] + 1

\* A batch that is still collected is not in the table.
LEMMA CollectedIsNew ==
  ASSUME TypeOK, OrderInv, NEW d \in Drainers, pc[d] = "loop", events[d] # <<>>,
         NEW i \in 1 .. Len(recorded)
  PROVE  recorded[i] # events[d]
<1>1. LastOf(recorded[i]) < events[d][1]
  BY DEF OrderInv, StoredIsPast
<1>2. IsRun(log, events[d]) /\ events[d] \in Seq(Nat)
  BY DEF OrderInv, BatchInHand, TypeOK
<1>3. /\ Len(events[d]) \in 1 .. Len(events[d]) /\ Len(events[d]) \in Nat
      /\ events[d][1] \in Nat
  BY <1>2 DEF IsRun
<1>4. LastOf(events[d]) = events[d][1] + Len(events[d]) - 1
  BY <1>2, <1>3 DEF IsRun, LastOf
<1>5. LastOf(events[d]) >= events[d][1]
  BY <1>3, <1>4
<1> QED BY <1>1, <1>3, <1>4, <1>5

\* A step that stores nothing keeps the numbers.
LEMMA TriedStays ==
  ASSUME TypeOK, TypeOK', OrderInv, BatchInHand', Tried, StoresNothing
  PROVE  Tried'
<1>1. PICK n \in [1 .. Len(recorded) -> 1 .. MaxTries] :
        /\ \A i, j \in 1 .. Len(recorded) :
             recorded[i] = recorded[j] /\ n[i] = n[j] => i = j
        /\ \A d \in Drainers : \A i \in 1 .. Len(recorded) :
             pc[d] = "send" /\ recorded[i] = events[d] => n[i] <= tries[d]
  BY DEF Tried
<1>2. ASSUME NEW d \in Drainers, NEW i \in 1 .. Len(recorded),
             pc'[d] = "send", recorded[i] = events'[d]
      PROVE  n[i] <= tries'[d]
  <2>1. events'[d] = events[d] /\ events'[d] # <<>>
    BY <1>2 DEF StoresNothing, BatchInHand
  <2>2. pc[d] # "loop"
    BY <1>2, <2>1, CollectedIsNew
  <2>3. pc[d] = "send" /\ tries'[d] >= tries[d] /\ n[i] <= tries[d]
    BY <1>1, <1>2, <2>1, <2>2 DEF StoresNothing
  <2>4. n[i] \in Nat /\ tries[d] \in Nat /\ tries'[d] \in Nat
    <3>1. n[i] \in 1 .. MaxTries
      BY <1>1
    <3>2. tries[d] \in 0 .. MaxTries - 1 /\ tries'[d] \in 0 .. MaxTries - 1
      BY DEF TypeOK
    <3> QED BY <3>1, <3>2
  <2> QED BY <2>3, <2>4
<1> QED BY <1>1, <1>2 DEF Tried, StoresNothing

\* A step that stores a batch gives the new place the next number.
LEMMA TriedGrows ==
  ASSUME TypeOK, Tried, NEW d \in Drainers, StoresOnce(d)
  PROVE  Tried'
<1> DEFINE z == Len(recorded) + 1
           t == tries[d] + 1
<1>1. PICK n \in [1 .. Len(recorded) -> 1 .. MaxTries] :
        /\ \A i, j \in 1 .. Len(recorded) :
             recorded[i] = recorded[j] /\ n[i] = n[j] => i = j
        /\ \A c \in Drainers : \A i \in 1 .. Len(recorded) :
             pc[c] = "send" /\ recorded[i] = events[c] => n[i] <= tries[c]
  BY DEF Tried
<1>2. /\ recorded \in Seq(Seq(Nat)) /\ recorded' = Append(recorded, events[d])
      /\ pc[d] = "send"
  BY DEF TypeOK, StoresOnce, Stores
<1>3. /\ Len(recorded') = z /\ z \in 1 .. z /\ recorded'[z] = events[d]
      /\ \A i \in 1 .. Len(recorded) : /\ recorded'[i] = recorded[i]
                                       /\ i \in 1 .. z /\ i # z
      /\ \A i \in 1 .. z : i = z \/ i \in 1 .. Len(recorded)
  BY <1>2
<1>4. t \in 1 .. MaxTries /\ t \in Nat /\ tries[d] \in Nat /\ tries[d] < t
  <2>1. tries[d] \in 0 .. MaxTries - 1
    BY DEF TypeOK
  <2> QED BY <2>1, MaxTriesAssumption
<1> HIDE DEF z, t
<1> DEFINE m == [i \in 1 .. z |-> IF i = z THEN t ELSE n[i]]
<1>5. m \in [1 .. z -> 1 .. MaxTries]
  BY <1>1, <1>3, <1>4
<1>6. m[z] = t /\ \A i \in 1 .. Len(recorded) : m[i] = n[i]
  BY <1>3
<1> HIDE DEF m
<1>7. ASSUME NEW i \in 1 .. Len(recorded), recorded[i] = events[d]
      PROVE  m[i] < t /\ m[i] # m[z]
  <2>1. n[i] <= tries[d] /\ n[i] \in 1 .. MaxTries
    BY <1>1, <1>2, <1>7
  <2> QED BY <1>4, <1>6, <2>1
<1>8. ASSUME NEW i \in 1 .. z, NEW j \in 1 .. z,
             recorded'[i] = recorded'[j], m[i] = m[j]
      PROVE  i = j
  BY <1>1, <1>3, <1>6, <1>7, <1>8
<1>9. ASSUME NEW c \in Drainers, NEW i \in 1 .. z,
             pc'[c] = "send", recorded'[i] = events'[c]
      PROVE  m[i] <= tries'[c]
  <2>1. c = d /\ events'[d] = events[d] /\ tries'[d] = t
    BY <1>9 DEF StoresOnce, t
  <2>2. CASE i = z
    BY <1>4, <1>6, <2>1, <2>2
  <2>3. CASE i \in 1 .. Len(recorded)
    <3>1. m[i] < t /\ m[i] \in Nat
      BY <1>3, <1>5, <1>7, <1>9, <2>1, <2>3
    <3> QED BY <1>4, <2>1, <3>1
  <2> QED BY <1>3, <2>2, <2>3
<1>10. \E k \in [1 .. z -> 1 .. MaxTries] :
         /\ \A i, j \in 1 .. z : recorded'[i] = recorded'[j] /\ k[i] = k[j] => i = j
         /\ \A c \in Drainers : \A i \in 1 .. z :
              pc'[c] = "send" /\ recorded'[i] = events'[c] => k[i] <= tries'[c]
  BY <1>5, <1>8, <1>9
<1> QED BY <1>3, <1>10 DEF Tried

\* A return of Drain stores at most the batch it had.
LEMMA ReturnStores ==
  ASSUME TypeOK, OrderInv, NEW d \in Drainers, pc[d] \in {"loop", "send"}, Return(d),
         recorded' = recorded \/ (pc[d] = "send" /\ Stores(d))
  PROVE  StoresNothing \/ StoresOnce(d)
<1>1. pc'[d] # "send"
  <2>1. pc'[d] = AfterDrain(d)
    BY DEF Return, TypeOK
  <2> QED BY <2>1, AfterDrainPlace
<1>2. \A c \in Drainers : c # d => pc'[c] # "send"
  BY OthersOutside DEF Return, TypeOK
<1> QED BY <1>1, <1>2 DEF StoresNothing, StoresOnce

\* A step that stores nothing and sends nobody to a batch.
LEMMA QuietStores ==
  ASSUME TypeOK, UNCHANGED <<events, tries, recorded>>,
         \A c \in Drainers : pc'[c] = pc[c] \/ pc'[c] # "send"
  PROVE  StoresNothing
<1>1. \A c \in Drainers : tries[c] \in 0 .. MaxTries - 1
  BY DEF TypeOK
<1>2. \A c \in Drainers : tries'[c] >= tries[c]
  BY <1>1
<1> QED BY <1>2 DEF StoresNothing

\* The end of the process.
LEMMA EndsStores ==
  ASSUME Ends
  PROVE  \A c \in Drainers : pc'[c] # "send"
BY DEF Ends

\* When the loop ends, nothing is stored.
LEMMA LeaveLoopStores ==
  ASSUME TypeOK, OrderInv, NEW d \in Drainers, pc[d] = "loop", LeaveLoop(d),
         recorded' = recorded
  PROVE  StoresNothing \/ StoresOnce(d)
<1>1. CASE Return(d)
  BY <1>1, ReturnStores
<1>2. CASE pc' = [pc EXCEPT ![d] = "send"] /\ UNCHANGED events
  <2>1. \A c \in Drainers : c # d => pc'[c] # "send"
    BY <1>2, OthersOutside DEF TypeOK
  <2> QED BY <1>2, <2>1 DEF StoresNothing
<1> QED BY <1>1, <1>2 DEF LeaveLoop

\* A rejected attempt.
LEMMA RejectedStores ==
  ASSUME TypeOK, OrderInv, NEW d \in Drainers, Rejected(d)
  PROVE  StoresNothing \/ StoresOnce(d)
<1>1. pc[d] = "send" /\ (recorded' = recorded \/ Stores(d))
  BY DEF Rejected
<1>2. CASE Return(d)
  BY <1>1, <1>2, ReturnStores
<1>3. CASE tries' = [tries EXCEPT ![d] = tries[d] + 1] /\ UNCHANGED <<pc, events>>
  <2>1. \A c \in Drainers : c # d => pc'[c] # "send"
    BY <1>1, <1>3, OthersOutside
  <2>2. tries'[d] = tries[d] + 1 /\ tries[d] \in 0 .. MaxTries - 1
    BY <1>3 DEF TypeOK
  <2>3. tries'[d] >= tries[d]
    BY <2>2
  <2> QED BY <1>1, <1>3, <2>1, <2>2, <2>3 DEF StoresNothing, StoresOnce
<1> QED BY <1>2, <1>3 DEF Rejected, NextTry

\* What a step stores is the batch of one goroutine, if anything.
LEMMA StepStores ==
  ASSUME TypeOK, OrderInv, [Next]_vars
  PROVE  StoresNothing \/ \E d \in Drainers : StoresOnce(d)
<1>1. CASE Restart
  BY <1>1, QuietStores DEF Restart, Drainers
<1>2. CASE Listen
  BY <1>2, QuietStores DEF Listen, TypeOK
<1>3. CASE ServeFails
  BY <1>3, QuietStores DEF ServeFails, TypeOK
<1>4. CASE Tick
  BY <1>4, QuietStores DEF Tick, TypeOK
<1>5. CASE ReceiveSignal
  BY <1>5, QuietStores DEF ReceiveSignal, TypeOK
<1>6. CASE HandOff
  BY <1>6, QuietStores DEF HandOff, TypeOK
<1>7. CASE (\E s \in Signals : Signal(s)) \/ ServeHTTP \/ UNCHANGED vars
  BY <1>7, QuietStores DEF Signal, ServeHTTP, vars, local
<1>8. CASE ListenFails \/ MainReturns \/ OsExit
  BY <1>8, EndsStores DEF ListenFails, MainReturns, OsExit, StoresNothing
<1>9. ASSUME NEW d \in Drainers, Lock(d)
      PROVE  StoresNothing
  <2>1. \A c \in Drainers : pc'[c] = pc[c] \/ pc'[c] # "send"
    BY <1>9, AfterDrainPlace DEF Lock, TypeOK
  <2> QED BY <1>9, <2>1, QuietStores DEF Lock
<1>10. ASSUME NEW d \in Drainers, EndLoop(d)
       PROVE  StoresNothing \/ StoresOnce(d)
  BY <1>10, LeaveLoopStores DEF EndLoop
<1>11. ASSUME NEW d \in Drainers, DropOverflow(d)
       PROVE  StoresNothing \/ StoresOnce(d)
  BY <1>11, LeaveLoopStores DEF DropOverflow, Dequeues
<1>12. ASSUME NEW d \in Drainers, Undecodable(d)
       PROVE  StoresNothing \/ StoresOnce(d)
  BY <1>12, ReturnStores DEF Undecodable, Dequeues
<1>13. ASSUME NEW d \in Drainers, Collect(d)
       PROVE  StoresNothing
  <2>1. \A c \in Drainers : pc'[c] # "send"
    BY <1>13, OthersOutside DEF Collect, Dequeues
  <2> QED BY <1>13, <2>1 DEF Collect, StoresNothing
<1>14. ASSUME NEW d \in Drainers, Accepted(d)
       PROVE  StoresNothing \/ StoresOnce(d)
  BY <1>14, ReturnStores DEF Accepted
<1>15. ASSUME NEW d \in Drainers, Rejected(d)
       PROVE  StoresNothing \/ StoresOnce(d)
  BY <1>15, RejectedStores
<1>16. ASSUME NEW d \in Drainers, Panics(d)
       PROVE  StoresNothing \/ StoresOnce(d)
  BY <1>16, EndsStores DEF Panics, StoresNothing, StoresOnce
<1>17. ASSUME NEW d \in Drainers, Lock(d) \/ DrainStep(d) \/ Attempt(d)
       PROVE  StoresNothing \/ StoresOnce(d)
  BY <1>9, <1>10, <1>11, <1>12, <1>13, <1>14, <1>15, <1>16, <1>17
     DEF DrainStep, Attempt
<1> QED
  BY <1>1, <1>2, <1>3, <1>4, <1>5, <1>6, <1>7, <1>8, <1>17 DEF Next

\* At the start nothing is stored.
LEMMA TriedInit == Init => Tried
<1> SUFFICES ASSUME Init PROVE Tried
  OBVIOUS
<1>1. Len(recorded) = 0
  BY DEF Init
<1>2. PICK n \in [1 .. Len(recorded) -> 1 .. MaxTries] : TRUE
  <2>1. 1 \in 1 .. MaxTries
    BY MaxTriesAssumption
  <2>2. [i \in 1 .. Len(recorded) |-> 1] \in [1 .. Len(recorded) -> 1 .. MaxTries]
    BY <2>1
  <2> QED BY <2>2
<1>3. \A i \in 1 .. Len(recorded) : FALSE
  BY <1>1
<1> QED BY <1>2, <1>3 DEF Tried

\* Every step keeps the numbers of the places.
LEMMA TriedNext ==
  TypeOK /\ OrderInv /\ Tried /\ [Next]_vars => Tried'
<1> SUFFICES ASSUME TypeOK, OrderInv, Tried, [Next]_vars PROVE Tried'
  OBVIOUS
<1>1. TypeOK' /\ BatchInHand'
  BY TypeNext, OrderNext DEF OrderInv
<1> QED BY <1>1, StepStores, TriedStays, TriedGrows

-----------------------------------------------------------------------------
(***************************************************************************)
(* The invariant                                                           *)
(***************************************************************************)

\* What holds of the potter, of the proxy and of the table at every time.
PipelineInv == TypeOK /\ OrderInv /\ PotterInv /\ Tried

\* It is an invariant, because the proxy keeps its own whatever the potter
\* does.
THEOREM PipelineInvariant == PipelineSpec => []PipelineInv
<1>1. PipelineInit => PotterInv /\ Tried
  BY PotterInit, TriedInit DEF PipelineInit
<1>2. (TypeOK /\ OrderInv) /\ (PotterInv /\ Tried) /\ [PipelineNext]_pipeVars
      => (PotterInv /\ Tried)'
  BY PotterNext, TriedNext, ProxyNext
<1>3. (TypeOK /\ OrderInv) /\ (PotterInv /\ Tried) <=> PipelineInv
  BY DEF PipelineInv
<1> QED BY <1>1, <1>2, <1>3, PipelineRunsProxy, OrderInvariant, PTL DEF PipelineSpec

-----------------------------------------------------------------------------
(***************************************************************************)
(* How often an event is in the table                                      *)
(***************************************************************************)

\* The payloads of a stored batch follow on one another.
LEMMA RowPlace ==
  ASSUME TypeOK, OrderInv, NEW i \in 1 .. Len(recorded), NEW k \in 1 .. Len(recorded[i])
  PROVE  /\ recorded[i][1] \in Nat /\ LastOf(recorded[i]) \in Nat
         /\ recorded[i][k] = recorded[i][1] + k - 1
         /\ recorded[i][k] <= LastOf(recorded[i])
         /\ recorded[i][k] \in 1 .. Len(log)
<1>1. recorded[i] \in Seq(Nat) /\ IsRun(log, recorded[i])
  BY DEF TypeOK, OrderInv, InOrder
<1>2. /\ Len(recorded[i]) \in 1 .. Len(recorded[i]) /\ Len(recorded[i]) \in Nat
      /\ 1 \in 1 .. Len(recorded[i])
      /\ recorded[i][1] \in Nat /\ LastOf(recorded[i]) \in Nat
  <2>1. ASSUME NEW s \in Seq(Nat), s # <<>>
        PROVE  /\ Len(s) \in 1 .. Len(s) /\ Len(s) \in Nat /\ 1 \in 1 .. Len(s)
               /\ s[1] \in Nat /\ s[Len(s)] \in Nat
    BY <2>1
  <2> QED BY <1>1, <2>1 DEF IsRun, LastOf
<1>3. /\ recorded[i][k] = recorded[i][1] + k - 1
      /\ recorded[i][k] \in 1 .. Len(log)
  BY <1>1 DEF IsRun
<1>4. LastOf(recorded[i]) = recorded[i][1] + Len(recorded[i]) - 1
  BY <1>1, <1>2 DEF IsRun, LastOf
<1>5. recorded[i][k] <= LastOf(recorded[i])
  <2>1. k \in Nat /\ k <= Len(recorded[i])
    BY <1>2
  <2> QED BY <1>2, <1>3, <1>4, <2>1
<1> QED BY <1>2, <1>3, <1>5

\* Two stored batches with a payload in common are the same batch.
LEMMA SharedPayload ==
  ASSUME TypeOK, OrderInv,
         NEW i \in 1 .. Len(recorded), NEW k \in 1 .. Len(recorded[i]),
         NEW j \in 1 .. Len(recorded), NEW l \in 1 .. Len(recorded[j]),
         recorded[i][k] >= recorded[j][l], i < j
  PROVE  recorded[i] = recorded[j]
<1>1. recorded[i][k] <= LastOf(recorded[i]) /\ recorded[i][k] \in Nat
      /\ LastOf(recorded[i]) \in Nat
  <2>1. /\ recorded[i][k] <= LastOf(recorded[i]) /\ LastOf(recorded[i]) \in Nat
        /\ recorded[i][k] \in 1 .. Len(log)
    BY RowPlace
  <2> QED BY <2>1
<1>2. /\ recorded[j][l] = recorded[j][1] + l - 1 /\ recorded[j][1] \in Nat
      /\ l \in Nat /\ l >= 1 /\ recorded[j][l] \in Nat
  <2>1. /\ recorded[j][l] = recorded[j][1] + l - 1 /\ recorded[j][1] \in Nat
        /\ recorded[j][l] \in 1 .. Len(log)
    BY RowPlace
  <2> QED BY <2>1
<1>3. ~(LastOf(recorded[i]) < recorded[j][1])
  <2>1. ASSUME NEW x \in Nat, NEW y \in Nat, NEW last \in Nat, NEW first \in Nat,
               x <= last, x >= y, y = first + l - 1
        PROVE  ~(last < first)
    BY <1>2, <2>1
  <2> QED BY <1>1, <1>2, <2>1
<1> QED BY <1>3 DEF OrderInv, InOrder

\* A row of an event.
LEMMA RowOf ==
  ASSUME TypeOK, OrderInv, PotterInv, NEW e \in Events, NEW r \in Rows(e)
  PROVE  /\ r[1] \in 1 .. Len(recorded) /\ r[2] \in 1 .. Len(recorded[r[1]])
         /\ recorded[r[1]][r[2]] \in 1 .. Len(owner)
         /\ owner[recorded[r[1]][r[2]]] = e
         /\ r = <<r[1], r[2]>>
<1>1. /\ r \in (1 .. Len(recorded)) \X (1 .. MaxItems)
      /\ r[2] <= Len(recorded[r[1]]) /\ owner[recorded[r[1]][r[2]]] = e
  BY DEF Rows
<1>2. /\ r[1] \in 1 .. Len(recorded) /\ r[2] \in 1 .. MaxItems
      /\ r = <<r[1], r[2]>>
  BY <1>1
<1>3. Len(recorded[r[1]]) \in Nat
  <2>1. recorded \in Seq(Seq(Nat))
    BY DEF TypeOK
  <2>2. recorded[r[1]] \in Seq(Nat)
    BY <1>2, <2>1
  <2> QED BY <2>2
<1>4. r[2] \in 1 .. Len(recorded[r[1]])
  BY <1>1, <1>2, <1>3, MaxItemsAssumption
<1>5. Len(owner) = Len(log)
  BY DEF PotterInv, PotterTypes
<1> QED BY <1>1, <1>2, <1>4, <1>5, RowPlace

\* Two rows with the same payload are in the same batch, at the same place.
LEMMA SamePayload ==
  ASSUME TypeOK, OrderInv, PotterInv, NEW e \in Events, NEW r \in Rows(e), NEW s \in Rows(e),
         recorded[r[1]][r[2]] = recorded[s[1]][s[2]]
  PROVE  recorded[r[1]] = recorded[s[1]] /\ r[2] = s[2]
<1> DEFINE i == r[1]
           k == r[2]
           j == s[1]
           l == s[2]
<1>1. /\ i \in 1 .. Len(recorded) /\ k \in 1 .. Len(recorded[i])
      /\ j \in 1 .. Len(recorded) /\ l \in 1 .. Len(recorded[j])
      /\ recorded[i][k] = recorded[j][l]
  BY RowOf
<1> HIDE DEF i, j, k, l
<1>2. recorded[i][k] \in Nat /\ recorded[i][k] >= recorded[j][l] /\ recorded[j][l] >= recorded[i][k]
  <2>1. recorded[i][k] \in 1 .. Len(log)
    BY <1>1, RowPlace
  <2> QED BY <1>1, <2>1
<1>3. recorded[i] = recorded[j]
  <2>1. CASE i < j
    BY <1>1, <1>2, <2>1, SharedPayload
  <2>2. CASE j < i
    BY <1>1, <1>2, <2>2, SharedPayload
  <2>3. CASE i = j
    BY <2>3
  <2> QED BY <1>1, <2>1, <2>2, <2>3
<1>4. k = l
  <2>1. /\ recorded[i][k] = recorded[i][1] + k - 1
        /\ recorded[j][l] = recorded[j][1] + l - 1
        /\ recorded[i][1] \in Nat
    BY <1>1, RowPlace
  <2> QED BY <1>1, <1>3, <2>1
<1> QED BY <1>3, <1>4 DEF i, j, k, l

\* A larger number of payloads allows at least as many rows.
LEMMA MoreTimes ==
  ASSUME NEW a \in Nat, NEW b \in Nat, a <= b, NEW t \in Nat
  PROVE  a * t <= b * t
OBVIOUS

\* How many numbers there are up to n.
LEMMA UpTo ==
  ASSUME NEW n \in Nat
  PROVE  IsFiniteSet(1 .. n) /\ Cardinality(1 .. n) = n
<1>1. /\ IsFiniteSet(1 .. n)
      /\ Cardinality(1 .. n) = IF 1 > n THEN 0 ELSE n - 1 + 1
  BY FS_Interval
<1> QED BY <1>1

\* The rows of an event are told apart by the number of the payload and the
\* number of the attempt.
LEMMA RowsAreFew ==
  ASSUME PipelineInv, NEW e \in Events
  PROVE  Cardinality(Rows(e)) \in Nat /\ Cardinality(Rows(e)) <= copies[e] * MaxTries
<1> USE DEF PipelineInv
<1>1. PICK n \in [1 .. Len(owner) -> Nat \ {0}] :
        /\ \A x \in 1 .. Len(owner) : n[x] <= copies[owner[x]]
        /\ \A x, y \in 1 .. Len(owner) : owner[x] = owner[y] /\ n[x] = n[y] => x = y
  BY DEF PotterInv, Numbered
<1>2. PICK m \in [1 .. Len(recorded) -> 1 .. MaxTries] :
        \A i, j \in 1 .. Len(recorded) : recorded[i] = recorded[j] /\ m[i] = m[j] => i = j
  BY DEF Tried
<1> DEFINE x(r) == recorded[r[1]][r[2]]
           T == (1 .. copies[e]) \X (1 .. MaxTries)
           f == [r \in Rows(e) |-> <<n[x(r)], m[r[1]]>>]
<1>3. \A r \in Rows(e) : /\ r[1] \in 1 .. Len(recorded) /\ x(r) \in 1 .. Len(owner)
                         /\ owner[x(r)] = e /\ r = <<r[1], r[2]>>
  BY RowOf
<1>4. copies[e] \in Nat
  BY DEF PotterInv, PotterTypes
<1>5. ASSUME NEW r \in Rows(e) PROVE f[r] \in T
  <2>1. n[x(r)] \in Nat \ {0} /\ n[x(r)] <= copies[e]
    BY <1>1, <1>3
  <2>2. n[x(r)] \in 1 .. copies[e]
    BY <1>4, <2>1
  <2>3. m[r[1]] \in 1 .. MaxTries
    BY <1>2, <1>3
  <2> QED BY <2>2, <2>3
<1>6. ASSUME NEW r \in Rows(e), NEW s \in Rows(e), f[r] = f[s] PROVE r = s
  <2>1. n[x(r)] = n[x(s)] /\ m[r[1]] = m[s[1]]
    BY <1>6
  <2>2. x(r) = x(s)
    BY <1>1, <1>3, <2>1
  <2>3. recorded[r[1]] = recorded[s[1]] /\ r[2] = s[2]
    BY <2>2, SamePayload
  <2>4. r[1] = s[1]
    BY <1>2, <1>3, <2>1, <2>3
  <2> QED BY <1>3, <2>3, <2>4
<1>7. f \in Injection(Rows(e), T)
  BY <1>5, <1>6 DEF Injection, IsInjective
<1>8. /\ IsFiniteSet(1 .. copies[e]) /\ Cardinality(1 .. copies[e]) = copies[e]
      /\ IsFiniteSet(1 .. MaxTries) /\ Cardinality(1 .. MaxTries) = MaxTries
  BY <1>4, MaxTriesAssumption, UpTo
<1>9. IsFiniteSet(T) /\ Cardinality(T) = copies[e] * MaxTries
  <2>1. /\ IsFiniteSet(T)
        /\ Cardinality(T) = Cardinality(1 .. copies[e]) * Cardinality(1 .. MaxTries)
    BY <1>8, FS_Product
  <2> QED BY <1>8, <2>1
<1> HIDE DEF f, T
<1> QED BY <1>7, <1>9, FS_Injection, FS_CardinalityType

\* An event is in the table at most once for each time the proxy took it and
\* each attempt of its batch, and the proxy takes it once more than its
\* answers are lost: with one answer heard, RecordEvent ends, and a batch that
\* was stored without an answer is the only one that is sent again.
THEOREM RowsBound == PipelineSpec => []RowsBounded
<1>1. ASSUME PipelineInv, NEW e \in Events
      PROVE  Cardinality(Rows(e)) <= (1 + unheard[e]) * MaxTries
  <2>1. /\ copies[e] \in Nat /\ unheard[e] \in Nat /\ copies[e] <= 1 + unheard[e]
        /\ MaxTries \in Nat
    BY <1>1, MaxTriesAssumption DEF PipelineInv, PotterInv, PotterTypes, HandedOver
  <2>2. copies[e] * MaxTries <= (1 + unheard[e]) * MaxTries
    BY <2>1, MoreTimes
  <2>3. Cardinality(Rows(e)) \in Nat /\ Cardinality(Rows(e)) <= copies[e] * MaxTries
    BY <1>1, RowsAreFew
  <2>4. /\ copies[e] * MaxTries \in Nat /\ (1 + unheard[e]) * MaxTries \in Nat
    BY <2>1
  <2> QED BY <2>2, <2>3, <2>4
<1>2. PipelineInv => RowsBounded
  BY <1>1 DEF RowsBounded
<1> QED BY <1>2, PipelineInvariant, PTL

-----------------------------------------------------------------------------
(***************************************************************************)
(* The order of the table                                                  *)
(***************************************************************************)

\* An int64 holds the time of a login as it is.
LEMMA NoWrap ==
  ASSUME NEW n \in Nat, n < Limit
  PROVE  Wrap(n) = n
<1>1. (n + Limit) % (2 * Limit) = n + Limit
  OBVIOUS
<1> QED BY <1>1 DEF Wrap

\* Whole milliseconds.
LEMMA Milliseconds ==
  ASSUME NEW n \in Nat, NEW m \in Nat \ {0}
  PROVE  n \div m \in Nat /\ (n \div m) * m <= n
OBVIOUS

\* They do not go back.
LEMMA MillisecondsGrow ==
  ASSUME NEW a \in Nat, NEW b \in Nat, a <= b, NEW m \in Nat \ {0}
  PROVE  a \div m <= b \div m
OBVIOUS

\* They are exact for a whole number of them.
LEMMA MillisecondsExact ==
  ASSUME NEW a \in Nat, NEW m \in Nat \ {0}
  PROVE  (a * m) \div m = a
OBVIOUS

\* The program's own halves of a number of milliseconds make up the whole.
LEMMA Unmarshalled ==
  ASSUME NEW ms \in Nat
  PROVE  UnmarshalTime(ms) = ms * NanosPerMilli
<1> DEFINE s == ms \div MillisPerSec
<1>1. s \in Nat
  BY Milliseconds
<1>2. Quo(ms, MillisPerSec) = s
  BY DEF Quo
<1>3. Rem(ms, MillisPerSec) = ms - MillisPerSec * s
  BY <1>2 DEF Rem
<1> HIDE DEF s
<1>4. PICK p \in Nat : p = MillisPerSec * s /\ p = s * MillisPerSec
  BY <1>1
<1>5. UnmarshalTime(ms) = p * NanosPerMilli + (ms - p) * NanosPerMilli
  BY <1>2, <1>3, <1>4 DEF UnmarshalTime
<1> QED BY <1>5

\* The time of a row is that of its login, in whole milliseconds.
LEMMA TimeOfRow ==
  ASSUME NEW e \in Events
  PROVE  RowTime(e) = (Times[e] \div NanosPerMilli) * NanosPerMilli
<1> DEFINE t == Times[e]
           ms == t \div NanosPerMilli
           b == ms * NanosPerMilli
<1>1. t \in Nat /\ t < Limit
  BY ClockAssumption DEF Events
<1> HIDE DEF t
<1>2. ms \in Nat /\ b \in Nat /\ b <= t
  BY <1>1, Milliseconds
<1>3. MarshalTime(t) = ms
  <2>1. Wrap(t) = t
    BY <1>1, NoWrap
  <2> QED BY <1>1, <2>1 DEF MarshalTime, Quo
<1>4. b \div NanosPerMilli = ms
  BY <1>2, MillisecondsExact
<1> HIDE DEF ms
<1>5. UnmarshalTime(ms) = b
  BY <1>2, Unmarshalled
<1> HIDE DEF b
<1>6. MarshalTime(b) = ms
  <2>1. b < Limit
    BY <1>1, <1>2
  <2>2. Wrap(b) = b
    BY <1>2, <2>1, NoWrap
  <2> QED BY <1>2, <1>4, <2>2 DEF MarshalTime, Quo
<1>7. RowTime(e) = b
  BY <1>3, <1>5, <1>6 DEF RowTime, t
<1> QED BY <1>7 DEF b, ms, t

\* The times of the rows are in the order of the logins.
LEMMA TimesInOrder ==
  ASSUME NEW e \in Events, NEW f \in Events, e < f
  PROVE  RowTime(e) <= RowTime(f)
<1> DEFINE a == Times[e] \div NanosPerMilli
           b == Times[f] \div NanosPerMilli
<1>1. Times[e] \in Nat /\ Times[f] \in Nat /\ Times[e] <= Times[f]
  BY DEF Events
<1>2. a \in Nat /\ b \in Nat /\ a <= b
  BY <1>1, Milliseconds, MillisecondsGrow
<1>3. RowTime(e) = a * NanosPerMilli /\ RowTime(f) = b * NanosPerMilli
  BY TimeOfRow
<1> HIDE DEF a, b
<1> QED BY <1>2, <1>3, MoreTimes

\* A row of an event that was sent before the login of f is there before each
\* row of f: in an earlier batch, earlier in the same batch, or the batch of
\* the row of f has them both.
LEMMA RowsInOrder ==
  ASSUME PipelineInv, NEW f \in Events, NEW e \in earlier[f], e \in Events,
         NEW b \in Rows(f), NEW r \in Rows(e)
  PROVE  \E a \in Rows(e) : Before(a, b)
<1> USE DEF PipelineInv
<1> DEFINE i == r[1]
           k == r[2]
           j == b[1]
           l == b[2]
<1>1. /\ i \in 1 .. Len(recorded) /\ k \in 1 .. Len(recorded[i])
      /\ recorded[i][k] \in 1 .. Len(owner) /\ owner[recorded[i][k]] = e
  BY RowOf
<1>2. /\ j \in 1 .. Len(recorded) /\ l \in 1 .. Len(recorded[j])
      /\ recorded[j][l] \in 1 .. Len(owner) /\ owner[recorded[j][l]] = f
  BY RowOf
<1>3. recorded[i][k] < recorded[j][l]
  BY <1>1, <1>2 DEF PotterInv, Payloads
<1>4. k \in 1 .. MaxItems
  BY DEF Rows
<1> HIDE DEF i, k, j, l
<1>5. ASSUME recorded[i] = recorded[j] PROVE k < l
  <2>1. /\ recorded[i][k] = recorded[i][1] + k - 1
        /\ recorded[j][l] = recorded[j][1] + l - 1
        /\ recorded[i][1] \in Nat
    BY <1>1, <1>2, RowPlace
  <2>2. ASSUME NEW first \in Nat, first + k - 1 < first + l - 1 PROVE k < l
    BY <1>1, <1>2, <2>2
  <2>3. recorded[i][1] + k - 1 < recorded[i][1] + l - 1
    BY <1>3, <1>5, <2>1
  <2> QED BY <2>1, <2>2, <2>3
<1>6. CASE i < j
  BY <1>6 DEF Before, i, j
<1>7. CASE recorded[i] = recorded[j]
  <2> DEFINE a == <<j, k>>
  <2>1. a \in Rows(e)
    <3>1. a \in (1 .. Len(recorded)) \X (1 .. MaxItems) /\ a[1] = j /\ a[2] = k
      BY <1>2, <1>4
    <3>2. k <= Len(recorded[j]) /\ owner[recorded[j][k]] = e
      BY <1>1, <1>7
    <3> QED BY <3>1, <3>2 DEF Rows
  <2>2. Before(a, b)
    BY <1>5, <1>7 DEF Before, j, l
  <2> QED BY <2>1, <2>2
<1>8. CASE j < i
  <2>1. ASSUME NEW x \in 1 .. Len(owner), NEW y \in 1 .. Len(owner), x < y
        PROVE  y >= x
    BY <2>1
  <2>2. recorded[j][l] >= recorded[i][k]
    BY <1>1, <1>2, <1>3, <2>1
  <2> QED BY <1>1, <1>2, <1>7, <1>8, <2>2, SharedPayload
<1> QED BY <1>1, <1>2, <1>6, <1>7, <1>8

\* The table has the events in the order in which they were sent, and so are
\* their times, whatever is repeated, retried, lost or restarted on the way.
THEOREM TableOrdered == PipelineSpec => []TableInOrder
<1>1. ASSUME PipelineInv, NEW f \in Events, NEW e \in earlier[f], NEW b \in Rows(f)
      PROVE  /\ RowTime(e) <= RowTime(f)
             /\ Rows(e) # {} => \E a \in Rows(e) : Before(a, b)
  <2>1. e \in Events /\ e < f
    BY <1>1 DEF PipelineInv, PotterInv, PotterTypes, SentBefore
  <2>2. RowTime(e) <= RowTime(f)
    BY <2>1, TimesInOrder
  <2>3. ASSUME NEW r \in Rows(e) PROVE \E a \in Rows(e) : Before(a, b)
    BY <1>1, <2>1, RowsInOrder
  <2> QED BY <2>2, <2>3
<1>2. PipelineInv => TableInOrder
  BY <1>1 DEF TableInOrder
<1> QED BY <1>2, PipelineInvariant, PTL
=============================================================================
