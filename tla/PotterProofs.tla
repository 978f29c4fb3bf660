------------------------------ MODULE PotterProofs ------------------------------
(***************************************************************************)
(* Proofs about Potter and the sessions of PsqlPot, for any pots, any      *)
(* connections and any scripts of clients that know the protocol: type     *)
(* correctness with the counter of the WaitGroup, that no pot is cut off   *)
(* by the end of another, and that a report of the psql pot is that of one *)
(* login.                                                                  *)
(***************************************************************************)
EXTENDS Potter, FiniteSetTheorems, WellFoundedInduction, TLAPS

-----------------------------------------------------------------------------
(***************************************************************************)
(* The pots and their WaitGroup                                            *)
(***************************************************************************)

\* No pot is in the list twice; those that main has not reached are off, and
\* the others are not.
Started ==
  /\ \A i, j \in 1 .. Len(wanted) : wanted[i] = wanted[j] => i = j
  /\ \A i \in 1 .. Len(wanted) : run[wanted[i]] = "off" <=> i > launched

\* main has returned only when it had started every pot and Wait returned.
Waited == process = "returned" => launched = Len(wanted) /\ wg = 0

PotTypes ==
  /\ process \in {"up", "returned", "panicked"}
  /\ wanted \in Wanted
  /\ launched \in 0 .. Len(wanted)
  /\ run \in [Pots -> {"off", "binding", "serving", "done"}]
  /\ request \in [Requests -> {"none", "refused", "sending", "reported"}]
  /\ wg = Cardinality(Serving)

PotInv == PotTypes /\ Started /\ Waited

-----------------------------------------------------------------------------
(***************************************************************************)
(* The inductive invariant of a session, as a predicate of the script (X), *)
(* the messages (S), how many were read (r), how the client ended (e), the *)
(* place (p), the array (a), the slice (v), the user (u), the pending call *)
(* (q) and the report (t)                                                  *)
(***************************************************************************)

\* What a client writes is the beginning of one of its scripts.
Begins(S, s) == Len(S) <= Len(s) /\ \A i \in 1 .. Len(S) : S[i] = s[i]

\* A sequence of messages as ScriptsAssumption has it.
Proper(S) ==
  /\ S \in Seq(Messages)
  /\ \A i \in 1 .. Len(S) :
       IF i = 1 \/ S[i - 1].kind = "ssl" THEN S[i].kind \in StartKinds
       ELSE S[i].kind \notin StartKinds /\ S[i].n \in {-1, Len(S[i].body)}

Credentials == [user : Text, pass : Seq(STRING)]
Reports == [user : Text, pass : Seq(STRING), version : Seq(STRING)]

ConnType(X, S, r, e, p, a, v, u, q, t) ==
  /\ Proper(S) /\ \E s \in X : s \in Seq(Messages) /\ Begins(S, s)
  /\ r \in 0 .. Len(S)
  /\ e \in {"no", "closed", "reset"}
  /\ p \in Places
  /\ a \in Seq(Text)
  /\ v \in [at : {"heap", "scratch"}, bytes : Seq(STRING)]
  /\ u \in Text
  /\ q \in Seq(Credentials)
  /\ t \in Seq(Reports)

\* The start message is the k-th, after SSL requests, and the slice and the
\* user are from it.
StartedAt(S, v, u, k) ==
  /\ S[k].kind = "start"
  /\ \A i \in 1 .. k - 1 : S[i].kind = "ssl"
  /\ v = [at |-> "heap", bytes |-> S[k].words]
  /\ u = UserIn(S[k].words)
  /\ UserAt(S[k].words) # Len(S[k].words)

\* Only notices came after it.
OnlyNotices(S, k, m) == \A i \in k + 1 .. m : S[i].kind = "N"

\* The password is in the first answer, or there is none and will be none.
Answered(S, r, e, k, pass) ==
  \/ \E i \in k + 1 .. r :
       /\ S[i].kind \notin StartKinds \cup {"N"}
       /\ OnlyNotices(S, k, i - 1)
       /\ pass = PassIn(S[i])
  \/ /\ e # "no" /\ r = Len(S)
     /\ OnlyNotices(S, k, r)
     /\ pass = <<>>

Quiet(q, t) == q = <<>> /\ t = <<>>

\* The one report is on its way to sendEvent, or was made.
OneReport(v, u, q, t, pass) ==
  \/ q = <<[user |-> u, pass |-> pass]>> /\ t = <<>>
  \/ /\ q = <<>>
     /\ t = <<[user |-> u, pass |-> pass, version |-> Front(v.bytes)]>>

\* A login, of the start message and the answer.
LoggedIn(S, r, e, v, u, q, t) ==
  \E k \in 1 .. r : /\ StartedAt(S, v, u, k)
                    /\ \E pass \in Seq(STRING) :
                         Answered(S, r, e, k, pass) /\ OneReport(v, u, q, t, pass)

Progress(S, r, e, p, v, u, q, t) ==
  /\ p \in {"away", "backlog", "accepted"} => r = 0
  /\ p \in {"away", "backlog", "accepted", "start"} =>
       Quiet(q, t) /\ \A i \in 1 .. r : S[i].kind = "ssl"
  /\ p = "ask" => Quiet(q, t) /\ r > 0 /\ StartedAt(S, v, u, r)
  /\ p = "recv" => /\ Quiet(q, t)
                   /\ \E k \in 1 .. r : StartedAt(S, v, u, k) /\ OnlyNotices(S, k, r)
  /\ p = "refuse" => LoggedIn(S, r, e, v, u, q, t)
  /\ p = "gone" => Quiet(q, t) \/ LoggedIn(S, r, e, v, u, q, t)

ConnInv(X, S, r, e, p, a, v, u, q, t) ==
  ConnType(X, S, r, e, p, a, v, u, q, t) /\ Progress(S, r, e, p, v, u, q, t)

\* Each variable is a table of the connections.
Tables ==
  /\ DOMAIN sent = Conns /\ DOMAIN read = Conns /\ DOMAIN ended = Conns
  /\ DOMAIN pc = Conns /\ DOMAIN scratch = Conns /\ DOMAIN params = Conns
  /\ DOMAIN user = Conns /\ DOMAIN pending = Conns /\ DOMAIN reported = Conns

Inv(c) == ConnInv(Scripts[c], sent[c], read[c], ended[c], pc[c], scratch[c], params[c],
                  user[c], pending[c], reported[c])

SessionInv == Tables /\ \A c \in Conns : Inv(c)

-----------------------------------------------------------------------------
(***************************************************************************)
(* The supervisor                                                          *)
(***************************************************************************)

\* The pots are finitely many.
LEMMA PotsFinite == IsFiniteSet(Pots) /\ \A i \in 1 .. Len(All) : All[i] \in Pots
<1>1. All \in Seq(STRING) /\ Len(All) \in Nat /\ DOMAIN All = 1 .. Len(All)
  BY PotsAssumption
<1>2. IsFiniteSet(1 .. Len(All))
  BY <1>1, FS_Interval
<1>3. \A i \in 1 .. Len(All) : All[i] \in Pots
  BY <1>1 DEF Pots, ToSet
<1>4. All \in Surjection(1 .. Len(All), Pots)
  <2>1. All \in [1 .. Len(All) -> Pots]
    BY <1>1, <1>3
  <2>2. \A p \in Pots : \E i \in 1 .. Len(All) : All[i] = p
    BY <1>1 DEF Pots, ToSet
  <2> QED BY <2>1, <2>2 DEF Surjection
<1> QED BY <1>2, <1>3, <1>4, FS_Surjection

\* Whatever the flags ask for is a sequence of pots, none of them twice.
LEMMA WantedPots ==
  ASSUME NEW w \in Wanted
  PROVE  /\ Len(w) \in Nat
         /\ \A i \in 1 .. Len(w) : w[i] \in Pots
         /\ \A i, j \in 1 .. Len(w) : w[i] = w[j] => i = j
<1>1. /\ All \in Seq(STRING) /\ Len(All) \in Nat
      /\ \A i, j \in 1 .. Len(All) : All[i] = All[j] => i = j
      /\ Optional \subseteq Pots
  BY PotsAssumption DEF Pots
<1>2. CASE w = All
  BY <1>1, <1>2, PotsFinite
<1>3. ASSUME NEW n \in 0 .. Cardinality(Optional), w \in [1 .. n -> Optional],
             \A i, j \in DOMAIN w : i < j => Before(w[i], w[j])
      PROVE  /\ Len(w) \in Nat
             /\ \A i \in 1 .. Len(w) : w[i] \in Pots
             /\ \A i, j \in 1 .. Len(w) : w[i] = w[j] => i = j
  <2>1. Cardinality(Optional) \in Nat
    BY <1>1, PotsFinite, FS_Subset, FS_CardinalityType
  <2>2. n \in Nat /\ DOMAIN w = 1 .. n /\ w \in Seq(Optional) /\ Len(w) = n
    BY <1>3, <2>1
  <2>3. \A i \in 1 .. n : w[i] \in Pots
    BY <1>1, <1>3
  <2>4. ASSUME NEW i \in 1 .. n, NEW j \in 1 .. n, i < j, w[i] = w[j] PROVE FALSE
    <3>1. PICK k, m \in 1 .. Len(All) : k < m /\ All[k] = w[i] /\ All[m] = w[j]
      BY <1>3, <2>2, <2>4 DEF Before
    <3>2. k = m
      BY <1>1, <2>4, <3>1
    <3> QED BY <1>1, <3>1, <3>2
  <2>5. ASSUME NEW i \in 1 .. n, NEW j \in 1 .. n, w[i] = w[j] PROVE i = j
    <3>1. i < j \/ j < i \/ i = j
      BY <2>2
    <3> QED BY <2>4, <2>5, <3>1
  <2> QED BY <2>2, <2>3, <2>5
<1> QED BY <1>2, <1>3 DEF Wanted

\* The pots that run are finitely many.
LEMMA ServingFinite == IsFiniteSet(Serving) /\ Cardinality(Serving) \in Nat
<1>1. Serving \subseteq Pots
  BY DEF Serving
<1> QED BY <1>1, PotsFinite, FS_Subset, FS_CardinalityType

\* PotInv holds at the beginning.
LEMMA PotInit == Init => PotInv
<1> SUFFICES ASSUME Init PROVE PotInv
  OBVIOUS
<1>1. Len(wanted) \in Nat
  BY WantedPots DEF Init
<1>2. Serving = {}
  BY DEF Init, Serving
<1>3. PotTypes
  BY <1>1, <1>2, FS_EmptySet DEF Init, PotTypes
<1>4. Started
  <2>1. \A i \in 1 .. Len(wanted) : wanted[i] \in Pots /\ i > 0
    BY <1>1, WantedPots DEF Init
  <2>2. \A i, j \in 1 .. Len(wanted) : wanted[i] = wanted[j] => i = j
    BY WantedPots DEF Init
  <2> QED BY <2>1, <2>2 DEF Init, Started
<1>5. Waited
  BY DEF Init, Waited
<1> QED BY <1>3, <1>4, <1>5 DEF PotInv

\* A step that leaves the pots and the process alone, or ends it in a panic.
LEMMA PotsStay ==
  ASSUME PotInv, UNCHANGED pots, process' \in {process, "panicked"},
         request' \in [Requests -> {"none", "refused", "sending", "reported"}]
  PROVE  PotInv'
BY DEF PotInv, PotTypes, Started, Waited, Serving, pots

\* main starts a pot.
LEMMA LaunchKeeps == PotInv /\ Launch => PotInv'
<1> SUFFICES ASSUME PotInv, Launch PROVE PotInv'
  OBVIOUS
<1> DEFINE p == wanted[launched + 1]
<1>1. /\ Len(wanted) \in Nat /\ launched \in Nat /\ launched + 1 \in 1 .. Len(wanted)
      /\ p \in Pots /\ run[p] = "off" /\ wanted' = wanted /\ launched' = launched + 1
      /\ run' = [run EXCEPT ![p] = "binding"] /\ process' = process /\ Up
      /\ DOMAIN run = Pots
  <2>1. Len(wanted) \in Nat /\ launched \in 0 .. Len(wanted)
    BY WantedPots DEF PotInv, PotTypes
  <2>2. launched + 1 \in 1 .. Len(wanted)
    BY <2>1 DEF Launch
  <2>3. launched + 1 > launched
    BY <2>1
  <2> QED BY <2>1, <2>2, <2>3, WantedPots DEF PotInv, PotTypes, Started, Launch
<1>2. Serving' = Serving \cup {p} /\ p \notin Serving
  BY <1>1 DEF Serving
<1>3. wg' = Cardinality(Serving')
  BY <1>2, ServingFinite, FS_AddElement DEF Launch, Added, PotInv, PotTypes
<1>4. PotTypes'
  BY <1>1, <1>3 DEF PotInv, PotTypes, Launch
<1>5. Started'
  <2>1. ASSUME NEW i \in 1 .. Len(wanted) PROVE run'[wanted[i]] = "off" <=> i > launched + 1
    <3>1. wanted[i] \in Pots /\ (wanted[i] = p <=> i = launched + 1)
      BY <1>1, WantedPots DEF PotInv, PotTypes, Started
    <3>2. CASE i = launched + 1
      BY <1>1, <3>1, <3>2
    <3>3. CASE i # launched + 1
      <4>1. run'[wanted[i]] = run[wanted[i]]
        BY <1>1, <3>1, <3>3
      <4>2. run[wanted[i]] = "off" <=> i > launched
        BY DEF PotInv, Started
      <4> QED BY <1>1, <3>3, <4>1, <4>2
    <3> QED BY <3>2, <3>3
  <2> QED BY <1>1, <2>1 DEF PotInv, Started
<1>6. Waited'
  BY <1>1 DEF Waited, Up
<1> QED BY <1>4, <1>5, <1>6 DEF PotInv

\* A pot binds or returns.
LEMMA RunKeeps ==
  ASSUME PotInv, NEW p \in Pots, Bind(p) \/ RunReturns(p)
  PROVE  PotInv'
<1>1. /\ run[p] \in {"binding", "serving"} /\ DOMAIN run = Pots /\ Up
      /\ wanted' = wanted /\ launched' = launched /\ process' = process
      /\ request' = request
  BY DEF Bind, RunReturns, PotInv, PotTypes
<1>2. PICK s \in {"serving", "done"} : run' = [run EXCEPT ![p] = s]
  BY DEF Bind, RunReturns
<1>3. wg' = Cardinality(Serving')
  <2>1. CASE Bind(p)
    <3>1. run' = [run EXCEPT ![p] = "serving"]
      BY <2>1 DEF Bind
    <3>2. Serving' = Serving
      BY <1>1, <3>1 DEF Serving
    <3> QED BY <2>1, <3>2 DEF Bind, PotInv, PotTypes
  <2>2. CASE RunReturns(p)
    <3>1. run' = [run EXCEPT ![p] = "done"]
      BY <2>2 DEF RunReturns
    <3>2. Serving' = Serving \ {p} /\ p \in Serving
      BY <1>1, <3>1 DEF Serving
    <3> QED BY <2>2, <3>2, ServingFinite, FS_RemoveElement
            DEF RunReturns, DoneBy, PotInv, PotTypes
  <2> QED BY <2>1, <2>2
<1>4. PotTypes'
  BY <1>1, <1>2, <1>3 DEF PotInv, PotTypes
<1>5. Started'
  <2>1. \A i \in 1 .. Len(wanted) : run'[wanted[i]] = "off" <=> run[wanted[i]] = "off"
    <3>1. \A i \in 1 .. Len(wanted) : wanted[i] \in Pots
      BY WantedPots DEF PotInv, PotTypes
    <3> QED BY <1>1, <1>2, <3>1
  <2> QED BY <1>1, <2>1 DEF PotInv, Started
<1>6. Waited'
  BY <1>1 DEF Waited, Up
<1> QED BY <1>4, <1>5, <1>6 DEF PotInv

\* main returns.
LEMMA ReturnKeeps == PotInv /\ MainReturns => PotInv'
BY DEF MainReturns, WaitOver, PotInv, PotTypes, Started, Waited, Serving, session, pots

\* Every step preserves PotInv.
LEMMA PotNext == PotInv /\ [Next]_vars => PotInv'
<1> SUFFICES ASSUME PotInv, [Next]_vars PROVE PotInv'
  OBVIOUS
<1>0. request \in [Requests -> {"none", "refused", "sending", "reported"}]
  BY DEF PotInv, PotTypes
<1>1. CASE UNCHANGED vars
  BY <1>0, <1>1, PotsStay DEF vars
<1>2. CASE Launch
  BY <1>2, LaunchKeeps
<1>3. CASE MainReturns
  BY <1>3, ReturnKeeps
<1>4. ASSUME NEW p \in Pots, Bind(p) \/ RunReturns(p) PROVE PotInv'
  BY <1>4, RunKeeps
<1>5. ASSUME NEW c \in Conns, Connect(c) \/ AcceptConnection(c) \/ HandleConnection(c)
      PROVE  PotInv'
  <2>1. UNCHANGED <<process, pots, request>>
    BY <1>5 DEF Connect, AcceptConnection, HandleConnection, Moves
  <2> QED BY <1>0, <2>1, PotsStay
<1>6. ASSUME NEW c \in Conns, ClientStep(c) \/ Session(c), UNCHANGED <<pots, request>>
      PROVE  PotInv'
  <2>1. process' \in {process, "panicked"}
    BY <1>6 DEF ClientStep, CloseConn, Reset, Session, HandleClient, SendEvent,
         SslRequest, StartPanics, Start, NoStart, Ask, MessagePanics, Notice, Password,
         NoPassword, Refuse, Panic
  <2> QED BY <1>0, <1>6, <2>1, PotsStay
<1>7. ASSUME NEW r \in Requests, ServeHTTP(r) \/ SendRequest(r) PROVE PotInv'
  <2>1. request' \in [Requests -> {"none", "refused", "sending", "reported"}]
    BY <1>0, <1>7 DEF ServeHTTP, SendRequest
  <2> QED BY <1>7, <2>1, PotsStay DEF ServeHTTP, SendRequest
<1> QED BY <1>1, <1>2, <1>3, <1>4, <1>5, <1>6, <1>7 DEF Next, Supervisor

\* The WaitGroup counts the pots that run, and main returns when it is 0.
THEOREM PotInvariant == Spec => []PotInv
BY PotInit, PotNext, PTL DEF Spec

\* The failure of some pots does not end the others: main returns only when
\* every pot that the flags ask for has returned, for any pots, flags and
\* order of binds, failures and go statements.
THEOREM PotsOutlive == Spec => []PotsOutliveEachOther
<1>1. PotInv => PotsOutliveEachOther
  <2> SUFFICES ASSUME PotInv, process = "returned", NEW i \in 1 .. Len(wanted)
               PROVE  run[wanted[i]] = "done"
    BY DEF PotsOutliveEachOther
  <2>1. launched = Len(wanted) /\ wg = 0 /\ Len(wanted) \in Nat /\ wanted[i] \in Pots
    BY WantedPots DEF PotInv, PotTypes, Waited
  <2>2. Serving = {}
    BY <2>1, ServingFinite, FS_EmptySet DEF PotInv, PotTypes
  <2>3. run[wanted[i]] # "off"
    BY <2>1 DEF PotInv, Started
  <2>4. run[wanted[i]] \in {"off", "binding", "serving", "done"}
    BY <2>1 DEF PotInv, PotTypes
  <2> QED BY <2>1, <2>2, <2>3, <2>4 DEF Serving
<1> QED BY <1>1, PotInvariant, PTL

-----------------------------------------------------------------------------
(***************************************************************************)
(* Messages and words                                                      *)
(***************************************************************************)

\* What a message has is known from its kind.
LEMMA Fields ==
  ASSUME NEW S, Proper(S), NEW i \in 1 .. Len(S)
  PROVE  /\ Len(S) \in Nat /\ S[i] \in Messages
         /\ S[i].kind \in StartKinds => /\ S[i].words \in Seq(STRING) \ {<<>>}
                                        /\ Len(S[i].words) \in Nat \ {0}
         /\ S[i].kind \notin StartKinds => /\ S[i].body \in Seq(STRING)
                                           /\ S[i].n \in {-1, Len(S[i].body)}
<1>1. S[i] \in Messages /\ Len(S) \in Nat
  BY DEF Proper
<1>2. ASSUME S[i].kind \in StartKinds
      PROVE  S[i].words \in Seq(STRING) \ {<<>>} /\ Len(S[i].words) \in Nat \ {0}
  <2>1. S[i] \in [kind : StartKinds, words : Seq(STRING) \ {<<>>}]
    BY <1>1, <1>2 DEF Messages
  <2>2. S[i].words \in Seq(STRING) \ {<<>>}
    BY <2>1
  <2> QED BY <2>2
<1>3. ASSUME S[i].kind \notin StartKinds
      PROVE  S[i].body \in Seq(STRING) /\ S[i].n \in {-1, Len(S[i].body)}
  <2>1. S[i] \in [kind : STRING \ StartKinds, n : Int, body : Seq(STRING)]
    BY <1>1, <1>3 DEF Messages
  <2>2. S[i].body \in Seq(STRING)
    BY <2>1
  <2> QED BY <2>2, <1>3 DEF Proper
<1> QED BY <1>1, <1>2, <1>3

\* The beginning of a sequence of messages is one too.
LEMMA ProperBeginning ==
  ASSUME NEW S, Proper(S), NEW s, Begins(S, s), NEW r \in 0 .. Len(S)
  PROVE  /\ Proper(SubSeq(S, 1, r)) /\ Begins(SubSeq(S, 1, r), s)
         /\ Len(SubSeq(S, 1, r)) = r
         /\ \A i \in 1 .. r : SubSeq(S, 1, r)[i] = S[i]
<1> DEFINE P == SubSeq(S, 1, r)
<1>1. S \in Seq(Messages) /\ Len(S) \in Nat /\ r \in Nat /\ r <= Len(S)
  BY DEF Proper
<1>2. P \in Seq(Messages) /\ Len(P) = r /\ \A i \in 1 .. r : P[i] = S[i] /\ i \in 1 .. Len(S)
  BY <1>1
<1> HIDE DEF P
<1>3. Proper(P)
  <2> SUFFICES ASSUME NEW i \in 1 .. Len(P)
               PROVE  IF i = 1 \/ P[i - 1].kind = "ssl" THEN P[i].kind \in StartKinds
                      ELSE P[i].kind \notin StartKinds /\ P[i].n \in {-1, Len(P[i].body)}
    BY <1>2 DEF Proper
  <2>1. i \in 1 .. Len(S) /\ P[i] = S[i] /\ (i = 1 \/ i - 1 \in 1 .. r)
    BY <1>1, <1>2
  <2>2. i = 1 \/ P[i - 1] = S[i - 1]
    BY <1>2, <2>1
  <2>3. IF i = 1 \/ S[i - 1].kind = "ssl" THEN S[i].kind \in StartKinds
        ELSE S[i].kind \notin StartKinds /\ S[i].n \in {-1, Len(S[i].body)}
    BY <2>1 DEF Proper
  <2> QED BY <2>1, <2>2, <2>3
<1>4. Begins(P, s)
  <2>1. Len(S) <= Len(s) /\ \A i \in 1 .. Len(S) : S[i] = s[i]
    BY DEF Begins
  <2>2. Len(P) <= Len(s)
    BY <1>1, <1>2, <2>1 DEF Begins
  <2> QED BY <1>2, <2>1, <2>2 DEF Begins
<1> QED BY <1>2, <1>3, <1>4 DEF P

\* UserAt is the place of the last word "user", or 0 when there is none.
LEMMA UserAtLast ==
  ASSUME NEW w \in Seq(STRING)
  PROVE  /\ Len(w) \in Nat /\ UserAt(w) \in 0 .. Len(w)
         /\ UserAt(w) = 0 => \A i \in 1 .. Len(w) : w[i] # "user"
         /\ UserAt(w) # 0 => w[UserAt(w)] = "user"
<1> DEFINE I == {i \in 1 .. Len(w) : w[i] = "user"}
<1>1. Len(w) \in Nat
  OBVIOUS
<1>2. UserAt(w) = IF I # {} THEN Max(I) ELSE 0
  BY DEF UserAt, SelectLastInSeq
<1>3. CASE I = {}
  BY <1>1, <1>2, <1>3
<1>4. CASE I # {}
  <2> DEFINE T == {Len(w) - i : i \in I}
  <2>1. T \subseteq Nat /\ T # {}
    BY <1>1, <1>4
  <2>2. PICK m \in T : \A k \in T : m <= k
    <3> HIDE DEF T
    <3>1. PICK m \in T : \A k \in T : <<k, m>> \notin OpToRel(<, Nat)
      BY <2>1, NatLessThanWellFounded, WFMin
    <3>2. \A k \in T : ~ (k < m)
      BY <3>1, <2>1 DEF OpToRel
    <3> QED BY <2>1, <3>2
  <2>3. PICK n \in I : m = Len(w) - n
    OBVIOUS
  <2>4. \A k \in I : n >= k
    <3> TAKE k \in I
    <3>1. Len(w) - k \in T /\ k \in Nat /\ n \in Nat
      BY <1>1
    <3>2. Len(w) - n <= Len(w) - k
      BY <2>2, <2>3, <3>1
    <3> QED BY <1>1, <3>1, <3>2
  <2>5. Max(I) \in I
    BY <2>4 DEF Max
  <2> HIDE DEF T
  <2> QED BY <1>1, <1>2, <1>4, <2>5
<1> QED BY <1>3, <1>4

\* The user of a start message that is not bad is one of its words or empty.
LEMMA UserIsText ==
  ASSUME NEW w \in Seq(STRING), UserAt(w) # Len(w)
  PROVE  UserIn(w) \in Text
<1>1. Len(w) \in Nat /\ UserAt(w) \in 0 .. Len(w)
  BY UserAtLast
<1>2. UserAt(w) + 1 \in 1 .. Len(w)
  BY <1>1
<1>3. w[UserAt(w) + 1] \in STRING
  BY <1>2
<1>4. w[UserAt(w) + 1] \in Text /\ "" \in Text
  BY <1>3 DEF Text
<1> QED BY <1>4 DEF UserIn

\* It is the value of the key "user" when that word is no value and occurs
\* once at most.
LEMMA UserIsValue ==
  ASSUME NEW w \in Seq(STRING), UserAt(w) # Len(w), ~Ambiguous(w)
  PROVE  UserIn(w) = ValueOf(w, "user")
<1> DEFINE n == UserAt(w)
           keys == {i \in 1 .. Len(w) - 1 : i % 2 = 1 /\ w[i] = "user"}
<1>1. /\ Len(w) \in Nat /\ n \in 0 .. Len(w) /\ n # Len(w)
      /\ n = 0 => \A i \in 1 .. Len(w) : w[i] # "user"
      /\ n # 0 => w[n] = "user"
  BY UserAtLast
<1>2. \A i, j \in 1 .. Len(w) :
        w[i] = "user" /\ w[j] = "user" => i = j /\ i % 2 # 0
  BY DEF Ambiguous
<1>3. \A i \in Nat : i % 2 # 0 => i % 2 = 1
  OBVIOUS
<1> HIDE DEF n
<1>4. CASE n = 0
  <2>1. keys = {}
    BY <1>1, <1>4
  <2> QED BY <1>4, <2>1 DEF UserIn, ValueOf, n
<1>5. CASE n # 0
  <2>1. n \in 1 .. Len(w) - 1 /\ n \in 1 .. Len(w) /\ n \in Nat
    BY <1>1, <1>5
  <2>2. n \in keys
    BY <1>1, <1>2, <1>3, <1>5, <2>1
  <2>3. \A i \in keys : i = n
    <3> TAKE i \in keys
    <3>1. i \in 1 .. Len(w) /\ w[i] = "user"
      BY <1>1
    <3> QED BY <1>1, <1>2, <1>5, <2>1, <3>1
  <2>4. keys = {n}
    BY <2>2, <2>3
  <2>5. Min(keys) = n
    <3> HIDE DEF keys
    <3> QED BY <2>1, <2>4 DEF Min
  <2> QED BY <1>5, <2>2, <2>5 DEF UserIn, ValueOf, n
<1> QED BY <1>4, <1>5

-----------------------------------------------------------------------------
(***************************************************************************)
(* The steps of a session                                                  *)
(***************************************************************************)

\* The script of a connection, and how far the pot has read it.
LEMMA ReadSoFar ==
  ASSUME NEW X, NEW S, NEW r, NEW e, NEW p, NEW a, NEW v, NEW u, NEW q, NEW t,
         ConnInv(X, S, r, e, p, a, v, u, q, t)
  PROVE  Proper(S) /\ r \in 0 .. Len(S) /\ Len(S) \in Nat
<1>1. ConnType(X, S, r, e, p, a, v, u, q, t)
  BY DEF ConnInv
<1>2. Proper(S) /\ r \in 0 .. Len(S)
  BY <1>1 DEF ConnType
<1>3. S \in Seq(Messages)
  BY <1>2 DEF Proper
<1>4. Len(S) \in Nat
  BY <1>3
<1> QED BY <1>2, <1>4

\* The reset of a connection takes what the pot has not read.
LEMMA ResetKeeps ==
  ASSUME NEW X, NEW S, NEW r, NEW p, NEW a, NEW v, NEW u, NEW q, NEW t,
         ConnInv(X, S, r, "no", p, a, v, u, q, t)
  PROVE  ConnInv(X, SubSeq(S, 1, r), r, "reset", p, a, v, u, q, t)
<1> DEFINE P == SubSeq(S, 1, r)
<1>1. /\ Proper(S) /\ r \in 0 .. Len(S) /\ Len(S) \in Nat
      /\ \E s \in X : s \in Seq(Messages) /\ Begins(S, s)
  BY ReadSoFar DEF ConnInv, ConnType
<1>2. /\ Proper(P) /\ \E s \in X : s \in Seq(Messages) /\ Begins(P, s)
      /\ Len(P) = r /\ \A i \in 1 .. r : P[i] = S[i]
  BY <1>1, ProperBeginning
<1> HIDE DEF P
<1>3. ConnType(X, P, r, "reset", p, a, v, u, q, t)
  BY <1>1, <1>2 DEF ConnInv, ConnType
<1>4. ASSUME NEW k \in 1 .. r, StartedAt(S, v, u, k)
      PROVE  /\ StartedAt(P, v, u, k)
             /\ \A m \in 0 .. r : OnlyNotices(S, k, m) => OnlyNotices(P, k, m)
  <2>1. P[k] = S[k] /\ \A i \in 1 .. k - 1 : P[i] = S[i]
    <3>1. r \in Nat /\ \A i \in 1 .. k - 1 : i \in 1 .. r
      BY <1>1
    <3> QED BY <1>2, <3>1
  <2>2. StartedAt(P, v, u, k)
    BY <1>4, <2>1 DEF StartedAt
  <2>3. ASSUME NEW m \in 0 .. r, OnlyNotices(S, k, m) PROVE OnlyNotices(P, k, m)
    <3>1. \A i \in k + 1 .. m : i \in 1 .. r
      BY <1>1
    <3> QED BY <1>2, <2>3, <3>1 DEF OnlyNotices
  <2> QED BY <2>2, <2>3
<1>5. ASSUME NEW k \in 1 .. r, NEW pass, StartedAt(S, v, u, k), Answered(S, r, "no", k, pass)
      PROVE  Answered(P, r, "reset", k, pass)
  <2>1. PICK i \in k + 1 .. r :
          /\ S[i].kind \notin StartKinds \cup {"N"}
          /\ OnlyNotices(S, k, i - 1)
          /\ pass = PassIn(S[i])
    BY <1>5 DEF Answered
  <2>2. i \in 1 .. r /\ i - 1 \in 0 .. r
    BY <1>1
  <2> QED BY <1>2, <1>4, <1>5, <2>1, <2>2 DEF Answered
<1>6. LoggedIn(S, r, "no", v, u, q, t) => LoggedIn(P, r, "reset", v, u, q, t)
  BY <1>4, <1>5 DEF LoggedIn
<1>7. r > 0 => r \in 1 .. r
  BY <1>1
<1>8. \A k \in 1 .. r : StartedAt(S, v, u, k) /\ OnlyNotices(S, k, r) =>
        StartedAt(P, v, u, k) /\ OnlyNotices(P, k, r)
  BY <1>1, <1>4
<1>9. Progress(P, r, "reset", p, v, u, q, t)
  BY <1>2, <1>4, <1>6, <1>7, <1>8 DEF ConnInv, Progress
<1> QED BY <1>3, <1>9 DEF ConnInv, P

\* So does a client that closes.
LEMMA CloseKeeps ==
  ASSUME NEW X, NEW S, NEW r, NEW p, NEW a, NEW v, NEW u, NEW q, NEW t,
         ConnInv(X, S, r, "no", p, a, v, u, q, t)
  PROVE  ConnInv(X, S, r, "closed", p, a, v, u, q, t)
<1>1. ConnType(X, S, r, "closed", p, a, v, u, q, t)
  BY DEF ConnInv, ConnType
<1>2. LoggedIn(S, r, "no", v, u, q, t) => LoggedIn(S, r, "closed", v, u, q, t)
  BY DEF LoggedIn, Answered
<1>3. Progress(S, r, "closed", p, v, u, q, t)
  BY <1>2 DEF ConnInv, Progress
<1> QED BY <1>1, <1>3 DEF ConnInv

\* What the pot writes to scratch is text.
LEMMA ScratchText ==
  /\ \A b \in Seq(STRING) : b \in Seq(Text)
  /\ <<"length">> \in Seq(Text) /\ <<"R">> \in Seq(Text) /\ <<"E">> \in Seq(Text)
<1>1. STRING \subseteq Text /\ "length" \in Text /\ "R" \in Text /\ "E" \in Text
  BY DEF Text
<1>2. \A x \in Text : <<x>> \in Seq(Text)
  OBVIOUS
<1>3. \A A, B : A \subseteq B => \A b \in Seq(A) : b \in Seq(B)
  <2> SUFFICES ASSUME NEW A, NEW B, A \subseteq B, NEW b \in Seq(A) PROVE b \in Seq(B)
    OBVIOUS
  <2> QED OBVIOUS
<1>4. \A b \in Seq(STRING) : b \in Seq(Text)
  BY <1>1, <1>3, Zenon
<1> QED BY <1>1, <1>2, <1>4

\* The places without a login.
LEMMA EarlyKeeps ==
  ASSUME NEW X, NEW S, NEW r, NEW e, NEW p, NEW a, NEW v, NEW u, NEW q, NEW t,
         ConnInv(X, S, r, e, p, a, v, u, q, t),
         p \in {"away", "backlog", "accepted", "start"}
  PROVE  /\ p # "start" => ConnInv(X, S, r, e, "backlog", a, v, u, q, t)
         /\ p # "start" => ConnInv(X, S, r, e, "accepted", a, v, u, q, t)
         /\ ConnInv(X, S, r, e, "start", a, v, u, q, t)
         /\ ConnInv(X, S, r, e, "gone", a, v, u, q, t)
<1>1. \A x \in {"backlog", "accepted", "start", "gone"} :
        ConnType(X, S, r, e, x, a, v, u, q, t)
  BY DEF ConnInv, ConnType, Places
<1> QED BY <1>1 DEF ConnInv, Progress

\* SSL requests are answered until the start message comes.
LEMMA SslKeeps ==
  ASSUME NEW X, NEW S, NEW r, NEW e, NEW p, NEW a, NEW v, NEW u, NEW q, NEW t,
         ConnInv(X, S, r, e, "start", a, v, u, q, t),
         r < Len(S), S[r + 1].kind = "ssl", p \in {"start", "gone"}
  PROVE  ConnInv(X, S, r + 1, e, p, <<"length">>, v, u, q, t)
<1>1. r \in 0 .. Len(S) /\ Len(S) \in Nat
  BY DEF ConnInv, ConnType, Proper
<1>2. r + 1 \in 0 .. Len(S) /\ <<"length">> \in Seq(Text)
  BY <1>1, ScratchText
<1>3. ConnType(X, S, r + 1, e, p, <<"length">>, v, u, q, t)
  BY <1>2 DEF ConnInv, ConnType, Places
<1>4. \A i \in 1 .. r + 1 : i \in 1 .. r \/ i = r + 1
  BY <1>1
<1>5. Progress(S, r + 1, e, p, v, u, q, t)
  BY <1>4 DEF ConnInv, Progress
<1> QED BY <1>3, <1>5 DEF ConnInv

\* The start message.
LEMMA StartKeeps ==
  ASSUME NEW X, NEW S, NEW r, NEW e, NEW a, NEW v, NEW u, NEW q, NEW t,
         ConnInv(X, S, r, e, "start", a, v, u, q, t),
         r < Len(S), S[r + 1].kind = "start",
         UserAt(S[r + 1].words) # Len(S[r + 1].words)
  PROVE  ConnInv(X, S, r + 1, e, "ask", <<"length">>,
                 [at |-> "heap", bytes |-> S[r + 1].words], UserIn(S[r + 1].words), q, t)
<1> DEFINE w == S[r + 1].words
           V == [at |-> "heap", bytes |-> w]
<1>1. r \in 0 .. Len(S) /\ Len(S) \in Nat /\ Proper(S)
  BY ReadSoFar
<1>2. r + 1 \in 1 .. Len(S) /\ r + 1 \in 0 .. Len(S) /\ r + 1 > 0 /\ (r + 1) - 1 = r
  BY <1>1
<1>3. w \in Seq(STRING)
  BY <1>1, <1>2, Fields DEF StartKinds
<1>4. UserIn(w) \in Text /\ <<"length">> \in Seq(Text)
  BY <1>3, UserIsText, ScratchText
<1>5. V \in [at : {"heap", "scratch"}, bytes : Seq(STRING)]
  BY <1>3
<1>6. ConnType(X, S, r + 1, e, "ask", <<"length">>, V, UserIn(w), q, t)
  BY <1>2, <1>4, <1>5 DEF ConnInv, ConnType, Places
<1>7. StartedAt(S, V, UserIn(w), r + 1)
  BY <1>2 DEF ConnInv, Progress, StartedAt
<1>8. Quiet(q, t)
  BY DEF ConnInv, Progress
<1>9. Progress(S, r + 1, e, "ask", V, UserIn(w), q, t)
  BY <1>2, <1>7, <1>8 DEF Progress
<1> QED BY <1>6, <1>9 DEF ConnInv

\* The question for the password.
LEMMA AskKeeps ==
  ASSUME NEW X, NEW S, NEW r, NEW e, NEW a, NEW v, NEW u, NEW q, NEW t,
         ConnInv(X, S, r, e, "ask", a, v, u, q, t)
  PROVE  ConnInv(X, S, r, e, "recv", <<"R">>, v, u, q, t)
<1>1. r \in 0 .. Len(S) /\ Len(S) \in Nat
  BY ReadSoFar
<1>2. Quiet(q, t) /\ r > 0 /\ StartedAt(S, v, u, r)
  BY DEF ConnInv, Progress
<1>3. r \in 1 .. r /\ OnlyNotices(S, r, r)
  BY <1>1, <1>2 DEF OnlyNotices
<1>4. Progress(S, r, e, "recv", v, u, q, t)
  BY <1>2, <1>3 DEF Progress
<1>5. ConnType(X, S, r, e, "recv", <<"R">>, v, u, q, t)
  BY ScratchText DEF ConnInv, ConnType, Places
<1> QED BY <1>4, <1>5 DEF ConnInv

\* The pot reads a message after the start message.
LEMMA NextMessage ==
  ASSUME NEW X, NEW S, NEW r, NEW e, NEW a, NEW v, NEW u, NEW q, NEW t,
         ConnInv(X, S, r, e, "recv", a, v, u, q, t),
         r < Len(S)
  PROVE  /\ Proper(S) /\ Len(S) \in Nat /\ r \in Nat
         /\ r + 1 \in 1 .. Len(S) /\ r + 1 \in 0 .. Len(S)
         /\ Quiet(q, t)
         /\ S[r + 1].kind \notin StartKinds
         /\ S[r + 1].body \in Seq(STRING) /\ S[r + 1].n \in {-1, Len(S[r + 1].body)}
         /\ \E k \in 1 .. r : StartedAt(S, v, u, k) /\ OnlyNotices(S, k, r)
<1>1. Proper(S) /\ Len(S) \in Nat /\ r \in 0 .. Len(S)
  BY ReadSoFar
<1>2. r + 1 \in 1 .. Len(S) /\ r + 1 \in 0 .. Len(S) /\ (r + 1) - 1 = r /\ r \in Nat
  BY <1>1
<1>3. Quiet(q, t) /\ \E k \in 1 .. r : StartedAt(S, v, u, k) /\ OnlyNotices(S, k, r)
  BY DEF ConnInv, Progress
<1>4. S[r + 1].kind \notin StartKinds
  <2>1. PICK k \in 1 .. r : StartedAt(S, v, u, k) /\ OnlyNotices(S, k, r)
    BY <1>3
  <2>2. k = r \/ r \in k + 1 .. r
    BY <1>2
  <2>3. S[r].kind # "ssl"
    BY <2>1, <2>2 DEF StartedAt, OnlyNotices
  <2>4. r + 1 # 1
    BY <1>2, <2>1
  <2> QED BY <1>1, <1>2, <2>3, <2>4 DEF Proper
<1> QED BY <1>1, <1>2, <1>3, <1>4, Fields

\* A notice is read over.
LEMMA NoticeKeeps ==
  ASSUME NEW X, NEW S, NEW r, NEW e, NEW a, NEW v, NEW u, NEW q, NEW t, NEW b,
         ConnInv(X, S, r, e, "recv", a, v, u, q, t),
         r < Len(S), S[r + 1].kind = "N", b \in Seq(Text)
  PROVE  ConnInv(X, S, r + 1, e, "recv", b, v, u, q, t)
<1>1. /\ Len(S) \in Nat /\ r \in Nat /\ r + 1 \in 0 .. Len(S) /\ Quiet(q, t)
  BY NextMessage
<1>2. PICK k \in 1 .. r : StartedAt(S, v, u, k) /\ OnlyNotices(S, k, r)
  BY NextMessage
<1>3. k \in 1 .. r + 1 /\ \A i \in k + 1 .. r + 1 : i \in k + 1 .. r \/ i = r + 1
  BY <1>1
<1>4. OnlyNotices(S, k, r + 1)
  BY <1>2, <1>3 DEF OnlyNotices
<1>5. Progress(S, r + 1, e, "recv", v, u, q, t)
  BY <1>1, <1>2, <1>3, <1>4 DEF Progress
<1>6. ConnType(X, S, r + 1, e, "recv", b, v, u, q, t)
  BY <1>1 DEF ConnInv, ConnType
<1> QED BY <1>5, <1>6 DEF ConnInv

\* A login is complete: the go statement of its report.
LEMMA GoKeeps ==
  ASSUME NEW X, NEW S, NEW r, NEW e, NEW p, NEW a, NEW v, NEW u, NEW q, NEW t, NEW b,
         NEW m, NEW pass \in Seq(STRING), NEW k \in 1 .. m,
         ConnInv(X, S, r, e, "recv", a, v, u, q, t),
         m \in 0 .. Len(S), b \in Seq(Text), p \in {"refuse", "gone"},
         StartedAt(S, v, u, k), Answered(S, m, e, k, pass)
  PROVE  ConnInv(X, S, m, e, p, b, v, u, Append(q, [user |-> u, pass |-> pass]), t)
<1> DEFINE c == [user |-> u, pass |-> pass]
<1>1. Quiet(q, t)
  BY DEF ConnInv, Progress
<1>2. u \in Text
  BY DEF ConnInv, ConnType
<1>3. c \in Credentials
  BY <1>2 DEF Credentials
<1>4. Append(q, c) = <<c>> /\ Append(q, c) \in Seq(Credentials)
  BY <1>1, <1>3 DEF Quiet
<1>5. OneReport(v, u, Append(q, c), t, pass)
  BY <1>1, <1>4 DEF OneReport, Quiet
<1> HIDE DEF c
<1>6. LoggedIn(S, m, e, v, u, Append(q, c), t)
  BY <1>5 DEF LoggedIn
<1>7. Progress(S, m, e, p, v, u, Append(q, c), t)
  BY <1>6 DEF Progress
<1>8. ConnType(X, S, m, e, p, b, v, u, Append(q, c), t)
  BY <1>4 DEF ConnInv, ConnType, Places
<1> QED BY <1>7, <1>8 DEF ConnInv, c

\* The message that is the password, or message E in place of one.
LEMMA AnswerKeeps ==
  ASSUME NEW X, NEW S, NEW r, NEW e, NEW p, NEW a, NEW v, NEW u, NEW q, NEW t, NEW b,
         ConnInv(X, S, r, e, "recv", a, v, u, q, t),
         r < Len(S), S[r + 1].kind # "N", ~BadMessage(S[r + 1]),
         b \in Seq(Text), p \in {"refuse", "gone"}
  PROVE  ConnInv(X, S, r + 1, e, p, b, v, u,
                 Append(q, [user |-> u, pass |-> PassIn(S[r + 1])]), t)
<1>1. /\ Len(S) \in Nat /\ r \in Nat /\ r + 1 \in 0 .. Len(S)
      /\ S[r + 1].kind \notin StartKinds
      /\ S[r + 1].body \in Seq(STRING) /\ S[r + 1].n \in {-1, Len(S[r + 1].body)}
  BY NextMessage
<1>2. PICK k \in 1 .. r : StartedAt(S, v, u, k) /\ OnlyNotices(S, k, r)
  BY NextMessage
<1>3. PassIn(S[r + 1]) \in Seq(STRING)
  <2> DEFINE body == S[r + 1].body
  <2>1. CASE S[r + 1].kind = "E"
    BY <2>1 DEF PassIn
  <2>2. CASE S[r + 1].kind # "E"
    <3>1. ~ (S[r + 1].n < 1)
      BY <2>2 DEF BadMessage
    <3>2. Len(body) \in Nat /\ Len(body) > 0
      BY <1>1, <3>1
    <3>3. SubSeq(body, 1, Len(body) - 1) \in Seq(STRING)
      BY <1>1, <3>2
    <3> QED BY <2>2, <3>3 DEF PassIn, Front
  <2> QED BY <2>1, <2>2
<1>4. k \in 1 .. r + 1 /\ r + 1 \in k + 1 .. r + 1 /\ (r + 1) - 1 = r
  BY <1>1
<1>5. Answered(S, r + 1, e, k, PassIn(S[r + 1]))
  BY <1>1, <1>2, <1>4 DEF Answered
<1> QED BY <1>1, <1>2, <1>3, <1>4, <1>5, GoKeeps

\* The client ended without an answer.
LEMMA EndKeeps ==
  ASSUME NEW X, NEW S, NEW r, NEW e, NEW a, NEW v, NEW u, NEW q, NEW t,
         ConnInv(X, S, r, e, "recv", a, v, u, q, t),
         e # "no", ~ (r < Len(S))
  PROVE  ConnInv(X, S, r, e, "gone", a, v, u, Append(q, [user |-> u, pass |-> <<>>]), t)
<1>1. r \in 0 .. Len(S) /\ Len(S) \in Nat /\ a \in Seq(Text)
  BY DEF ConnInv, ConnType, Proper
<1>2. r = Len(S)
  BY <1>1
<1>3. PICK k \in 1 .. r : StartedAt(S, v, u, k) /\ OnlyNotices(S, k, r)
  BY DEF ConnInv, Progress
<1>4. Answered(S, r, e, k, <<>>) /\ <<>> \in Seq(STRING)
  BY <1>2, <1>3 DEF Answered
<1> QED BY <1>1, <1>3, <1>4, GoKeeps

\* The login is refused.
LEMMA RefuseKeeps ==
  ASSUME NEW X, NEW S, NEW r, NEW e, NEW a, NEW v, NEW u, NEW q, NEW t,
         ConnInv(X, S, r, e, "refuse", a, v, u, q, t)
  PROVE  ConnInv(X, S, r, e, "gone", <<"E">>, v, u, q, t)
<1>1. Progress(S, r, e, "gone", v, u, q, t)
  BY DEF ConnInv, Progress
<1>2. ConnType(X, S, r, e, "gone", <<"E">>, v, u, q, t)
  BY ScratchText DEF ConnInv, ConnType, Places
<1> QED BY <1>1, <1>2 DEF ConnInv

\* sendEvent runs, whatever has happened in the meantime.
LEMMA SendKeeps ==
  ASSUME NEW X, NEW S, NEW r, NEW e, NEW p, NEW a, NEW v, NEW u, NEW q, NEW t,
         ConnInv(X, S, r, e, p, a, v, u, q, t), q # <<>>
  PROVE  ConnInv(X, S, r, e, p, a, v, u, Tail(q),
                 Append(t, [user |-> q[1].user, pass |-> q[1].pass,
                            version |-> Front(IF v.at = "scratch" THEN a ELSE v.bytes)]))
<1> DEFINE c == [user |-> q[1].user, pass |-> q[1].pass,
                 version |-> Front(IF v.at = "scratch" THEN a ELSE v.bytes)]
<1>1. p \in {"refuse", "gone"} /\ LoggedIn(S, r, e, v, u, q, t)
  BY DEF ConnInv, ConnType, Progress, Quiet, Places
<1>2. PICK k \in 1 .. r, pass \in Seq(STRING) :
        StartedAt(S, v, u, k) /\ Answered(S, r, e, k, pass) /\ OneReport(v, u, q, t, pass)
  BY <1>1 DEF LoggedIn
<1>3. q = <<[user |-> u, pass |-> pass]>> /\ t = <<>>
  BY <1>2 DEF OneReport
<1>4. v.at = "heap" /\ v.bytes = S[k].words
  BY <1>2 DEF StartedAt
<1>5. c = [user |-> u, pass |-> pass, version |-> Front(v.bytes)]
  BY <1>3, <1>4
<1>6. Front(v.bytes) \in Seq(STRING) /\ u \in Text
  <2>1. Proper(S) /\ k \in 1 .. Len(S) /\ u \in Text
    <3>1. Proper(S) /\ Len(S) \in Nat /\ r \in 0 .. Len(S) /\ u \in Text
      BY DEF ConnInv, ConnType, Proper
    <3> QED BY <3>1
  <2>2. S[k].words \in Seq(STRING) \ {<<>>} /\ Len(S[k].words) \in Nat \ {0}
    BY <1>2, <2>1, Fields DEF StartedAt, StartKinds
  <2>3. SubSeq(S[k].words, 1, Len(S[k].words) - 1) \in Seq(STRING)
    BY <2>2
  <2> QED BY <1>4, <2>1, <2>3 DEF Front
<1> HIDE DEF c
<1>7. c \in Reports
  BY <1>5, <1>6 DEF Reports
<1>8. Tail(q) = <<>> /\ Append(t, c) = <<c>> /\ Append(t, c) \in Seq(Reports)
  BY <1>3, <1>7
<1>9. OneReport(v, u, Tail(q), Append(t, c), pass)
  BY <1>5, <1>8 DEF OneReport
<1>10. LoggedIn(S, r, e, v, u, Tail(q), Append(t, c))
  BY <1>2, <1>9 DEF LoggedIn
<1>11. Progress(S, r, e, p, v, u, Tail(q), Append(t, c))
  BY <1>1, <1>10 DEF Progress
<1>12. ConnType(X, S, r, e, p, a, v, u, Tail(q), Append(t, c))
  BY <1>8 DEF ConnInv, ConnType
<1> QED BY <1>11, <1>12 DEF ConnInv, c

-----------------------------------------------------------------------------
(***************************************************************************)
(* The actions of PsqlPot                                                  *)
(***************************************************************************)

\* What another connection has does not change with a step of c.
Alone(c) ==
  /\ Tables'
  /\ \A d \in Conns \ {c} :
       /\ sent'[d] = sent[d] /\ read'[d] = read[d] /\ ended'[d] = ended[d]
       /\ pc'[d] = pc[d] /\ scratch'[d] = scratch[d] /\ params'[d] = params[d]
       /\ user'[d] = user[d] /\ pending'[d] = pending[d] /\ reported'[d] = reported[d]

\* The way of a connection to its handler.
Comes(c) == Connect(c) \/ AcceptConnection(c) \/ HandleConnection(c)

Step(c) == Comes(c) \/ ClientStep(c) \/ Session(c)

\* Each step of a session is that of one connection.
LEMMA StepAlone ==
  ASSUME Tables, NEW c \in Conns, Step(c)
  PROVE  Alone(c)
<1>1. CASE Comes(c)
  BY <1>1 DEF Comes, Connect, AcceptConnection, HandleConnection, Moves, Goes, Alone,
       Tables, pots
<1>2. CASE ClientStep(c)
  BY <1>2 DEF ClientStep, CloseConn, Reset, Alone, Tables
<1>3. CASE SslRequest(c) \/ StartPanics(c) \/ Start(c) \/ NoStart(c) \/ Ask(c)
  BY <1>3 DEF SslRequest, StartPanics, Start, NoStart, Ask, Panic, session, Consume, Fill,
       Goes, Alone, Tables
<1>4. CASE MessagePanics(c) \/ Notice(c) \/ Refuse(c) \/ SendEvent(c)
  BY <1>4 DEF MessagePanics, Notice, Refuse, SendEvent, Panic, session, Receive, Consume,
       Fill, Goes, Alone, Tables
<1>5. CASE Password(c) \/ NoPassword(c)
  BY <1>5 DEF Password, NoPassword, GoSendEvent, ReportsWithout, Receive, Consume, Fill,
       Goes, Alone, Tables
<1> QED BY <1>1, <1>2, <1>3, <1>4, <1>5 DEF Step, Session, HandleClient

\* Every step preserves the invariant of its connection.
LEMMA StepKeeps ==
  ASSUME SessionInv, NEW c \in Conns, Step(c)
  PROVE  Inv(c)'
<1> DEFINE X == Scripts[c]  S == sent[c]  r == read[c]  e == ended[c]  p == pc[c]
           a == scratch[c]  v == params[c]  u == user[c]  q == pending[c]
           t == reported[c]
           m == Message(c)
<1>0. ConnInv(X, S, r, e, p, a, v, u, q, t) /\ Tables
  BY DEF SessionInv, Inv
<1>1. CASE Comes(c)
  <2>1. /\ sent' = sent /\ read' = read /\ ended' = ended /\ scratch' = scratch
        /\ params' = params /\ user' = user /\ pending' = pending /\ reported' = reported
        /\ \/ p = "away" /\ pc'[c] = "backlog"
           \/ p = "backlog" /\ pc'[c] = "accepted"
           \/ p = "accepted" /\ pc'[c] = "start"
    BY <1>0, <1>1 DEF Comes, Connect, AcceptConnection, HandleConnection, Moves, At, Goes,
         Tables
  <2>2. ConnInv(X, S, r, e, pc'[c], a, v, u, q, t)
    BY <1>0, <2>1, EarlyKeeps
  <2> QED BY <2>1, <2>2 DEF Inv
<1>2. CASE CloseConn(c)
  <2>1. /\ sent' = sent /\ read' = read /\ ended'[c] = "closed" /\ pc' = pc
        /\ scratch' = scratch /\ params' = params /\ user' = user /\ pending' = pending
        /\ reported' = reported /\ e = "no"
    BY <1>0, <1>2 DEF CloseConn, Connected, Tables
  <2>2. ConnInv(X, S, r, "closed", p, a, v, u, q, t)
    BY <1>0, <2>1, CloseKeeps
  <2> QED BY <2>1, <2>2 DEF Inv
<1>3. CASE Reset(c)
  <2>1. /\ sent'[c] = SubSeq(S, 1, r) /\ read' = read /\ ended'[c] = "reset" /\ pc' = pc
        /\ scratch' = scratch /\ params' = params /\ user' = user /\ pending' = pending
        /\ reported' = reported /\ e = "no"
    BY <1>0, <1>3 DEF Reset, Connected, Tables
  <2>2. ConnInv(X, SubSeq(S, 1, r), r, "reset", p, a, v, u, q, t)
    BY <1>0, <2>1, ResetKeeps
  <2> QED BY <2>1, <2>2 DEF Inv
<1>4. CASE StartPanics(c) \/ MessagePanics(c)
  BY <1>0, <1>4 DEF StartPanics, MessagePanics, Panic, session, Inv
<1>5. CASE SslRequest(c)
  <2>1. /\ sent' = sent /\ read'[c] = r + 1 /\ ended' = ended /\ pc'[c] \in {"start", "gone"}
        /\ scratch'[c] = <<"length">> /\ params' = params /\ user' = user
        /\ pending' = pending /\ reported' = reported
        /\ p = "start" /\ r < Len(S) /\ S[r + 1].kind = "ssl"
    BY <1>0, <1>5 DEF SslRequest, At, Arrived, Message, Consume, Fill, Goes, Tables
  <2>2. ConnInv(X, S, r + 1, e, pc'[c], <<"length">>, v, u, q, t)
    BY <1>0, <2>1, SslKeeps
  <2> QED BY <2>1, <2>2 DEF Inv
<1>6. CASE Start(c)
  <2>1. /\ sent' = sent /\ read'[c] = r + 1 /\ ended' = ended /\ pc'[c] = "ask"
        /\ scratch'[c] = <<"length">>
        /\ params'[c] = [at |-> "heap", bytes |-> S[r + 1].words]
        /\ user'[c] = UserIn(S[r + 1].words)
        /\ pending' = pending /\ reported' = reported
        /\ p = "start" /\ r < Len(S) /\ S[r + 1].kind = "start"
        /\ UserAt(S[r + 1].words) # Len(S[r + 1].words)
    BY <1>0, <1>6 DEF Start, At, Arrived, Message, BadStart, ParamsAt, Consume, Fill, Goes,
         Tables
  <2>2. ConnInv(X, S, r + 1, e, "ask", <<"length">>,
                [at |-> "heap", bytes |-> S[r + 1].words], UserIn(S[r + 1].words), q, t)
    BY <1>0, <2>1, StartKeeps
  <2> QED BY <2>1, <2>2 DEF Inv
<1>7. CASE NoStart(c)
  <2>1. /\ sent' = sent /\ read' = read /\ ended' = ended /\ scratch' = scratch
        /\ params' = params /\ user' = user /\ pending' = pending /\ reported' = reported
        /\ p = "start" /\ pc'[c] = "gone"
    BY <1>0, <1>7 DEF NoStart, At, Goes, Tables
  <2>2. ConnInv(X, S, r, e, "gone", a, v, u, q, t)
    BY <1>0, <2>1, EarlyKeeps
  <2> QED BY <2>1, <2>2 DEF Inv
<1>8. CASE Ask(c)
  <2>1. /\ sent' = sent /\ read' = read /\ ended' = ended /\ scratch'[c] = <<"R">>
        /\ params' = params /\ user' = user /\ pending' = pending /\ reported' = reported
        /\ p = "ask" /\ pc'[c] = "recv"
    BY <1>0, <1>8 DEF Ask, At, Fill, Goes, Tables
  <2>2. ConnInv(X, S, r, e, "recv", <<"R">>, v, u, q, t)
    BY <1>0, <2>1, AskKeeps
  <2> QED BY <2>1, <2>2 DEF Inv
<1>9. ASSUME Receives(c), Receive(c)
      PROVE  /\ p = "recv" /\ r < Len(S) /\ read'[c] = r + 1
             /\ scratch'[c] \in Seq(Text) /\ m = S[r + 1]
  <2>1. p = "recv" /\ r < Len(S) /\ read'[c] = r + 1 /\ m = S[r + 1]
    BY <1>0, <1>9 DEF Receives, Receive, At, Arrived, Consume, Message, Tables
  <2>2. m.body \in Seq(Text)
    BY <1>0, <2>1, NextMessage, ScratchText
  <2>3. a \in Seq(Text)
    BY <1>0 DEF ConnInv, ConnType
  <2>4. scratch'[c] = m.body \/ scratch' = scratch
    BY <1>0, <1>9 DEF Receive, Fill, Tables
  <2> QED BY <2>1, <2>2, <2>3, <2>4
<1>10. CASE Notice(c)
  <2>1. /\ sent' = sent /\ ended' = ended /\ pc' = pc /\ params' = params /\ user' = user
        /\ pending' = pending /\ reported' = reported
        /\ m.kind = "N" /\ Receives(c) /\ Receive(c)
    BY <1>10 DEF Notice, IsNotice
  <2>2. ConnInv(X, S, r + 1, e, "recv", scratch'[c], v, u, q, t)
    BY <1>0, <1>9, <2>1, NoticeKeeps
  <2> QED BY <1>9, <2>1, <2>2 DEF Inv
<1>11. CASE Password(c)
  <2>1. /\ sent' = sent /\ ended' = ended /\ pc'[c] = "refuse" /\ params' = params
        /\ user' = user /\ reported' = reported
        /\ pending'[c] = Append(q, [user |-> u, pass |-> PassIn(m)])
        /\ m.kind # "N" /\ ~BadMessage(m) /\ Receives(c) /\ Receive(c)
    BY <1>0, <1>11 DEF Password, IsNotice, GoSendEvent, PassIn, Goes, Tables
  <2>2. ConnInv(X, S, r + 1, e, "refuse", scratch'[c], v, u,
                Append(q, [user |-> u, pass |-> PassIn(m)]), t)
    BY <1>0, <1>9, <2>1, AnswerKeeps
  <2> QED BY <1>9, <2>1, <2>2 DEF Inv
<1>12. CASE NoPassword(c)
  <2>1. /\ sent' = sent /\ ended' = ended /\ pc'[c] = "gone" /\ params' = params
        /\ user' = user /\ reported' = reported
        /\ pending'[c] = Append(q, [user |-> u, pass |-> <<>>])
    BY <1>0, <1>12 DEF NoPassword, ReportsWithout, GoSendEvent, Goes, Tables
  <2>2. CASE Receives(c) /\ m.kind = "E" /\ ~BadMessage(m) /\ Receive(c)
    <3>1. PassIn(m) = <<>> /\ m.kind # "N"
      BY <2>2 DEF PassIn
    <3>2. ConnInv(X, S, r + 1, e, "gone", scratch'[c], v, u,
                  Append(q, [user |-> u, pass |-> <<>>]), t)
      BY <1>0, <1>9, <2>2, <3>1, AnswerKeeps
    <3> QED BY <1>9, <2>1, <2>2, <3>2 DEF Inv
  <2>3. CASE At(c, "recv") /\ Nothing(c) /\ UNCHANGED <<read, scratch>>
    <3>1. p = "recv" /\ e # "no" /\ ~ (r < Len(S))
      BY <2>3 DEF At, Nothing, Arrived
    <3>2. ConnInv(X, S, r, e, "gone", a, v, u, Append(q, [user |-> u, pass |-> <<>>]), t)
      BY <1>0, <3>1, EndKeeps
    <3> QED BY <2>1, <2>3, <3>2 DEF Inv
  <2> QED BY <1>12, <2>2, <2>3 DEF NoPassword
<1>13. CASE Refuse(c)
  <2>1. /\ sent' = sent /\ read' = read /\ ended' = ended /\ scratch'[c] = <<"E">>
        /\ params' = params /\ user' = user /\ pending' = pending /\ reported' = reported
        /\ p = "refuse" /\ pc'[c] = "gone"
    BY <1>0, <1>13 DEF Refuse, At, Fill, Goes, Tables
  <2>2. ConnInv(X, S, r, e, "gone", <<"E">>, v, u, q, t)
    BY <1>0, <2>1, RefuseKeeps
  <2> QED BY <2>1, <2>2 DEF Inv
<1>14. CASE SendEvent(c)
  <2>1. /\ sent' = sent /\ read' = read /\ ended' = ended /\ pc' = pc /\ scratch' = scratch
        /\ params' = params /\ user' = user /\ q # <<>> /\ pending'[c] = Tail(q)
        /\ reported'[c] =
             Append(t, [user |-> q[1].user, pass |-> q[1].pass,
                        version |-> Front(IF v.at = "scratch" THEN a ELSE v.bytes)])
    BY <1>0, <1>14 DEF SendEvent, Bytes, Tables
  <2> DEFINE T == Append(t, [user |-> q[1].user, pass |-> q[1].pass,
                             version |-> Front(IF v.at = "scratch" THEN a ELSE v.bytes)])
  <2>2. ConnInv(X, S, r, e, p, a, v, u, Tail(q), T)
    BY <1>0, <2>1, SendKeeps
  <2> HIDE DEF T
  <2>3. reported'[c] = T
    BY <2>1 DEF T
  <2> QED BY <2>1, <2>2, <2>3 DEF Inv
<1> QED BY <1>1, <1>2, <1>3, <1>4, <1>5, <1>6, <1>7, <1>8, <1>10, <1>11, <1>12, <1>13, <1>14
        DEF Step, ClientStep, Session, HandleClient

\* SessionInv holds at the beginning.
LEMMA SessionInit == Init => SessionInv
<1> SUFFICES ASSUME Init PROVE SessionInv
  OBVIOUS
<1>1. Tables
  BY DEF Init, PsqlInit, Tables
<1>2. ASSUME NEW c \in Conns PROVE Inv(c)
  <2> DEFINE S == sent[c]
             v == [at |-> "heap", bytes |-> <<>>]
  <2>1. /\ S \in Scripts[c] /\ read[c] = 0 /\ ended[c] = "no" /\ pc[c] = "away"
        /\ scratch[c] = <<>> /\ params[c] = v /\ user[c] = "" /\ pending[c] = <<>>
        /\ reported[c] = <<>>
    BY DEF Init, PsqlInit
  <2>2. Proper(S) /\ S \in Seq(Messages) /\ Len(S) \in Nat
    <3>1. S \in Seq(Messages)
      BY <2>1, ScriptsAssumption
    <3>2. \A i \in 1 .. Len(S) :
            IF i = 1 \/ S[i - 1].kind = "ssl" THEN S[i].kind \in StartKinds
            ELSE S[i].kind \notin StartKinds /\ S[i].n \in {-1, Len(S[i].body)}
      BY <2>1, ScriptsAssumption
    <3> QED BY <3>1, <3>2 DEF Proper
  <2> HIDE DEF S
  <2>3. Begins(S, S) /\ 0 \in 0 .. Len(S)
    BY <2>2 DEF Begins
  <2>4. v \in [at : {"heap", "scratch"}, bytes : Seq(STRING)] /\ "" \in Text
        /\ \A A : <<>> \in Seq(A)
    BY DEF Text
  <2>5. ConnType(Scripts[c], S, 0, "no", "away", <<>>, v, "", <<>>, <<>>)
    <3> HIDE DEF v
    <3> QED BY <2>1, <2>2, <2>3, <2>4 DEF ConnType, Places
  <2>6. Progress(S, 0, "no", "away", v, "", <<>>, <<>>)
    BY DEF Progress, Quiet
  <2> QED BY <2>1, <2>5, <2>6 DEF Inv, ConnInv, S
<1> QED BY <1>1, <1>2 DEF SessionInv

\* Every step preserves SessionInv.
LEMMA SessionNext == SessionInv /\ [Next]_vars => SessionInv'
<1> SUFFICES ASSUME SessionInv, [Next]_vars PROVE SessionInv'
  OBVIOUS
<1>1. CASE UNCHANGED session
  BY <1>1 DEF session, SessionInv, Inv, Tables
<1>2. ASSUME NEW c \in Conns, Step(c) PROVE SessionInv'
  <2>1. Alone(c) /\ Inv(c)'
    BY <1>2, StepAlone, StepKeeps DEF SessionInv
  <2>2. ASSUME NEW d \in Conns \ {c} PROVE Inv(d)'
    BY <2>1 DEF SessionInv, Inv, Alone
  <2> QED BY <2>1, <2>2 DEF SessionInv, Alone
<1>3. CASE Supervisor \/ \E r \in Requests : ServeHTTP(r) \/ SendRequest(r)
  <2>1. UNCHANGED session
    BY <1>3 DEF Supervisor, Launch, MainReturns, Bind, RunReturns, ServeHTTP, SendRequest
  <2> QED BY <1>1, <2>1
<1> QED BY <1>1, <1>2, <1>3 DEF Next, Step, Comes, vars

\* A session goes from place to place with what it has read.
THEOREM SessionInvariant == Spec => []SessionInv
BY SessionInit, SessionNext, PTL DEF Spec

\* Every variable has its type, nothing is read that was not sent, and the
\* counter of the WaitGroup is the number of pots that run.
THEOREM TypeCorrect == Spec => []TypeOK
<1>1. ASSUME NEW S, Proper(S), NEW s, s \in Seq(Messages), Begins(S, s) PROVE IsPrefix(S, s)
  <2>1. S \in Seq(Messages) /\ Len(S) \in Nat /\ Len(s) \in Nat /\ Len(S) <= Len(s)
    BY <1>1 DEF Proper, Begins
  <2>2. SubSeq(S, 1, Len(S)) = SubSeq(s, 1, Len(S))
    BY <1>1, <2>1 DEF Begins
  <2> QED BY <2>1, <2>2 DEF IsPrefix
<1>2. ASSUME SessionInv, NEW c \in Conns
      PROVE  /\ \E s \in Scripts[c] : IsPrefix(sent[c], s)
             /\ read[c] \in 0 .. Len(sent[c])
             /\ ended[c] \in {"no", "closed", "reset"}
             /\ pc[c] \in Places
             /\ scratch[c] \in Seq(Text)
             /\ params[c] \in [at : {"heap", "scratch"}, bytes : Seq(STRING)]
             /\ user[c] \in Text
             /\ pending[c] \in Seq(Credentials)
             /\ reported[c] \in Seq(Reports)
             /\ pc[c] \in {"away", "backlog", "accepted"} => read[c] = 0
             /\ pc[c] # "gone" /\ pending[c] # <<>> => pc[c] = "refuse"
  BY <1>1, <1>2 DEF SessionInv, Inv, ConnInv, ConnType, Progress, Quiet, Places
<1>3. SessionInv /\ PotInv => TypeOK
  BY <1>2 DEF TypeOK, SessionTypes, PotInv, PotTypes, Credentials, Reports
<1> QED BY <1>3, SessionInvariant, PotInvariant, PTL

\* The least element of a set.
LEMMA MinIs ==
  ASSUME NEW T, T \subseteq Nat, NEW n \in T, \A k \in T : n <= k
  PROVE  Min(T) = n
<1>1. \E x \in T : \A k \in T : x =< k
  OBVIOUS
<1>2. Min(T) \in T /\ \A k \in T : Min(T) <= k
  BY <1>1 DEF Min
<1>3. Min(T) <= n /\ n <= Min(T) /\ Min(T) \in Nat /\ n \in Nat
  BY <1>2
<1> QED BY <1>3

\* What a report of the psql pot has is what the client of its connection wrote.
LEMMA ReportIsOwn ==
  ASSUME SessionInv, NEW c \in Conns
  PROVE  /\ Len(pending[c]) + Len(reported[c]) <= 1
         /\ reported[c] # <<>> =>
              /\ reported[c][1].version = Front(StartOf(c))
              /\ reported[c][1].pass = PasswordOf(c)
              /\ ~Ambiguous(StartOf(c)) =>
                   reported[c][1].user = ValueOf(StartOf(c), "user")
<1> DEFINE S == sent[c]  r == read[c]  e == ended[c]  v == params[c]  u == user[c]
           q == pending[c]  t == reported[c]
<1>1. /\ Proper(S) /\ r \in 0 .. Len(S) /\ Len(S) \in Nat
      /\ Quiet(q, t) \/ LoggedIn(S, r, e, v, u, q, t)
  <2>1. /\ Proper(S) /\ r \in 0 .. Len(S) /\ pc[c] \in Places
        /\ Progress(S, r, e, pc[c], v, u, q, t)
    BY DEF SessionInv, Inv, ConnInv, ConnType
  <2>2. Len(S) \in Nat
    BY <2>1 DEF Proper
  <2>3. Quiet(q, t) \/ LoggedIn(S, r, e, v, u, q, t)
    <3> HIDE DEF S, r, e, v, u, q, t
    <3> QED BY <2>1 DEF Progress, Places
  <2> QED BY <2>1, <2>2, <2>3
<1>2. CASE Quiet(q, t)
  BY <1>2 DEF Quiet
<1>3. ASSUME NEW k \in 1 .. r, NEW pass, StartedAt(S, v, u, k), Answered(S, r, e, k, pass),
             OneReport(v, u, q, t, pass)
      PROVE  /\ Len(q) + Len(t) <= 1
             /\ t # <<>> => /\ t[1].version = Front(StartOf(c))
                            /\ t[1].pass = PasswordOf(c)
                            /\ ~Ambiguous(StartOf(c)) => t[1].user = ValueOf(StartOf(c), "user")
  <2>1. Len(q) + Len(t) <= 1
    <3>1. \A x : Len(<<x>>) = 1 /\ Len(<<>>) = 0 /\ 1 + 0 <= 1 /\ 0 + 1 <= 1
      OBVIOUS
    <3> HIDE DEF q, t, u, v
    <3> QED BY <1>3, <3>1 DEF OneReport
  <2>2. k \in 1 .. Len(S) /\ S[k].kind = "start"
        /\ \A i \in 1 .. k - 1 : S[i].kind = "ssl"
    BY <1>1, <1>3 DEF StartedAt
  <2>3. Min(Starts(c)) = k
    <3>1. Starts(c) \subseteq Nat /\ k \in Starts(c)
      BY <1>1, <2>2 DEF Starts
    <3>2. ASSUME NEW i \in Starts(c) PROVE k <= i
      <4>1. i \in Nat /\ i \in 1 .. Len(S) /\ i \notin 1 .. k - 1
        BY <1>1, <2>2 DEF Starts
      <4> QED BY <2>2, <4>1
    <3> QED BY <3>1, <3>2, MinIs
  <2>4. StartOf(c) = S[k].words
    BY <2>3 DEF StartOf
  <2>5. PasswordOf(c) = pass
    <3>1. \A i \in 1 .. k : S[i].kind \in StartKinds
      BY <1>1, <2>2 DEF StartKinds
    <3>2. CASE \E i \in k + 1 .. r : /\ S[i].kind \notin StartKinds \cup {"N"}
                                     /\ OnlyNotices(S, k, i - 1)
                                     /\ pass = PassIn(S[i])
      <4>1. PICK i \in k + 1 .. r : /\ S[i].kind \notin StartKinds \cup {"N"}
                                    /\ OnlyNotices(S, k, i - 1)
                                    /\ pass = PassIn(S[i])
        BY <3>2
      <4>2. Answers(c) \subseteq Nat /\ i \in Answers(c)
        BY <1>1, <2>2, <4>1 DEF Answers
      <4>3. ASSUME NEW j \in Answers(c) PROVE i <= j
        <5>1. j \in 1 .. Len(S) /\ j \notin 1 .. k /\ j \notin k + 1 .. i - 1
          BY <3>1, <4>1 DEF Answers, OnlyNotices
        <5> QED BY <1>1, <2>2, <4>1, <5>1
      <4>4. Min(Answers(c)) = i
        BY <4>2, <4>3, MinIs
      <4> QED BY <4>1, <4>2, <4>4 DEF PasswordOf
    <3>3. CASE r = Len(S) /\ OnlyNotices(S, k, r) /\ pass = <<>>
      <4>1. Answers(c) = {}
        <5>1. ASSUME NEW j \in Answers(c) PROVE FALSE
          <6>1. j \in 1 .. Len(S) /\ S[j].kind \notin StartKinds /\ S[j].kind # "N"
            BY DEF Answers
          <6>2. j \in 1 .. k \/ j \in k + 1 .. r
            BY <1>1, <2>2, <3>3, <6>1
          <6> QED BY <3>1, <3>3, <6>1, <6>2 DEF OnlyNotices
        <5> QED BY <5>1
      <4> QED BY <3>3, <4>1 DEF PasswordOf
    <3> QED BY <1>3, <3>2, <3>3 DEF Answered
  <2>6. /\ v.bytes = S[k].words /\ u = UserIn(S[k].words)
        /\ UserAt(S[k].words) # Len(S[k].words)
    BY <1>3 DEF StartedAt
  <2>7. S[k].words \in Seq(STRING)
    BY <1>1, <2>2, Fields DEF StartKinds
  <2>8. ~Ambiguous(StartOf(c)) => u = ValueOf(StartOf(c), "user")
    BY <2>4, <2>6, <2>7, UserIsValue
  <2>9. ASSUME t # <<>>
        PROVE  t = <<[user |-> u, pass |-> pass, version |-> Front(v.bytes)]>>
    BY <1>3, <2>9 DEF OneReport
  <2>10. ASSUME t # <<>>
         PROVE  t[1].version = Front(S[k].words) /\ t[1].pass = pass /\ t[1].user = u
    <3> HIDE DEF t, u, v, S
    <3> QED BY <2>6, <2>9, <2>10
  <2> QED BY <2>1, <2>4, <2>5, <2>8, <2>10
<1> QED BY <1>1, <1>2, <1>3 DEF LoggedIn

\* A connection to the psql pot yields one report at most.  Whatever comes
\* before the password, whenever sendEvent runs and whatever others do, it has
\* the words and the password that this client wrote, and the user too unless
\* the word "user" occurs as a value or twice.
THEOREM LoginsOwn == Spec => []ReportsOwnLogin
<1>1. SessionInv => ReportsOwnLogin
  BY ReportIsOwn DEF ReportsOwnLogin
<1> QED BY <1>1, SessionInvariant, PTL
=============================================================================
