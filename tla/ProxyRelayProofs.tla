--------------------------- MODULE ProxyRelayProofs ---------------------------
(***************************************************************************)
(* Proofs about ProxyRelay, for all values of its constants: type          *)
(* correctness, the order of the stored batches, that the proxy implements *)
(* RelayContract, the size of the batches, and why a payload can be lost.  *)
(***************************************************************************)
EXTENDS ProxyRelay, SequenceTheorems, WellFoundedInduction, TLAPS

USE SizesAssumption, MaxBatchAssumption, MaxTriesAssumption, MaxItemsAssumption

\* Init establishes the types.
LEMMA TypeInit == Init => TypeOK
<1> SUFFICES ASSUME Init PROVE TypeOK
  OBVIOUS
<1>1. <<>> \in Seq(ItemType) /\ <<>> \in Seq(Nat) /\ <<>> \in Seq(Seq(Nat))
  OBVIOUS
<1>2. pc \in [Drainers -> Places]
  BY DEF Init, Drainers, Places
<1>3. /\ events \in [Drainers -> Seq(Nat)]
      /\ bufSize \in [Drainers -> 0 .. MaxBatch]
      /\ tries \in [Drainers -> 0 .. MaxTries - 1]
  BY <1>1 DEF Init
<1>4. Len(log) = 0 /\ head \in 0 .. Len(log)
  BY DEF Init
<1> QED BY <1>1, <1>2, <1>3, <1>4 DEF Init, TypeOK

\* Whatever ends the process leaves well-typed variables.
LEMMA EndsType ==
  ASSUME TypeOK, Ends, log' = log, head' = head, accepted' = accepted,
         recorded' \in Seq(Seq(Nat))
  PROVE  TypeOK'
<1>1. <<>> \in Seq(Nat)
  OBVIOUS
<1>2. /\ events' \in [Drainers -> Seq(Nat)]
      /\ bufSize' \in [Drainers -> 0 .. MaxBatch]
      /\ tries' \in [Drainers -> 0 .. MaxTries - 1]
      /\ pc' \in [Drainers -> Places]
  BY <1>1 DEF Ends, Places
<1> QED BY <1>2 DEF TypeOK, Ends

\* Where a goroutine goes after Drain is a place.
LEMMA AfterDrainPlace ==
  ASSUME NEW d \in Drainers
  PROVE  AfterDrain(d) \in {"idle", "exit"}
  BY DEF Drainers, AfterDrain

\* A return of Drain keeps the types.
LEMMA ReturnType ==
  ASSUME TypeOK, NEW d \in Drainers, Return(d),
         log' = log, head' \in 0 .. Len(log), accepted' = accepted,
         recorded' \in Seq(Seq(Nat)),
         UNCHANGED <<sigChan, handling, exiting, up>>
  PROVE  TypeOK'
<1>1. <<>> \in Seq(Nat)
  OBVIOUS
<1>2. pc' \in [Drainers -> Places]
  BY AfterDrainPlace DEF TypeOK, Return, Places
<1>3. /\ events' \in [Drainers -> Seq(Nat)]
      /\ bufSize' \in [Drainers -> 0 .. MaxBatch]
      /\ tries' \in [Drainers -> 0 .. MaxTries - 1]
  BY <1>1 DEF TypeOK, Return
<1>4. mux' \in Drainers \cup {"free"}
  BY DEF Return
<1> QED BY <1>2, <1>3, <1>4 DEF TypeOK

\* The end of the loop of Drain keeps the types.
LEMMA LeaveLoopType ==
  ASSUME TypeOK, NEW d \in Drainers, LeaveLoop(d),
         log' = log, head' \in 0 .. Len(log), accepted' = accepted,
         recorded' = recorded,
         UNCHANGED <<sigChan, handling, exiting, up>>
  PROVE  TypeOK'
<1>1. CASE Return(d)
  BY <1>1, ReturnType DEF TypeOK
<1>2. CASE /\ pc' = [pc EXCEPT ![d] = "send"]
           /\ bufSize' = [bufSize EXCEPT ![d] = 0]
           /\ UNCHANGED <<mux, events, tries>>
  BY <1>2 DEF TypeOK, Places
<1> QED BY <1>1, <1>2 DEF LeaveLoop

\* The server storing a batch keeps the type of the history.
LEMMA StoresType ==
  ASSUME TypeOK, NEW d \in Drainers, Stores(d)
  PROVE  recorded' \in Seq(Seq(Nat))
  BY DEF TypeOK, Stores

\* Every step keeps the types.
LEMMA TypeNext == TypeOK /\ [Next]_vars => TypeOK'
<1> SUFFICES ASSUME TypeOK, [Next]_vars PROVE TypeOK'
  OBVIOUS
<1>1. CASE Restart
  BY <1>1 DEF Restart, TypeOK, Drainers, Places
<1>2. CASE Listen
  BY <1>2 DEF Listen, TypeOK, Drainers, Places
<1>3. CASE ListenFails
  BY <1>3, EndsType DEF ListenFails, TypeOK
<1>4. CASE ServeFails
  BY <1>4 DEF ServeFails, TypeOK, Drainers, Places
<1>5. CASE MainReturns
  BY <1>5, EndsType DEF MainReturns, TypeOK
<1>6. CASE ServeHTTP
  <2>1. CASE UNCHANGED log
    BY <1>6, <2>1 DEF ServeHTTP, TypeOK, local
  <2>2. ASSUME NEW size \in Sizes, NEW ok \in BOOLEAN, Store(size, ok)
        PROVE  TypeOK'
    <3>1. [size |-> size, ok |-> ok] \in ItemType
      BY DEF ItemType
    <3>2. log' \in Seq(ItemType) /\ Len(log') = Len(log) + 1
      BY <2>2, <3>1 DEF Store, TypeOK
    <3> QED BY <1>6, <3>2 DEF ServeHTTP, TypeOK, local
  <2> QED BY <1>6, <2>1, <2>2 DEF ServeHTTP
<1>7. CASE Tick
  BY <1>7 DEF Tick, TypeOK, Drainers, Places
<1>8. CASE \E s \in Signals : Signal(s)
  BY <1>8 DEF Signal, TypeOK
<1>9. CASE ReceiveSignal
  BY <1>9 DEF ReceiveSignal, TypeOK, Drainers, Places, Signals
<1>10. CASE HandOff
  BY <1>10 DEF HandOff, TypeOK, Drainers, Places
<1>11. CASE OsExit
  BY <1>11, EndsType DEF OsExit, TypeOK
<1>12. ASSUME NEW d \in Drainers, Lock(d) PROVE TypeOK'
  BY <1>12, AfterDrainPlace DEF Lock, TypeOK, Places
<1>13. ASSUME NEW d \in Drainers, DrainStep(d) PROVE TypeOK'
  <2>1. CASE EndLoop(d)
    BY <2>1, LeaveLoopType DEF EndLoop, TypeOK
  <2>2. ASSUME Dequeues(d) PROVE head' \in 0 .. Len(log)
    BY <2>2 DEF Dequeues, QueueLength, TypeOK
  <2>3. CASE DropOverflow(d)
    <3>1. UNCHANGED recorded
      BY <2>3 DEF DropOverflow
    <3> QED BY <2>2, <2>3, <3>1, LeaveLoopType DEF DropOverflow
  <2>4. CASE Undecodable(d)
    BY <2>2, <2>4, ReturnType DEF Undecodable, TypeOK
  <2>5. CASE Collect(d)
    <3>1. head + 1 \in 1 .. Len(log)
      BY <2>5 DEF Collect, Dequeues, QueueLength, TypeOK
    <3>2. bufSize[d] + log[head + 1].size \in 0 .. MaxBatch
      <4>1. log[head + 1] \in ItemType
        BY <3>1 DEF TypeOK
      <4>2. log[head + 1].size \in Nat
        BY <4>1 DEF ItemType
      <4>3. ~(bufSize[d] + log[head + 1].size > MaxBatch)
        BY <2>5 DEF Collect, Overflows
      <4>4. bufSize[d] \in Nat
        BY DEF TypeOK
      <4> QED BY <4>2, <4>3, <4>4
    <3>3. Append(events[d], head + 1) \in Seq(Nat)
      BY <3>1 DEF TypeOK
    <3> QED BY <2>2, <2>5, <3>2, <3>3 DEF Collect, TypeOK
  <2> QED BY <1>13, <2>1, <2>3, <2>4, <2>5 DEF DrainStep
<1>14. ASSUME NEW d \in Drainers, Attempt(d) PROVE TypeOK'
  <2>1. CASE Accepted(d)
    BY <2>1, StoresType, ReturnType DEF Accepted, TypeOK
  <2>2. CASE Rejected(d)
    <3>1. recorded' \in Seq(Seq(Nat))
      BY <2>2, StoresType DEF Rejected, TypeOK
    <3>2. CASE Return(d)
      BY <2>2, <3>1, <3>2, ReturnType DEF Rejected, TypeOK
    <3>3. CASE /\ MoreTries(d)
               /\ tries' = [tries EXCEPT ![d] = NextTry(d)]
               /\ UNCHANGED <<mux, pc, events, bufSize>>
      <4>1. tries[d] + 1 \in 0 .. MaxTries - 1
        BY <3>3 DEF MoreTries, NextTry, TypeOK
      <4>2. tries' \in [Drainers -> 0 .. MaxTries - 1]
        BY <3>3, <4>1 DEF NextTry, TypeOK
      <4> QED BY <2>2, <3>1, <3>3, <4>2 DEF Rejected, TypeOK
    <3> QED BY <2>2, <3>2, <3>3 DEF Rejected
  <2>3. CASE Panics(d)
    BY <2>3, StoresType, EndsType DEF Panics, TypeOK
  <2> QED BY <1>14, <2>1, <2>2, <2>3 DEF Attempt
<1>15. CASE UNCHANGED vars
  BY <1>15 DEF vars, local, TypeOK
<1> QED
  BY <1>1, <1>2, <1>3, <1>4, <1>5, <1>6, <1>7, <1>8, <1>9, <1>10, <1>11, <1>12,
     <1>13, <1>14, <1>15 DEF Next

\* Type correctness: the variables of the proxy keep their types and bounds
\* for every size of a batch and every number of attempts.
THEOREM TypeCorrect == Spec => []TypeOK
<1>1. Init => TypeOK
  BY TypeInit
<1>2. TypeOK /\ [Next]_vars => TypeOK'
  BY TypeNext
<1> QED BY <1>1, <1>2, PTL DEF Spec

-----------------------------------------------------------------------------
(***************************************************************************)
(* The order of the stored batches                                         *)
(***************************************************************************)

\* A run of the log is a run of every longer log.
LEMMA RunOfLonger ==
  ASSUME NEW l \in Seq(ItemType), NEW x \in ItemType, NEW s \in Seq(Nat),
         IsRun(l, s)
  PROVE  IsRun(Append(l, x), s)
<1>1. /\ Len(Append(l, x)) = Len(l) + 1
      /\ \A i \in 1 .. Len(l) : Append(l, x)[i] = l[i]
  OBVIOUS
<1> QED BY <1>1 DEF IsRun

\* A run that is followed by the next decodable event is a run.
LEMMA RunGrows ==
  ASSUME NEW l \in Seq(ItemType), NEW s \in Seq(Nat), NEW x \in 1 .. Len(l),
         l[x].ok, s = <<>> \/ (IsRun(l, s) /\ LastOf(s) = x - 1)
  PROVE  /\ IsRun(l, Append(s, x))
         /\ LastOf(Append(s, x)) = x
         /\ s # <<>> => Append(s, x)[1] = s[1]
         /\ s = <<>> => Append(s, x)[1] = x
<1>1. /\ Append(s, x) \in Seq(Nat)
      /\ Append(s, x) # <<>>
      /\ Len(Append(s, x)) = Len(s) + 1
      /\ Append(s, x)[Len(s) + 1] = x
      /\ \A i \in 1 .. Len(s) : Append(s, x)[i] = s[i]
  <2>1. x \in Nat
    OBVIOUS
  <2> QED BY <2>1, AppendProperties
<1>2. CASE s = <<>>
  BY <1>1, <1>2 DEF IsRun, LastOf
<1>3. CASE s # <<>> /\ IsRun(l, s) /\ LastOf(s) = x - 1
  <2>1. Len(s) \in Nat /\ Len(s) >= 1
    BY <1>3
  <2>2. s[1] \in Nat /\ s[Len(s)] \in Nat
    BY <2>1
  <2>3. x = s[1] + (Len(s) + 1) - 1
    <3>1. s[Len(s)] = s[1] + Len(s) - 1
      BY <1>3, <2>1 DEF IsRun
    <3> QED BY <1>3, <2>1, <2>2, <3>1 DEF LastOf
  <2>4. \A i \in 1 .. Len(s) + 1 : /\ Append(s, x)[i] \in 1 .. Len(l)
                                  /\ l[Append(s, x)[i]].ok
                                  /\ Append(s, x)[i] = s[1] + i - 1
    <3> TAKE i \in 1 .. Len(s) + 1
    <3>1. CASE i = Len(s) + 1
      BY <1>1, <2>3, <3>1
    <3>2. CASE i \in 1 .. Len(s)
      BY <1>1, <1>3, <3>2 DEF IsRun
    <3> QED BY <2>1, <3>1, <3>2
  <2>5. Append(s, x)[1] = s[1]
    BY <1>1, <2>1
  <2> QED BY <1>1, <1>3, <2>4, <2>5 DEF IsRun, LastOf
<1> QED BY <1>2, <1>3

\* While a goroutine is in the body of Drain the others have no batch.
LEMMA OthersOutside ==
  ASSUME OrderInv, NEW d \in Drainers, pc[d] \in {"loop", "send"},
         NEW e \in Drainers, e # d
  PROVE  pc[e] \notin {"loop", "send"} /\ events[e] = <<>>
  BY DEF OrderInv, LockHeld, BatchInHand

\* What is stored stays behind the head when the head moves on.
LEMMA StoredBelow ==
  ASSUME TypeOK, OrderInv, NEW h \in Nat, h >= head,
         NEW i \in 1 .. Len(recorded)
  PROVE  LastOf(recorded[i]) <= h
<1>1. IsRun(log, recorded[i]) /\ LastOf(recorded[i]) <= head
  BY DEF OrderInv, InOrder, StoredIsPast
<1>2. recorded[i] \in Seq(Nat) /\ head \in Nat
  BY DEF TypeOK
<1>3. recorded[i] # <<>>
  BY <1>1 DEF IsRun
<1>4. LastOf(recorded[i]) \in Nat
  BY <1>2, <1>3 DEF LastOf
<1> QED BY <1>1, <1>2, <1>4

\* Storing the batch in hand keeps the history in order, and the batch is
\* then either stored last or newer than what is stored.
LEMMA StoresInOrder ==
  ASSUME TypeOK, OrderInv, NEW d \in Drainers, pc[d] = "send",
         recorded' = recorded \/ Stores(d), log' = log
  PROVE  /\ InOrder'
         /\ \A i \in 1 .. Len(recorded') :
              /\ LastOf(recorded'[i]) <= head
              /\ \/ LastOf(recorded'[i]) < events[d][1]
                 \/ recorded'[i] = events[d]
<1> DEFINE b == events[d]
<1>1. /\ b # <<>>
      /\ IsRun(log, b)
      /\ LastOf(b) <= head
      /\ \A i \in 1 .. Len(recorded) :
           /\ LastOf(recorded[i]) <= head
           /\ LastOf(recorded[i]) < b[1] \/ recorded[i] = b
  BY DEF OrderInv, BatchInHand, StoredIsPast
<1>2. CASE recorded' = recorded
  BY <1>1, <1>2 DEF InOrder, OrderInv
<1>3. CASE Stores(d)
  <2>1. b \in Seq(Nat) /\ recorded \in Seq(Seq(Nat))
    BY DEF TypeOK
  <2>2. /\ Len(recorded') = Len(recorded) + 1
        /\ \A i \in 1 .. Len(recorded) : recorded'[i] = recorded[i]
        /\ recorded'[Len(recorded) + 1] = b
        /\ \A i \in 1 .. Len(recorded') :
             i \in 1 .. Len(recorded) \/ i = Len(recorded) + 1
    BY <1>3, <2>1, AppendProperties DEF Stores
  <2>3. /\ \A i \in 1 .. Len(recorded') : IsRun(log', recorded'[i])
        /\ \A i \in 1 .. Len(recorded') : LastOf(recorded'[i]) <= head
        /\ \A i \in 1 .. Len(recorded') :
             LastOf(recorded'[i]) < b[1] \/ recorded'[i] = b
    BY <1>1, <2>2 DEF OrderInv, InOrder
  <2>4. ASSUME NEW i \in 1 .. Len(recorded'), NEW j \in 1 .. Len(recorded'), i < j
        PROVE  \/ recorded'[i] = recorded'[j]
               \/ LastOf(recorded'[i]) < recorded'[j][1]
    <3>1. i \in 1 .. Len(recorded)
      BY <2>1, <2>2, <2>4
    <3>2. CASE j \in 1 .. Len(recorded)
      BY <2>2, <2>4, <3>1, <3>2 DEF OrderInv, InOrder
    <3>3. CASE j = Len(recorded) + 1
      BY <1>1, <2>2, <3>1, <3>3
    <3> QED BY <2>2, <3>2, <3>3
  <2> QED BY <2>3, <2>4 DEF InOrder
<1> QED BY <1>2, <1>3

\* The end of the process, before or after the server stored the batch.
LEMMA EndsOrder ==
  ASSUME TypeOK, OrderInv, Ends, log' = log, head' = head,
         \/ recorded' = recorded
         \/ \E d \in Drainers : pc[d] = "send" /\ Stores(d)
  PROVE  OrderInv'
<1>1. /\ InOrder'
      /\ \A i \in 1 .. Len(recorded') : LastOf(recorded'[i]) <= head
  <2>1. CASE recorded' = recorded
    BY <2>1 DEF OrderInv, InOrder, StoredIsPast
  <2>2. CASE \E d \in Drainers : pc[d] = "send" /\ Stores(d)
    BY <2>2, StoresInOrder
  <2> QED BY <2>1, <2>2
<1>2. LockHeld' /\ BatchInHand'
  BY DEF Ends, LockHeld, BatchInHand, Drainers
<1>3. StoredIsPast'
  BY <1>1 DEF Ends, StoredIsPast
<1> QED BY <1>1, <1>2, <1>3 DEF OrderInv

\* A step outside the body of Drain.
LEMMA QuietOrder ==
  ASSUME TypeOK, OrderInv, UNCHANGED <<log, mux, events, recorded>>,
         head' \in Nat, head' >= head,
         \A d \in Drainers :
           \/ pc'[d] = pc[d] /\ head' = head
           \/ pc[d] \notin {"loop", "send"} /\ pc'[d] \notin {"loop", "send"},
         ~up' => \A d \in Drainers : pc'[d] = "none",
         pc'["main"] = "listen" => pc'["start"] = "none"
  PROVE  OrderInv'
<1>1. head \in Nat
  BY DEF TypeOK
<1>2. LockHeld'
  BY DEF OrderInv, LockHeld
<1>3. \A d \in Drainers : events[d] # <<>> => pc'[d] = pc[d] /\ head' = head
  BY DEF OrderInv, BatchInHand
<1>4. BatchInHand'
  BY <1>1, <1>3 DEF OrderInv, BatchInHand
<1>5. StoredIsPast'
  <2>1. \A i \in 1 .. Len(recorded) : LastOf(recorded[i]) <= head'
    BY StoredBelow
  <2> QED BY <1>3, <2>1 DEF OrderInv, StoredIsPast
<1>6. InOrder'
  BY DEF OrderInv, InOrder
<1> QED BY <1>2, <1>4, <1>5, <1>6 DEF OrderInv

\* Where main goes on after Drain is not at Listen.
LEMMA NoEarlyTimer == AfterDrain("main") = "exit"
  BY DEF AfterDrain

\* A return of Drain, wherever it happens, before or after the server stored
\* the batch.
LEMMA ReturnOrder ==
  ASSUME TypeOK, OrderInv, NEW d \in Drainers, pc[d] \in {"loop", "send"},
         Return(d), log' = log, up' = up, head' \in Nat, head' >= head,
         \/ recorded' = recorded
         \/ pc[d] = "send" /\ Stores(d) /\ head' = head
  PROVE  OrderInv'
<1>1. \A e \in Drainers : pc'[e] \notin {"loop", "send"} /\ events'[e] = <<>>
  <2> TAKE e \in Drainers
  <2>1. CASE e = d
    BY <2>1, AfterDrainPlace DEF Return, TypeOK
  <2>2. CASE e # d
    BY <2>2, OthersOutside DEF Return, TypeOK
  <2> QED BY <2>1, <2>2
<1>2. up'
  BY DEF OrderInv, LockHeld
<1>3. LockHeld' /\ BatchInHand'
  <2>1. pc'["main"] = "listen" => pc'["start"] = "none"
    BY NoEarlyTimer DEF Return, TypeOK, Drainers, OrderInv, LockHeld
  <2> QED BY <1>1, <1>2, <2>1 DEF LockHeld, BatchInHand
<1>4. /\ InOrder'
      /\ \A i \in 1 .. Len(recorded') : LastOf(recorded'[i]) <= head'
  <2>1. CASE recorded' = recorded
    <3>1. InOrder'
      BY <2>1 DEF OrderInv, InOrder
    <3>2. ASSUME NEW i \in 1 .. Len(recorded)
          PROVE  LastOf(recorded[i]) <= head'
      BY StoredBelow
    <3> QED BY <2>1, <3>1, <3>2
  <2>2. CASE pc[d] = "send" /\ Stores(d) /\ head' = head
    BY <2>2, StoresInOrder
  <2> QED BY <2>1, <2>2
<1>5. StoredIsPast'
  BY <1>1, <1>4 DEF StoredIsPast
<1> QED BY <1>3, <1>4, <1>5 DEF OrderInv

\* The end of the loop, with the head where it was or one further.
LEMMA LeaveLoopOrder ==
  ASSUME TypeOK, OrderInv, NEW d \in Drainers, pc[d] = "loop", LeaveLoop(d),
         log' = log, up' = up, recorded' = recorded,
         head' \in Nat, head' >= head
  PROVE  OrderInv'
<1>1. CASE Return(d)
  BY <1>1, ReturnOrder
<1>2. CASE /\ events[d] # <<>>
           /\ pc' = [pc EXCEPT ![d] = "send"]
           /\ UNCHANGED <<mux, events, tries>>
  <2>1. pc'[d] = "send" /\ \A e \in Drainers : e # d => pc'[e] = pc[e]
    BY <1>2 DEF TypeOK
  <2>2. up'
    BY DEF OrderInv, LockHeld
  <2>3. LockHeld'
    BY <1>2, <2>1, <2>2 DEF OrderInv, LockHeld
  <2>4. head \in Nat /\ LastOf(events[d]) \in Nat
    <3>1. events[d] \in Seq(Nat)
      BY DEF TypeOK
    <3>2. Len(events[d]) \in 1 .. Len(events[d])
      BY <1>2, <3>1
    <3>3. LastOf(events[d]) \in Nat
      BY <3>1, <3>2 DEF LastOf
    <3> QED BY <3>3 DEF TypeOK
  <2>5. BatchInHand'
    <3> SUFFICES ASSUME NEW e \in Drainers
                 PROVE  /\ events[e] # <<>> => /\ pc'[e] \in {"loop", "send"}
                                               /\ IsRun(log, events[e])
                                               /\ LastOf(events[e]) <= head'
                                               /\ pc'[e] = "loop"
                                                    => LastOf(events[e]) = head'
                        /\ pc'[e] = "send" => events[e] # <<>>
      BY <1>2 DEF BatchInHand
    <3>1. CASE e = d
      <4>1. IsRun(log, events[d]) /\ LastOf(events[d]) <= head
        BY <1>2 DEF OrderInv, BatchInHand
      <4> QED BY <1>2, <2>1, <2>4, <3>1, <4>1
    <3>2. CASE e # d
      BY <2>1, <3>2, OthersOutside
    <3> QED BY <3>1, <3>2
  <2>6. StoredIsPast'
    <3>1. ASSUME NEW i \in 1 .. Len(recorded)
          PROVE  LastOf(recorded[i]) <= head'
      BY StoredBelow
    <3>2. ASSUME NEW i \in 1 .. Len(recorded), NEW e \in Drainers,
                 events[e] # <<>>
          PROVE  LastOf(recorded[i]) < events[e][1]
      <4>1. e = d
        BY <3>2, OthersOutside
      <4> QED BY <3>2, <4>1 DEF OrderInv, StoredIsPast
    <3> QED BY <1>2, <3>1, <3>2 DEF StoredIsPast
  <2>7. InOrder'
    BY DEF OrderInv, InOrder
  <2> QED BY <2>3, <2>5, <2>6, <2>7 DEF OrderInv
<1> QED BY <1>1, <1>2 DEF LeaveLoop

\* The step of Drain that adds an event to its batch.
LEMMA CollectOrder ==
  ASSUME TypeOK, OrderInv, NEW d \in Drainers, Collect(d)
  PROVE  OrderInv'
<1> DEFINE x == head + 1
<1>1. /\ pc[d] = "loop"
      /\ x \in 1 .. Len(log)
      /\ head' = x
      /\ head \in Nat
      /\ log[x].ok
  BY DEF Collect, Dequeues, QueueLength, TypeOK
<1>2. /\ events' = [events EXCEPT ![d] = Append(@, x)]
      /\ UNCHANGED <<log, mux, pc, recorded, up>>
  BY DEF Collect
<1>3. /\ events[d] \in Seq(Nat)
      /\ events'[d] = Append(events[d], x)
      /\ \A e \in Drainers : e # d => events'[e] = events[e]
  BY <1>2 DEF TypeOK
<1>4. events[d] = <<>> \/ (IsRun(log, events[d]) /\ LastOf(events[d]) = x - 1)
  BY <1>1 DEF OrderInv, BatchInHand
<1>5. /\ IsRun(log, events'[d])
      /\ LastOf(events'[d]) = x
      /\ events[d] # <<>> => events'[d][1] = events[d][1]
      /\ events[d] = <<>> => events'[d][1] = x
  <2> DEFINE s == events[d]
  <2>1. log \in Seq(ItemType)
    BY DEF TypeOK
  <2>2. /\ s \in Seq(Nat)
        /\ s = <<>> \/ (IsRun(log, s) /\ LastOf(s) = x - 1)
        /\ x \in 1 .. Len(log) /\ log[x].ok
    BY <1>1, <1>3, <1>4
  <2>3. events'[d] = Append(s, x)
    BY <1>3
  <2> HIDE DEF s, x
  <2>4. /\ IsRun(log, Append(s, x))
        /\ LastOf(Append(s, x)) = x
        /\ s # <<>> => Append(s, x)[1] = s[1]
        /\ s = <<>> => Append(s, x)[1] = x
    BY <2>1, <2>2, RunGrows
  <2>5. /\ IsRun(log, events'[d])
        /\ LastOf(events'[d]) = x
        /\ s # <<>> => events'[d][1] = s[1]
        /\ s = <<>> => events'[d][1] = x
    BY <2>3, <2>4
  <2> QED BY <2>5 DEF s
<1>6. \A e \in Drainers : e # d => events'[e] = <<>> /\ pc'[e] \notin {"loop", "send"}
  BY <1>1, <1>2, <1>3, OthersOutside
<1>7. LockHeld'
  BY <1>2 DEF OrderInv, LockHeld
<1>8. BatchInHand'
  <2>1. x <= x
    BY <1>1
  <2> QED BY <1>1, <1>2, <1>5, <1>6, <2>1 DEF BatchInHand
<1>9. StoredIsPast'
  <2>1. ASSUME NEW i \in 1 .. Len(recorded)
        PROVE  LastOf(recorded[i]) <= head' /\ LastOf(recorded[i]) < events'[d][1]
    <3>1. /\ LastOf(recorded[i]) <= head
          /\ events[d] # <<>> => LastOf(recorded[i]) < events[d][1]
      BY <1>1 DEF OrderInv, StoredIsPast
    <3>2. LastOf(recorded[i]) \in Nat
      <4>1. recorded[i] \in Seq(Nat) /\ IsRun(log, recorded[i])
        BY DEF TypeOK, OrderInv, InOrder
      <4>2. recorded[i] # <<>>
        BY <4>1 DEF IsRun
      <4> QED BY <4>1, <4>2 DEF LastOf
    <3> QED BY <1>1, <1>5, <3>1, <3>2
  <2> QED BY <1>2, <1>6, <2>1 DEF StoredIsPast
<1>10. InOrder'
  BY <1>2 DEF OrderInv, InOrder
<1> QED BY <1>7, <1>8, <1>9, <1>10 DEF OrderInv

\* The lock taken by a call that finds something in the queue.
LEMMA LockOrder ==
  ASSUME TypeOK, OrderInv, NEW d \in Drainers, Lock(d)
  PROVE  OrderInv'
<1>1. /\ pc[d] = "want" /\ mux = "free"
      /\ UNCHANGED <<log, head, events, recorded, up>>
      /\ head \in Nat
  BY DEF Lock, CanLock, TypeOK
<1>2. up
  BY <1>1 DEF OrderInv, LockHeld
<1>3. CASE QueueLength <= 0
  <2>1. mux' = mux /\ pc' = [pc EXCEPT ![d] = AfterDrain(d)]
    BY <1>3 DEF Lock
  <2>2. \A e \in Drainers :
          \/ pc'[e] = pc[e]
          \/ pc[e] \notin {"loop", "send"} /\ pc'[e] \notin {"loop", "send"}
    BY <1>1, <2>1, AfterDrainPlace DEF TypeOK
  <2>3. pc'["main"] = "listen" => pc'["start"] = "none"
    BY <1>1, <2>1, NoEarlyTimer DEF TypeOK, OrderInv, LockHeld, Drainers
  <2> QED BY <1>1, <1>2, <2>1, <2>2, <2>3, QuietOrder
<1>4. CASE ~(QueueLength <= 0)
  <2>1. mux' = d /\ pc' = [pc EXCEPT ![d] = "loop"]
    BY <1>4 DEF Lock
  <2>2. \A e \in Drainers : /\ pc[e] \notin {"loop", "send"}
                            /\ events[e] = <<>>
    BY <1>1 DEF OrderInv, LockHeld, BatchInHand, Drainers
  <2>3. \A e \in Drainers : pc'[e] = IF e = d THEN "loop" ELSE pc[e]
    BY <2>1 DEF TypeOK
  <2>4. LockHeld'
    BY <1>1, <1>2, <2>1, <2>2, <2>3 DEF OrderInv, LockHeld, Drainers
  <2>5. BatchInHand'
    BY <1>1, <2>2, <2>3 DEF BatchInHand
  <2>6. StoredIsPast'
    BY <1>1, <2>2 DEF OrderInv, StoredIsPast
  <2>7. InOrder'
    BY <1>1 DEF OrderInv, InOrder
  <2> QED BY <2>4, <2>5, <2>6, <2>7 DEF OrderInv
<1> QED BY <1>3, <1>4

\* A request accepted while anything else goes on.
LEMMA ServeOrder ==
  ASSUME TypeOK, OrderInv, ServeHTTP
  PROVE  OrderInv'
<1>1. UNCHANGED <<head, mux, pc, events, up, recorded>>
  BY DEF ServeHTTP, local
<1>2. CASE UNCHANGED log
  BY <1>1, <1>2 DEF OrderInv, LockHeld, BatchInHand, StoredIsPast, InOrder
<1>3. ASSUME NEW x \in ItemType, log' = Append(log, x)
      PROVE  OrderInv'
  <2>1. \A s \in Seq(Nat) : IsRun(log, s) => IsRun(log', s)
    BY <1>3, RunOfLonger DEF TypeOK
  <2>2. /\ \A d \in Drainers : events[d] \in Seq(Nat)
        /\ \A i \in 1 .. Len(recorded) : recorded[i] \in Seq(Nat)
    BY DEF TypeOK
  <2>3. BatchInHand'
    BY <1>1, <2>1, <2>2 DEF OrderInv, BatchInHand
  <2>4. InOrder'
    BY <1>1, <2>1, <2>2 DEF OrderInv, InOrder
  <2>5. LockHeld' /\ StoredIsPast'
    BY <1>1 DEF OrderInv, LockHeld, StoredIsPast
  <2> QED BY <2>3, <2>4, <2>5 DEF OrderInv
<1>4. ASSUME NEW size \in Sizes, NEW ok \in BOOLEAN, Store(size, ok)
      PROVE  OrderInv'
  <2>1. [size |-> size, ok |-> ok] \in ItemType
    BY DEF ItemType
  <2> QED BY <1>3, <1>4, <2>1 DEF Store
<1> QED BY <1>2, <1>4 DEF ServeHTTP

\* An attempt that is followed by another one.
LEMMA RetryOrder ==
  ASSUME TypeOK, OrderInv, NEW d \in Drainers, pc[d] = "send",
         recorded' = recorded \/ Stores(d),
         UNCHANGED <<log, head, mux, pc, events, up>>
  PROVE  OrderInv'
<1>1. /\ InOrder'
      /\ \A i \in 1 .. Len(recorded') :
           /\ LastOf(recorded'[i]) <= head
           /\ LastOf(recorded'[i]) < events[d][1] \/ recorded'[i] = events[d]
  BY StoresInOrder
<1>2. LockHeld' /\ BatchInHand'
  BY DEF OrderInv, LockHeld, BatchInHand
<1>3. StoredIsPast'
  BY <1>1, OthersOutside DEF StoredIsPast
<1> QED BY <1>1, <1>2, <1>3 DEF OrderInv

\* The order of the batches is kept by every step.
LEMMA OrderNext == TypeOK /\ OrderInv /\ [Next]_vars => OrderInv'
<1> SUFFICES ASSUME TypeOK, OrderInv, [Next]_vars PROVE OrderInv'
  OBVIOUS
<1> USE DEF Drainers
<1>0. /\ head \in Nat
      /\ Len(log) \in Nat /\ head <= Len(log)
      /\ \A d \in Drainers : pc[d] # "none" => up
      /\ pc["main"] = "listen" => pc["start"] = "none"
  BY DEF TypeOK, OrderInv, LockHeld
<1>1. CASE Restart
  BY <1>0, <1>1, QuietOrder DEF Restart, OrderInv, LockHeld
<1>2. CASE Listen
  <2>1. \A d \in Drainers : \/ pc'[d] = pc[d]
                            \/ pc[d] \notin {"loop", "send"} /\ pc'[d] \notin {"loop", "send"}
    BY <1>0, <1>2 DEF Listen, TypeOK
  <2>2. pc'["main"] = "listen" => pc'["start"] = "none"
    BY <1>2 DEF Listen, TypeOK
  <2> QED BY <1>0, <1>2, <2>1, <2>2, QuietOrder DEF Listen
<1>3. CASE ListenFails
  BY <1>3, EndsOrder DEF ListenFails
<1>4. CASE ServeFails
  <2>1. \A d \in Drainers : \/ pc'[d] = pc[d]
                            \/ pc[d] \notin {"loop", "send"} /\ pc'[d] \notin {"loop", "send"}
    BY <1>4 DEF ServeFails, TypeOK
  <2>2. pc'["main"] = "listen" => pc'["start"] = "none"
    BY <1>0, <1>4 DEF ServeFails, TypeOK
  <2> QED BY <1>0, <1>4, <2>1, <2>2, QuietOrder DEF ServeFails
<1>5. CASE MainReturns
  BY <1>5, EndsOrder DEF MainReturns
<1>6. CASE ServeHTTP
  BY <1>6, ServeOrder
<1>7. CASE Tick
  <2>1. \A d \in Drainers : \/ pc'[d] = pc[d]
                            \/ pc[d] \notin {"loop", "send"} /\ pc'[d] \notin {"loop", "send"}
    BY <1>7 DEF Tick, TypeOK
  <2>2. up
    BY <1>0, <1>7 DEF Tick
  <2>3. pc'["main"] = "listen" => pc'["start"] = "none"
    BY <1>0, <1>7 DEF Tick, TypeOK
  <2> QED BY <1>0, <1>7, <2>1, <2>2, <2>3, QuietOrder DEF Tick
<1>8. CASE \E s \in Signals : Signal(s)
  BY <1>0, <1>8, QuietOrder DEF Signal
<1>9. CASE ReceiveSignal
  <2>1. \A d \in Drainers : \/ pc'[d] = pc[d]
                            \/ pc[d] \notin {"loop", "send"} /\ pc'[d] \notin {"loop", "send"}
    BY <1>9 DEF ReceiveSignal, TypeOK
  <2>2. up
    BY <1>0, <1>9 DEF ReceiveSignal
  <2>3. pc'["main"] = "listen" => pc'["start"] = "none"
    BY <1>0, <1>9 DEF ReceiveSignal, TypeOK
  <2> QED BY <1>0, <1>9, <2>1, <2>2, <2>3, QuietOrder DEF ReceiveSignal
<1>10. CASE HandOff
  <2>1. \A d \in Drainers : \/ pc'[d] = pc[d]
                            \/ pc[d] \notin {"loop", "send"} /\ pc'[d] \notin {"loop", "send"}
    BY <1>10 DEF HandOff, TypeOK
  <2>2. up
    BY <1>0, <1>10 DEF HandOff
  <2>3. pc'["main"] = "listen" => pc'["start"] = "none"
    BY <1>0, <1>10 DEF HandOff, TypeOK
  <2> QED BY <1>0, <1>10, <2>1, <2>2, <2>3, QuietOrder DEF HandOff
<1>11. CASE OsExit
  BY <1>11, EndsOrder DEF OsExit
<1>12. ASSUME NEW d \in Drainers, Lock(d) PROVE OrderInv'
  BY <1>12, LockOrder
<1>13. ASSUME NEW d \in Drainers, DrainStep(d) PROVE OrderInv'
  <2>1. CASE EndLoop(d)
    BY <1>0, <2>1, LeaveLoopOrder DEF EndLoop
  <2>2. ASSUME Dequeues(d)
        PROVE  pc[d] = "loop" /\ head' \in Nat /\ head' >= head
    BY <1>0, <2>2 DEF Dequeues
  <2>3. CASE DropOverflow(d)
    <3>1. UNCHANGED recorded
      BY <2>3 DEF DropOverflow
    <3> QED BY <2>2, <2>3, <3>1, LeaveLoopOrder DEF DropOverflow
  <2>4. CASE Undecodable(d)
    BY <2>2, <2>4, ReturnOrder DEF Undecodable
  <2>5. CASE Collect(d)
    BY <2>5, CollectOrder
  <2> QED BY <1>13, <2>1, <2>3, <2>4, <2>5 DEF DrainStep
<1>14. ASSUME NEW d \in Drainers, Attempt(d) PROVE OrderInv'
  <2>0. head >= head
    BY <1>0
  <2>1. CASE Accepted(d)
    BY <1>0, <2>0, <2>1, ReturnOrder DEF Accepted
  <2>2. CASE Rejected(d)
    <3>1. /\ pc[d] = "send"
          /\ recorded' = recorded \/ Stores(d)
          /\ UNCHANGED <<log, head, up>>
      BY <2>2 DEF Rejected
    <3>2. CASE Return(d)
      BY <1>0, <2>0, <3>1, <3>2, ReturnOrder
    <3>3. CASE UNCHANGED <<mux, pc, events, bufSize>>
      BY <3>1, <3>3, RetryOrder
    <3> QED BY <2>2, <3>2, <3>3 DEF Rejected
  <2>3. CASE Panics(d)
    BY <2>3, EndsOrder DEF Panics
  <2> QED BY <1>14, <2>1, <2>2, <2>3 DEF Attempt
<1>15. CASE UNCHANGED vars
  BY <1>15 DEF vars, local, OrderInv, LockHeld, BatchInHand, StoredIsPast, InOrder
<1> QED
  BY <1>1, <1>2, <1>3, <1>4, <1>5, <1>6, <1>7, <1>8, <1>9, <1>10, <1>11, <1>12,
     <1>13, <1>14, <1>15 DEF Next

\* Nothing is collected or stored at the start.
LEMMA OrderInit == Init => OrderInv
  BY DEF Init, OrderInv, LockHeld, BatchInHand, StoredIsPast, InOrder, Drainers

\* The inductive invariant behind the order of the batches.
THEOREM OrderInvariant == Spec => [](TypeOK /\ OrderInv)
<1>1. Init => TypeOK /\ OrderInv
  BY TypeInit, OrderInit
<1>2. (TypeOK /\ OrderInv) /\ [Next]_vars => (TypeOK /\ OrderInv)'
  BY TypeNext, OrderNext
<1> QED BY <1>1, <1>2, PTL DEF Spec

\* Batches reach the server in the order of acceptance, as runs that share no
\* event unless a later one is the earlier one again: with any number of
\* restarts, lost answers and concurrent drains.
THEOREM BatchesInOrder == Spec => []InOrder
<1>1. TypeOK /\ OrderInv => InOrder
  BY DEF OrderInv
<1> QED BY <1>1, OrderInvariant, PTL

-----------------------------------------------------------------------------
(***************************************************************************)
(* The proxy implements RelayContract                                      *)
(***************************************************************************)

\* A run is the abstract batch from its first to its last event.
LEMMA RunIsRun ==
  ASSUME TypeOK, NEW s \in Seq(Nat), IsRun(log, s)
  PROVE  /\ s[1] \in 1 .. Len(log)
         /\ LastOf(s) \in s[1] .. Len(log)
         /\ \A i \in s[1] .. LastOf(s) : log[i].ok
         /\ s = Abstract!Run(s[1], LastOf(s))
<1>1. /\ Len(s) \in Nat /\ Len(s) >= 1
      /\ Len(log) \in Nat
      /\ s = [k \in 1 .. Len(s) |-> s[k]]
  BY DEF IsRun, TypeOK
<1>2. /\ s[1] \in 1 .. Len(log) /\ s[1] \in Nat
      /\ LastOf(s) = s[1] + Len(s) - 1
      /\ LastOf(s) \in 1 .. Len(log)
  BY <1>1 DEF IsRun, LastOf
<1>3. \A i \in s[1] .. LastOf(s) : log[i].ok
  <2> TAKE i \in s[1] .. LastOf(s)
  <2>1. i - s[1] + 1 \in 1 .. Len(s)
    BY <1>1, <1>2
  <2>2. \A k \in 1 .. Len(s) : s[k] = s[1] + k - 1
    BY DEF IsRun
  <2>3. s[i - s[1] + 1] = s[1] + (i - s[1] + 1) - 1
    BY <2>1, <2>2
  <2>4. s[i - s[1] + 1] = i
    BY <1>2, <2>3
  <2> QED BY <2>1, <2>4 DEF IsRun
<1>4. s = [k \in 1 .. Len(s) |-> s[1] + k - 1]
  BY <1>1 DEF IsRun
<1>5. LastOf(s) - s[1] + 1 = Len(s)
  BY <1>1, <1>2
<1>6. s = Abstract!Run(s[1], LastOf(s))
  BY <1>4, <1>5 DEF Abstract!Run
<1> QED BY <1>1, <1>2, <1>3, <1>6

\* Storing the batch in hand is a delivery, or the repetition of the latest.
LEMMA StoresRefines ==
  ASSUME TypeOK, OrderInv, NEW d \in Drainers, pc[d] = "send", Stores(d),
         log' = log
  PROVE  Abstract!Deliver \/ Abstract!Redeliver
<1> DEFINE b == events[d]
           n == Len(recorded)
<1>1. /\ b \in Seq(Nat) /\ b # <<>> /\ IsRun(log, b)
      /\ n \in Nat
      /\ recorded \in Seq(Seq(Nat))
      /\ recorded # <<>> => n \in 1 .. n
      /\ recorded' = Append(recorded, b)
  BY DEF TypeOK, OrderInv, BatchInHand, Stores
<1>2. CASE recorded # <<>> /\ recorded[n] = b
  BY <1>1, <1>2 DEF Abstract!Redeliver, Abstract!LastOf
<1>3. CASE recorded = <<>> \/ recorded[n] # b
  <2>1. /\ b[1] \in 1 .. Len(log)
        /\ LastOf(b) \in b[1] .. Len(log)
        /\ \A i \in b[1] .. LastOf(b) : log[i].ok
        /\ b = Abstract!Run(b[1], LastOf(b))
    BY <1>1, RunIsRun
  <2>2. Abstract!HighMark \in Nat /\ Abstract!HighMark < b[1]
    <3>1. CASE recorded = <<>>
      BY <2>1, <3>1 DEF Abstract!HighMark
    <3>2. CASE recorded # <<>>
      <4>1. LastOf(recorded[n]) < b[1]
        BY <1>1, <1>3, <3>2 DEF OrderInv, StoredIsPast
      <4>2. IsRun(log, recorded[n]) /\ recorded[n] \in Seq(Nat)
        BY <1>1, <3>2 DEF OrderInv, InOrder
      <4>3. LastOf(recorded[n]) \in Nat
        BY <4>2 DEF IsRun, LastOf
      <4> QED BY <3>2, <4>1, <4>3 DEF Abstract!HighMark, Abstract!LastOf, LastOf
    <3> QED BY <3>1, <3>2
  <2>3. b[1] \in Abstract!HighMark + 1 .. Len(log)
    BY <2>1, <2>2
  <2> QED BY <1>1, <2>1, <2>3 DEF Abstract!Deliver
<1> QED BY <1>2, <1>3

\* Every step of the proxy is a step of the contract or changes nothing that
\* the contract speaks of.
LEMMA StepRefines ==
  ASSUME TypeOK, OrderInv, [Next]_vars
  PROVE  [Abstract!ContractNext]_(Abstract!cvars)
<1> USE DEF Abstract!cvars
<1>1. CASE ServeHTTP
  <2>1. UNCHANGED recorded
    BY <1>1 DEF ServeHTTP
  <2>2. ASSUME NEW size \in Sizes, NEW ok \in BOOLEAN, Store(size, ok)
        PROVE  Abstract!Accept
    <3>1. \E si \in Sizes, o \in BOOLEAN :
            log' = Append(log, [size |-> si, ok |-> o])
      BY <2>2 DEF Store
    <3> QED BY <2>1, <3>1 DEF Abstract!Accept
  <2>3. CASE UNCHANGED log
    BY <2>1, <2>3
  <2> QED BY <1>1, <2>2, <2>3 DEF ServeHTTP, Abstract!ContractNext
<1>2. ASSUME NEW d \in Drainers, Attempt(d)
      PROVE  [Abstract!ContractNext]_(Abstract!cvars)
  <2>1. /\ pc[d] = "send"
        /\ log' = log
        /\ recorded' = recorded \/ Stores(d)
    BY <1>2 DEF Attempt, Accepted, Rejected, Panics
  <2> QED BY <2>1, StoresRefines DEF Abstract!ContractNext
<1>3. ASSUME NEW d \in Drainers, Lock(d) \/ DrainStep(d)
      PROVE  UNCHANGED <<log, recorded>>
  BY <1>3 DEF Lock, DrainStep, EndLoop, DropOverflow, Undecodable, Collect
<1>4. CASE \/ Restart \/ Listen \/ ListenFails \/ ServeFails \/ MainReturns
           \/ Tick \/ ReceiveSignal \/ HandOff \/ OsExit \/ UNCHANGED vars
           \/ \E s \in Signals : Signal(s)
  BY <1>4 DEF Restart, Listen, ListenFails, ServeFails, MainReturns, Tick,
              ReceiveSignal, HandOff, OsExit, Signal, vars
<1> QED BY <1>1, <1>2, <1>3, <1>4 DEF Next

\* The proxy implements the contract: whatever the faults, the server sees
\* runs of decodable events in the order of acceptance, and repetitions of
\* the latest one only.
THEOREM ProxyImplementsContract == Spec => Contract
<1>1. Init => Abstract!ContractInit
  BY DEF Init, Abstract!ContractInit
<1>2. TypeOK /\ OrderInv /\ [Next]_vars => [Abstract!ContractNext]_(Abstract!cvars)
  BY StepRefines
<1> QED BY <1>1, <1>2, OrderInvariant, PTL DEF Spec, Contract, Abstract!Contract

-----------------------------------------------------------------------------
(***************************************************************************)
(* The size of a batch                                                     *)
(***************************************************************************)

\* Bytes, of any log.
Total(l, s) ==
  LET upTo[i \in 0 .. Len(s)] == IF i = 0 THEN 0 ELSE upTo[i - 1] + l[s[i]].size
  IN  upTo[Len(s)]

\* Its recursion, one step, and what the recursion defines.
TotalUpTo(l, s, g) ==
  [i \in 0 .. Len(s) |-> IF i = 0 THEN 0 ELSE g[i - 1] + l[s[i]].size]
Totals(l, s) == CHOOSE g : g = TotalUpTo(l, s, g)

\* Every set of natural numbers has an element whose predecessor is not in it.
LEMMA Smallest ==
  ASSUME NEW T, T \subseteq Nat, T # {}
  PROVE  \E m \in T : m = 0 \/ m - 1 \notin T
<1>1. PICK m \in T : \A k \in T : <<k, m>> \notin OpToRel(<, Nat)
  BY NatLessThanWellFounded, WFMin
<1>2. \A k \in T : ~ (k < m)
  BY <1>1 DEF OpToRel
<1> QED BY <1>2

\* The recursion has a solution.
LEMMA TotalsStep ==
  ASSUME NEW l, NEW s, Len(s) \in Nat
  PROVE  /\ Total(l, s) = Totals(l, s)[Len(s)]
         /\ Totals(l, s)[0] = 0
         /\ \A i \in 1 .. Len(s) :
              Totals(l, s)[i] = Totals(l, s)[i - 1] + l[s[i]].size
<1> DEFINE n == Len(s)
           w(i) == l[s[i]].size
           Right(g, m) == /\ g[0] = 0
                          /\ \A i \in 1 .. m : g[i] = g[i - 1] + w(i)
           T == {m \in Nat : ~ \E g : Right(g, m)}
<1>1. T \subseteq Nat
  OBVIOUS
<1>2. ASSUME T # {} PROVE FALSE
  <2>1. PICK m \in T : m = 0 \/ m - 1 \notin T
    <3> HIDE DEF T
    <3> QED BY <1>1, <1>2, Smallest
  <2>2. CASE m = 0
    <3>1. Right([i \in {0} |-> 0], 0)
      OBVIOUS
    <3> QED BY <2>1, <2>2, <3>1
  <2>3. CASE m # 0
    <3>1. m \in Nat /\ m - 1 \in Nat
      BY <2>1, <2>3
    <3>2. PICK g : Right(g, m - 1)
      BY <2>1, <2>3, <3>1
    <3> DEFINE h == [i \in 0 .. m |-> IF i = m THEN g[m - 1] + w(m) ELSE g[i]]
    <3> HIDE DEF w
    <3>3. Right(h, m)
      <4>1. h[0] = 0
        BY <2>3, <3>1, <3>2
      <4>2. ASSUME NEW i \in 1 .. m PROVE h[i] = h[i - 1] + w(i)
        <5>1. CASE i = m
          BY <3>1, <5>1
        <5>2. CASE i # m
          <6>1. i \in 1 .. m - 1 /\ i - 1 \in 0 .. m /\ i - 1 # m
            BY <3>1, <5>2
          <6> QED BY <3>1, <3>2, <5>2, <6>1
        <5> QED BY <5>1, <5>2
      <4> QED BY <4>1, <4>2
    <3> QED BY <2>1, <3>3
  <2> QED BY <2>2, <2>3
<1>3. PICK g : Right(g, n)
  BY <1>2
<1> DEFINE h == [i \in 0 .. n |-> g[i]]
<1>4. h = TotalUpTo(l, s, h)
  <2>1. \A i \in 0 .. n : i # 0 => i \in 1 .. n /\ i - 1 \in 0 .. n
    OBVIOUS
  <2> QED BY <1>3, <2>1 DEF TotalUpTo
<1>5. Totals(l, s) = TotalUpTo(l, s, Totals(l, s))
  BY <1>4 DEF Totals
<1>6. Total(l, s) = Totals(l, s)[Len(s)]
  BY DEF Total, Totals, TotalUpTo
<1>7. 0 \in 0 .. n /\ \A i \in 1 .. n : i \in 0 .. n /\ i # 0
  OBVIOUS
<1>8. Totals(l, s)[0] = 0
  BY <1>5, <1>7 DEF TotalUpTo
<1>9. \A i \in 1 .. n : Totals(l, s)[i] = Totals(l, s)[i - 1] + w(i)
  BY <1>5, <1>7 DEF TotalUpTo
<1> QED BY <1>6, <1>8, <1>9

\* Sequences whose first k elements have the same sizes have the same sum up
\* to k.
LEMMA TotalsAgree ==
  ASSUME NEW l, NEW s, Len(s) \in Nat, NEW m, NEW t, Len(t) \in Nat,
         NEW k \in Nat, k <= Len(s), k <= Len(t),
         \A i \in 1 .. k : l[s[i]].size = m[t[i]].size
  PROVE  Totals(l, s)[k] = Totals(m, t)[k]
<1> DEFINE T == {i \in 0 .. k : Totals(l, s)[i] # Totals(m, t)[i]}
<1>1. ASSUME T # {} PROVE FALSE
  <2>1. PICK i \in T : i = 0 \/ i - 1 \notin T
    <3>1. T \subseteq Nat
      OBVIOUS
    <3> HIDE DEF T
    <3> QED BY <1>1, <3>1, Smallest
  <2>2. CASE i = 0
    BY <2>1, <2>2, TotalsStep
  <2>3. CASE i # 0
    <3>1. i \in 1 .. k /\ i \in 1 .. Len(s) /\ i \in 1 .. Len(t) /\ i - 1 \in 0 .. k
      BY <2>1, <2>3
    <3>2. Totals(l, s)[i - 1] = Totals(m, t)[i - 1]
      BY <2>1, <2>3, <3>1
    <3>3. Totals(l, s)[i] = Totals(l, s)[i - 1] + l[s[i]].size
      BY <3>1, TotalsStep
    <3>4. Totals(m, t)[i] = Totals(m, t)[i - 1] + m[t[i]].size
      BY <3>1, TotalsStep
    <3> QED BY <2>1, <3>1, <3>2, <3>3, <3>4
  <2> QED BY <2>2, <2>3
<1> QED BY <1>1

\* The size of the empty batch, of one that grows, and of one that both logs
\* describe alike.
LEMMA TotalEmpty == ASSUME NEW l PROVE Total(l, <<>>) = 0
<1>1. Len(<<>>) = 0
  OBVIOUS
<1> QED BY <1>1, TotalsStep

\* The bytes of a batch grow by the size of the payload appended.
LEMMA TotalAppend ==
  ASSUME NEW l, NEW s \in Seq(Nat), NEW x \in Nat
  PROVE  Total(l, Append(s, x)) = Total(l, s) + l[x].size
<1> DEFINE t == Append(s, x)
           n == Len(s)
<1>1. /\ n \in Nat /\ Len(t) = n + 1 /\ t[n + 1] = x
      /\ \A i \in 1 .. n : t[i] = s[i]
  OBVIOUS
<1> HIDE DEF t, n
<1>2. Totals(l, s)[n] = Totals(l, t)[n]
  <2>1. /\ Len(s) \in Nat /\ Len(t) \in Nat /\ n <= Len(s) /\ n <= Len(t)
        /\ \A i \in 1 .. n : l[s[i]].size = l[t[i]].size
    BY <1>1 DEF n
  <2>2. \A k \in Nat :
          /\ k <= Len(s) /\ k <= Len(t)
          /\ \A i \in 1 .. k : l[s[i]].size = l[t[i]].size
          => Totals(l, s)[k] = Totals(l, t)[k]
    BY <2>1, TotalsAgree
  <2> QED BY <1>1, <2>1, <2>2
<1>3. /\ Total(l, t) = Totals(l, t)[n + 1]
      /\ Totals(l, t)[n + 1] = Totals(l, t)[n] + l[t[n + 1]].size
  <2>1. n + 1 \in 1 .. Len(t) /\ Len(t) \in Nat /\ n + 1 - 1 = n
    BY <1>1
  <2>2. /\ Total(l, t) = Totals(l, t)[Len(t)]
        /\ \A i \in 1 .. Len(t) :
             Totals(l, t)[i] = Totals(l, t)[i - 1] + l[t[i]].size
    BY <2>1, TotalsStep
  <2> QED BY <1>1, <2>1, <2>2
<1>4. Total(l, s) = Totals(l, s)[n]
  BY <1>1, TotalsStep DEF n
<1>5. Total(l, t) = Total(l, s) + l[x].size
  BY <1>1, <1>2, <1>3, <1>4
<1> QED BY <1>5 DEF t

\* The bytes of a batch depend on the sizes of its payloads only.
LEMMA TotalSame ==
  ASSUME NEW l, NEW m, NEW s \in Seq(Nat),
         \A i \in 1 .. Len(s) : l[s[i]].size = m[s[i]].size
  PROVE  Total(l, s) = Total(m, s)
<1>1. Len(s) \in Nat /\ Len(s) <= Len(s)
  OBVIOUS
<1>2. /\ Total(l, s) = Totals(l, s)[Len(s)]
      /\ Total(m, s) = Totals(m, s)[Len(s)]
  BY <1>1, TotalsStep
<1> QED BY <1>1, <1>2, TotalsAgree

\* Bytes is that sum in the present log.
LEMMA BytesIsTotal == ASSUME NEW s PROVE Bytes(s) = Total(log, s)
  BY DEF Bytes, Total

\* What bufSize counts, and that neither a batch in hand nor a stored one is
\* larger than maxBatchSize.
Fits(s) == Total(log, s) <= MaxBatch

SizeInv ==
  /\ \A d \in Drainers :
       bufSize[d] = IF pc[d] = "loop" THEN Total(log, events[d]) ELSE 0
  /\ \A d \in Drainers : Fits(events[d])
  /\ \A i \in 1 .. Len(recorded) : Fits(recorded[i])

\* There is no batch at the start.
LEMMA SizeInit == Init => SizeInv
<1> SUFFICES ASSUME Init PROVE SizeInv
  OBVIOUS
<1>1. \A d \in Drainers : /\ events[d] = <<>> /\ bufSize[d] = 0
                          /\ pc[d] # "loop"
  BY DEF Init, Drainers
<1>2. recorded = <<>>
  BY DEF Init
<1> QED BY <1>1, <1>2, TotalEmpty DEF SizeInv, Fits

\* Steps that collect nothing.
LEMMA SizeKept ==
  ASSUME TypeOK, SizeInv, log' = log,
         \A d \in Drainers :
           \/ events'[d] = <<>> /\ bufSize'[d] = 0 /\ pc'[d] # "loop"
           \/ /\ events'[d] = events[d]
              /\ \/ bufSize'[d] = bufSize[d] /\ (pc'[d] = "loop" <=> pc[d] = "loop")
                 \/ bufSize'[d] = 0 /\ pc'[d] # "loop"
                 \/ events[d] = <<>> /\ bufSize'[d] = 0,
         \/ recorded' = recorded
         \/ \E d \in Drainers : Stores(d)
  PROVE  SizeInv'
<1>1. ASSUME NEW d \in Drainers
      PROVE  /\ bufSize'[d] = IF pc'[d] = "loop" THEN Total(log, events'[d]) ELSE 0
             /\ Fits(events'[d])
  BY TotalEmpty DEF SizeInv, Fits
<1>2. ASSUME NEW i \in 1 .. Len(recorded') PROVE Fits(recorded'[i])
  <2>1. CASE recorded' = recorded
    BY <2>1 DEF SizeInv
  <2>2. ASSUME NEW d \in Drainers, Stores(d) PROVE Fits(recorded'[i])
    <3>1. recorded'[i] = IF i \in 1 .. Len(recorded) THEN recorded[i] ELSE events[d]
      BY <2>2 DEF Stores, TypeOK
    <3> QED BY <3>1 DEF SizeInv
  <2> QED BY <2>1, <2>2
<1> QED BY <1>1, <1>2 DEF SizeInv, Fits

\* The end of a call of Drain, and of the process.
LEMMA ReturnSize ==
  ASSUME TypeOK, SizeInv, NEW d \in Drainers, Return(d), log' = log,
         recorded' = recorded \/ Stores(d)
  PROVE  SizeInv'
<1>1. /\ events'[d] = <<>> /\ bufSize'[d] = 0 /\ pc'[d] # "loop"
      /\ \A e \in Drainers : e # d => /\ events'[e] = events[e]
                                      /\ bufSize'[e] = bufSize[e]
                                      /\ pc'[e] = pc[e]
  BY AfterDrainPlace DEF Return, TypeOK
<1> QED BY <1>1, SizeKept

\* The end of the process leaves no batch in hand.
LEMMA EndsSize ==
  ASSUME TypeOK, SizeInv, Ends, log' = log,
         recorded' = recorded \/ \E d \in Drainers : Stores(d)
  PROVE  SizeInv'
<1>1. \A d \in Drainers : events'[d] = <<>> /\ bufSize'[d] = 0 /\ pc'[d] # "loop"
  BY DEF Ends
<1> QED BY <1>1, SizeKept

\* One more event in the batch.
LEMMA CollectSize ==
  ASSUME TypeOK, SizeInv, NEW d \in Drainers, Collect(d)
  PROVE  SizeInv'
<1> DEFINE x == head + 1
           t == bufSize[d] + log[x].size
<1>1. /\ x \in 1 .. Len(log) /\ x \in Nat
      /\ log[x].size \in Nat
      /\ pc[d] = "loop" /\ ~ (t > MaxBatch)
      /\ UNCHANGED <<log, pc, recorded>>
      /\ events[d] \in Seq(Nat) /\ bufSize[d] \in Nat
  <2>1. /\ pc[d] = "loop" /\ Len(log) - head > 0 /\ ~ (t > MaxBatch)
        /\ UNCHANGED <<log, pc, recorded>>
    BY DEF Collect, Dequeues, Overflows, QueueLength
  <2>2. /\ log \in Seq(ItemType) /\ head \in 0 .. Len(log)
        /\ events[d] \in Seq(Nat) /\ bufSize[d] \in Nat
    BY DEF TypeOK
  <2>3. Len(log) \in Nat
    BY <2>2
  <2>4. x \in 1 .. Len(log) /\ x \in Nat
    BY <2>1, <2>2, <2>3
  <2>5. log[x] \in ItemType
    <3> HIDE DEF x
    <3> QED BY <2>2, <2>4
  <2>6. log[x].size \in Nat
    <3> HIDE DEF x
    <3> QED BY <2>5, SizesAssumption DEF ItemType
  <2> QED BY <2>1, <2>2, <2>4, <2>6
<1>2. /\ bufSize'[d] = t
      /\ events'[d] = Append(events[d], x)
      /\ \A e \in Drainers : e # d => /\ events'[e] = events[e]
                                      /\ bufSize'[e] = bufSize[e]
  BY DEF Collect, TypeOK
<1>3. bufSize[d] = Total(log, events[d])
  BY <1>1 DEF SizeInv
<1>4. Total(log, Append(events[d], x)) = Total(log, events[d]) + log[x].size
  BY <1>1, TotalAppend
<1>5. bufSize'[d] = Total(log, events'[d]) /\ Fits(events'[d])
  BY <1>1, <1>2, <1>3, <1>4 DEF Fits
<1> QED BY <1>1, <1>2, <1>5 DEF SizeInv, Fits

\* A request grows the log, which changes the size of no batch.
LEMMA ServeSize ==
  ASSUME TypeOK, OrderInv, SizeInv, ServeHTTP
  PROVE  SizeInv'
<1>1. UNCHANGED <<events, bufSize, pc, recorded>>
  BY DEF ServeHTTP, local
<1>2. \A i \in 1 .. Len(log) : log'[i] = log[i]
  <2>0. log \in Seq(ItemType)
    BY DEF TypeOK
  <2>1. ASSUME NEW size \in Sizes, NEW ok \in BOOLEAN, Store(size, ok)
        PROVE  \A i \in 1 .. Len(log) : log'[i] = log[i]
    BY <2>0, <2>1 DEF Store, ItemType
  <2> QED BY <2>1 DEF ServeHTTP
<1>3. ASSUME NEW s \in Seq(Nat), s = <<>> \/ IsRun(log, s)
      PROVE  Total(log', s) = Total(log, s)
  <2>1. \A i \in 1 .. Len(s) : log'[s[i]].size = log[s[i]].size
    BY <1>2, <1>3 DEF IsRun
  <2> QED BY <2>1, TotalSame
<1>4. \A d \in Drainers : Total(log', events[d]) = Total(log, events[d])
  BY <1>3 DEF OrderInv, BatchInHand, TypeOK
<1>5. \A i \in 1 .. Len(recorded) : Total(log', recorded[i]) = Total(log, recorded[i])
  BY <1>3 DEF OrderInv, InOrder, TypeOK
<1> QED BY <1>1, <1>4, <1>5 DEF SizeInv, Fits

\* Every step keeps it.
LEMMA SizeNext == TypeOK /\ OrderInv /\ SizeInv /\ [Next]_vars => SizeInv'
<1> SUFFICES ASSUME TypeOK, OrderInv, SizeInv, [Next]_vars PROVE SizeInv'
  OBVIOUS
<1>1. CASE Restart
  <2>1. \A d \in Drainers : pc'[d] # "loop" /\ pc[d] # "loop"
    BY <1>1 DEF Restart, OrderInv, LockHeld, Drainers
  <2> QED BY <1>1, <2>1, SizeKept DEF Restart
<1>2. CASE \/ Listen \/ ServeFails \/ Tick \/ ReceiveSignal \/ HandOff
           \/ \E s \in Signals : Signal(s)
  <2>1. UNCHANGED <<log, events, bufSize, recorded>>
    BY <1>2 DEF Listen, ServeFails, Tick, ReceiveSignal, HandOff, Signal
  <2>2. pc["main"] = "listen" => pc["start"] # "loop"
    BY DEF OrderInv, LockHeld
  <2>3. \A d \in Drainers : pc'[d] = "loop" <=> pc[d] = "loop"
    <3>1. CASE Listen
      BY <2>2, <3>1 DEF Listen, TypeOK, Drainers
    <3>2. CASE ServeFails \/ Tick
      BY <3>2 DEF ServeFails, Tick, TypeOK, Drainers
    <3>3. CASE ReceiveSignal \/ HandOff
      BY <3>3 DEF ReceiveSignal, HandOff, TypeOK, Drainers
    <3>4. CASE \E s \in Signals : Signal(s)
      BY <3>4 DEF Signal
    <3> QED BY <1>2, <3>1, <3>2, <3>3, <3>4
  <2> QED BY <2>1, <2>3, SizeKept
<1>3. CASE ListenFails \/ MainReturns \/ OsExit
  BY <1>3, EndsSize DEF ListenFails, MainReturns, OsExit
<1>4. CASE ServeHTTP
  BY <1>4, ServeSize
<1>5. ASSUME NEW d \in Drainers, Lock(d) PROVE SizeInv'
  <2>1. pc[d] = "want" /\ UNCHANGED <<log, events, bufSize, recorded>>
    BY <1>5 DEF Lock
  <2>2. events[d] = <<>> /\ bufSize[d] = 0
    BY <2>1 DEF OrderInv, BatchInHand, SizeInv
  <2>3. \A e \in Drainers : e # d => pc'[e] = pc[e]
    BY <1>5 DEF Lock, TypeOK
  <2> QED BY <2>1, <2>2, <2>3, SizeKept
<1>6. ASSUME NEW d \in Drainers, LeaveLoop(d), pc[d] = "loop", UNCHANGED <<log, recorded>>
      PROVE  SizeInv'
  <2>1. CASE Return(d)
    BY <1>6, <2>1, ReturnSize
  <2>2. CASE ~Return(d)
    <3>1. /\ pc'[d] = "send" /\ bufSize'[d] = 0 /\ UNCHANGED events
          /\ \A e \in Drainers : e # d => bufSize'[e] = bufSize[e] /\ pc'[e] = pc[e]
      BY <1>6, <2>2 DEF LeaveLoop, TypeOK
    <3> QED BY <1>6, <3>1, SizeKept
  <2> QED BY <2>1, <2>2
<1>7. ASSUME NEW d \in Drainers, DrainStep(d) PROVE SizeInv'
  <2>1. CASE EndLoop(d)
    BY <1>6, <2>1 DEF EndLoop
  <2>2. CASE DropOverflow(d)
    BY <1>6, <2>2 DEF DropOverflow, Dequeues
  <2>3. CASE Undecodable(d)
    BY <2>3, ReturnSize DEF Undecodable
  <2>4. CASE Collect(d)
    BY <2>4, CollectSize
  <2> QED BY <1>7, <2>1, <2>2, <2>3, <2>4 DEF DrainStep
<1>8. ASSUME NEW d \in Drainers, Attempt(d) PROVE SizeInv'
  <2>1. CASE Accepted(d)
    BY <2>1, ReturnSize DEF Accepted
  <2>2. CASE Rejected(d)
    <3>1. log' = log /\ (recorded' = recorded \/ Stores(d))
      BY <2>2 DEF Rejected
    <3>2. CASE Return(d)
      BY <3>1, <3>2, ReturnSize
    <3>3. CASE UNCHANGED <<mux, pc, events, bufSize>>
      BY <3>1, <3>3, SizeKept
    <3> QED BY <2>2, <3>2, <3>3 DEF Rejected
  <2>3. CASE Panics(d)
    BY <2>3, EndsSize DEF Panics
  <2> QED BY <1>8, <2>1, <2>2, <2>3 DEF Attempt
<1>9. CASE UNCHANGED vars
  BY <1>9, SizeKept DEF vars, local
<1> QED BY <1>1, <1>2, <1>3, <1>4, <1>5, <1>7, <1>8, <1>9 DEF Next

\* bufSize counts the batch in hand, which fits, and so do the stored ones.
THEOREM SizeInvariant == Spec => [](TypeOK /\ OrderInv /\ SizeInv)
<1>1. Init => TypeOK /\ OrderInv /\ SizeInv
  BY TypeInit, OrderInit, SizeInit
<1>2. (TypeOK /\ OrderInv /\ SizeInv) /\ [Next]_vars => (TypeOK /\ OrderInv /\ SizeInv)'
  BY TypeNext, OrderNext, SizeNext
<1> QED BY <1>1, <1>2, PTL DEF Spec

\* No request is larger than maxBatchSize, whatever the sizes of the events
\* and wherever the loop of Drain stops.
THEOREM BatchesFit == Spec => []BatchFits
<1>1. SizeInv => BatchFits
  BY BytesIsTotal DEF SizeInv, Fits, BatchFits
<1> QED BY <1>1, SizeInvariant, PTL

-----------------------------------------------------------------------------
(***************************************************************************)
(* No payload is lost without one of the four causes                       *)
(***************************************************************************)

Excused(i) == EndOfProcess \/ DoesNotFit(i) \/ WithGarbage(i) \/ GivenUp(i)
LossesExcused == \A i \in Held : Loses(i) => Excused(i)

\* A payload the process still has is in the queue or in a batch.
LEMMA WhereHeld ==
  ASSUME NEW i \in Held
  PROVE  \/ i \in head + 1 .. Len(log)
         \/ \E d \in Drainers : i \in ItemsOf(events[d])
  BY DEF Held, InFlight

\* Where a payload has to be after a step that does not lose it.
LEMMA Kept ==
  ASSUME NEW i \in Held,
         \/ i \in head' + 1 .. Len(log')
         \/ \E d \in Drainers : i \in ItemsOf(events'[d])
         \/ \E n \in 1 .. Len(recorded') : i \in ItemsOf(recorded'[n])
  PROVE  ~Loses(i)
<1>1. i \in Held' \cup Stored'
  BY DEF Held, InFlight, Stored
<1> QED BY <1>1 DEF Loses

\* A step that leaves the head and the batches alone loses nothing, even if
\* the queue grows.
LEMMA QuietKeeps ==
  ASSUME TypeOK, head' = head, events' = events,
         Len(log') \in Nat, Len(log') >= Len(log)
  PROVE  LossesExcused
<1> SUFFICES ASSUME NEW i \in Held PROVE ~Loses(i)
  BY DEF LossesExcused
<1>1. head \in Nat /\ Len(log) \in Nat
  BY DEF TypeOK
<1>2. \/ i \in head' + 1 .. Len(log')
      \/ \E d \in Drainers : i \in ItemsOf(events'[d])
  BY <1>1, WhereHeld
<1> QED BY <1>2, Kept

\* The end of the process is a cause of its own.
LEMMA EndKeeps == ASSUME ~up \/ ~up' PROVE LossesExcused
  BY DEF LossesExcused, Excused, EndOfProcess

\* The end of the loop keeps every batch: one that is empty, and one that
\* goes on to be sent.
LEMMA LeaveLoopEvents ==
  ASSUME TypeOK, NEW d \in Drainers, LeaveLoop(d)
  PROVE  events' = events
<1>1. CASE events[d] = <<>> /\ Return(d)
  BY <1>1 DEF Return, TypeOK
<1>2. CASE UNCHANGED events
  BY <1>2
<1> QED BY <1>1, <1>2 DEF LeaveLoop

\* The payload that overflows the batch is the only one lost, and the reason
\* is the size of the batch it met.
LEMMA OverflowKeeps ==
  ASSUME TypeOK, SizeInv, NEW d \in Drainers, DropOverflow(d)
  PROVE  LossesExcused
<1> SUFFICES ASSUME NEW i \in Held, Loses(i) PROVE Excused(i)
  BY DEF LossesExcused
<1>1. /\ pc[d] = "loop" /\ head' = head + 1
      /\ bufSize[d] + log[head + 1].size > MaxBatch
      /\ log' = log /\ LeaveLoop(d)
      /\ head \in Nat /\ Len(log) \in Nat
  BY DEF DropOverflow, Dequeues, Overflows, TypeOK
<1>2. events' = events
  BY <1>1, LeaveLoopEvents
<1>3. /\ i \notin head' + 1 .. Len(log')
      /\ \A e \in Drainers : i \notin ItemsOf(events'[e])
  BY Kept
<1>4. i = head + 1
  BY <1>1, <1>2, <1>3, WhereHeld
<1>5. bufSize[d] = Bytes(events[d])
  BY <1>1, BytesIsTotal DEF SizeInv
<1> QED BY <1>1, <1>4, <1>5 DEF Excused, DoesNotFit

\* A call of Drain that meets a payload it cannot decode loses that payload
\* and its batch, and no other.
LEMMA UndecodableKeeps ==
  ASSUME TypeOK, NEW d \in Drainers, Undecodable(d)
  PROVE  LossesExcused
<1> SUFFICES ASSUME NEW i \in Held, Loses(i) PROVE Excused(i)
  BY DEF LossesExcused
<1>1. /\ pc[d] = "loop" /\ head' = head + 1 /\ ~log[head + 1].ok
      /\ log' = log
      /\ head \in Nat /\ Len(log) \in Nat
  BY DEF Undecodable, Dequeues, TypeOK
<1>2. \A e \in Drainers : e # d => events'[e] = events[e]
  BY DEF Undecodable, Return, TypeOK
<1>3. /\ i \notin head' + 1 .. Len(log')
      /\ \A e \in Drainers : i \notin ItemsOf(events'[e])
  BY Kept
<1>4. i = head + 1 \/ i \in ItemsOf(events[d])
  BY <1>1, <1>2, <1>3, WhereHeld
<1> QED BY <1>1, <1>4 DEF Excused, WithGarbage

\* A payload collected moves from the queue into the batch.
LEMMA CollectKeeps ==
  ASSUME TypeOK, NEW d \in Drainers, Collect(d)
  PROVE  LossesExcused
<1> SUFFICES ASSUME NEW i \in Held PROVE ~Loses(i)
  BY DEF LossesExcused
<1> DEFINE x == head + 1
<1>1. /\ head' = x /\ log' = log
      /\ head \in Nat /\ Len(log) \in Nat /\ x \in Nat
      /\ events[d] \in Seq(Nat)
  BY DEF Collect, Dequeues, TypeOK
<1>2. events'[d] = Append(events[d], x)
  BY DEF Collect, TypeOK
<1>3. \A e \in Drainers : e # d => events'[e] = events[e]
  BY DEF Collect, TypeOK
<1> HIDE DEF x
<1>4. x \in ItemsOf(events'[d])
  <2>1. /\ Len(events'[d]) \in 1 .. Len(events'[d])
        /\ events'[d][Len(events'[d])] = x
    BY <1>1, <1>2
  <2> QED BY <2>1 DEF ItemsOf
<1>5. ASSUME i \in ItemsOf(events[d]) PROVE i \in ItemsOf(events'[d])
  <2>1. PICK k \in 1 .. Len(events[d]) : i = events[d][k]
    BY <1>5 DEF ItemsOf
  <2>2. k \in 1 .. Len(events'[d]) /\ events'[d][k] = i
    BY <1>1, <1>2, <2>1
  <2> QED BY <2>2 DEF ItemsOf
<1>6. \/ i \in head' + 1 .. Len(log')
      \/ \E e \in Drainers : i \in ItemsOf(events'[e])
  <2>1. CASE i \in head + 1 .. Len(log)
    <3>1. i = x \/ i \in head' + 1 .. Len(log')
      BY <1>1, <2>1 DEF x
    <3> QED BY <1>4, <3>1
  <2>2. ASSUME NEW e \in Drainers, i \in ItemsOf(events[e])
        PROVE  i \in ItemsOf(events'[e])
    BY <1>3, <1>5, <2>2
  <2> QED BY <2>1, <2>2, WhereHeld
<1> QED BY <1>6, Kept

\* An attempt that ends the call: the batch is stored, or its attempts are
\* used up.
LEMMA AttemptKeeps ==
  ASSUME TypeOK, NEW d \in Drainers, pc[d] = "send", Return(d),
         log' = log, head' = head,
         Stores(d) \/ tries[d] = MaxTries - 1
  PROVE  LossesExcused
<1> SUFFICES ASSUME NEW i \in Held, Loses(i) PROVE Excused(i)
  BY DEF LossesExcused
<1>1. \A e \in Drainers : e # d => events'[e] = events[e]
  BY DEF Return, TypeOK
<1>2. /\ i \notin head' + 1 .. Len(log')
      /\ \A e \in Drainers : i \notin ItemsOf(events'[e])
      /\ \A n \in 1 .. Len(recorded') : i \notin ItemsOf(recorded'[n])
  BY Kept
<1>3. i \in ItemsOf(events[d])
  BY <1>1, <1>2, WhereHeld
<1>4. ~Stores(d)
  <2>1. ASSUME Stores(d) PROVE /\ Len(recorded') \in 1 .. Len(recorded')
                               /\ recorded'[Len(recorded')] = events[d]
    BY <2>1 DEF Stores, TypeOK
  <2> QED BY <1>2, <1>3, <2>1
<1> QED BY <1>3, <1>4 DEF Excused, GivenUp

\* The step lemma of EveryLossHasACause.
LEMMA LossNext == TypeOK /\ OrderInv /\ SizeInv /\ [Next]_vars => LossesExcused
<1> SUFFICES ASSUME TypeOK, OrderInv, SizeInv, [Next]_vars PROVE LossesExcused
  OBVIOUS
<1>0. Len(log) \in Nat /\ Len(log) >= Len(log)
  BY DEF TypeOK
<1>1. CASE Restart \/ ListenFails \/ MainReturns \/ OsExit
  BY <1>1, EndKeeps DEF Restart, ListenFails, MainReturns, OsExit, Ends
<1>2. CASE Listen \/ ServeFails \/ Tick \/ ReceiveSignal \/ HandOff
  BY <1>0, <1>2, QuietKeeps DEF Listen, ServeFails, Tick, ReceiveSignal, HandOff
<1>3. CASE \E s \in Signals : Signal(s)
  BY <1>0, <1>3, QuietKeeps DEF Signal
<1>4. CASE ServeHTTP
  <2>1. head' = head /\ events' = events
    BY <1>4 DEF ServeHTTP, local
  <2>2. Len(log') \in Nat /\ Len(log') >= Len(log)
    <3>1. ASSUME NEW size \in Sizes, NEW ok \in BOOLEAN, Store(size, ok)
          PROVE  Len(log') = Len(log) + 1
      BY <3>1 DEF Store, TypeOK
    <3>2. Len(log') = Len(log) \/ Len(log') = Len(log) + 1
      BY <1>4, <3>1 DEF ServeHTTP
    <3> QED BY <1>0, <3>2
  <2> QED BY <2>1, <2>2, QuietKeeps
<1>5. ASSUME NEW d \in Drainers, Lock(d) PROVE LossesExcused
  BY <1>0, <1>5, QuietKeeps DEF Lock
<1>6. ASSUME NEW d \in Drainers, DrainStep(d) PROVE LossesExcused
  <2>1. CASE EndLoop(d)
    BY <1>0, <2>1, LeaveLoopEvents, QuietKeeps DEF EndLoop
  <2>2. CASE DropOverflow(d)
    BY <2>2, OverflowKeeps
  <2>3. CASE Undecodable(d)
    BY <2>3, UndecodableKeeps
  <2>4. CASE Collect(d)
    BY <2>4, CollectKeeps
  <2> QED BY <1>6, <2>1, <2>2, <2>3, <2>4 DEF DrainStep
<1>7. ASSUME NEW d \in Drainers, Attempt(d) PROVE LossesExcused
  <2>1. CASE Accepted(d)
    BY <2>1, AttemptKeeps DEF Accepted
  <2>2. CASE Rejected(d)
    <3>1. pc[d] = "send" /\ log' = log /\ head' = head
      BY <2>2 DEF Rejected
    <3>2. CASE UNCHANGED <<mux, pc, events, bufSize>>
      BY <1>0, <3>1, <3>2, QuietKeeps
    <3>3. CASE ~MoreTries(d) /\ Return(d)
      <4>1. tries[d] = MaxTries - 1
        <5>1. tries[d] \in 0 .. MaxTries - 1
          BY DEF TypeOK
        <5>2. ~(tries[d] + 1 < MaxTries)
          BY <3>3 DEF MoreTries, NextTry
        <5> QED BY <5>1, <5>2
      <4> QED BY <3>1, <3>3, <4>1, AttemptKeeps
    <3> QED BY <2>2, <3>2, <3>3 DEF Rejected
  <2>3. CASE Panics(d)
    BY <2>3, EndKeeps DEF Panics, Ends
  <2> QED BY <1>7, <2>1, <2>2, <2>3 DEF Attempt
<1>8. CASE UNCHANGED vars
  BY <1>0, <1>8, QuietKeeps DEF vars, local
<1> QED BY <1>1, <1>2, <1>3, <1>4, <1>5, <1>6, <1>7, <1>8 DEF Next

\* What the queue took leaves the process in one of five ways: into the
\* store, with the process, because it did not fit, in one call with a payload
\* that did not decode, or after the last attempt.  Nothing else loses it.
THEOREM LossesHaveCauses == Spec => EveryLossHasACause
<1>1. TypeOK /\ OrderInv /\ SizeInv /\ [Next]_vars
        => [\A i \in Held :
              Loses(i) => EndOfProcess \/ DoesNotFit(i) \/ WithGarbage(i) \/ GivenUp(i)]_vars
  BY LossNext DEF LossesExcused, Excused
<1> QED BY <1>1, SizeInvariant, PTL DEF Spec, EveryLossHasACause
=============================================================================
