--------------------------- MODULE EventLambdaProofs ---------------------------
(***************************************************************************)
(* Proofs about EventLambda, for every number of containers, of            *)
(* connections and of batches: type correctness, that a batch is stored as *)
(* a whole or not at all, that what is answered is stored, and the batches *)
(* whose rows get the right locations.                                     *)
(***************************************************************************)
EXTENDS EventLambda, FiniteSetTheorems, FunctionTheorems, TLAPS

-----------------------------------------------------------------------------
(***************************************************************************)
(* Sums over finite sets                                                   *)
(***************************************************************************)

Sum(f, S) == MapThenSumSet(LAMBDA c : f[c], S)

\* The element that MapThenSumSet adds next.
Pick(s) == CHOOSE x \in s : TRUE

\* The recursion of MapThenSumSet, one step.
SumUpTo(f, S, g) ==
  [s \in SUBSET S |-> IF s = {} THEN 0 ELSE f[Pick(s)] + g[s \ {Pick(s)}]]

\* MapThenSumSet evaluates a recursive function.
LEMMA SumIter == 
  ASSUME NEW S, NEW f 
  PROVE  Sum(f, S) = (CHOOSE g : g = SumUpTo(f, S, g))[S]
 BY DEF Sum, MapThenSumSet, MapThenFoldSet, SumUpTo, Pick

\* Pick chooses an element.
LEMMA PickIn ==
  ASSUME NEW s, s # {}
  PROVE  Pick(s) \in s
BY DEF Pick

\* Every set of subsets of a finite set has a smallest one.
LEMMA SmallestSubset ==
  ASSUME NEW S, IsFiniteSet(S), NEW T, T \subseteq SUBSET S, T # {}
  PROVE  \E m \in T : \A x \in m : m \ {x} \notin T
<1>1. \A s \in T : s \subseteq S /\ IsFiniteSet(s)
  BY FS_Subset
<1>2. T \subseteq FiniteSubsetsOf(S)
  BY <1>1 DEF FiniteSubsetsOf
<1>3. PICK m \in T : \A k \in T : <<k, m>> \notin StrictSubsetOrdering(S)
  BY <1>2, FS_StrictSubsetOrderingWellFounded, WFMin
<1>4. ASSUME NEW x \in m, m \ {x} \in T PROVE FALSE
  <2>1. m \ {x} \subseteq m /\ m \ {x} # m
    OBVIOUS
  <2> QED BY <1>1, <1>3, <1>4, <2>1 DEF StrictSubsetOrdering
<1> QED BY <1>4

\* Every set of natural numbers has an element whose predecessor is not in it.
LEMMA Smallest ==
  ASSUME NEW T, T \subseteq Nat, T # {}
  PROVE  \E m \in T : m = 0 \/ m - 1 \notin T
<1>1. PICK m \in T : \A k \in T : <<k, m>> \notin OpToRel(<, Nat)
  BY NatLessThanWellFounded, WFMin
<1>2. \A k \in T : ~ (k < m)
  BY <1>1 DEF OpToRel
<1> QED BY <1>2

\* The recursion of MapThenSumSet has a solution on every finite set.
LEMMA SumExists ==
  ASSUME NEW S, IsFiniteSet(S), NEW f
  PROVE  \E g : g = SumUpTo(f, S, g)
<1> DEFINE Right(g, n) == \A s \in SUBSET S :
                            Cardinality(s) <= n => g[s] = SumUpTo(f, S, g)[s]
           T == {n \in Nat : ~ \E g : Right(g, n)}
<1>0. \A s \in SUBSET S : IsFiniteSet(s) /\ Cardinality(s) \in Nat
  BY FS_Subset, FS_CardinalityType
<1>1. ASSUME T # {} PROVE FALSE
  <2>1. PICK m \in T : m = 0 \/ m - 1 \notin T
    <3> HIDE DEF T
    <3>1. T \subseteq Nat
      BY DEF T
    <3> QED BY <1>1, <3>1, Smallest
  <2>2. CASE m = 0
    <3>1. Right([s \in SUBSET S |-> 0], 0)
      <4>1. \A s \in SUBSET S : Cardinality(s) <= 0 => s = {}
        BY <1>0, FS_EmptySet
      <4> QED BY <4>1 DEF SumUpTo
    <3> QED BY <2>1, <2>2, <3>1
  <2>3. CASE m # 0
    <3>1. m - 1 \in Nat
      BY <2>1, <2>3
    <3>2. PICK g : Right(g, m - 1)
      BY <2>1, <2>3, <3>1
    <3> DEFINE h == SumUpTo(f, S, g)
    <3>3. ASSUME NEW s \in SUBSET S, Cardinality(s) <= m
          PROVE  h[s] = SumUpTo(f, S, h)[s]
      <4>1. CASE s = {}
        BY <4>1 DEF SumUpTo
      <4>2. CASE s # {}
        <5> DEFINE r == s \ {Pick(s)}
        <5>1. r \in SUBSET S /\ Cardinality(r) = Cardinality(s) - 1
          BY <1>0, <4>2, PickIn, FS_RemoveElement
        <5>2. Cardinality(r) <= m - 1
          BY <1>0, <3>3, <5>1, <2>1
        <5>3. g[r] = h[r]
          BY <3>2, <5>1, <5>2
        <5>4. h[s] = f[Pick(s)] + g[r]
          BY <4>2 DEF SumUpTo
        <5>5. SumUpTo(f, S, h)[s] = f[Pick(s)] + h[r]
          BY <4>2 DEF SumUpTo
        <5> QED BY <5>3, <5>4, <5>5
      <4> QED BY <4>1, <4>2
    <3>4. Right(h, m)
      BY <3>3
    <3> QED BY <2>1, <3>4
  <2> QED BY <2>2, <2>3
<1>2. Cardinality(S) \in Nat /\ \A s \in SUBSET S : Cardinality(s) <= Cardinality(S)
  BY FS_CardinalityType, FS_Subset
<1>3. PICK g : Right(g, Cardinality(S))
  BY <1>1, <1>2
<1> DEFINE h == SumUpTo(f, S, g)
<1>4. \A s \in SUBSET S : g[s] = h[s]
  BY <1>2, <1>3
<1>5. \A s \in SUBSET S : s \ {Pick(s)} \in SUBSET S
  OBVIOUS
<1>6. h = SumUpTo(f, S, h)
  BY <1>4, <1>5 DEF SumUpTo
<1> QED BY <1>6

\* Sum of f over the subsets of S, as a function.
Sums(f, S) == CHOOSE g : g = SumUpTo(f, S, g)

\* So the sum is what its recursion says.
LEMMA SumStep ==
  ASSUME NEW S, IsFiniteSet(S), NEW f
  PROVE  /\ Sum(f, S) = Sums(f, S)[S]
         /\ Sums(f, S)[{}] = 0
         /\ \A s \in SUBSET S : s # {} =>
              Sums(f, S)[s] = f[Pick(s)] + Sums(f, S)[s \ {Pick(s)}]
<1>1. Sums(f, S) = SumUpTo(f, S, Sums(f, S))
  BY SumExists DEF Sums
<1> QED BY <1>1, SumIter DEF SumUpTo, Sums

\* How the sum of a function compares to that of another one, which differs
\* by at most one and only at c.
LEMMA SumCompare ==
  ASSUME NEW S, IsFiniteSet(S), NEW f \in [S -> Nat], NEW g \in [S -> Nat],
         NEW c, NEW e \in {0, 1},
         \A x \in S : g[x] <= f[x] + (IF x = c THEN e ELSE 0)
  PROVE  /\ Sum(f, S) \in Nat /\ Sum(g, S) \in Nat
         /\ Sum(g, S) <= Sum(f, S) + e
         /\ \A x \in S : f[x] <= Sum(f, S)
<1> DEFINE F(s) == Sums(f, S)[s]
           G(s) == Sums(g, S)[s]
           Good(s) == /\ F(s) \in Nat /\ G(s) \in Nat
                      /\ G(s) <= F(s) + (IF c \in s THEN e ELSE 0)
                      /\ \A x \in s : f[x] <= F(s)
           T == {s \in SUBSET S : ~Good(s)}
<1>1. F({}) = 0 /\ G({}) = 0
  BY SumStep
<1>2a. \A s \in SUBSET S : s # {} => F(s) = f[Pick(s)] + F(s \ {Pick(s)})
  BY SumStep
<1>2b. \A s \in SUBSET S : s # {} => G(s) = g[Pick(s)] + G(s \ {Pick(s)})
  BY SumStep
<1>2. \A s \in SUBSET S : s # {} => /\ F(s) = f[Pick(s)] + F(s \ {Pick(s)})
                                    /\ G(s) = g[Pick(s)] + G(s \ {Pick(s)})
  BY <1>2a, <1>2b
<1>3. Sum(f, S) = F(S) /\ Sum(g, S) = G(S)
  BY SumStep
<1> HIDE DEF F, G
<1>4. ASSUME T # {} PROVE FALSE
  <2>1. PICK m \in T : \A x \in m : m \ {x} \notin T
    BY <1>4, SmallestSubset, Zenon
  <2>2. m # {}
    BY <1>1, <2>1
  <2> DEFINE p == Pick(m)
             r == m \ {p}
  <2>3. p \in m /\ p \in S /\ r \in SUBSET S
    BY <2>1, <2>2, PickIn
  <2> HIDE DEF p
  <2>4. Good(r)
    BY <2>1, <2>3
  <2>5. F(m) = f[p] + F(r) /\ G(m) = g[p] + G(r)
    BY <1>2, <2>1, <2>2 DEF p
  <2>6. f[p] \in Nat /\ g[p] \in Nat /\ g[p] <= f[p] + (IF p = c THEN e ELSE 0)
    BY <2>3
  <2>7. F(m) \in Nat /\ G(m) \in Nat
    BY <2>4, <2>5, <2>6
  <2>8. G(m) <= F(m) + (IF c \in m THEN e ELSE 0)
    <3>1. CASE p = c
      <4>1. c \notin r /\ c \in m
        BY <2>3, <3>1
      <4> QED BY <2>4, <2>5, <2>6, <3>1, <4>1
    <3>2. CASE p # c
      <4>1. c \in m <=> c \in r
        BY <2>3, <3>2
      <4> QED BY <2>4, <2>5, <2>6, <3>2, <4>1
    <3> QED BY <3>1, <3>2
  <2>9. ASSUME NEW x \in m PROVE f[x] <= F(m)
    <3>1. x \in S /\ f[x] \in Nat
      BY <2>1
    <3>2. x = p \/ x \in r
      OBVIOUS
    <3> QED BY <2>4, <2>5, <2>6, <3>1, <3>2
  <2> QED BY <2>1, <2>7, <2>8, <2>9
<1>5. Good(S)
  BY <1>4
<1> QED BY <1>3, <1>5

-----------------------------------------------------------------------------
(***************************************************************************)
(* Types                                                                   *)
(***************************************************************************)

USE ContainersAssumption, BatchesAssumption, ConnsAssumption

Pcs == {"idle", "origin", "loop", "copy", "commit"}
RowType == [remote : Addresses, remoteGeo : Ids, originGeo : Ids]
WorkType == [attempt : Nat, i : Nat \ {0}, id : Ids, gid : Ids,
             known : SUBSET Addresses, rows : Seq(RowType)]

\* TypeOK with the types of the records, and why no container has more than
\* MaxConns transactions open: all of them together do not.
TypeInv ==
  /\ TypeOK
  /\ work \in [BatchContainers -> WorkType]
  /\ leaked \in [BatchContainers -> Nat]
  /\ Open <= MaxConns

\* The containers that are in a transaction.
InTx == {c \in BatchContainers : pc[c] \in {"copy", "commit"}}

\* Open counts the transactions left open and those of the calls.
LEMMA OpenIs == Open = Sum(leaked, BatchContainers) + Cardinality(InTx)
  BY DEF Open, Sum, InTx

\* Finitely many calls are in a transaction.
LEMMA InTxFinite == IsFiniteSet(InTx) /\ Cardinality(InTx) \in Nat
  BY FS_Subset, FS_CardinalityType DEF InTx

\* No container has more open transactions than there are connections.
LeaksFit == \A d \in BatchContainers : leaked[d] \in 0 .. MaxConns

\* It follows from the bound on all of them together.
LEMMA LeakedBound ==
  leaked \in [BatchContainers -> Nat] /\ Open <= MaxConns => LeaksFit
<1> SUFFICES ASSUME leaked \in [BatchContainers -> Nat], Open <= MaxConns
             PROVE  LeaksFit
  OBVIOUS
<1>1. /\ Sum(leaked, BatchContainers) \in Nat
      /\ \A c \in BatchContainers : leaked[c] <= Sum(leaked, BatchContainers)
  <2>1. \A c \in BatchContainers : leaked[c] <= leaked[c] + (IF c = 0 THEN 0 ELSE 0)
    OBVIOUS
  <2> QED BY <2>1, SumCompare
<1>2. Sum(leaked, BatchContainers) <= MaxConns
  BY <1>1, OpenIs, InTxFinite
<1> QED BY <1>1, <1>2 DEF LeaksFit

\* A step that ends no more transactions in a leak than it ends, and opens
\* none, keeps the bound.
LEMMA OpenBound ==
  ASSUME leaked \in [BatchContainers -> Nat], Open <= MaxConns,
         leaked' \in [BatchContainers -> Nat],
         NEW c, NEW e \in {0, 1},
         \A x \in BatchContainers :
           leaked'[x] <= leaked[x] + (IF x = c THEN e ELSE 0),
         InTx' \subseteq InTx,
         e = 1 => c \in InTx /\ c \notin InTx'
  PROVE  Open' <= MaxConns
<1>1. /\ Sum(leaked, BatchContainers) \in Nat
      /\ Sum(leaked', BatchContainers) \in Nat
      /\ Sum(leaked', BatchContainers) <= Sum(leaked, BatchContainers) + e
  <2>1. \A f, g \in [BatchContainers -> Nat] :
          (\A x \in BatchContainers : g[x] <= f[x] + (IF x = c THEN e ELSE 0))
            => /\ Sum(f, BatchContainers) \in Nat /\ Sum(g, BatchContainers) \in Nat
               /\ Sum(g, BatchContainers) <= Sum(f, BatchContainers) + e
    BY SumCompare
  <2> QED BY <2>1
<1>2. Cardinality(InTx') \in Nat /\ Cardinality(InTx') + e <= Cardinality(InTx)
  <2>1. CASE e = 0
    BY <2>1, InTxFinite, FS_Subset, FS_CardinalityType
  <2>2. CASE e = 1
    <3>1. /\ IsFiniteSet(InTx \ {c})
          /\ Cardinality(InTx \ {c}) = Cardinality(InTx) - 1
          /\ InTx' \subseteq InTx \ {c}
      BY <2>2, InTxFinite, FS_RemoveElement
    <3>2. Cardinality(InTx') \in Nat /\ Cardinality(InTx') <= Cardinality(InTx \ {c})
      BY <3>1, FS_Subset, FS_CardinalityType
    <3> QED BY <2>2, <3>1, <3>2, InTxFinite
  <2> QED BY <2>1, <2>2
<1>3. Open' = Sum(leaked', BatchContainers) + Cardinality(InTx')
  <2>1. (Open = Sum(leaked, BatchContainers) + Cardinality(InTx))'
    BY OpenIs, PTL
  <2> QED BY <2>1
<1> QED BY <1>1, <1>2, <1>3, OpenIs, InTxFinite

\* A step that opens and leaks none keeps the bound.
LEMMA OpenKept ==
  ASSUME leaked \in [BatchContainers -> Nat], Open <= MaxConns,
         leaked' \in [BatchContainers -> Nat],
         \A x \in BatchContainers : leaked'[x] <= leaked[x],
         InTx' \subseteq InTx
  PROVE  Open' <= MaxConns
<1> DEFINE none == 0
<1>1. none \in {0, 1}
  OBVIOUS
<1>2. \A x \in BatchContainers : leaked'[x] <= leaked[x] + (IF x = "none" THEN none ELSE 0)
  OBVIOUS
<1>3. none = 1 => "none" \in InTx /\ "none" \notin InTx'
  OBVIOUS
<1> HIDE DEF none
<1> QED BY <1>1, <1>2, <1>3, OpenBound

\* A call that has not begun has well-typed local variables.
LEMMA NoWorkType == NoWork \in WorkType /\ NoWork.attempt = 0
  BY DEF NoWork, WorkType, Ids

\* Init establishes the types.
LEMMA TypeInit == Init => TypeInv
<1> SUFFICES ASSUME Init PROVE TypeInv
  OBVIOUS
<1>1. /\ InTx = {}
      /\ leaked = [c \in BatchContainers |-> 0]
  BY DEF Init, InTx
<1>2. Sum(leaked, BatchContainers) = 0
  <2> DEFINE z == [c \in BatchContainers |-> 0]
             G(s) == Sums(z, BatchContainers)[s]
             T == {s \in SUBSET BatchContainers : G(s) # 0}
  <2>1. /\ Sum(z, BatchContainers) = G(BatchContainers)
        /\ G({}) = 0
    BY SumStep
  <2>2. \A s \in SUBSET BatchContainers :
          s # {} => G(s) = z[Pick(s)] + G(s \ {Pick(s)})
    BY SumStep
  <2> HIDE DEF G
  <2>3. ASSUME T # {} PROVE FALSE
    <3>1. PICK m \in T : \A x \in m : m \ {x} \notin T
      BY <2>3, SmallestSubset, Zenon
    <3>2. m # {} /\ Pick(m) \in m
      BY <2>1, <3>1, PickIn
    <3>3. G(m \ {Pick(m)}) = 0 /\ z[Pick(m)] = 0
      BY <3>1, <3>2
    <3> QED BY <2>2, <3>1, <3>2, <3>3
  <2> QED BY <1>1, <2>1, <2>3
<1>3. Open = 0
  BY <1>1, <1>2, OpenIs, FS_EmptySet
<1>4. work \in [BatchContainers -> WorkType] /\ \A c \in BatchContainers : work[c] = NoWork
  BY NoWorkType DEF Init
<1>5. TypeOK
  <2>1. attempts = <<>> /\ attempts \in Seq(Batches) /\ Len(attempts) = 0
    BY DEF Init
  <2>2. \A c \in BatchContainers : /\ work[c].attempt = 0
                                   /\ work[c].id \in Ids /\ work[c].gid \in Ids
                                   /\ leaked[c] = 0 /\ pc[c] = "idle"
    BY <1>1, <1>4, NoWorkType DEF WorkType, Init
  <2>3. 0 \in 0 .. Len(attempts) /\ 0 \in 0 .. MaxConns
    BY <2>1
  <2>4. /\ setupError \in [Containers -> BOOLEAN] /\ bound \in [Containers -> BOOLEAN]
        /\ \A c \in Containers : ~setupError[c] => bound[c]
        /\ dbUp \in BOOLEAN
    BY DEF Init
  <2> QED BY <2>1, <2>2, <2>3, <2>4 DEF Init, TypeOK
<1> QED BY <1>1, <1>3, <1>4, <1>5 DEF TypeInv

\* A step of one container that does not receive a request.
LEMMA StepType ==
  ASSUME TypeInv, NEW c \in BatchContainers, NEW p \in Pcs, NEW w \in WorkType,
         pc' = [pc EXCEPT ![c] = p], work' = [work EXCEPT ![c] = w],
         w.attempt \in 0 .. Len(attempts),
         p # "idle" => w.attempt # 0 /\ bound[c],
         UNCHANGED <<dbUp, setupError, bound, attempts>>,
         answered' \subseteq 1 .. Len(attempts),
         leaked' \in [BatchContainers -> Nat], Open' <= MaxConns
  PROVE  TypeInv'
<1>1. \A d \in BatchContainers : leaked'[d] \in 0 .. MaxConns
  <2>1. (leaked \in [BatchContainers -> Nat] /\ Open <= MaxConns => LeaksFit)'
    BY LeakedBound, PTL
  <2> QED BY <2>1 DEF LeaksFit
<1>2. work' \in [BatchContainers -> WorkType]
  BY DEF TypeInv
<1>3. ASSUME NEW d \in BatchContainers
      PROVE  /\ work'[d].attempt \in 0 .. Len(attempts)
             /\ pc'[d] # "idle" => work'[d].attempt # 0 /\ bound[d]
             /\ work'[d].id \in Ids /\ work'[d].gid \in Ids
  BY DEF TypeInv, TypeOK, WorkType
<1>4. pc' \in [BatchContainers -> Pcs]
  BY DEF TypeInv, TypeOK, Pcs
<1> QED BY <1>1, <1>2, <1>3, <1>4 DEF TypeInv, TypeOK, Pcs

\* The same for a step that begins no transaction and leaves none open.
LEMMA PlainType ==
  ASSUME TypeInv, NEW c \in BatchContainers, NEW p \in Pcs, NEW w \in WorkType,
         pc' = [pc EXCEPT ![c] = p], work' = [work EXCEPT ![c] = w],
         w.attempt \in 0 .. Len(attempts),
         p # "idle" => w.attempt # 0 /\ bound[c],
         p \in {"copy", "commit"} => pc[c] \in {"copy", "commit"},
         UNCHANGED <<dbUp, setupError, bound, attempts, leaked>>,
         answered' \subseteq 1 .. Len(attempts)
  PROVE  TypeInv'
<1>1. InTx' \subseteq InTx
  BY DEF InTx, TypeInv, TypeOK
<1>2. \A x \in BatchContainers : leaked[x] \in Nat
  BY DEF TypeInv
<1>3. Open' <= MaxConns
  <2>1. leaked' \in [BatchContainers -> Nat] /\ \A x \in BatchContainers : leaked'[x] <= leaked[x]
    BY <1>2 DEF TypeInv
  <2> QED BY <1>1, <2>1, OpenKept DEF TypeInv
<1> QED BY <1>3, StepType DEF TypeInv

\* A call that returns.
LEMMA ReturnsType ==
  ASSUME TypeInv, NEW c \in BatchContainers, Returns(c),
         UNCHANGED <<dbUp, setupError, bound, attempts, leaked>>,
         answered' \subseteq 1 .. Len(attempts)
  PROVE  TypeInv'
<1>1. Len(attempts) \in Nat
  BY DEF TypeInv, TypeOK
<1>2. /\ "idle" \in Pcs /\ "idle" \notin {"copy", "commit"}
      /\ NoWork \in WorkType /\ NoWork.attempt \in 0 .. Len(attempts)
  BY <1>1, NoWorkType DEF Pcs
<1>3. /\ pc' = [pc EXCEPT ![c] = "idle"]
      /\ work' = [work EXCEPT ![c] = NoWork]
  BY DEF Returns
<1> QED BY <1>2, <1>3, PlainType

\* The steps that concern the database and setup alone.
LEMMA SetupType ==
  ASSUME TypeInv,
         \/ DbDown \/ DbUp
         \/ \E c \in Containers : Requests(c)
  PROVE  TypeInv'
<1>1. UNCHANGED <<pc, work, attempts, answered>>
  BY DEF DbDown, DbUp, Requests, HandleAfterError, BatchAfterError
<1>2. /\ leaked' \in [BatchContainers -> Nat]
      /\ \A c \in BatchContainers : leaked'[c] <= leaked[c]
      /\ \A c \in BatchContainers : leaked'[c] \in 0 .. MaxConns
  BY DEF TypeInv, TypeOK, DbDown, DbUp, Requests, HandleAfterError, BatchAfterError
<1>3. Open' <= MaxConns
  <2>1. InTx' = InTx
    BY <1>1 DEF InTx
  <2> QED BY <1>2, <2>1, OpenKept DEF TypeInv
<1>4. /\ dbUp' \in BOOLEAN
      /\ setupError' \in [Containers -> BOOLEAN]
      /\ bound' \in [Containers -> BOOLEAN]
      /\ \A c \in Containers : ~setupError'[c] => bound'[c]
      /\ \A c \in Containers : bound[c] => bound'[c]
  <2>1. CASE DbDown \/ DbUp
    BY <2>1 DEF TypeInv, TypeOK, DbDown, DbUp
  <2>2. ASSUME NEW c \in Containers, Requests(c)
        PROVE  <1>4!:
    <3>1. /\ dbUp \in BOOLEAN /\ dbUp' = dbUp
          /\ setupError \in [Containers -> BOOLEAN]
          /\ bound \in [Containers -> BOOLEAN]
          /\ \A d \in Containers : ~setupError[d] => bound[d]
      BY <2>2 DEF TypeInv, TypeOK, Requests, HandleAfterError, BatchAfterError
    <3>2. bound' = [bound EXCEPT ![c] = @ \/ dbUp]
      BY <2>2 DEF Requests, HandleAfterError, BatchAfterError, Binds
    <3>3. setupError' = setupError \/ setupError' = [setupError EXCEPT ![c] = ~dbUp]
      BY <2>2 DEF Requests, HandleAfterError, BatchAfterError, SingleError
    <3>4. bound' \in [Containers -> BOOLEAN] /\ \A d \in Containers : bound[d] => bound'[d]
      BY <3>1, <3>2
    <3> QED BY <3>1, <3>2, <3>3, <3>4
  <2> QED BY <2>1, <2>2
<1>5. \A c \in BatchContainers : pc[c] # "idle" => bound'[c]
  BY <1>4 DEF TypeInv, TypeOK, Containers
<1> QED BY <1>1, <1>2, <1>3, <1>4, <1>5 DEF TypeInv, TypeOK

\* A new container in the place of another.
LEMMA KillType ==
  ASSUME TypeInv, NEW c \in BatchContainers, Kill(c)
  PROVE  TypeInv'
<1>1. /\ UNCHANGED <<dbUp, attempts, stored, answered>>
      /\ pc' = [pc EXCEPT ![c] = "idle"]
      /\ work' = [work EXCEPT ![c] = NoWork]
      /\ leaked' = [leaked EXCEPT ![c] = 0]
      /\ setupError' = [setupError EXCEPT ![c] = ~dbUp]
      /\ bound' = [bound EXCEPT ![c] = dbUp]
  BY DEF Kill
<1>2. /\ leaked' \in [BatchContainers -> Nat]
      /\ \A d \in BatchContainers : leaked'[d] <= leaked[d] /\ leaked'[d] \in 0 .. MaxConns
  BY <1>1 DEF TypeInv, TypeOK
<1>3. Open' <= MaxConns
  <2>1. InTx' \subseteq InTx
    BY <1>1 DEF InTx, TypeInv, TypeOK
  <2> QED BY <1>2, <2>1, OpenKept DEF TypeInv
<1>4. work' \in [BatchContainers -> WorkType]
  BY <1>1, NoWorkType DEF TypeInv
<1>5. /\ setupError' \in [Containers -> BOOLEAN]
      /\ bound' \in [Containers -> BOOLEAN]
      /\ \A d \in Containers : ~setupError'[d] => bound'[d]
  BY <1>1 DEF TypeInv, TypeOK, Containers
<1>6. pc' \in [BatchContainers -> Pcs]
  BY <1>1 DEF TypeInv, TypeOK, Pcs
<1>7. ASSUME NEW d \in BatchContainers
      PROVE  /\ work'[d].attempt \in 0 .. Len(attempts)
             /\ pc'[d] # "idle" => work'[d].attempt # 0 /\ bound'[d]
             /\ work'[d].id \in Ids /\ work'[d].gid \in Ids
  <2>1. CASE d = c
    <3>1. work'[d] = NoWork /\ pc'[d] = "idle"
      BY <1>1, <2>1 DEF TypeInv, TypeOK
    <3>2. 0 \in 0 .. Len(attempts)
      BY DEF TypeInv, TypeOK
    <3> QED BY <3>1, <3>2, NoWorkType DEF WorkType
  <2>2. CASE d # c
    BY <1>1, <2>2 DEF TypeInv, TypeOK
  <2> QED BY <2>1, <2>2
<1> QED BY <1>1, <1>2, <1>3, <1>4, <1>5, <1>6, <1>7 DEF TypeInv, TypeOK, Pcs

\* A batch is received.
LEMMA ReceiveType ==
  ASSUME TypeInv, NEW c \in BatchContainers, Receive(c)
  PROVE  TypeInv'
<1>1. /\ UNCHANGED <<dbUp, setupError, bound, leaked, answered>>
      /\ pc' = [pc EXCEPT ![c] = "origin"]
      /\ work' = [work EXCEPT ![c].attempt = Len(attempts) + 1]
      /\ bound[c]
  BY DEF Receive, TypeInv, TypeOK, Containers
<1>2. /\ attempts' \in Seq(Batches)
      /\ Len(attempts') = Len(attempts) + 1
      /\ Len(attempts) \in Nat
  BY DEF Receive, TypeInv, TypeOK
<1>3. Open' <= MaxConns
  <2>1. InTx' \subseteq InTx
    BY <1>1 DEF InTx, TypeInv, TypeOK
  <2>2. \A d \in BatchContainers : leaked[d] \in Nat
    BY DEF TypeInv
  <2>3. leaked' \in [BatchContainers -> Nat] /\ \A d \in BatchContainers : leaked'[d] <= leaked[d]
    BY <1>1, <2>2 DEF TypeInv
  <2> QED BY <2>1, <2>3, OpenKept DEF TypeInv
<1>4. /\ work' \in [BatchContainers -> WorkType]
      /\ work'[c].attempt = Len(attempts) + 1
      /\ \A d \in BatchContainers : d # c => work'[d] = work[d]
  <2>1. work \in [BatchContainers -> WorkType] /\ Len(attempts) + 1 \in Nat
    BY <1>2 DEF TypeInv
  <2>2. work' = [work EXCEPT ![c] = [work[c] EXCEPT !.attempt = Len(attempts) + 1]]
    BY <1>1
  <2>3. /\ [work[c] EXCEPT !.attempt = Len(attempts) + 1] \in WorkType
        /\ [work[c] EXCEPT !.attempt = Len(attempts) + 1].attempt = Len(attempts) + 1
    BY <2>1 DEF WorkType
  <2> QED BY <2>1, <2>2, <2>3
<1>5. pc' \in [BatchContainers -> Pcs] /\ \A d \in BatchContainers : d # c => pc'[d] = pc[d]
  BY <1>1 DEF TypeInv, TypeOK, Pcs
<1>6. ASSUME NEW d \in BatchContainers
      PROVE  /\ work'[d].attempt \in 0 .. Len(attempts')
             /\ pc'[d] # "idle" => work'[d].attempt # 0 /\ bound[d]
             /\ work'[d].id \in Ids /\ work'[d].gid \in Ids
  <2>1. work'[d].id \in Ids /\ work'[d].gid \in Ids
    BY <1>4 DEF WorkType
  <2>2. CASE d = c
    BY <1>1, <1>2, <1>4, <2>1, <2>2
  <2>3. CASE d # c
    BY <1>2, <1>4, <1>5, <2>1, <2>3 DEF TypeInv, TypeOK
  <2> QED BY <2>2, <2>3
<1>7. answered' \subseteq 1 .. Len(attempts')
  BY <1>1, <1>2 DEF TypeInv, TypeOK
<1> QED BY <1>1, <1>2, <1>3, <1>4, <1>5, <1>6, <1>7 DEF TypeInv, TypeOK, Pcs

\* The batch of a call, and its addresses.
LEMMA BatchType ==
  ASSUME TypeOK, NEW c \in BatchContainers, pc[c] # "idle"
  PROVE  /\ work[c].attempt \in 1 .. Len(attempts)
         /\ Batch(c) \in Batches /\ Batch(c) \in Seq(Addresses)
         /\ Len(Batch(c)) \in Nat
         /\ \A k \in 1 .. Len(Batch(c)) : Batch(c)[k] \in Addresses
<1>1. /\ work[c].attempt \in 0 .. Len(attempts) /\ work[c].attempt # 0
      /\ attempts \in Seq(Batches) /\ Len(attempts) \in Nat
  BY DEF TypeOK
<1>2. work[c].attempt \in 1 .. Len(attempts) /\ Batch(c) \in Batches
  BY <1>1 DEF Batch
<1> QED BY <1>2

\* What an iteration makes of the variables of its call.
Filled(c, id) ==
  [work[c] EXCEPT !.i = work[c].i + 1, !.id = id,
                  !.known = work[c].known \cup {Batch(c)[work[c].i]},
                  !.rows = Append(work[c].rows, RowOf(c, id))]

\* Fills yields it.
LEMMA FillsWork ==
  ASSUME TypeInv, NEW c \in BatchContainers, NEW id \in Ids, InLoop(c), Fills(c, id)
  PROVE  /\ work[c].i \in Nat \ {0} /\ work[c].rows \in Seq(RowType)
         /\ Filled(c, id) \in WorkType
         /\ Filled(c, id).attempt = work[c].attempt
         /\ Filled(c, id).gid = work[c].gid
         /\ Filled(c, id).i = work[c].i + 1
         /\ Filled(c, id).id = id
         /\ Filled(c, id).known = work[c].known \cup {Batch(c)[work[c].i]}
         /\ Filled(c, id).rows = Append(work[c].rows, RowOf(c, id))
         /\ work' = [work EXCEPT ![c] = Filled(c, id)]
         /\ work[c].i \in 1 .. Len(Batch(c))
<1>1. /\ work \in [BatchContainers -> WorkType]
      /\ work[c] \in WorkType
      /\ work[c].i \in Nat \ {0} /\ work[c].rows \in Seq(RowType)
      /\ work[c].gid \in Ids /\ work[c].known \in SUBSET Addresses
      /\ work[c].attempt \in Nat
  BY DEF TypeInv, WorkType
<1>2. /\ work[c].i \in 1 .. Len(Batch(c))
      /\ Batch(c)[work[c].i] \in Addresses
  BY <1>1, BatchType DEF InLoop, TypeInv
<1>3. RowOf(c, id) \in RowType
  BY <1>1, <1>2 DEF RowOf, RowType
<1>4. /\ work[c].i + 1 \in Nat \ {0}
      /\ work[c].known \cup {Batch(c)[work[c].i]} \in SUBSET Addresses
      /\ Append(work[c].rows, RowOf(c, id)) \in Seq(RowType)
  BY <1>1, <1>2, <1>3
<1>5. work' = [work EXCEPT ![c] = Filled(c, id)]
  BY DEF Fills, Filled
<1> DEFINE w == work[c]
           j == work[c].i + 1
           known == work[c].known \cup {Batch(c)[work[c].i]}
           rows == Append(work[c].rows, RowOf(c, id))
<1>6. w \in WorkType /\ j \in Nat \ {0} /\ known \in SUBSET Addresses /\ rows \in Seq(RowType)
  BY <1>1, <1>4
<1>7. Filled(c, id) = [w EXCEPT !.i = j, !.id = id, !.known = known, !.rows = rows]
  BY DEF Filled
<1> HIDE DEF w, j, known, rows
<1>8. /\ Filled(c, id) \in WorkType
      /\ Filled(c, id).attempt = w.attempt /\ Filled(c, id).gid = w.gid
      /\ Filled(c, id).i = j /\ Filled(c, id).id = id
      /\ Filled(c, id).known = known /\ Filled(c, id).rows = rows
  BY <1>6, <1>7 DEF WorkType
<1> QED BY <1>1, <1>2, <1>5, <1>8 DEF w, j, known, rows

\* A step of the loop.
LEMMA FillsType ==
  ASSUME TypeInv, NEW c \in BatchContainers, NEW id \in Ids, InLoop(c), Fills(c, id),
         UNCHANGED <<dbUp, setupError, bound, pc, leaked, attempts, answered>>
  PROVE  TypeInv'
<1>1. pc[c] = "loop" /\ pc' = [pc EXCEPT ![c] = "loop"]
  BY DEF InLoop, TypeInv, TypeOK
<1>2. /\ "loop" \in Pcs /\ "loop" \notin {"copy", "commit"}
      /\ work[c].attempt \in 0 .. Len(attempts)
      /\ work[c].attempt # 0 /\ bound[c]
      /\ answered' \subseteq 1 .. Len(attempts)
  BY <1>1 DEF Pcs, TypeInv, TypeOK
<1>3. /\ Filled(c, id) \in WorkType
      /\ Filled(c, id).attempt = work[c].attempt
      /\ work' = [work EXCEPT ![c] = Filled(c, id)]
  BY FillsWork
<1> QED BY <1>1, <1>2, <1>3, PlainType

\* A step that moves a call to another place.
LEMMA MoveType ==
  ASSUME TypeInv, NEW c \in BatchContainers, NEW p \in Pcs,
         pc[c] # "idle", pc' = [pc EXCEPT ![c] = p],
         p \in {"copy", "commit"} => pc[c] \in {"copy", "commit"},
         UNCHANGED <<dbUp, setupError, bound, work, leaked, attempts, answered>>
  PROVE  TypeInv'
<1>1. /\ work[c] \in WorkType /\ work' = [work EXCEPT ![c] = work[c]]
      /\ work[c].attempt \in 0 .. Len(attempts)
      /\ work[c].attempt # 0 /\ bound[c]
      /\ answered' \subseteq 1 .. Len(attempts)
  BY DEF TypeInv, TypeOK
<1> QED BY <1>1, PlainType

\* HandleBatch down to the transaction.
LEMMA LoopType ==
  ASSUME TypeInv, NEW c \in BatchContainers,
         ResolveOrigin(c) \/ BlankAddr(c) \/ KnownAddr(c) \/ NewAddr(c)
  PROVE  TypeInv'
<1>0. answered \subseteq 1 .. Len(attempts)
  BY DEF TypeInv, TypeOK
<1>1. CASE ResolveOrigin(c)
  <2>1. CASE Fails(c)
    BY <1>0, <1>1, <2>1, ReturnsType DEF ResolveOrigin, Fails
  <2>2. CASE ~Fails(c)
    <3>1. /\ pc[c] = "origin" /\ pc' = [pc EXCEPT ![c] = "loop"]
          /\ work' = [work EXCEPT ![c].gid = Origin]
          /\ UNCHANGED <<dbUp, setupError, bound, leaked, attempts, answered>>
      BY <1>1, <2>2 DEF ResolveOrigin
    <3>2. /\ [work[c] EXCEPT !.gid = Origin] \in WorkType
          /\ [work[c] EXCEPT !.gid = Origin].attempt = work[c].attempt
      BY DEF TypeInv, WorkType, Ids
    <3>3. /\ "loop" \in Pcs /\ "loop" \notin {"copy", "commit"}
          /\ work[c].attempt \in 0 .. Len(attempts)
          /\ work[c].attempt # 0 /\ bound[c]
      BY <3>1 DEF Pcs, TypeInv, TypeOK
    <3> QED BY <1>0, <3>1, <3>2, <3>3, PlainType
  <2> QED BY <2>1, <2>2
<1>2. CASE BlankAddr(c)
  BY <1>0, <1>2, ReturnsType DEF BlankAddr, Fails
<1>3. CASE KnownAddr(c)
  <2>1. work[c].id \in Ids
    BY DEF TypeInv, TypeOK
  <2> QED BY <1>3, <2>1, FillsType DEF KnownAddr
<1>4. CASE NewAddr(c)
  <2>1. CASE Fails(c)
    BY <1>0, <1>4, <2>1, ReturnsType DEF NewAddr, Fails
  <2>2. CASE ~Fails(c)
    <3>0. work[c].i \in Nat \ {0}
      BY DEF TypeInv, WorkType
    <3>1. InLoop(c) /\ Batch(c)[work[c].i] \in Ids
      BY <1>4, <3>0, BatchType DEF NewAddr, InLoop, Ids, TypeInv
    <3> QED BY <1>4, <2>2, <3>1, FillsType DEF NewAddr
  <2> QED BY <2>1, <2>2
<1> QED BY <1>1, <1>2, <1>3, <1>4

\* RecordBatchEvents.
LEMMA TransactionType ==
  ASSUME TypeInv, NEW c \in BatchContainers, Begin(c) \/ Copy(c) \/ Commit(c)
  PROVE  TypeInv'
<1>0. /\ answered \subseteq 1 .. Len(attempts)
      /\ {"copy", "commit"} \subseteq Pcs
  BY DEF TypeInv, TypeOK, Pcs
<1>1. CASE Begin(c)
  <2>1. CASE Fails(c)
    BY <1>0, <1>1, <2>1, ReturnsType DEF Begin, Fails
  <2>2. CASE ~Fails(c)
    <3>1. /\ pc[c] = "loop" /\ pc' = [pc EXCEPT ![c] = "copy"]
          /\ Open < MaxConns
          /\ UNCHANGED <<dbUp, setupError, bound, attempts, work, leaked, answered>>
      BY <1>1, <2>2 DEF Begin
    <3>2. InTx' = InTx \cup {c} /\ c \notin InTx
      BY <3>1 DEF InTx, TypeInv, TypeOK
    <3>3. Cardinality(InTx') = Cardinality(InTx) + 1
      BY <3>2, InTxFinite, FS_AddElement
    <3>4. Open' = Sum(leaked, BatchContainers) + Cardinality(InTx')
      <4>1. (Open = Sum(leaked, BatchContainers) + Cardinality(InTx))'
        BY OpenIs, PTL
      <4> QED BY <3>1, <4>1
    <3>5. Sum(leaked, BatchContainers) \in Nat
      <4>1. \A x \in BatchContainers : leaked[x] <= leaked[x] + (IF x = 0 THEN 0 ELSE 0)
        BY DEF TypeInv
      <4> QED BY <4>1, SumCompare DEF TypeInv
    <3>6. Open' <= MaxConns
      BY <3>1, <3>3, <3>4, <3>5, OpenIs, InTxFinite
    <3>7. /\ work[c] \in WorkType /\ work' = [work EXCEPT ![c] = work[c]]
          /\ work[c].attempt \in 0 .. Len(attempts)
          /\ work[c].attempt # 0 /\ bound[c]
          /\ leaked' \in [BatchContainers -> Nat]
      BY <3>1 DEF TypeInv, TypeOK
    <3> QED BY <1>0, <3>1, <3>6, <3>7, StepType
  <2> QED BY <2>1, <2>2
<1>2. CASE Copy(c)
  <2>1. /\ pc[c] = "copy"
        /\ UNCHANGED <<dbUp, setupError, bound, attempts, answered>>
    BY <1>2 DEF Copy
  <2>2. CASE pc' = [pc EXCEPT ![c] = "commit"] /\ UNCHANGED <<work, leaked>>
    BY <1>0, <2>1, <2>2, MoveType
  <2>3. CASE /\ Returns(c)
             /\ leaked' = IF dbUp THEN [leaked EXCEPT ![c] = @ + 1] ELSE leaked
    <3>1. /\ leaked \in [BatchContainers -> Nat] /\ leaked' \in [BatchContainers -> Nat]
          /\ \A x \in BatchContainers :
               leaked'[x] <= leaked[x] + (IF x = c THEN 1 ELSE 0)
      BY <2>3 DEF TypeInv
    <3>2. InTx' \subseteq InTx /\ c \in InTx /\ c \notin InTx'
      BY <2>1, <2>3 DEF InTx, Returns, TypeInv, TypeOK
    <3>3. Open' <= MaxConns
      BY <3>1, <3>2, OpenBound DEF TypeInv
    <3>4. /\ "idle" \in Pcs /\ NoWork \in WorkType
          /\ NoWork.attempt \in 0 .. Len(attempts)
      BY NoWorkType DEF Pcs, TypeInv, TypeOK
    <3>5. /\ pc' = [pc EXCEPT ![c] = "idle"]
          /\ work' = [work EXCEPT ![c] = NoWork]
      BY <2>3 DEF Returns
    <3> QED BY <1>0, <2>1, <3>1, <3>3, <3>4, <3>5, StepType
  <2> QED BY <1>2, <2>2, <2>3 DEF Copy
<1>3. CASE Commit(c)
  <2>1. work[c].attempt \in 1 .. Len(attempts)
    BY <1>3, BatchType DEF Commit, TypeInv
  <2>2. answered' \subseteq 1 .. Len(attempts)
    BY <1>0, <1>3, <2>1 DEF Commit, Answers
  <2> QED BY <1>3, <2>2, ReturnsType DEF Commit
<1> QED BY <1>1, <1>2, <1>3

\* Every step keeps the types.
LEMMA TypeNext == TypeInv /\ [Next]_vars => TypeInv'
<1> SUFFICES ASSUME TypeInv, [Next]_vars PROVE TypeInv'
  OBVIOUS
<1>1. CASE UNCHANGED vars
  <2>1. UNCHANGED Open
    <3>1. InTx' = InTx /\ leaked' = leaked
      BY <1>1 DEF vars, InTx
    <3>2. (Open = Sum(leaked, BatchContainers) + Cardinality(InTx))'
      BY OpenIs, PTL
    <3> QED BY <3>1, <3>2, OpenIs
  <2> QED BY <1>1, <2>1 DEF vars, TypeInv, TypeOK
<1> QED BY <1>1, SetupType, KillType, ReceiveType, LoopType, TransactionType
        DEF Next, BatchStep

\* Every variable keeps its type; no call works on clients without a
\* database, and the transactions that failed calls leave open never exceed
\* the connections.
THEOREM TypeCorrect == Spec => []TypeOK
<1>1. TypeInv => TypeOK
  BY DEF TypeInv
<1> QED BY <1>1, TypeInit, TypeNext, PTL DEF Spec

-----------------------------------------------------------------------------
(***************************************************************************)
(* What is stored                                                          *)
(***************************************************************************)

\* A call in progress has filled in the events before i, each with its own
\* address, and nothing of its batch is stored or answered.
CallOf(c) ==
  /\ pc[c] = "idle" => work[c] = NoWork
  /\ pc[c] # "idle" =>
       /\ work[c].i \in 1 .. Len(Batch(c)) + 1
       /\ Len(work[c].rows) = work[c].i - 1
       /\ \A k \in 1 .. Len(work[c].rows) : work[c].rows[k].remote = Batch(c)[k]
       /\ pc[c] = "origin" => work[c].i = 1
       /\ pc[c] \in {"copy", "commit"} => work[c].i = Len(Batch(c)) + 1
       /\ RowsStored(work[c].attempt) = {}
       /\ work[c].attempt \notin answered

\* Two calls work on two batches.
OwnAttempts ==
  \A c, d \in BatchContainers :
    c # d /\ pc[c] # "idle" /\ pc[d] # "idle" => work[c].attempt # work[d].attempt

\* Every row belongs to an event of a batch and has its address, every event
\* has at most one row, and it has one if another event of its batch has one.
TableInv ==
  /\ \A r \in stored : /\ r.attempt \in 1 .. Len(attempts)
                       /\ r.at \in 1 .. Len(attempts[r.attempt])
                       /\ r.row.remote = attempts[r.attempt][r.at]
  /\ \A r, s \in stored : r.attempt = s.attempt /\ r.at = s.at => r = s
  /\ \A r \in stored : \A k \in 1 .. Len(attempts[r.attempt]) :
       \E s \in stored : s.attempt = r.attempt /\ s.at = k

StoreInv ==
  /\ \A c \in BatchContainers : CallOf(c)
  /\ OwnAttempts
  /\ TableInv
  /\ AnsweredIsStored

\* Nothing is stored or answered at the start.
LEMMA StoreInit == Init => StoreInv
  BY DEF Init, StoreInv, CallOf, OwnAttempts, TableInv, AnsweredIsStored

\* A step of one call that stores and answers nothing.
LEMMA StoreKept ==
  ASSUME StoreInv, NEW c \in BatchContainers,
         UNCHANGED <<attempts, stored, answered>>,
         \A d \in BatchContainers : d # c => pc'[d] = pc[d] /\ work'[d] = work[d],
         pc'[c] # "idle" => pc[c] # "idle" /\ work'[c].attempt = work[c].attempt,
         CallOf(c)'
  PROVE  StoreInv'
<1>1. ASSUME NEW d \in BatchContainers, d # c PROVE CallOf(d)'
  <2>1. CallOf(d) /\ pc'[d] = pc[d] /\ work'[d] = work[d]
    BY <1>1 DEF StoreInv
  <2> QED BY <2>1 DEF CallOf, Batch, RowsStored
<1>2. OwnAttempts'
  BY DEF StoreInv, OwnAttempts
<1>3. TableInv' /\ AnsweredIsStored'
  BY DEF StoreInv, TableInv, AnsweredIsStored, RowsStored
<1> QED BY <1>1, <1>2, <1>3 DEF StoreInv

\* A call that ends without storing its batch.
LEMMA ReturnsStore ==
  ASSUME TypeInv, StoreInv, NEW c \in BatchContainers, Returns(c),
         UNCHANGED <<attempts, stored, answered>>
  PROVE  StoreInv'
<1>1. /\ pc'[c] = "idle" /\ work'[c] = NoWork
      /\ \A d \in BatchContainers : d # c => pc'[d] = pc[d] /\ work'[d] = work[d]
  BY DEF Returns, TypeInv, TypeOK
<1>2. CallOf(c)'
  BY <1>1 DEF CallOf
<1> QED BY <1>1, <1>2, StoreKept

\* The end of an iteration.
LEMMA FillsStore ==
  ASSUME TypeInv, StoreInv, NEW c \in BatchContainers, NEW id \in Ids,
         InLoop(c), Fills(c, id), UNCHANGED <<pc, attempts, stored, answered>>
  PROVE  StoreInv'
<1> DEFINE w == work[c]
           v == Filled(c, id)
           b == Batch(c)
<1>1. /\ w.i \in Nat \ {0} /\ w.rows \in Seq(RowType)
      /\ v.attempt = w.attempt /\ v.i = w.i + 1
      /\ v.rows = Append(w.rows, RowOf(c, id))
      /\ w.i \in 1 .. Len(b)
      /\ work' = [work EXCEPT ![c] = v]
  BY FillsWork
<1>2. /\ work'[c] = v
      /\ \A d \in BatchContainers : d # c => work'[d] = work[d]
  BY <1>1 DEF TypeInv
<1>3. pc[c] = "loop" /\ pc'[c] = "loop"
  BY DEF InLoop
<1>4. /\ Len(w.rows) = w.i - 1
      /\ \A k \in 1 .. Len(w.rows) : w.rows[k].remote = b[k]
      /\ RowsStored(w.attempt) = {} /\ w.attempt \notin answered
  BY <1>3 DEF StoreInv, CallOf
<1>5. Len(b) \in Nat /\ b = attempts[w.attempt]
  BY <1>3, BatchType DEF TypeInv, Batch
<1>6. RowOf(c, id).remote = b[w.i]
  BY DEF RowOf
<1>7. Batch(c)' = b
  BY <1>1, <1>2, <1>5 DEF Batch
<1> HIDE DEF w, v, b
<1>8. /\ v.i \in 1 .. Len(b) + 1
      /\ Len(v.rows) = v.i - 1
  <2>1. Len(v.rows) = Len(w.rows) + 1 /\ Len(w.rows) \in Nat
    BY <1>1
  <2>2. w.i \in Nat /\ w.i >= 1 /\ w.i <= Len(b) /\ v.i = w.i + 1
    BY <1>1, <1>5
  <2> QED BY <1>4, <1>5, <2>1, <2>2
<1>9. ASSUME NEW k \in 1 .. Len(v.rows) PROVE v.rows[k].remote = b[k]
  <2>1. CASE k = w.i
    BY <1>1, <1>4, <1>6, <2>1
  <2>2. CASE k # w.i
    <3>1. k \in 1 .. Len(w.rows) /\ v.rows[k] = w.rows[k]
      BY <1>1, <1>4, <2>2
    <3> QED BY <1>4, <3>1
  <2> QED BY <2>1, <2>2
<1>10. RowsStored(work[c].attempt)' = {} /\ work'[c].attempt \notin answered'
  BY <1>1, <1>2, <1>4 DEF RowsStored
<1>11. CallOf(c)'
  BY <1>2, <1>3, <1>7, <1>8, <1>9, <1>10 DEF CallOf
<1> QED BY <1>1, <1>2, <1>3, <1>11, StoreKept DEF w

\* Everything before the transaction.
LEMMA LoopStore ==
  ASSUME TypeInv, StoreInv, NEW c \in BatchContainers,
         ResolveOrigin(c) \/ BlankAddr(c) \/ KnownAddr(c) \/ NewAddr(c) \/ Begin(c)
  PROVE  StoreInv'
<1>1. CASE ResolveOrigin(c)
  <2>1. CASE Fails(c)
    BY <1>1, <2>1, ReturnsStore DEF ResolveOrigin, Fails
  <2>2. CASE ~Fails(c)
    <3>1. /\ pc[c] = "origin" /\ pc' = [pc EXCEPT ![c] = "loop"]
          /\ work' = [work EXCEPT ![c].gid = Origin]
          /\ UNCHANGED <<attempts, stored, answered>>
      BY <1>1, <2>2 DEF ResolveOrigin
    <3>2. /\ pc'[c] = "loop"
          /\ \A d \in BatchContainers : d # c => pc'[d] = pc[d] /\ work'[d] = work[d]
          /\ work'[c].attempt = work[c].attempt
          /\ work'[c].i = work[c].i /\ work'[c].rows = work[c].rows
      BY <3>1 DEF TypeInv, TypeOK, WorkType
    <3>3. CallOf(c)
      BY DEF StoreInv
    <3>4. CallOf(c)'
      BY <3>1, <3>2, <3>3 DEF CallOf, Batch, RowsStored
    <3> QED BY <3>1, <3>2, <3>4, StoreKept
  <2> QED BY <2>1, <2>2
<1>2. CASE BlankAddr(c)
  BY <1>2, ReturnsStore DEF BlankAddr, Fails
<1>3. CASE KnownAddr(c)
  <2>1. work[c].id \in Ids
    BY DEF TypeInv, TypeOK
  <2> QED BY <1>3, <2>1, FillsStore DEF KnownAddr
<1>4. CASE NewAddr(c)
  <2>1. CASE Fails(c)
    BY <1>4, <2>1, ReturnsStore DEF NewAddr, Fails
  <2>2. CASE ~Fails(c)
    <3>0. work[c].i \in Nat \ {0}
      BY DEF TypeInv, WorkType
    <3>1. InLoop(c) /\ Batch(c)[work[c].i] \in Ids
      BY <1>4, <3>0, BatchType DEF NewAddr, InLoop, Ids, TypeInv
    <3> QED BY <1>4, <2>2, <3>1, FillsStore DEF NewAddr
  <2> QED BY <2>1, <2>2
<1>5. CASE Begin(c)
  <2>1. CASE Fails(c)
    BY <1>5, <2>1, ReturnsStore DEF Begin, Fails
  <2>2. CASE ~Fails(c)
    <3>1. /\ pc[c] = "loop" /\ work[c].i > Len(Batch(c))
          /\ pc' = [pc EXCEPT ![c] = "copy"]
          /\ UNCHANGED <<work, attempts, stored, answered>>
      BY <1>5, <2>2 DEF Begin
    <3>2. /\ pc'[c] = "copy"
          /\ \A d \in BatchContainers : d # c => pc'[d] = pc[d]
      BY <3>1 DEF TypeInv, TypeOK
    <3>3. CallOf(c) /\ Len(Batch(c)) \in Nat
      BY <3>1, BatchType DEF StoreInv, TypeInv
    <3>4. /\ Batch(c)' = Batch(c)
          /\ RowsStored(work[c].attempt)' = RowsStored(work[c].attempt)
      BY <3>1 DEF Batch, RowsStored
    <3>5. work[c].i = Len(Batch(c)) + 1
      BY <3>1, <3>3 DEF CallOf
    <3>6. CallOf(c)'
      BY <3>1, <3>2, <3>3, <3>4, <3>5 DEF CallOf
    <3> QED BY <3>1, <3>2, <3>6, StoreKept
  <2> QED BY <2>1, <2>2
<1> QED BY <1>1, <1>2, <1>3, <1>4, <1>5

\* A batch is received.
LEMMA ReceiveStore ==
  ASSUME TypeInv, StoreInv, NEW c \in BatchContainers, Receive(c)
  PROVE  StoreInv'
<1> DEFINE n == Len(attempts) + 1
<1>1. /\ n \in Nat /\ Len(attempts) \in Nat
      /\ Len(attempts') = n
      /\ \A k \in 1 .. Len(attempts) : attempts'[k] = attempts[k]
      /\ attempts' \in Seq(Batches)
      /\ UNCHANGED <<stored, answered>>
      /\ pc[c] = "idle"
  BY DEF Receive, TypeInv, TypeOK
<1>2. /\ pc'[c] = "origin"
      /\ work'[c].attempt = n /\ work'[c].i = work[c].i /\ work'[c].rows = work[c].rows
      /\ \A d \in BatchContainers : d # c => pc'[d] = pc[d] /\ work'[d] = work[d]
  BY DEF Receive, TypeInv, TypeOK, WorkType
<1>3. work[c].i = 1 /\ work[c].rows = <<>>
  BY <1>1 DEF StoreInv, CallOf, NoWork
<1>4. answered \subseteq 1 .. Len(attempts)
  BY DEF TypeInv, TypeOK
<1>5. \A r \in stored : r.attempt \in 1 .. Len(attempts)
  BY DEF StoreInv, TableInv
<1>6. CallOf(c)'
  <2>1. Len(attempts'[n]) \in Nat
    BY <1>1
  <2>2. RowsStored(work[c].attempt)' = {} /\ n \notin answered'
    BY <1>1, <1>2, <1>4, <1>5 DEF RowsStored
  <2> QED BY <1>1, <1>2, <1>3, <2>1, <2>2 DEF CallOf, Batch
<1>7. ASSUME NEW d \in BatchContainers, d # c PROVE CallOf(d)'
  <2>1. pc'[d] = pc[d] /\ work'[d] = work[d] /\ CallOf(d)
    BY <1>2, <1>7 DEF StoreInv
  <2>2. CASE pc[d] = "idle"
    BY <2>1, <2>2 DEF CallOf
  <2>3. CASE pc[d] # "idle"
    <3>1. Batch(d)' = Batch(d)
      BY <1>1, <2>1, <2>3, BatchType DEF Batch, TypeInv
    <3>2. RowsStored(work[d].attempt)' = RowsStored(work[d].attempt)
      BY <1>1, <2>1 DEF RowsStored
    <3> QED BY <1>1, <2>1, <2>3, <3>1, <3>2 DEF CallOf
  <2> QED BY <2>2, <2>3
<1>8. OwnAttempts'
  <2>1. ASSUME NEW d \in BatchContainers, pc[d] # "idle" PROVE work[d].attempt # n
    BY <1>1, <2>1, BatchType DEF TypeInv
  <2> QED BY <1>2, <2>1 DEF StoreInv, OwnAttempts
<1>9. TableInv'
  <2>1. \A r \in stored : attempts'[r.attempt] = attempts[r.attempt] /\ r.attempt \in 1 .. n
    BY <1>1, <1>5
  <2>2. TableInv /\ stored' = stored /\ Len(attempts') = n
    BY <1>1 DEF StoreInv
  <2> HIDE DEF n
  <2> QED BY <2>1, <2>2 DEF TableInv
<1>10. AnsweredIsStored'
  <2> SUFFICES ASSUME NEW m \in answered, NEW k \in 1 .. Len(attempts'[m])
               PROVE  \E r \in RowsStored(m)' : r.at = k /\ r.row.remote = attempts'[m][k]
    BY <1>1 DEF AnsweredIsStored, RowsStored
  <2>1. attempts'[m] = attempts[m]
    BY <1>1, <1>4
  <2> QED BY <1>1, <2>1 DEF StoreInv, AnsweredIsStored, RowsStored
<1> QED BY <1>6, <1>7, <1>8, <1>9, <1>10 DEF StoreInv

\* A batch enters the table.
LEMMA CommitStore ==
  ASSUME TypeInv, StoreInv, NEW c \in BatchContainers, Commit(c)
  PROVE  StoreInv'
<1> DEFINE n == work[c].attempt
           b == Batch(c)
           rows == work[c].rows
           Row(k) == [attempt |-> n, at |-> k, row |-> rows[k]]
<1>1. CASE UNCHANGED <<stored, answered>>
  BY <1>1, ReturnsStore DEF Commit
<1>2. CASE stored' = stored \cup RowsOf(c)
  <2>1. /\ pc[c] = "commit" /\ Returns(c) /\ UNCHANGED attempts
        /\ answered' = answered \/ answered' = answered \cup {n}
    BY <1>2 DEF Commit, Answers
  <2>2. /\ n \in 1 .. Len(attempts) /\ b = attempts[n] /\ Len(b) \in Nat
        /\ Len(rows) = Len(b)
        /\ \A k \in 1 .. Len(b) : rows[k].remote = b[k]
        /\ \A r \in stored : r.attempt # n
        /\ n \notin answered
    <3>1. n \in 1 .. Len(attempts) /\ b = attempts[n] /\ Len(b) \in Nat
      BY <2>1, BatchType DEF TypeInv, Batch
    <3>2. /\ pc[c] # "idle" /\ work[c].i = Len(Batch(c)) + 1
          /\ Len(rows) = work[c].i - 1
          /\ \A k \in 1 .. Len(rows) : rows[k].remote = b[k]
          /\ RowsStored(n) = {} /\ n \notin answered
      BY <2>1 DEF StoreInv, CallOf
    <3>3. Len(rows) = Len(b)
      BY <3>1, <3>2
    <3> QED BY <3>1, <3>2, <3>3 DEF RowsStored
  <2>3. stored' = stored \cup {Row(k) : k \in 1 .. Len(b)}
    BY <1>2, <2>2 DEF RowsOf
  <2>4. /\ pc'[c] = "idle" /\ work'[c] = NoWork
        /\ \A d \in BatchContainers : d # c => pc'[d] = pc[d] /\ work'[d] = work[d]
    BY <2>1 DEF Returns, TypeInv, TypeOK
  <2>5. ASSUME NEW k \in 1 .. Len(b)
        PROVE  /\ Row(k).attempt = n /\ Row(k).at = k /\ Row(k).row.remote = attempts[n][k]
               /\ Row(k) \in stored'
    BY <2>2, <2>3
  <2> HIDE DEF Row, rows
  <2>6. ASSUME NEW d \in BatchContainers PROVE CallOf(d)'
    <3>1. CASE d = c
      BY <2>4, <3>1 DEF CallOf
    <3>2. CASE d # c
      <4>1. pc'[d] = pc[d] /\ work'[d] = work[d] /\ CallOf(d)
        BY <2>4, <3>2 DEF StoreInv
      <4>2. CASE pc[d] = "idle"
        BY <4>1, <4>2 DEF CallOf
      <4>3. CASE pc[d] # "idle"
        <5>1. work[d].attempt # n
          BY <2>1, <3>2, <4>3 DEF StoreInv, OwnAttempts
        <5>2. Batch(d)' = Batch(d)
          BY <2>1, <4>1 DEF Batch
        <5>3. \A r \in stored : r.attempt # work[d].attempt
          BY <4>1, <4>3 DEF CallOf, RowsStored
        <5>4. RowsStored(work[d].attempt)' = {}
          BY <2>3, <2>5, <4>1, <5>1, <5>3 DEF RowsStored
        <5>5. work[d].attempt \notin answered'
          BY <2>1, <4>1, <4>3, <5>1 DEF CallOf
        <5> QED BY <4>1, <4>3, <5>2, <5>4, <5>5 DEF CallOf
      <4> QED BY <4>2, <4>3
    <3> QED BY <3>1, <3>2
  <2>7. OwnAttempts'
    BY <2>4 DEF StoreInv, OwnAttempts
  <2>8. TableInv'
    <3>1. ASSUME NEW r \in stored'
          PROVE  /\ r.attempt \in 1 .. Len(attempts)
                 /\ r.at \in 1 .. Len(attempts[r.attempt])
                 /\ r.row.remote = attempts[r.attempt][r.at]
      <4>1. CASE r \in stored
        BY <4>1 DEF StoreInv, TableInv
      <4>2. ASSUME NEW k \in 1 .. Len(b), r = Row(k)
            PROVE  <3>1!2
        BY <2>2, <2>5, <4>2
      <4> QED BY <2>3, <4>1, <4>2
    <3>2. ASSUME NEW r \in stored', NEW s \in stored',
                 r.attempt = s.attempt, r.at = s.at
          PROVE  r = s
      <4>1. CASE r \in stored /\ s \in stored
        BY <3>2, <4>1 DEF StoreInv, TableInv
      <4>2. ASSUME NEW k \in 1 .. Len(b), r = Row(k), NEW j \in 1 .. Len(b), s = Row(j)
            PROVE  r = s
        <5>1. k = j
          BY <2>5, <3>2, <4>2
        <5> QED BY <4>2, <5>1
      <4>3. ASSUME NEW k \in 1 .. Len(b), r = Row(k), s \in stored PROVE FALSE
        BY <2>2, <2>5, <3>2, <4>3
      <4>4. ASSUME NEW k \in 1 .. Len(b), s = Row(k), r \in stored PROVE FALSE
        BY <2>2, <2>5, <3>2, <4>4
      <4> QED BY <2>3, <4>1, <4>2, <4>3, <4>4
    <3>3. ASSUME NEW r \in stored', NEW k \in 1 .. Len(attempts[r.attempt])
          PROVE  \E s \in stored' : s.attempt = r.attempt /\ s.at = k
      <4>1. CASE r \in stored
        <5>1. \E s \in stored : s.attempt = r.attempt /\ s.at = k
          BY <3>3, <4>1 DEF StoreInv, TableInv
        <5> QED BY <2>3, <5>1
      <4>2. CASE r.attempt = n
        BY <2>2, <2>5, <4>2
      <4> QED BY <2>3, <2>5, <4>1, <4>2
    <3> QED BY <2>1, <3>1, <3>2, <3>3 DEF TableInv
  <2>9. AnsweredIsStored'
    <3> SUFFICES ASSUME NEW m \in answered', NEW k \in 1 .. Len(attempts[m])
                 PROVE  \E r \in stored' : /\ r.attempt = m /\ r.at = k
                                           /\ r.row.remote = attempts[m][k]
      BY <2>1 DEF AnsweredIsStored, RowsStored
    <3>1. CASE m \in answered
      BY <2>3, <3>1 DEF StoreInv, AnsweredIsStored, RowsStored
    <3>2. CASE m = n
      BY <2>2, <2>5, <3>2
    <3> QED BY <2>1, <3>1, <3>2
  <2> QED BY <2>6, <2>7, <2>8, <2>9 DEF StoreInv
<1> QED BY <1>1, <1>2 DEF Commit, Answers

\* Every step keeps what is known of the store and of the calls.
LEMMA StoreNext == TypeInv /\ StoreInv /\ [Next]_vars => StoreInv'
<1> SUFFICES ASSUME TypeInv, StoreInv, [Next]_vars PROVE StoreInv'
  OBVIOUS
<1>1. ASSUME UNCHANGED <<pc, work, attempts, stored, answered>> PROVE StoreInv'
  <2>1. ASSUME NEW c \in BatchContainers PROVE CallOf(c)'
    <3>1. CallOf(c)
      BY DEF StoreInv
    <3> QED BY <1>1, <3>1 DEF CallOf, Batch, RowsStored
  <2>2. OwnAttempts' /\ TableInv' /\ AnsweredIsStored'
    BY <1>1 DEF StoreInv, OwnAttempts, TableInv, AnsweredIsStored, RowsStored
  <2> QED BY <2>1, <2>2 DEF StoreInv
<1>2. CASE DbDown \/ DbUp \/ UNCHANGED vars
  BY <1>1, <1>2 DEF DbDown, DbUp, vars
<1>3. ASSUME NEW c \in Containers, Requests(c) PROVE StoreInv'
  BY <1>1, <1>3 DEF Requests, HandleAfterError, BatchAfterError
<1>4. ASSUME NEW c \in BatchContainers, Kill(c) PROVE StoreInv'
  BY <1>4, ReturnsStore DEF Kill, Returns
<1>5. ASSUME NEW c \in BatchContainers, Copy(c) PROVE StoreInv'
  <2>1. UNCHANGED <<attempts, stored, answered>> /\ pc[c] = "copy"
    BY <1>5 DEF Copy, InTransaction
  <2>2. CASE Returns(c)
    BY <2>1, <2>2, ReturnsStore
  <2>3. CASE pc' = [pc EXCEPT ![c] = "commit"] /\ UNCHANGED work
    <3>1. /\ pc'[c] = "commit"
          /\ \A d \in BatchContainers : d # c => pc'[d] = pc[d]
      BY <2>3 DEF TypeInv, TypeOK
    <3>2. CallOf(c)
      BY DEF StoreInv
    <3>3. /\ Batch(c)' = Batch(c)
          /\ RowsStored(work[c].attempt)' = RowsStored(work[c].attempt)
      BY <2>1, <2>3 DEF Batch, RowsStored
    <3>4. CallOf(c)'
      BY <2>1, <2>3, <3>1, <3>2, <3>3 DEF CallOf
    <3> QED BY <2>1, <2>3, <3>1, <3>4, StoreKept
  <2> QED BY <1>5, <2>2, <2>3 DEF Copy
<1> QED BY <1>2, <1>3, <1>4, <1>5, LoopStore, ReceiveStore, CommitStore
        DEF Next, BatchStep

\* The inductive invariant behind the table: what the calls in progress have
\* filled in, whose batches they are, and what is stored of each batch.
THEOREM StoreInvariant == Spec => [](TypeInv /\ StoreInv)
<1>1. Init => TypeInv /\ StoreInv
  BY TypeInit, StoreInit
<1>2. (TypeInv /\ StoreInv) /\ [Next]_vars => (TypeInv /\ StoreInv)'
  BY TypeNext, StoreNext
<1> QED BY <1>1, <1>2, PTL DEF Spec

\* A batch that was answered without an error is in the table, each event in
\* its own row.
THEOREM AnswersStored == Spec => []AnsweredIsStored
<1>1. StoreInv => AnsweredIsStored
  BY DEF StoreInv
<1> QED BY <1>1, StoreInvariant, PTL

\* A batch is in the table as a whole or not at all, with any number of
\* containers and whatever fails.
THEOREM BatchesAtomic == Spec => []AllOrNothing
<1>1. ASSUME TypeInv, StoreInv, NEW n \in 1 .. Len(attempts)
      PROVE  Cardinality(RowsStored(n)) \in {0, Len(attempts[n])}
  <2>1. CASE RowsStored(n) = {}
    BY <2>1, FS_EmptySet
  <2>2. CASE RowsStored(n) # {}
    <3> DEFINE m == Len(attempts[n])
               f == [r \in RowsStored(n) |-> r.at]
    <3>1. m \in Nat
      BY <1>1 DEF TypeInv, TypeOK
    <3>2. \A r \in RowsStored(n) : r.at \in 1 .. m
      BY <1>1 DEF StoreInv, TableInv, RowsStored
    <3>3. \A r, s \in RowsStored(n) : r.at = s.at => r = s
      BY <1>1 DEF StoreInv, TableInv, RowsStored
    <3>4. \A k \in 1 .. m : \E r \in RowsStored(n) : r.at = k
      BY <1>1, <2>2 DEF StoreInv, TableInv, RowsStored
    <3>5. f \in Bijection(RowsStored(n), 1 .. m)
      BY <3>2, <3>3, <3>4 DEF Bijection, Injection, Surjection, IsInjective
    <3>6. ExistsBijection(RowsStored(n), 1 .. m)
      BY <3>5 DEF ExistsBijection
    <3>7. ExistsBijection(1 .. m, RowsStored(n))
      BY <3>6, Fun_ExistsBijSymmetric
    <3>8. Cardinality(RowsStored(n)) = m
      BY <3>1, <3>7, FS_CountingElements
    <3> QED BY <3>8
  <2> QED BY <2>1, <2>2
<1>2. TypeInv /\ StoreInv => AllOrNothing
  BY <1>1 DEF AllOrNothing
<1> QED BY <1>2, StoreInvariant, PTL

-----------------------------------------------------------------------------
(***************************************************************************)
(* The locations of the rows                                               *)
(***************************************************************************)

\* In no batch an address comes back after another one.
NoReturns ==
  \A b \in Batches : \A i, k \in 1 .. Len(b) :
    i < k /\ b[i] = b[k] => \A j \in i .. k : b[j] = b[i]

\* The variable id holds the location of the event before, and the rows filled
\* in so far are right.
LocOf(c) ==
  pc[c] # "idle" =>
    /\ pc[c] # "origin" => work[c].gid = Origin
    /\ work[c].known = {Batch(c)[k] : k \in 1 .. work[c].i - 1}
    /\ work[c].i > 1 => work[c].id = Batch(c)[work[c].i - 1]
    /\ \A k \in 1 .. Len(work[c].rows) : /\ work[c].rows[k].remoteGeo = Batch(c)[k]
                                         /\ work[c].rows[k].originGeo = Origin

LocInv == RowsMatch /\ \A c \in BatchContainers : LocOf(c)

\* A step of one call that stores nothing.
LEMMA LocKept ==
  ASSUME LocInv, NEW c \in BatchContainers, UNCHANGED <<attempts, stored>>,
         \A d \in BatchContainers : d # c => pc'[d] = pc[d] /\ work'[d] = work[d],
         LocOf(c)'
  PROVE  LocInv'
<1>1. ASSUME NEW d \in BatchContainers, d # c PROVE LocOf(d)'
  <2>1. LocOf(d) /\ pc'[d] = pc[d] /\ work'[d] = work[d]
    BY <1>1 DEF LocInv
  <2> QED BY <2>1 DEF LocOf, Batch
<1>2. RowsMatch'
  BY DEF LocInv, RowsMatch
<1> QED BY <1>1, <1>2 DEF LocInv

\* A call that ends keeps the locations of the rows.
LEMMA ReturnsLoc ==
  ASSUME TypeInv, LocInv, NEW c \in BatchContainers, Returns(c),
         UNCHANGED <<attempts, stored>>
  PROVE  LocInv'
<1>1. /\ pc'[c] = "idle"
      /\ \A d \in BatchContainers : d # c => pc'[d] = pc[d] /\ work'[d] = work[d]
  BY DEF Returns, TypeInv, TypeOK
<1>2. LocOf(c)'
  BY <1>1 DEF LocOf
<1> QED BY <1>1, <1>2, LocKept

\* An iteration that gives the event the location of its address.
LEMMA FillsLoc ==
  ASSUME TypeInv, StoreInv, LocInv, NEW c \in BatchContainers, InLoop(c),
         Batch(c)[work[c].i] \in Ids, Fills(c, Batch(c)[work[c].i]),
         UNCHANGED <<pc, attempts, stored>>
  PROVE  LocInv'
<1> DEFINE w == work[c]
           b == Batch(c)
           id == b[w.i]
           v == Filled(c, id)
<1>1. /\ w.i \in Nat \ {0} /\ w.rows \in Seq(RowType)
      /\ v.attempt = w.attempt /\ v.i = w.i + 1 /\ v.id = id /\ v.gid = w.gid
      /\ v.known = w.known \cup {b[w.i]}
      /\ v.rows = Append(w.rows, RowOf(c, id))
      /\ w.i \in 1 .. Len(b)
      /\ work' = [work EXCEPT ![c] = v]
  BY FillsWork
<1>2. /\ work'[c] = v
      /\ \A d \in BatchContainers : d # c => work'[d] = work[d]
  BY <1>1 DEF TypeInv
<1>3. pc[c] = "loop" /\ pc'[c] = "loop"
  BY DEF InLoop
<1>4. /\ Len(w.rows) = w.i - 1
      /\ w.gid = Origin
      /\ w.known = {b[k] : k \in 1 .. w.i - 1}
      /\ \A k \in 1 .. Len(w.rows) : /\ w.rows[k].remoteGeo = b[k]
                                     /\ w.rows[k].originGeo = Origin
  <2>1. LocOf(c) /\ CallOf(c)
    BY DEF StoreInv, LocInv
  <2> QED BY <1>3, <2>1 DEF LocOf, CallOf
<1>5. RowOf(c, id).remoteGeo = id /\ RowOf(c, id).originGeo = Origin
  BY <1>4 DEF RowOf
<1>6. Batch(c)' = b
  BY <1>1, <1>2 DEF Batch
<1> HIDE DEF w, v, b
<1>7. v.known = {b[k] : k \in 1 .. v.i - 1}
  <2>1. 1 .. v.i - 1 = (1 .. w.i - 1) \cup {w.i}
    BY <1>1
  <2> QED BY <1>1, <1>4, <2>1
<1>8. v.i > 1 /\ v.id = b[v.i - 1]
  BY <1>1
<1>9. ASSUME NEW k \in 1 .. Len(v.rows)
      PROVE  v.rows[k].remoteGeo = b[k] /\ v.rows[k].originGeo = Origin
  <2>1. CASE k = w.i
    BY <1>1, <1>4, <1>5, <2>1
  <2>2. CASE k # w.i
    <3>1. k \in 1 .. Len(w.rows) /\ v.rows[k] = w.rows[k]
      BY <1>1, <1>4, <2>2
    <3> QED BY <1>4, <3>1
  <2> QED BY <2>1, <2>2
<1>10. LocOf(c)'
  <2>1. work'[c].gid = Origin
    BY <1>1, <1>2, <1>4
  <2>2. work'[c].known = {Batch(c)'[k] : k \in 1 .. work'[c].i - 1}
    BY <1>2, <1>6, <1>7
  <2>3. work'[c].id = Batch(c)'[work'[c].i - 1]
    BY <1>2, <1>6, <1>8
  <2>4. \A k \in 1 .. Len(work'[c].rows) : /\ work'[c].rows[k].remoteGeo = Batch(c)'[k]
                                           /\ work'[c].rows[k].originGeo = Origin
    BY <1>2, <1>6, <1>9
  <2> QED BY <2>1, <2>2, <2>3, <2>4 DEF LocOf
<1> QED BY <1>2, <1>10, LocKept

\* The only step that needs NoReturns is the one that does not look id up.
LEMMA LocNext ==
  NoReturns /\ TypeInv /\ StoreInv /\ LocInv /\ [Next]_vars => LocInv'
<1> SUFFICES ASSUME NoReturns, TypeInv, StoreInv, LocInv, [Next]_vars PROVE LocInv'
  OBVIOUS
<1>1. ASSUME UNCHANGED <<pc, work, attempts, stored>> PROVE LocInv'
  <2>1. ASSUME NEW c \in BatchContainers PROVE LocOf(c)'
    <3>1. LocOf(c)
      BY DEF LocInv
    <3> QED BY <1>1, <3>1 DEF LocOf, Batch
  <2> QED BY <1>1, <2>1 DEF LocInv, RowsMatch
<1>2. CASE DbDown \/ DbUp \/ UNCHANGED vars
  BY <1>1, <1>2 DEF DbDown, DbUp, vars
<1>3. ASSUME NEW c \in Containers, Requests(c) PROVE LocInv'
  BY <1>1, <1>3 DEF Requests, HandleAfterError, BatchAfterError
<1>4. ASSUME NEW c \in BatchContainers, Kill(c) PROVE LocInv'
  BY <1>4, ReturnsLoc DEF Kill, Returns
<1>5. ASSUME NEW c \in BatchContainers, Receive(c) PROVE LocInv'
  <2>1. /\ work[c] = NoWork /\ pc[c] = "idle" /\ UNCHANGED stored
    BY <1>5 DEF Receive, StoreInv, CallOf
  <2>2. /\ pc'[c] = "origin"
        /\ work'[c].i = 1 /\ work'[c].rows = <<>> /\ work'[c].known = {}
        /\ \A d \in BatchContainers : d # c => pc'[d] = pc[d] /\ work'[d] = work[d]
    BY <1>5, <2>1 DEF Receive, TypeInv, TypeOK, WorkType, NoWork
  <2>3. LocOf(c)'
    <3>1. 1 .. 1 - 1 = {} /\ 1 .. Len(<<>>) = {}
      OBVIOUS
    <3>2. {Batch(c)'[k] : k \in 1 .. work'[c].i - 1} = {}
      BY <2>2, <3>1
    <3> QED BY <2>2, <3>1, <3>2 DEF LocOf
  <2>4. ASSUME NEW d \in BatchContainers, d # c PROVE LocOf(d)'
    <3>1. pc'[d] = pc[d] /\ work'[d] = work[d] /\ LocOf(d)
      BY <2>2, <2>4 DEF LocInv
    <3>2. CASE pc[d] # "idle"
      <4>1. Batch(d)' = Batch(d)
        <5>1. \A k \in 1 .. Len(attempts) : attempts'[k] = attempts[k]
          BY <1>5 DEF Receive, TypeInv, TypeOK
        <5> QED BY <3>1, <3>2, <5>1, BatchType DEF Batch, TypeInv
      <4> QED BY <3>1, <4>1 DEF LocOf
    <3> QED BY <3>1, <3>2 DEF LocOf
  <2> QED BY <2>1, <2>3, <2>4 DEF LocInv, RowsMatch
<1>6. ASSUME NEW c \in BatchContainers, ResolveOrigin(c) PROVE LocInv'
  <2>1. CASE Fails(c)
    BY <1>6, <2>1, ReturnsLoc DEF ResolveOrigin, Fails
  <2>2. CASE ~Fails(c)
    <3>1. /\ pc[c] = "origin" /\ pc' = [pc EXCEPT ![c] = "loop"]
          /\ work' = [work EXCEPT ![c].gid = Origin]
          /\ UNCHANGED <<attempts, stored>>
      BY <1>6, <2>2 DEF ResolveOrigin
    <3>2. /\ pc'[c] = "loop"
          /\ \A d \in BatchContainers : d # c => pc'[d] = pc[d] /\ work'[d] = work[d]
          /\ work'[c].attempt = work[c].attempt /\ work'[c].gid = Origin
          /\ work'[c].i = work[c].i /\ work'[c].rows = work[c].rows
          /\ work'[c].known = work[c].known /\ work'[c].id = work[c].id
      BY <3>1 DEF TypeInv, TypeOK, WorkType
    <3>3. LocOf(c)
      BY DEF LocInv
    <3>4. LocOf(c)'
      BY <3>1, <3>2, <3>3 DEF LocOf, Batch
    <3> QED BY <3>1, <3>2, <3>4, LocKept
  <2> QED BY <2>1, <2>2
<1>7. ASSUME NEW c \in BatchContainers, BlankAddr(c) PROVE LocInv'
  BY <1>7, ReturnsLoc DEF BlankAddr, Fails
<1>8. ASSUME NEW c \in BatchContainers, KnownAddr(c) PROVE LocInv'
  <2> DEFINE b == Batch(c)
             i == work[c].i
  <2>1. InLoop(c) /\ pc[c] = "loop" /\ b[i] \in work[c].known
    BY <1>8 DEF KnownAddr, InLoop
  <2>2. /\ i \in Nat \ {0} /\ i <= Len(b) /\ Len(b) \in Nat
        /\ work[c].known = {b[k] : k \in 1 .. i - 1}
        /\ i > 1 => work[c].id = b[i - 1]
        /\ b \in Batches /\ work[c].id \in Ids
    BY <2>1, BatchType DEF TypeInv, TypeOK, WorkType, InLoop, LocInv, LocOf
  <2> HIDE DEF b, i
  <2>3. PICK k \in 1 .. i - 1 : b[k] = b[i]
    BY <2>1, <2>2
  <2>4. /\ k \in 1 .. Len(b) /\ i \in 1 .. Len(b) /\ k < i
        /\ i - 1 \in k .. i /\ i > 1
    BY <2>2, <2>3
  <2>5. b[i - 1] = b[i]
    BY <2>2, <2>3, <2>4 DEF NoReturns
  <2>6. work[c].id = Batch(c)[work[c].i]
    BY <2>2, <2>4, <2>5 DEF b, i
  <2> QED BY <1>8, <2>1, <2>2, <2>6, FillsLoc DEF KnownAddr
<1>9. ASSUME NEW c \in BatchContainers, NewAddr(c) PROVE LocInv'
  <2>1. CASE Fails(c)
    BY <1>9, <2>1, ReturnsLoc DEF NewAddr, Fails
  <2>2. CASE ~Fails(c)
    <3>0. work[c].i \in Nat \ {0}
      BY DEF TypeInv, WorkType
    <3>1. InLoop(c) /\ Batch(c)[work[c].i] \in Ids
      BY <1>9, <3>0, BatchType DEF NewAddr, InLoop, Ids, TypeInv
    <3> QED BY <1>9, <2>2, <3>1, FillsLoc DEF NewAddr
  <2> QED BY <2>1, <2>2
<1>10. ASSUME NEW c \in BatchContainers, NEW p \in {"copy", "commit"},
              pc' = [pc EXCEPT ![c] = p], pc[c] \in {"loop", "copy"},
              UNCHANGED <<work, attempts, stored>>
       PROVE  LocInv'
  <2>1. pc'[c] = p /\ \A d \in BatchContainers : d # c => pc'[d] = pc[d]
    BY <1>10 DEF TypeInv, TypeOK
  <2>2. LocOf(c)
    BY DEF LocInv
  <2>3. LocOf(c)'
    BY <1>10, <2>1, <2>2 DEF LocOf, Batch
  <2> QED BY <1>10, <2>1, <2>3, LocKept
<1>11. ASSUME NEW c \in BatchContainers, Begin(c) PROVE LocInv'
  <2>1. CASE Fails(c)
    BY <1>11, <2>1, ReturnsLoc DEF Begin, Fails
  <2>2. CASE ~Fails(c)
    BY <1>10, <1>11, <2>2 DEF Begin
  <2> QED BY <2>1, <2>2
<1>12. ASSUME NEW c \in BatchContainers, Copy(c) PROVE LocInv'
  <2>1. UNCHANGED <<attempts, stored>> /\ pc[c] = "copy"
    BY <1>12 DEF Copy, InTransaction
  <2>2. CASE Returns(c)
    BY <2>1, <2>2, ReturnsLoc
  <2>3. CASE pc' = [pc EXCEPT ![c] = "commit"] /\ UNCHANGED work
    BY <1>10, <2>1, <2>3
  <2> QED BY <1>12, <2>2, <2>3 DEF Copy
<1>13. ASSUME NEW c \in BatchContainers, Commit(c) PROVE LocInv'
  <2>1. pc[c] = "commit" /\ Returns(c) /\ UNCHANGED attempts
    BY <1>13 DEF Commit
  <2>2. CASE UNCHANGED stored
    BY <2>1, <2>2, ReturnsLoc
  <2>3. CASE stored' = stored \cup RowsOf(c)
    <3>1. \A k \in 1 .. Len(work[c].rows) :
            /\ work[c].rows[k].remoteGeo = work[c].rows[k].remote
            /\ work[c].rows[k].originGeo = Origin
      BY <2>1 DEF StoreInv, CallOf, LocInv, LocOf
    <3>2. \A r \in RowsOf(c) : r.row.remoteGeo = r.row.remote /\ r.row.originGeo = Origin
      BY <3>1 DEF RowsOf
    <3>3. RowsMatch'
      BY <2>3, <3>2 DEF LocInv, RowsMatch
    <3>4. ASSUME NEW d \in BatchContainers PROVE LocOf(d)'
      <4>1. CASE d = c
        BY <2>1, <4>1 DEF Returns, LocOf, TypeInv, TypeOK
      <4>2. CASE d # c
        <5>1. pc'[d] = pc[d] /\ work'[d] = work[d] /\ LocOf(d)
          BY <2>1, <4>2 DEF Returns, TypeInv, TypeOK, LocInv
        <5> QED BY <2>1, <5>1 DEF LocOf, Batch
      <4> QED BY <4>1, <4>2
    <3> QED BY <3>3, <3>4 DEF LocInv
  <2> QED BY <1>13, <2>2, <2>3 DEF Commit
<1> QED BY <1>2, <1>3, <1>4, <1>5, <1>6, <1>7, <1>8, <1>9, <1>11, <1>12, <1>13
        DEF Next, BatchStep

\* The location of a row is that of its own address as long as no address
\* comes back in a batch after another one: the code goes wrong in that case
\* alone.
THEOREM LocationsMatch == NoReturns => (Spec => []RowsMatch)
<1> SUFFICES ASSUME NoReturns PROVE Spec => []RowsMatch
  OBVIOUS
<1>1. Init => LocInv
  BY DEF Init, LocInv, LocOf, RowsMatch
<1>2. (TypeInv /\ StoreInv) /\ LocInv /\ [Next]_vars => LocInv'
  BY LocNext
<1>3. LocInv => RowsMatch
  BY DEF LocInv
<1> QED BY <1>1, <1>2, <1>3, StoreInvariant, PTL DEF Spec
=============================================================================
