---------------------------- MODULE GeoCacheProofs ----------------------------
(***************************************************************************)
(* Proofs about GeoCache, for any users, addresses and ids: type           *)
(* correctness, and that a Clear forgets every entry older than itself.    *)
(***************************************************************************)
EXTENDS GeoCache, TLAPS

USE AbsentAssumption

\* Every step keeps the types, and Clear leaves nothing behind to remove.
LEMMA TypeNext == TypeOK /\ [Next]_vars => TypeOK'
<1> SUFFICES ASSUME TypeOK, [Next]_vars PROVE TypeOK'
  OBVIOUS
<1> USE DEF TypeOK
<1>1. ASSUME NEW u \in Users, Set(u) PROVE TypeOK'
  BY <1>1 DEF Set
<1>2. ASSUME NEW u \in Users, Has(u) \/ Read(u) \/ Recover(u) PROVE TypeOK'
  BY <1>2 DEF Has, Read, Recover
<1>3. CASE BeginClear
  BY <1>3 DEF BeginClear
<1>4. ASSUME NEW k \in Keys, ReadShard(k) PROVE TypeOK'
  BY <1>4 DEF ReadShard, Unread
<1>5. ASSUME NEW k \in Keys, Remove(k) PROVE TypeOK'
  BY <1>5 DEF Remove, Cleared
<1>6. CASE EndClear
  BY <1>6 DEF EndClear
<1>7. CASE UNCHANGED vars
  BY <1>7 DEF vars
<1> QED BY <1>1, <1>2, <1>3, <1>4, <1>5, <1>6, <1>7 DEF Next, ClearStep

\* The variables keep their types, and between Clears nothing is left to read
\* or to remove.
THEOREM TypeCorrect == Spec => []TypeOK
<1>1. Init => TypeOK
  BY DEF Init, TypeOK
<1> QED BY <1>1, TypeNext, PTL DEF Spec

\* Why ClearForgets holds: as long as a Clear runs, an entry that is older
\* than it has still to be read, or to be removed.
OldIsDue ==
  clearing => \A k \in Keys : map[k] # Absent => k \in fresh \cup unread \cup channel

\* Every step keeps it: a value that a Clear has passed by is put there after
\* that Clear began.
LEMMA DueNext == TypeOK /\ OldIsDue /\ [Next]_vars => OldIsDue'
<1> SUFFICES ASSUME TypeOK, OldIsDue, [Next]_vars PROVE OldIsDue'
  OBVIOUS
<1> USE DEF OldIsDue, TypeOK
<1>1. ASSUME NEW u \in Users, Set(u) PROVE OldIsDue'
  BY <1>1 DEF Set
<1>2. ASSUME NEW u \in Users, Has(u) \/ Read(u) \/ Recover(u) PROVE OldIsDue'
  BY <1>2 DEF Has, Read, Recover
<1>3. CASE BeginClear
  BY <1>3 DEF BeginClear
<1>4. ASSUME NEW k \in Keys, ReadShard(k) PROVE OldIsDue'
  BY <1>4 DEF ReadShard, Unread
<1>5. ASSUME NEW k \in Keys, Remove(k) PROVE OldIsDue'
  BY <1>5 DEF Remove, Cleared
<1>6. CASE EndClear
  BY <1>6 DEF EndClear
<1>7. CASE UNCHANGED vars
  BY <1>7 DEF vars
<1> QED BY <1>1, <1>2, <1>3, <1>4, <1>5, <1>6, <1>7 DEF Next, ClearStep

\* What a running Clear has still to do is an invariant.
THEOREM DueInvariant == Spec => [](TypeOK /\ OldIsDue)
<1>1. Init => OldIsDue
  BY DEF Init, OldIsDue
<1> QED BY <1>1, TypeCorrect, DueNext, PTL DEF Spec

\* When a Clear returns, no entry is older than the Clear, whoever sets
\* entries in the shards it has read already and in those it has not.
THEOREM ClearsForget == Spec => ClearForgets
<1>1. TypeOK /\ OldIsDue /\ [Next]_vars
        => [clearing /\ ~clearing' => \A k \in Keys : map[k] # Absent => k \in fresh]_vars
  <2> SUFFICES ASSUME TypeOK, OldIsDue, [Next]_vars, clearing, ~clearing',
                      NEW k \in Keys, map[k] # Absent
               PROVE  k \in fresh
    OBVIOUS
  <2>1. EndClear
    BY DEF Next, ClearStep, Set, Has, Read, Recover, BeginClear, ReadShard, Remove, vars
  <2> QED BY <2>1 DEF EndClear, OldIsDue
<1> QED BY <1>1, DueInvariant, PTL DEF Spec, ClearForgets
=============================================================================
