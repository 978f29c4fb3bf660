------------------------------- MODULE GeoCache -------------------------------
(***************************************************************************)
(* cache/cache.go: a map from addresses to ids on top of concurrent-map,   *)
(* which is split into shards with a lock each.  Goroutines call Get and   *)
(* Set while the cleanup timer calls Clear.  One operation of              *)
(* concurrent-map on one key is one step; Get and Clear of the cache are   *)
(* made of several.                                                        *)
(***************************************************************************)
EXTENDS Naturals

CONSTANTS
  Users,   \* the goroutines that call Get and Set
  Keys,    \* the addresses; each stands for a shard of its own
  Values,  \* the ids
  Absent   \* what a key without an entry maps to

ASSUME AbsentAssumption == Absent \notin Values

VARIABLES
  map,       \* the entries
  pc,        \* where each user is
  key,       \* the key of the Get in progress
  clearing,  \* Clear is running
  unread,    \* the keys its snapshot has still to read
  channel,   \* the keys it has read and has still to remove
  fresh      \* history: the keys that were set since that Clear began

vars == <<map, pc, key, clearing, unread, channel, fresh>>

Init ==
  /\ map = [k \in Keys |-> Absent]
  /\ pc = [u \in Users |-> "idle"]
  /\ key \in [Users -> Keys]
  /\ clearing = FALSE
  /\ unread = {}
  /\ channel = {}
  /\ fresh = {}

\* Set
Set(u) ==
  /\ pc[u] = "idle"
  /\ \E k \in Keys, v \in Values :
       /\ map' = [map EXCEPT ![k] = v]
       /\ fresh' = IF clearing THEN fresh \cup {k} ELSE fresh
  /\ UNCHANGED <<pc, key, clearing, unread, channel>>

\* Get asks Has first; without an entry it returns 0, false.
Has(u) ==
  /\ pc[u] = "idle"
  /\ \E k \in Keys :
       /\ map[k] # Absent
       /\ key' = [key EXCEPT ![u] = k]
  /\ pc' = [pc EXCEPT ![u] = "read"]
  /\ UNCHANGED <<map, clearing, unread, channel, fresh>>

\* Get reads the entry and asserts its type, which panics when it is gone.
Read(u) ==
  /\ pc[u] = "read"
  /\ \/ /\ map[key[u]] # Absent
        /\ pc' = [pc EXCEPT ![u] = "idle"]
     \/ /\ map[key[u]] = Absent
        /\ pc' = [pc EXCEPT ![u] = "panic"]
  /\ UNCHANGED <<map, key, clearing, unread, channel, fresh>>

\* The runtime of the Lambda ends the call that panicked and takes the next.
Recover(u) ==
  /\ pc[u] = "panic"
  /\ pc' = [pc EXCEPT ![u] = "idle"]
  /\ UNCHANGED <<map, key, clearing, unread, channel, fresh>>

\* The timer: Clear calls IterBuffered, which has a goroutine read each shard.
BeginClear ==
  /\ ~clearing
  /\ clearing' = TRUE
  /\ unread' = Keys
  /\ channel' = {}
  /\ fresh' = {}
  /\ UNCHANGED <<map, pc, key>>

\* Mutant of Unread: the shards are read again when they have entries again.
UnreadLive(k) == {j \in Keys : map[j] # Absent} \cup (unread \ {k})

\* What is still to read after the shard of k.
Unread(k) == unread \ {k}

ReadShard(k) ==
  /\ clearing
  /\ k \in unread
  /\ unread' = Unread(k)
  /\ channel' = IF map[k] # Absent THEN channel \cup {k} ELSE channel
  /\ UNCHANGED <<map, pc, key, clearing, fresh>>

\* Mutant of Cleared: Clear leaves the entries and drops the snapshot only.
ClearedNothing(k) == map

Cleared(k) == [map EXCEPT ![k] = Absent]

\* The loop of Clear removes the keys as they come out of the channel.
Remove(k) ==
  /\ k \in channel
  /\ channel' = channel \ {k}
  /\ map' = Cleared(k)
  /\ UNCHANGED <<pc, key, clearing, unread, fresh>>

\* Mutant of EndClear: Clear does not wait for the removals.
EndClearEarly ==
  /\ clearing
  /\ unread = {}
  /\ clearing' = FALSE
  /\ UNCHANGED <<map, pc, key, unread, channel, fresh>>

EndClear ==
  /\ clearing
  /\ unread = {} /\ channel = {}
  /\ clearing' = FALSE
  /\ UNCHANGED <<map, pc, key, unread, channel, fresh>>

ClearStep == (\E k \in Keys : ReadShard(k) \/ Remove(k)) \/ EndClear

Next ==
  \/ \E u \in Users : Set(u) \/ Has(u) \/ Read(u) \/ Recover(u)
  \/ BeginClear
  \/ ClearStep

Spec == Init /\ [][Next]_vars

\* The goroutines of Clear go on; the users need not do anything.
FairSpec == Spec /\ WF_vars(ClearStep)

-----------------------------------------------------------------------------

\* Every variable has its type, and nothing is left to remove between Clears.
TypeOK ==
  /\ map \in [Keys -> Values \cup {Absent}]
  /\ pc \in [Users -> {"idle", "read", "panic"}]
  /\ key \in [Users -> Keys]
  /\ clearing \in BOOLEAN
  /\ unread \subseteq Keys
  /\ channel \subseteq Keys
  /\ ~clearing => unread = {} /\ channel = {}
  /\ fresh \subseteq Keys

\* When a Clear returns, no entry is older than the Clear: a removal is not
\* lost among the entries that are set meanwhile.
ClearForgets ==
  [][clearing /\ ~clearing' => \A k \in Keys : map[k] # Absent => k \in fresh]_vars

\* Clear returns, however many entries are set while it runs.
ClearReturns == clearing ~> ~clearing
=============================================================================
