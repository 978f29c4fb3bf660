------------------------------ MODULE GeoResolver ------------------------------
(***************************************************************************)
(* The single-event Lambda: Handle (aws/lambda/events.go) inserts an event *)
(* and calls ResolveEvent (resolver/resolve.go), which finds a row of the  *)
(* table geo for the remote and for the origin address and writes its id   *)
(* into the event.  Containers run Handle at the same time on one          *)
(* database, one event each, and every statement of SQL and every request  *)
(* to the location service is a step of its own.  A container has its own  *)
(* geoCache.                                                               *)
(***************************************************************************)
EXTENDS Integers, Sequences, FiniteSets

CONSTANTS
  Containers,  \* the running instances of the Lambda
  Addrs,       \* the addresses events name
  NotIPv4,     \* those that do not look like IPv4
  Local,       \* "127.0.0.1", which stands in for them
  Locs,        \* what the location service can say about an address
  NoAddr,      \* the blank address of an answer that is not a location
  Ttl,         \* the month after which a row is looked up again
  UseCache,    \* the option UseCache of NewResolveClient
  MaxEvents,   \* bound: events handled in a behaviour
  MaxClock,    \* bound: time
  MaxMoves,    \* bound: how often an address changes its location
  Faults       \* which faults a configuration lets happen

\* "db" an error of a statement, "service" an error of the location service,
\* "blank" an answer of it that decodes but is no location, "kill" the end of
\* a container in the middle of a call.
AllFaults == {"db", "service", "blank", "kill"}

ASSUME AddrsAssumption == /\ NotIPv4 \subseteq Addrs
                          /\ Local \in Addrs \ NotIPv4
                          /\ NoAddr \notin Addrs
ASSUME ContainersAssumption == IsFiniteSet(Containers)
ASSUME LocsAssumption == Locs # {}
ASSUME TtlAssumption == Ttl \in Nat
ASSUME BoundsAssumption == MaxEvents \in Nat /\ MaxClock \in Nat /\ MaxMoves \in Nat
ASSUME CacheAssumption == UseCache \in BOOLEAN
ASSUME GeoFaultsAssumption == Faults \subseteq AllFaults

VARIABLES
  clock,   \* time, as the containers and the database see it
  where,   \* what the location service says about each address
  moves,   \* how often that changed
  geo,     \* table geo, its rows named by their id
  event,   \* table event, its rows named by their id
  cache,   \* geoCache of each container: an id, or 0 when absent
  pc,      \* where each container is
  cur,     \* event.ID of the call
  hit,     \* both ids came from the cache
  side,    \* which of the two addresses the call is at
  row,     \* geo.ID as Select left it: 0 when there is no row
  answer,  \* the location the service returned
  found    \* geoIds

vars == <<clock, where, moves, geo, event, cache, pc, cur, hit, side, row,
          answer, found>>

Sides == {"remote", "origin"}
Geos == [ip : Addrs \cup {NoAddr}, loc : Locs \cup {NoAddr}, at : Nat]
Blank == [ip |-> NoAddr, loc |-> NoAddr, at |-> 0]

EmptyCache == [a \in Addrs |-> 0]
NoneFound == [s \in Sides |-> 0]

Init ==
  /\ clock = 0
  /\ where = [a \in Addrs |-> CHOOSE l \in Locs : TRUE]
  /\ moves = 0
  /\ geo = <<>>
  /\ event = <<>>
  /\ cache = [c \in Containers |-> EmptyCache]
  /\ pc = [c \in Containers |-> "idle"]
  /\ cur = [c \in Containers |-> 0]
  /\ hit = [c \in Containers |-> FALSE]
  /\ side = [c \in Containers |-> "remote"]
  /\ row = [c \in Containers |-> 0]
  /\ answer = [c \in Containers |-> Blank]
  /\ found = [c \in Containers |-> NoneFound]

-----------------------------------------------------------------------------
(***************************************************************************)
(* The environment                                                         *)
(***************************************************************************)

Tick ==
  /\ clock < MaxClock
  /\ clock' = clock + 1
  /\ UNCHANGED <<where, moves, geo, event, cache, pc, cur, hit, side, row,
                 answer, found>>

Move ==
  /\ moves < MaxMoves
  /\ moves' = moves + 1
  /\ \E a \in Addrs \ NotIPv4, l \in Locs :
       /\ l # where[a]
       /\ where' = [where EXCEPT ![a] = l]
  /\ UNCHANGED <<clock, geo, event, cache, pc, cur, hit, side, row, answer, found>>

\* The variables of a call that ended are gone.
Forget(c) ==
  /\ pc' = [pc EXCEPT ![c] = "idle"]
  /\ cur' = [cur EXCEPT ![c] = 0]
  /\ hit' = [hit EXCEPT ![c] = FALSE]
  /\ side' = [side EXCEPT ![c] = "remote"]
  /\ row' = [row EXCEPT ![c] = 0]
  /\ answer' = [answer EXCEPT ![c] = Blank]
  /\ found' = [found EXCEPT ![c] = NoneFound]

\* A container ends in the middle of a call, and the next call gets a new one.
Kill(c) ==
  /\ "kill" \in Faults
  /\ pc[c] # "idle"
  /\ Forget(c)
  /\ cache' = [cache EXCEPT ![c] = EmptyCache]
  /\ UNCHANGED <<clock, where, moves, geo, event>>

\* The timer of the cache: Cache.Clear, every 48 hours.
ClearCache(c) ==
  /\ UseCache
  /\ cache[c] # EmptyCache
  /\ cache' = [cache EXCEPT ![c] = EmptyCache]
  /\ UNCHANGED <<clock, where, moves, geo, event, pc, cur, hit, side, row,
                 answer, found>>

-----------------------------------------------------------------------------
(***************************************************************************)
(* Handle and the first half of ResolveEvent                               *)
(***************************************************************************)

\* Mutant of Cached: one of the two ids is enough.
CachedEither(c, remote, origin) ==
  UseCache /\ (cache[c][remote] > 0 \/ cache[c][origin] > 0)

\* ResolveEvent takes both ids from the cache or none.
Cached(c, remote, origin) ==
  UseCache /\ cache[c][remote] > 0 /\ cache[c][origin] > 0

\* RecordEvent inserts the event, without locations, and ResolveEvent looks
\* into the cache.  (An error of the insertion is answered 500 and changes
\* nothing; so does an event without a remote address.)
Handle(c) ==
  /\ pc[c] = "idle"
  /\ Len(event) < MaxEvents
  /\ \E remote, origin \in Addrs :
       LET isHit == Cached(c, remote, origin)
       IN  /\ event' = Append(event, [remote |-> remote, origin |-> origin,
                                      remoteGeo |-> 0, originGeo |-> 0,
                                      at |-> clock])
           /\ hit' = [hit EXCEPT ![c] = isHit]
           /\ found' = [found EXCEPT ![c] =
                          [remote |-> IF isHit THEN cache[c][remote] ELSE 0,
                           origin |-> IF isHit THEN cache[c][origin] ELSE 0]]
           /\ pc' = [pc EXCEPT ![c] = IF isHit THEN "mark" ELSE "select"]
  /\ cur' = [cur EXCEPT ![c] = Len(event) + 1]
  /\ UNCHANGED <<clock, where, moves, geo, cache, side, row, answer>>

\* The address the call is at, as the event has it.
AddrOf(c) == IF side[c] = "remote" THEN event[cur[c]].remote ELSE event[cur[c]].origin

-----------------------------------------------------------------------------
(***************************************************************************)
(* resolveAddr                                                             *)
(***************************************************************************)

\* resolveAddr looks up 127.0.0.1 in place of what is not an IPv4 address.
Normal(a) == IF a \in NotIPv4 THEN Local ELSE a

\* The key under which ResolveEvent caches an id: event.RemoteAddr for both
\* addresses (resolver/resolve.go:140 and 150).
CacheKey(c) == event[cur[c]].remote

\* resolveAddr returns id, which ends its variables; ResolveEvent caches the
\* id and goes on to mark.
Resolved(c, id) ==
  /\ row' = [row EXCEPT ![c] = 0]
  /\ answer' = [answer EXCEPT ![c] = Blank]
  /\ found' = [found EXCEPT ![c][side[c]] = id]
  /\ cache' = IF UseCache /\ id > 0
                THEN [cache EXCEPT ![c][CacheKey(c)] = id]
                ELSE cache
  /\ pc' = [pc EXCEPT ![c] = "mark"]

\* The rows of the address with the latest last_update.
Latest(a) ==
  {i \in 1 .. Len(geo) :
     /\ geo[i].ip = a
     /\ \A j \in 1 .. Len(geo) : geo[j].ip = a => geo[j].at <= geo[i].at}

\* Mutant of Expired: a row never expires.
ExpiredNever(i) == i > Len(geo)

\* geo.LastUpdate.Before(expire)
Expired(i) == geo[i].at < clock - Ttl

\* The service is asked, about a row that expired or in place of none (0).
LookUp(c, i) ==
  /\ row' = [row EXCEPT ![c] = i]
  /\ pc' = [pc EXCEPT ![c] = "lookup"]
  /\ UNCHANGED <<answer, found, cache>>

\* SELECT ... WHERE ip = ? ORDER BY last_update DESC LIMIT 1
Select(c) ==
  /\ pc[c] = "select"
  /\ LET rows == Latest(Normal(AddrOf(c)))
     IN  \/ /\ rows = {}
            /\ LookUp(c, 0)
         \/ \E i \in rows :
              \/ /\ Expired(i)
                 /\ LookUp(c, i)
              \/ /\ ~Expired(i)
                 /\ Resolved(c, i)
         \/ /\ "db" \in Faults
            /\ Resolved(c, 0)
  /\ UNCHANGED <<clock, where, moves, geo, event, cur, hit, side>>

Answers(c, g) ==
  /\ answer' = [answer EXCEPT ![c] = g]
  /\ pc' = [pc EXCEPT ![c] = "write"]
  /\ UNCHANGED <<row, found, cache>>

\* GetLocationForAddr: the answer is stamped when it arrives.  The status of
\* the response is not looked at: a body that decodes to an empty Geo passes.
Lookup(c) ==
  LET a == Normal(AddrOf(c))
  IN  /\ pc[c] = "lookup"
      /\ \/ Answers(c, [ip |-> a, loc |-> where[a], at |-> clock])
         \/ "blank" \in Faults /\ Answers(c, [Blank EXCEPT !.at = clock])
         \/ "service" \in Faults /\ Resolved(c, 0)
      /\ UNCHANGED <<clock, where, moves, geo, event, cur, hit, side>>

\* Mutant of Same: Geo.equals compares the time stamp as well.
SameStamp(g, h) == g = h

\* Geo.equals
Same(g, h) == g.ip = h.ip /\ g.loc = h.loc

\* Mutant of InsertedId: the driver reports the rows affected, -1.
InsertedIdRows(g) == Len(g) - Len(g) - 1

\* LastInsertId after an insertion into g.
InsertedId(g) == Len(g) + 1

\* insertGeo, or UPDATE geo SET last_update = now() when nothing changed.
Write(c) ==
  /\ pc[c] = "write"
  /\ LET known == row[c] # 0 /\ Same(geo[row[c]], answer[c])
     IN  \/ /\ known
            /\ geo' = [geo EXCEPT ![row[c]].at = clock]
            /\ Resolved(c, row[c])
         \/ /\ ~known
            /\ geo' = Append(geo, answer[c])
            /\ Resolved(c, InsertedId(geo))
         \/ /\ "db" \in Faults
            /\ UNCHANGED geo
            /\ Resolved(c, 0)
  /\ UNCHANGED <<clock, where, moves, event, cur, hit, side>>

-----------------------------------------------------------------------------
(***************************************************************************)
(* The second half of ResolveEvent                                         *)
(***************************************************************************)

\* Mutant of Field: markEvent mixes up its two columns.
FieldSwapped(s) == IF s = "origin" THEN "remoteGeo" ELSE "originGeo"

Field(s) == IF s = "remote" THEN "remoteGeo" ELSE "originGeo"

\* Mutant of Last: the origin is not resolved.
LastRemote(c) == side[c] = "remote"

\* The origin comes last.
Last(c) == side[c] = "origin"

\* UPDATE event SET ..._geo_id = ?.  The id 0 of a failed resolveAddr breaks
\* the foreign key: the statement fails and the column stays NULL.
Mark(c) ==
  /\ pc[c] = "mark"
  /\ LET id == found[c][side[c]]
     IN  \/ /\ id > 0
            /\ event' = [event EXCEPT ![cur[c]][Field(side[c])] = id]
         \/ /\ id = 0 \/ "db" \in Faults
            /\ UNCHANGED event
  /\ \/ /\ Last(c)
        /\ Forget(c)
     \/ /\ ~Last(c)
        /\ side' = [side EXCEPT ![c] = "origin"]
        /\ pc' = [pc EXCEPT ![c] = IF hit[c] THEN "mark" ELSE "select"]
        /\ UNCHANGED <<cur, hit, row, answer, found>>
  /\ UNCHANGED <<clock, where, moves, geo, cache>>

-----------------------------------------------------------------------------

Resolve(c) == Select(c) \/ Lookup(c) \/ Write(c) \/ Mark(c)

Next ==
  \/ Tick
  \/ Move
  \/ \E c \in Containers : Kill(c) \/ ClearCache(c) \/ Handle(c) \/ Resolve(c)

Spec == Init /\ [][Next]_vars

\* A call goes on until it returns; events need not arrive and time need not
\* pass.
FairSpec == Spec /\ \A c \in Containers : WF_vars(Resolve(c))

-----------------------------------------------------------------------------
(***************************************************************************)
(* Properties                                                              *)
(***************************************************************************)

\* Every variable has its type, and every id refers to a row.
TypeOK ==
  /\ clock \in 0 .. MaxClock
  /\ where \in [Addrs -> Locs]
  /\ moves \in 0 .. MaxMoves
  /\ geo \in Seq(Geos)
  /\ event \in Seq([remote : Addrs, origin : Addrs, remoteGeo : 0 .. Len(geo),
                    originGeo : 0 .. Len(geo), at : Nat])
  /\ cache \in [Containers -> [Addrs -> 0 .. Len(geo)]]
  /\ pc \in [Containers -> {"idle", "select", "lookup", "write", "mark"}]
  /\ cur \in [Containers -> 0 .. Len(event)]
  /\ hit \in [Containers -> BOOLEAN]
  /\ side \in [Containers -> Sides]
  /\ row \in [Containers -> 0 .. Len(geo)]
  /\ answer \in [Containers -> Geos]
  /\ found \in [Containers -> [Sides -> 0 .. Len(geo)]]

\* The rows that may be the location of address a: those of a, and the answers
\* that are no location at all.
RowsFor(a) == {i \in 1 .. Len(geo) : geo[i].ip \in {Normal(a), NoAddr}}

\* No event gets the location of another address, whichever containers
\* inserted and refreshed rows in between.
GeoMatches ==
  \A i \in 1 .. Len(event) :
    /\ event[i].remoteGeo \in {0} \cup RowsFor(event[i].remote)
    /\ event[i].originGeo \in {0} \cup RowsFor(event[i].origin)

\* No event is given a location that had already expired when the event was
\* recorded, although another container may be about to replace the row.
FreshWhenMarked ==
  \A i \in 1 .. Len(event) : \A s \in Sides :
    LET id == event[i][Field(s)]
    IN  id # 0 => geo[id].at >= event[i].at - Ttl

\* Without concurrency a location is stored again only when it has changed:
\* two rows of an address that follow each other differ.
NoRepeatedRow ==
  Cardinality(Containers) = 1 =>
    \A j \in 1 .. Len(geo) : \A i \in 1 .. j - 1 :
      \/ geo[i].ip # geo[j].ip
      \/ geo[i].ip = NoAddr
      \/ \E k \in i + 1 .. j - 1 : geo[k].ip = geo[i].ip
      \/ geo[i].loc # geo[j].loc

\* Without faults no call returns before its event has both locations, from
\* the cache or from the table.
HandledIsMarked ==
  \A i \in 1 .. Len(event) :
    (\A c \in Containers : pc[c] = "idle" \/ cur[c] # i)
      => event[i].remoteGeo # 0 /\ event[i].originGeo # 0

\* Without faults every recorded event gets both locations.
EventsResolved ==
  \A i \in 1 .. MaxEvents :
    Len(event) >= i ~> Len(event) >= i /\ event[i].remoteGeo # 0
                                      /\ event[i].originGeo # 0
=============================================================================
