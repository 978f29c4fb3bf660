--------------------------- MODULE GeoResolverProofs ---------------------------
(***************************************************************************)
(* Proofs about GeoResolver, for all values of its constants: type         *)
(* correctness, which locations an event can be given without the cache,   *)
(* that calls without faults leave no event without its locations, and     *)
(* that a single container repeats no row.                                 *)
(***************************************************************************)
EXTENDS GeoResolver, FiniteSetTheorems, WellFoundedInduction, TLAPS

USE AddrsAssumption, LocsAssumption, TtlAssumption, BoundsAssumption, CacheAssumption

-----------------------------------------------------------------------------
(***************************************************************************)
(* Types                                                                   *)
(***************************************************************************)

EventType(n) == [remote : Addrs, origin : Addrs, remoteGeo : 0 .. n,
                 originGeo : 0 .. n, at : Nat]

\* A call is about an event of the table.
InCall == \A c \in Containers : pc[c] # "idle" => cur[c] \in 1 .. Len(event)

TypeInv == TypeOK /\ InCall

\* The address that stands for another is one as well, and the row of a blank
\* answer is a row.
LEMMA NormalType == \A a \in Addrs : Normal(a) \in Addrs
  BY DEF Normal

\* The row of an answer without a location is a row.
LEMMA BlankType == Blank \in Geos
  BY DEF Blank, Geos

\* The types at the start.
LEMMA TypeInit == Init => TypeInv
<1> SUFFICES ASSUME Init PROVE TypeInv
  OBVIOUS
<1>1. where \in [Addrs -> Locs]
  BY DEF Init
<1>2. /\ geo = <<>> /\ event = <<>>
      /\ geo \in Seq(Geos) /\ event \in Seq(EventType(0))
      /\ Len(geo) = 0 /\ Len(event) = 0
  BY DEF Init
<1>3. /\ cache \in [Containers -> [Addrs -> 0 .. 0]]
      /\ found \in [Containers -> [Sides -> 0 .. 0]]
      /\ answer \in [Containers -> Geos]
  BY BlankType DEF Init, EmptyCache, NoneFound
<1> QED BY <1>1, <1>2, <1>3 DEF Init, TypeInv, TypeOK, InCall, EventType, Sides

\* Rows keep their type when the table geo grows.
LEMMA TypeGrows ==
  ASSUME TypeInv, Len(geo') \in Nat, Len(geo') >= Len(geo)
  PROVE  /\ event \in Seq(EventType(Len(geo')))
         /\ cache \in [Containers -> [Addrs -> 0 .. Len(geo')]]
         /\ row \in [Containers -> 0 .. Len(geo')]
         /\ found \in [Containers -> [Sides -> 0 .. Len(geo')]]
<1>1. Len(geo) \in Nat
  BY DEF TypeInv, TypeOK
<1>2. 0 .. Len(geo) \subseteq 0 .. Len(geo')
  BY <1>1
<1>3. event \in Seq(EventType(Len(geo)))
  BY DEF TypeInv, TypeOK, EventType
<1>4. \A i \in 1 .. Len(event) : event[i] \in EventType(Len(geo'))
  <2> TAKE i \in 1 .. Len(event)
  <2>1. event[i] \in EventType(Len(geo))
    BY <1>3
  <2> QED BY <1>1, <2>1 DEF EventType
<1>5. /\ cache \in [Containers -> [Addrs -> 0 .. Len(geo)]]
      /\ row \in [Containers -> 0 .. Len(geo)]
      /\ found \in [Containers -> [Sides -> 0 .. Len(geo)]]
  BY DEF TypeInv, TypeOK
<1>6. event \in Seq(EventType(Len(geo')))
  <2>1. event \in [1 .. Len(event) -> EventType(Len(geo'))] /\ Len(event) \in Nat
    BY <1>3, <1>4
  <2> QED BY <2>1
<1>7. cache \in [Containers -> [Addrs -> 0 .. Len(geo')]]
  <2>1. [Addrs -> 0 .. Len(geo)] \subseteq [Addrs -> 0 .. Len(geo')]
    BY <1>2
  <2> QED BY <1>5, <2>1
<1>8. found \in [Containers -> [Sides -> 0 .. Len(geo')]]
  <2>1. [Sides -> 0 .. Len(geo)] \subseteq [Sides -> 0 .. Len(geo')]
    BY <1>2
  <2> QED BY <1>5, <2>1
<1> QED BY <1>2, <1>5, <1>6, <1>7, <1>8

\* The end of a call keeps the types, when the tables do.
LEMMA ForgetType ==
  ASSUME TypeInv, NEW c \in Containers, Forget(c),
         clock' = clock, where' = where, moves' = moves, geo' = geo,
         event' \in Seq(EventType(Len(geo))), Len(event') = Len(event),
         cache' \in [Containers -> [Addrs -> 0 .. Len(geo)]]
  PROVE  TypeInv'
<1>1. NoneFound \in [Sides -> 0 .. Len(geo)]
  BY DEF TypeInv, TypeOK, NoneFound
<1>2. /\ pc' \in [Containers -> {"idle", "select", "lookup", "write", "mark"}]
      /\ cur' \in [Containers -> 0 .. Len(event)]
      /\ hit' \in [Containers -> BOOLEAN]
      /\ side' \in [Containers -> Sides]
      /\ row' \in [Containers -> 0 .. Len(geo)]
      /\ answer' \in [Containers -> Geos]
      /\ found' \in [Containers -> [Sides -> 0 .. Len(geo)]]
  BY <1>1, BlankType DEF Forget, TypeInv, TypeOK, Sides
<1>3. InCall'
  BY DEF Forget, TypeInv, TypeOK, InCall
<1> QED BY <1>2, <1>3 DEF TypeInv, TypeOK, EventType

\* resolveAddr returning the id of a row keeps the types, when the table does.
LEMMA ResolvedType ==
  ASSUME TypeInv, NEW c \in Containers, pc[c] # "idle",
         geo' \in Seq(Geos), Len(geo') >= Len(geo),
         NEW id \in 0 .. Len(geo'), Resolved(c, id),
         UNCHANGED <<clock, where, moves, event, cur, hit, side>>
  PROVE  TypeInv'
<1>1. Len(geo') \in Nat
  OBVIOUS
<1>2. /\ event \in Seq(EventType(Len(geo')))
      /\ cache \in [Containers -> [Addrs -> 0 .. Len(geo')]]
      /\ row \in [Containers -> 0 .. Len(geo')]
      /\ found \in [Containers -> [Sides -> 0 .. Len(geo')]]
  BY <1>1, TypeGrows
<1>3. cache' \in [Containers -> [Addrs -> 0 .. Len(geo')]]
  <2>1. [cache[c] EXCEPT ![CacheKey(c)] = id] \in [Addrs -> 0 .. Len(geo')]
    BY <1>2
  <2> QED BY <1>2, <2>1 DEF Resolved
<1>4. found' \in [Containers -> [Sides -> 0 .. Len(geo')]]
  <2>1. [found[c] EXCEPT ![side[c]] = id] \in [Sides -> 0 .. Len(geo')]
    BY <1>2
  <2> QED BY <1>2, <2>1 DEF Resolved
<1>5. row' \in [Containers -> 0 .. Len(geo')] /\ answer' \in [Containers -> Geos]
  BY <1>1, <1>2, BlankType DEF Resolved, TypeInv, TypeOK
<1>6. /\ pc' \in [Containers -> {"idle", "select", "lookup", "write", "mark"}]
      /\ \A d \in Containers : pc'[d] # "idle" => pc[d] # "idle"
  BY DEF Resolved, TypeInv, TypeOK
<1>7. InCall'
  BY <1>6 DEF InCall, TypeInv
<1> QED BY <1>2, <1>3, <1>4, <1>5, <1>6, <1>7 DEF TypeInv, TypeOK, EventType

\* What the call is about has the types of the tables.
LEMMA AddrType ==
  ASSUME TypeInv, NEW c \in Containers, pc[c] # "idle"
  PROVE  /\ cur[c] \in 1 .. Len(event)
         /\ event[cur[c]] \in EventType(Len(geo))
         /\ AddrOf(c) \in Addrs /\ Normal(AddrOf(c)) \in Addrs
<1>1. /\ cur[c] \in 1 .. Len(event) /\ event \in Seq(EventType(Len(geo)))
  BY DEF TypeInv, TypeOK, InCall, EventType
<1>2. event[cur[c]] \in EventType(Len(geo))
  BY <1>1
<1>3. AddrOf(c) \in Addrs
  BY <1>2 DEF AddrOf, EventType
<1> QED BY <1>1, <1>2, <1>3, NormalType

\* The record of an event keeps the types.
LEMMA HandleType ==
  ASSUME TypeInv, NEW c \in Containers, Handle(c)
  PROVE  TypeInv'
<1>1. PICK remote \in Addrs, origin \in Addrs :
        LET isHit == Cached(c, remote, origin)
        IN  /\ event' = Append(event, [remote |-> remote, origin |-> origin,
                                       remoteGeo |-> 0, originGeo |-> 0,
                                       at |-> clock])
            /\ hit' = [hit EXCEPT ![c] = isHit]
            /\ found' = [found EXCEPT ![c] =
                           [remote |-> IF isHit THEN cache[c][remote] ELSE 0,
                            origin |-> IF isHit THEN cache[c][origin] ELSE 0]]
            /\ pc' = [pc EXCEPT ![c] = IF isHit THEN "mark" ELSE "select"]
  BY DEF Handle
<1> DEFINE e == [remote |-> remote, origin |-> origin, remoteGeo |-> 0,
                 originGeo |-> 0, at |-> clock]
           f == [remote |-> IF Cached(c, remote, origin) THEN cache[c][remote] ELSE 0,
                 origin |-> IF Cached(c, remote, origin) THEN cache[c][origin] ELSE 0]
<1>2. /\ geo' = geo /\ Len(geo) \in Nat /\ clock \in Nat
      /\ event \in Seq(EventType(Len(geo)))
      /\ cache[c] \in [Addrs -> 0 .. Len(geo)]
  BY DEF Handle, TypeInv, TypeOK, EventType
<1>3. e \in EventType(Len(geo))
  BY <1>2 DEF EventType
<1>4. /\ event' \in Seq(EventType(Len(geo))) /\ Len(event') = Len(event) + 1
      /\ Len(event) \in Nat
  BY <1>1, <1>2, <1>3
<1>5. f \in [Sides -> 0 .. Len(geo)]
  BY <1>2 DEF Sides
<1>6. found' \in [Containers -> [Sides -> 0 .. Len(geo)]]
  <2> HIDE DEF f
  <2>1. found' = [found EXCEPT ![c] = f]
    BY <1>1 DEF f
  <2> QED BY <1>5, <2>1 DEF TypeInv, TypeOK
<1>7. /\ hit' \in [Containers -> BOOLEAN]
      /\ pc' \in [Containers -> {"idle", "select", "lookup", "write", "mark"}]
      /\ \A d \in Containers : d # c => pc'[d] = pc[d]
  BY <1>1 DEF TypeInv, TypeOK, Cached
<1>8. /\ cur' \in [Containers -> 0 .. Len(event')]
      /\ cur'[c] = Len(event) + 1
      /\ \A d \in Containers : d # c => cur'[d] = cur[d]
  BY <1>4 DEF Handle, TypeInv, TypeOK
<1>9. InCall'
  BY <1>4, <1>7, <1>8 DEF InCall, TypeInv
<1> QED BY <1>2, <1>4, <1>6, <1>7, <1>8, <1>9 DEF Handle, TypeInv, TypeOK, EventType

\* The query for a row keeps the types.
LEMMA SelectType ==
  ASSUME TypeInv, NEW c \in Containers, Select(c)
  PROVE  TypeInv'
<1>1. /\ pc[c] # "idle" /\ geo' = geo /\ geo \in Seq(Geos) /\ Len(geo) \in Nat
      /\ UNCHANGED <<clock, where, moves, event, cur, hit, side>>
  BY DEF Select, TypeInv, TypeOK
<1>2. ASSUME NEW i \in 0 .. Len(geo), LookUp(c, i) PROVE TypeInv'
  <2>1. /\ pc' \in [Containers -> {"idle", "select", "lookup", "write", "mark"}]
        /\ row' \in [Containers -> 0 .. Len(geo)]
        /\ \A d \in Containers : pc'[d] # "idle" => pc[d] # "idle"
    BY <1>1, <1>2 DEF LookUp, TypeInv, TypeOK
  <2>2. InCall'
    BY <1>1, <2>1 DEF InCall, TypeInv
  <2> QED BY <1>1, <1>2, <2>1, <2>2 DEF LookUp, TypeInv, TypeOK
<1>3. ASSUME NEW i \in 0 .. Len(geo), Resolved(c, i) PROVE TypeInv'
  BY <1>1, <1>3, ResolvedType
<1>4. \A i \in Latest(Normal(AddrOf(c))) : i \in 0 .. Len(geo)
  BY <1>1 DEF Latest
<1>5. 0 \in 0 .. Len(geo)
  BY <1>1
<1> QED BY <1>2, <1>3, <1>4, <1>5 DEF Select

\* The request to the location service keeps the types.
LEMMA LookupType ==
  ASSUME TypeInv, NEW c \in Containers, Lookup(c)
  PROVE  TypeInv'
<1>1. /\ pc[c] # "idle" /\ geo' = geo /\ geo \in Seq(Geos) /\ Len(geo) \in Nat
      /\ UNCHANGED <<clock, where, moves, event, cur, hit, side>>
      /\ clock \in Nat /\ where \in [Addrs -> Locs]
  BY DEF Lookup, TypeInv, TypeOK
<1>2. ASSUME NEW g \in Geos, Answers(c, g) PROVE TypeInv'
  <2>1. /\ pc' \in [Containers -> {"idle", "select", "lookup", "write", "mark"}]
        /\ answer' \in [Containers -> Geos]
        /\ \A d \in Containers : pc'[d] # "idle" => pc[d] # "idle"
    BY <1>1, <1>2 DEF Answers, TypeInv, TypeOK
  <2>2. InCall'
    BY <1>1, <2>1 DEF InCall, TypeInv
  <2> QED BY <1>1, <1>2, <2>1, <2>2 DEF Answers, TypeInv, TypeOK
<1>3. ASSUME Resolved(c, 0) PROVE TypeInv'
  BY <1>1, <1>3, ResolvedType
<1>4. /\ [ip |-> Normal(AddrOf(c)), loc |-> where[Normal(AddrOf(c))], at |-> clock] \in Geos
      /\ [Blank EXCEPT !.at = clock] \in Geos
  BY <1>1, AddrType DEF Geos, Blank
<1> QED BY <1>2, <1>3, <1>4 DEF Lookup

\* The three ways in which Write leaves the table geo.
LEMMA WriteCases ==
  ASSUME TypeInv, NEW c \in Containers, Write(c)
  PROVE  \/ /\ row[c] \in 1 .. Len(geo) /\ Same(geo[row[c]], answer[c])
            /\ geo' = [geo EXCEPT ![row[c]].at = clock]
            /\ Resolved(c, row[c])
         \/ /\ ~(row[c] # 0 /\ Same(geo[row[c]], answer[c]))
            /\ geo' = Append(geo, answer[c])
            /\ Resolved(c, Len(geo) + 1)
         \/ /\ "db" \in Faults
            /\ geo' = geo
            /\ Resolved(c, 0)
<1>1. row[c] \in 0 .. Len(geo) /\ Len(geo) \in Nat
  BY DEF TypeInv, TypeOK
<1> QED BY <1>1 DEF Write, InsertedId

\* The insert of a row keeps the types.
LEMMA WriteType ==
  ASSUME TypeInv, NEW c \in Containers, Write(c)
  PROVE  TypeInv'
<1>1. /\ pc[c] # "idle" /\ geo \in Seq(Geos) /\ Len(geo) \in Nat
      /\ UNCHANGED <<clock, where, moves, event, cur, hit, side>>
      /\ clock \in Nat /\ answer[c] \in Geos
  BY DEF Write, TypeInv, TypeOK
<1>2. CASE /\ row[c] \in 1 .. Len(geo) /\ geo' = [geo EXCEPT ![row[c]].at = clock]
           /\ Resolved(c, row[c])
  <2>1. [geo[row[c]] EXCEPT !.at = clock] \in Geos
    <3>1. geo[row[c]] \in Geos
      BY <1>1, <1>2
    <3> QED BY <1>1, <3>1 DEF Geos
  <2>2. geo' \in Seq(Geos) /\ Len(geo') = Len(geo)
    BY <1>1, <1>2, <2>1
  <2>3. row[c] \in 0 .. Len(geo') /\ Len(geo') >= Len(geo)
    BY <1>1, <1>2, <2>2
  <2> QED BY <1>1, <1>2, <2>2, <2>3, ResolvedType
<1>3. CASE geo' = Append(geo, answer[c]) /\ Resolved(c, Len(geo) + 1)
  <2>1. geo' \in Seq(Geos) /\ Len(geo') = Len(geo) + 1
    BY <1>1, <1>3
  <2>2. Len(geo) + 1 \in 0 .. Len(geo') /\ Len(geo') >= Len(geo)
    BY <1>1, <2>1
  <2> QED BY <1>1, <1>3, <2>1, <2>2, ResolvedType
<1>4. CASE geo' = geo /\ Resolved(c, 0)
  BY <1>1, <1>4, ResolvedType
<1> QED BY <1>2, <1>3, <1>4, WriteCases

\* What Mark makes of the event: nothing, or one column of it changes.
LEMMA MarkEvent ==
  ASSUME TypeInv, NEW c \in Containers, Mark(c)
  PROVE  /\ event' \in Seq(EventType(Len(geo)))
         /\ Len(event') = Len(event)
         /\ \A i \in 1 .. Len(event) : i # cur[c] => event'[i] = event[i]
         /\ \/ /\ found[c][side[c]] = 0 \/ "db" \in Faults
               /\ event' = event
            \/ /\ found[c][side[c]] > 0 /\ side[c] = "remote"
               /\ event'[cur[c]] = [event[cur[c]] EXCEPT !.remoteGeo = found[c][side[c]]]
            \/ /\ found[c][side[c]] > 0 /\ side[c] = "origin"
               /\ event'[cur[c]] = [event[cur[c]] EXCEPT !.originGeo = found[c][side[c]]]
<1> DEFINE id == found[c][side[c]]
<1>1. /\ event \in Seq(EventType(Len(geo))) /\ pc[c] # "idle"
      /\ id \in 0 .. Len(geo) /\ side[c] \in {"remote", "origin"}
      /\ Len(geo) \in Nat
  BY DEF Mark, TypeInv, TypeOK, EventType, Sides
<1>2. cur[c] \in 1 .. Len(event) /\ event[cur[c]] \in EventType(Len(geo))
  BY <1>1, AddrType
<1>3. CASE (id = 0 \/ "db" \in Faults) /\ event' = event
  BY <1>1, <1>3
<1>4. CASE id > 0 /\ event' = [event EXCEPT ![cur[c]][Field(side[c])] = id]
  <2> HIDE DEF id
  <2>1. CASE side[c] = "remote"
    <3>1. Field(side[c]) = "remoteGeo"
      BY <2>1 DEF Field
    <3>2. [event[cur[c]] EXCEPT !.remoteGeo = id] \in EventType(Len(geo))
      BY <1>1, <1>2 DEF EventType
    <3>3. event' = [event EXCEPT ![cur[c]] = [event[cur[c]] EXCEPT !.remoteGeo = id]]
      BY <1>2, <1>4, <3>1 DEF EventType
    <3> QED BY <1>1, <1>2, <1>4, <2>1, <3>2, <3>3 DEF id
  <2>2. CASE side[c] = "origin"
    <3>1. Field(side[c]) = "originGeo"
      BY <2>2 DEF Field
    <3>2. [event[cur[c]] EXCEPT !.originGeo = id] \in EventType(Len(geo))
      BY <1>1, <1>2 DEF EventType
    <3>3. event' = [event EXCEPT ![cur[c]] = [event[cur[c]] EXCEPT !.originGeo = id]]
      BY <1>2, <1>4, <3>1 DEF EventType
    <3> QED BY <1>1, <1>2, <1>4, <2>2, <3>2, <3>3 DEF id
  <2> QED BY <1>1, <2>1, <2>2
<1> QED BY <1>3, <1>4 DEF Mark

\* The mark of an event keeps the types.
LEMMA MarkType ==
  ASSUME TypeInv, NEW c \in Containers, Mark(c)
  PROVE  TypeInv'
<1>1. /\ event' \in Seq(EventType(Len(geo))) /\ Len(event') = Len(event)
      /\ UNCHANGED <<clock, where, moves, geo, cache>> /\ pc[c] # "idle"
      /\ cache \in [Containers -> [Addrs -> 0 .. Len(geo)]]
  BY MarkEvent DEF Mark, TypeInv, TypeOK
<1>2. CASE Forget(c)
  BY <1>1, <1>2, ForgetType
<1>3. CASE /\ side' = [side EXCEPT ![c] = "origin"]
           /\ pc' = [pc EXCEPT ![c] = IF hit[c] THEN "mark" ELSE "select"]
           /\ UNCHANGED <<cur, hit, row, answer, found>>
  <2>1. /\ pc' \in [Containers -> {"idle", "select", "lookup", "write", "mark"}]
        /\ side' \in [Containers -> Sides]
        /\ \A d \in Containers : pc'[d] # "idle" => pc[d] # "idle"
    BY <1>1, <1>3 DEF TypeInv, TypeOK, Sides
  <2>2. InCall'
    BY <1>1, <1>3, <2>1 DEF InCall, TypeInv
  <2> QED BY <1>1, <1>3, <2>1, <2>2 DEF TypeInv, TypeOK, EventType
<1> QED BY <1>2, <1>3 DEF Mark

\* Every step keeps the types.
LEMMA TypeNext == TypeInv /\ [Next]_vars => TypeInv'
<1> SUFFICES ASSUME TypeInv, [Next]_vars PROVE TypeInv'
  OBVIOUS
<1>0. EmptyCache \in [Addrs -> 0 .. Len(geo)] /\ Len(geo) \in Nat
  BY DEF TypeInv, TypeOK, EmptyCache
<1>1. CASE Tick
  BY <1>1 DEF Tick, TypeInv, TypeOK, InCall
<1>2. CASE Move
  BY <1>2 DEF Move, TypeInv, TypeOK, InCall
<1>3. ASSUME NEW c \in Containers, Kill(c) PROVE TypeInv'
  <2>1. cache' \in [Containers -> [Addrs -> 0 .. Len(geo)]]
    BY <1>0, <1>3 DEF Kill, TypeInv, TypeOK
  <2>2. event' \in Seq(EventType(Len(geo))) /\ Len(event') = Len(event)
    BY <1>3 DEF Kill, TypeInv, TypeOK, EventType
  <2> QED BY <1>3, <2>1, <2>2, ForgetType DEF Kill
<1>4. ASSUME NEW c \in Containers, ClearCache(c) PROVE TypeInv'
  <2>1. cache' \in [Containers -> [Addrs -> 0 .. Len(geo)]]
    BY <1>0, <1>4 DEF ClearCache, TypeInv, TypeOK
  <2> QED BY <1>4, <2>1 DEF ClearCache, TypeInv, TypeOK, InCall
<1>5. ASSUME NEW c \in Containers, Handle(c) PROVE TypeInv'
  BY <1>5, HandleType
<1>6. ASSUME NEW c \in Containers, Resolve(c) PROVE TypeInv'
  BY <1>6, SelectType, LookupType, WriteType, MarkType DEF Resolve
<1>7. CASE UNCHANGED vars
  BY <1>7 DEF vars, TypeInv, TypeOK, InCall
<1> QED BY <1>1, <1>2, <1>3, <1>4, <1>5, <1>6, <1>7 DEF Next

\* The variables keep their types, and no id refers to a row that does not
\* exist, however the containers insert, refresh and die.
THEOREM TypeCorrect == Spec => []TypeOK
<1>1. TypeInv => TypeOK
  BY DEF TypeInv
<1> QED BY <1>1, TypeInit, TypeNext, PTL DEF Spec

-----------------------------------------------------------------------------
(***************************************************************************)
(* What a step may do to the tables, and to the calls it does not make     *)
(***************************************************************************)

\* Nothing happened after the present.
TimesOK ==
  /\ \A i \in 1 .. Len(geo) : geo[i].at <= clock
  /\ \A i \in 1 .. Len(event) : event[i].at <= clock
  /\ \A c \in Containers : answer[c].at <= clock

\* Rows are added and made younger, and what was recorded of an event stays.
Grows ==
  /\ clock' \in Nat /\ clock' >= clock
  /\ Len(geo') \in Nat /\ Len(geo') >= Len(geo)
  /\ \A i \in 1 .. Len(geo) : /\ geo'[i].ip = geo[i].ip
                              /\ geo'[i].at \in Nat /\ geo'[i].at >= geo[i].at
  /\ Len(event') \in Nat /\ Len(event') >= Len(event)
  /\ \A i \in 1 .. Len(event) : /\ event'[i].remote = event[i].remote
                                /\ event'[i].origin = event[i].origin
                                /\ event'[i].at = event[i].at

\* The call of d is where it was.
Still(d) ==
  /\ pc'[d] = pc[d] /\ cur'[d] = cur[d] /\ hit'[d] = hit[d] /\ side'[d] = side[d]
  /\ row'[d] = row[d] /\ answer'[d] = answer[d] /\ found'[d] = found[d]

Acts(c) == Kill(c) \/ Handle(c) \/ Resolve(c)

\* The values of the variables, one by one.
LEMMA Values ==
  ASSUME TypeInv
  PROVE  /\ clock \in Nat /\ Len(geo) \in Nat /\ Len(event) \in Nat
         /\ \A i \in 1 .. Len(geo) : geo[i] \in Geos /\ geo[i].at \in Nat
         /\ \A i \in 1 .. Len(event) : /\ event[i] \in EventType(Len(geo))
                                       /\ event[i].at \in Nat
         /\ \A c \in Containers : /\ answer[c] \in Geos /\ answer[c].at \in Nat
                                  /\ row[c] \in 0 .. Len(geo)
                                  /\ side[c] \in Sides
<1>1. geo \in Seq(Geos) /\ event \in Seq(EventType(Len(geo)))
  BY DEF TypeInv, TypeOK, EventType
<1>2. /\ clock \in Nat /\ Len(geo) \in Nat /\ Len(event) \in Nat
      /\ \A c \in Containers : /\ answer[c] \in Geos /\ row[c] \in 0 .. Len(geo)
                               /\ side[c] \in Sides
  BY <1>1 DEF TypeInv, TypeOK
<1>3. \A i \in 1 .. Len(geo) : geo[i] \in Geos
  BY <1>1
<1>4. \A i \in 1 .. Len(event) : event[i] \in EventType(Len(geo))
  BY <1>1
<1>5. /\ \A g \in Geos : g.at \in Nat
      /\ \A e \in EventType(Len(geo)) : e.at \in Nat
  BY DEF Geos, EventType
<1> QED BY <1>2, <1>3, <1>4, <1>5

\* A container changes the variables of no call but its own.
LEMMA ActsAlone ==
  ASSUME TypeInv, NEW c \in Containers, Acts(c), NEW d \in Containers, d # c
  PROVE  Still(d)
<1>1. ASSUME NEW x, Resolved(c, x), UNCHANGED <<cur, hit, side>> PROVE Still(d)
  BY <1>1 DEF Resolved, Still, TypeInv, TypeOK
<1>2. ASSUME Forget(c) PROVE Still(d)
  BY <1>2 DEF Forget, Still, TypeInv, TypeOK
<1>3. ASSUME NEW x, LookUp(c, x), UNCHANGED <<cur, hit, side>> PROVE Still(d)
  BY <1>3 DEF LookUp, Still, TypeInv, TypeOK
<1>4. ASSUME NEW x, Answers(c, x), UNCHANGED <<cur, hit, side>> PROVE Still(d)
  BY <1>4 DEF Answers, Still, TypeInv, TypeOK
<1>5. CASE Kill(c)
  BY <1>2, <1>5 DEF Kill
<1>6. CASE Handle(c)
  BY <1>6 DEF Handle, Still, TypeInv, TypeOK
<1>7. CASE Select(c)
  BY <1>1, <1>3, <1>7 DEF Select
<1>8. CASE Lookup(c)
  BY <1>1, <1>4, <1>8 DEF Lookup
<1>9. CASE Write(c)
  BY <1>1, <1>9 DEF Write
<1>10. CASE Mark(c)
  <2>1. CASE Forget(c)
    BY <1>2, <2>1
  <2>2. CASE /\ side' = [side EXCEPT ![c] = "origin"]
             /\ pc' = [pc EXCEPT ![c] = IF hit[c] THEN "mark" ELSE "select"]
             /\ UNCHANGED <<cur, hit, row, answer, found>>
    BY <2>2 DEF Still, TypeInv, TypeOK
  <2> QED BY <1>10, <2>1, <2>2 DEF Mark
<1> QED BY <1>5, <1>6, <1>7, <1>8, <1>9, <1>10 DEF Acts, Resolve

\* Only Handle and Mark touch the table event, only Write the table geo.
LEMMA QuietTables ==
  ASSUME NEW c \in Containers, Kill(c) \/ Select(c) \/ Lookup(c) \/ Write(c)
  PROVE  event' = event /\ clock' = clock /\ (~Write(c) => geo' = geo)
  BY DEF Kill, Select, Lookup, Write

\* The answers of a step, old or of the present.
LEMMA AnswerTimes ==
  ASSUME TypeInv, TimesOK, NEW c \in Containers, Acts(c)
  PROVE  \A d \in Containers : answer'[d].at <= clock
<1>1. \A d \in Containers : d # c => answer'[d] = answer[d]
  BY ActsAlone DEF Still
<1>2. clock \in Nat /\ Blank.at = 0
  BY Values DEF Blank
<1>3. answer'[c].at <= clock
  <2>1. ASSUME NEW x, Resolved(c, x) PROVE answer'[c].at <= clock
    BY <1>2, <2>1 DEF Resolved, TypeInv, TypeOK
  <2>2. ASSUME Forget(c) PROVE answer'[c].at <= clock
    BY <1>2, <2>2 DEF Forget, TypeInv, TypeOK
  <2>3. ASSUME NEW g, Answers(c, g), g.at = clock PROVE answer'[c].at <= clock
    BY <1>2, <2>3 DEF Answers, TypeInv, TypeOK
  <2>4. ASSUME UNCHANGED answer PROVE answer'[c].at <= clock
    BY <2>4 DEF TimesOK
  <2>5. [Blank EXCEPT !.at = clock].at = clock
    BY DEF Blank
  <2>6. CASE Kill(c)
    BY <2>2, <2>6 DEF Kill
  <2>7. CASE Handle(c)
    BY <2>4, <2>7 DEF Handle
  <2>8. CASE Select(c)
    BY <2>1, <2>4, <2>8 DEF Select, LookUp
  <2>9. CASE Lookup(c)
    BY <2>1, <2>3, <2>5, <2>9 DEF Lookup
  <2>10. CASE Write(c)
    BY <2>1, <2>10 DEF Write
  <2>11. CASE Mark(c)
    BY <2>2, <2>4, <2>11 DEF Mark
  <2> QED BY <2>6, <2>7, <2>8, <2>9, <2>10, <2>11 DEF Acts, Resolve
<1> QED BY <1>1, <1>3 DEF TimesOK

\* Write makes no row older, and nothing it writes is of the future.
LEMMA WriteGrows ==
  ASSUME TypeInv, TimesOK, NEW c \in Containers, Write(c)
  PROVE  /\ Len(geo') \in Nat /\ Len(geo') >= Len(geo)
         /\ \A i \in 1 .. Len(geo) : /\ geo'[i].ip = geo[i].ip
                                     /\ geo'[i].at \in Nat /\ geo'[i].at >= geo[i].at
         /\ \A i \in 1 .. Len(geo') : geo'[i].at <= clock
<1>1. /\ geo \in Seq(Geos) /\ answer[c] \in Geos /\ clock \in Nat
      /\ Len(geo) \in Nat /\ answer[c].at <= clock
      /\ \A i \in 1 .. Len(geo) : /\ geo[i] \in Geos /\ geo[i].at \in Nat
                                  /\ geo[i].at <= clock
  BY Values DEF TimesOK, TypeInv, TypeOK
<1>2. CASE row[c] \in 1 .. Len(geo) /\ geo' = [geo EXCEPT ![row[c]].at = clock]
  <2>1. /\ Len(geo') = Len(geo)
        /\ geo'[row[c]] = [geo[row[c]] EXCEPT !.at = clock]
        /\ \A i \in 1 .. Len(geo) : i # row[c] => geo'[i] = geo[i]
    BY <1>1, <1>2
  <2>2. geo'[row[c]].at = clock /\ geo'[row[c]].ip = geo[row[c]].ip
    BY <1>1, <1>2, <2>1 DEF Geos
  <2> QED BY <1>1, <1>2, <2>1, <2>2
<1>3. CASE geo' = Append(geo, answer[c])
  <2>1. /\ Len(geo') = Len(geo) + 1
        /\ geo'[Len(geo) + 1] = answer[c]
        /\ \A i \in 1 .. Len(geo) : geo'[i] = geo[i]
    BY <1>1, <1>3
  <2> QED BY <1>1, <2>1
<1>4. CASE geo' = geo
  BY <1>1, <1>4
<1> QED BY <1>2, <1>3, <1>4, WriteCases

\* What Handle adds.
LEMMA HandleEvent ==
  ASSUME TypeInv, NEW c \in Containers, Handle(c)
  PROVE  /\ Len(event') = Len(event) + 1
         /\ \A i \in 1 .. Len(event) : event'[i] = event[i]
         /\ event'[Len(event) + 1].at = clock
         /\ event'[Len(event) + 1].remoteGeo = 0
         /\ event'[Len(event) + 1].originGeo = 0
         /\ cur'[c] = Len(event) + 1
<1>1. PICK remote \in Addrs, origin \in Addrs :
        event' = Append(event, [remote |-> remote, origin |-> origin,
                                remoteGeo |-> 0, originGeo |-> 0, at |-> clock])
  BY DEF Handle
<1>2. event \in Seq(EventType(Len(geo)))
  BY DEF TypeInv, TypeOK, EventType
<1>3. cur'[c] = Len(event) + 1
  BY DEF Handle, TypeInv, TypeOK
<1> QED BY <1>1, <1>2, <1>3

\* Every step makes the tables grow and the present no earlier.
LEMMA StepGrows == TypeInv /\ TimesOK /\ [Next]_vars => Grows /\ TimesOK'
<1> SUFFICES ASSUME TypeInv, TimesOK, [Next]_vars PROVE Grows /\ TimesOK'
  OBVIOUS
<1>0. /\ clock \in Nat /\ Len(geo) \in Nat /\ Len(event) \in Nat
      /\ \A i \in 1 .. Len(geo) : geo[i].at \in Nat
      /\ \A i \in 1 .. Len(event) : event[i].at \in Nat
      /\ \A c \in Containers : answer[c].at \in Nat
  BY Values
<1>1. CASE Tick
  BY <1>0, <1>1 DEF Tick, Grows, TimesOK
<1>2. CASE Move \/ UNCHANGED vars \/ \E c \in Containers : ClearCache(c)
  <2>1. UNCHANGED <<clock, geo, event, answer>>
    BY <1>2 DEF Move, vars, ClearCache
  <2> QED BY <1>0, <2>1 DEF Grows, TimesOK
<1>3. ASSUME NEW c \in Containers, Acts(c) PROVE Grows /\ TimesOK'
  <2>1. \A d \in Containers : answer'[d].at <= clock
    BY <1>3, AnswerTimes
  <2>2. CASE Handle(c)
    <3>1. geo' = geo /\ clock' = clock
      BY <2>2 DEF Handle
    <3>2. /\ Len(event') = Len(event) + 1
          /\ \A i \in 1 .. Len(event) : event'[i] = event[i]
          /\ event'[Len(event) + 1].at = clock
      BY <2>2, HandleEvent
    <3>3. Grows
      BY <1>0, <3>1, <3>2 DEF Grows
    <3>4. ASSUME NEW i \in 1 .. Len(event') PROVE event'[i].at <= clock
      <4>1. i \in 1 .. Len(event) \/ i = Len(event) + 1
        BY <1>0, <3>2
      <4> QED BY <1>0, <3>2, <4>1 DEF TimesOK
    <3> QED BY <2>1, <3>1, <3>3, <3>4 DEF TimesOK
  <2>3. CASE Mark(c)
    <3>1. geo' = geo /\ clock' = clock
      BY <2>3 DEF Mark
    <3>2. /\ Len(event') = Len(event)
          /\ \A i \in 1 .. Len(event) : i # cur[c] => event'[i] = event[i]
          /\ \/ event' = event
             \/ \E x : event'[cur[c]] = [event[cur[c]] EXCEPT !.remoteGeo = x]
             \/ \E x : event'[cur[c]] = [event[cur[c]] EXCEPT !.originGeo = x]
      BY <2>3, MarkEvent
    <3>3. cur[c] \in 1 .. Len(event) /\ event[cur[c]] \in EventType(Len(geo))
      BY <2>3, AddrType DEF Mark
    <3>4. /\ event'[cur[c]].remote = event[cur[c]].remote
          /\ event'[cur[c]].origin = event[cur[c]].origin
          /\ event'[cur[c]].at = event[cur[c]].at
      BY <3>2, <3>3 DEF EventType
    <3>5. \A i \in 1 .. Len(event) : /\ event'[i].remote = event[i].remote
                                     /\ event'[i].origin = event[i].origin
                                     /\ event'[i].at = event[i].at
      BY <3>2, <3>4
    <3>6. Grows
      BY <1>0, <3>1, <3>2, <3>5 DEF Grows
    <3>7. \A i \in 1 .. Len(event') : event'[i].at <= clock
      BY <3>2, <3>5 DEF TimesOK
    <3> QED BY <1>0, <2>1, <3>1, <3>6, <3>7 DEF TimesOK
  <2>4. CASE Write(c)
    <3>1. event' = event /\ clock' = clock
      BY <2>4 DEF Write
    <3> QED BY <1>0, <2>1, <2>4, <3>1, WriteGrows DEF Grows, TimesOK
  <2>5. CASE Kill(c) \/ Select(c) \/ Lookup(c)
    <3>1. UNCHANGED <<event, clock, geo>>
      BY <2>5 DEF Kill, Select, Lookup
    <3> QED BY <1>0, <2>1, <3>1 DEF Grows, TimesOK
  <2> QED BY <1>3, <2>2, <2>3, <2>4, <2>5 DEF Acts, Resolve
<1> QED BY <1>1, <1>2, <1>3 DEF Next, Acts

-----------------------------------------------------------------------------
(***************************************************************************)
(* Without the cache an event gets locations of its own addresses only,    *)
(* and none that had expired                                               *)
(***************************************************************************)

\* The row id of the table g may be the location of address a in an event of
\* time t.
Suits(g, id, a, t) ==
  id # 0 => /\ id \in 1 .. Len(g)
            /\ g[id].ip \in {Normal(a), NoAddr}
            /\ g[id].at >= t - Ttl

EventOK(g, e) == /\ Suits(g, e.remoteGeo, e.remote, e.at)
                 /\ Suits(g, e.originGeo, e.origin, e.at)

\* What a call in progress has found out is about the address it is at, and
\* recent enough for its event.
CallOK(c) ==
  /\ pc[c] \in {"lookup", "write"} /\ row[c] # 0 => geo[row[c]].ip = Normal(AddrOf(c))
  /\ pc[c] = "write" => /\ answer[c].ip \in {Normal(AddrOf(c)), NoAddr}
                        /\ answer[c].at >= event[cur[c]].at
  /\ pc[c] = "mark" => Suits(geo, found[c][side[c]], AddrOf(c), event[cur[c]].at)

MarkInv ==
  /\ TimesOK
  /\ \A c \in Containers : ~hit[c] /\ CallOK(c)
  /\ \A i \in 1 .. Len(event) : EventOK(geo, event[i])

\* There are no events, rows or calls at the start.
LEMMA MarkInit == Init => MarkInv
<1> SUFFICES ASSUME Init PROVE MarkInv
  OBVIOUS
<1>1. Blank.at = 0
  BY DEF Blank
<1> QED BY <1>1 DEF Init, MarkInv, TimesOK, CallOK

\* A row that suits goes on to, whatever the tables become.
LEMMA SuitsStays ==
  ASSUME TypeInv, Grows
  PROVE  \A id, a : \A t \in Nat : Suits(geo, id, a, t) => Suits(geo', id, a, t)
<1> SUFFICES ASSUME NEW id, NEW a, NEW t \in Nat, Suits(geo, id, a, t), id # 0
             PROVE  Suits(geo', id, a, t)
  BY DEF Suits
<1>1. /\ id \in 1 .. Len(geo) /\ geo[id].ip \in {Normal(a), NoAddr}
      /\ geo[id].at >= t - Ttl /\ geo[id].at \in Nat /\ Len(geo) \in Nat
  BY Values DEF Suits
<1>2. /\ id \in 1 .. Len(geo') /\ geo'[id].ip = geo[id].ip
      /\ geo'[id].at \in Nat /\ geo'[id].at >= geo[id].at
  BY <1>1 DEF Grows
<1>3. geo'[id].at >= t - Ttl
  BY <1>1, <1>2
<1> QED BY <1>1, <1>2, <1>3 DEF Suits

\* A call that does not move goes on to be about its address.
LEMMA CallStays ==
  ASSUME TypeInv, Grows, NEW d \in Containers, CallOK(d), Still(d)
  PROVE  CallOK(d)'
<1>1. CASE pc[d] = "idle"
  BY <1>1 DEF CallOK, Still
<1>2. CASE pc[d] # "idle"
  <2> DEFINE e == event[cur[d]]
  <2>1. /\ cur[d] \in 1 .. Len(event) /\ e.at \in Nat
        /\ row[d] \in 0 .. Len(geo) /\ Len(geo) \in Nat
        /\ answer[d].at \in Nat
    BY <1>2, Values, AddrType
  <2>2. AddrOf(d)' = AddrOf(d) /\ event'[cur'[d]].at = e.at
    BY <2>1 DEF Grows, Still, AddrOf
  <2>3. Suits(geo, found[d][side[d]], AddrOf(d), e.at)
          => Suits(geo', found[d][side[d]], AddrOf(d), e.at)
    BY <2>1, SuitsStays
  <2>4. row[d] # 0 => geo'[row[d]].ip = geo[row[d]].ip
    BY <2>1 DEF Grows
  <2> HIDE DEF e
  <2>5. /\ pc'[d] = pc[d] /\ side'[d] = side[d] /\ row'[d] = row[d]
        /\ answer'[d] = answer[d] /\ found'[d] = found[d]
    BY DEF Still
  <2> QED BY <2>2, <2>3, <2>4, <2>5 DEF CallOK, e
<1> QED BY <1>1, <1>2

\* resolveAddr ends with a row that suits, or with none.
LEMMA ResolvedOK ==
  ASSUME TypeInv, NEW c \in Containers, pc[c] # "idle", NEW id, Resolved(c, id),
         UNCHANGED <<event, cur, hit, side>>,
         Suits(geo', id, AddrOf(c), event[cur[c]].at)
  PROVE  CallOK(c)'
<1>1. /\ pc'[c] = "mark" /\ found'[c][side[c]] = id
      /\ event' = event /\ cur' = cur /\ side' = side
  BY DEF Resolved, TypeInv, TypeOK
<1>2. AddrOf(c)' = AddrOf(c)
  BY <1>1 DEF AddrOf
<1> QED BY <1>1, <1>2 DEF CallOK

\* What a query found belongs to the address of the call.
LEMMA SelectOK ==
  ASSUME TypeInv, MarkInv, NEW c \in Containers, Select(c)
  PROVE  CallOK(c)'
<1>1. /\ pc[c] # "idle" /\ clock \in Nat /\ Len(geo) \in Nat
      /\ UNCHANGED <<geo, event, cur, hit, side>>
      /\ \A i \in 1 .. Len(geo) : geo[i].at \in Nat
  BY Values DEF Select
<1>2. /\ cur[c] \in 1 .. Len(event)
      /\ event[cur[c]].at \in Nat /\ event[cur[c]].at <= clock
  BY <1>1, AddrType, Values DEF MarkInv, TimesOK
<1>3. \A i \in Latest(Normal(AddrOf(c))) :
        i \in 1 .. Len(geo) /\ geo[i].ip = Normal(AddrOf(c))
  BY DEF Latest
<1>4. ASSUME NEW i \in Latest(Normal(AddrOf(c))), ~Expired(i), Resolved(c, i)
      PROVE  CallOK(c)'
  <2>1. Suits(geo', i, AddrOf(c), event[cur[c]].at)
    <3>1. i \in 1 .. Len(geo) /\ geo[i].ip = Normal(AddrOf(c)) /\ geo' = geo
      BY <1>1, <1>3
    <3>2. geo[i].at >= event[cur[c]].at - Ttl
      <4>1. geo[i].at \in Nat /\ Ttl \in Nat
        BY <1>1, <3>1
      <4>2. ~(geo[i].at < clock - Ttl)
        BY <1>4 DEF Expired
      <4>3. ASSUME NEW g \in Nat, NEW t \in Nat, NEW now \in Nat, ~(g < now - Ttl), t <= now
            PROVE  g >= t - Ttl
        BY <4>3
      <4> QED BY <1>1, <1>2, <4>1, <4>2, <4>3
    <3> QED BY <3>1, <3>2 DEF Suits
  <2> QED BY <1>1, <1>4, <2>1, ResolvedOK
<1>5. ASSUME Resolved(c, 0) PROVE CallOK(c)'
  BY <1>1, <1>5, ResolvedOK DEF Suits
<1>6. ASSUME NEW i, i = 0 \/ i \in Latest(Normal(AddrOf(c))), LookUp(c, i)
      PROVE  CallOK(c)'
  <2>1. pc'[c] = "lookup" /\ row'[c] = i
    BY <1>6 DEF LookUp, TypeInv, TypeOK
  <2>2. AddrOf(c)' = AddrOf(c)
    BY <1>1 DEF AddrOf
  <2> QED BY <1>1, <1>3, <1>6, <2>1, <2>2 DEF CallOK
<1> QED BY <1>4, <1>5, <1>6 DEF Select

\* The answer of the service is of the address and the time of the call.
LEMMA LookupOK ==
  ASSUME TypeInv, MarkInv, NEW c \in Containers, Lookup(c)
  PROVE  CallOK(c)'
<1>1. /\ pc[c] = "lookup" /\ UNCHANGED <<geo, event, cur, hit, side>>
  BY DEF Lookup
<1>2. /\ cur[c] \in 1 .. Len(event)
      /\ event[cur[c]].at \in Nat /\ event[cur[c]].at <= clock
  BY <1>1, AddrType, Values DEF MarkInv, TimesOK
<1>3. ASSUME Resolved(c, 0) PROVE CallOK(c)'
  BY <1>1, <1>3, ResolvedOK DEF Suits
<1>4. ASSUME NEW g, Answers(c, g), g.ip \in {Normal(AddrOf(c)), NoAddr}, g.at = clock
      PROVE  CallOK(c)'
  <2>1. pc'[c] = "write" /\ answer'[c] = g /\ row' = row
    BY <1>4 DEF Answers, TypeInv, TypeOK
  <2>2. AddrOf(c)' = AddrOf(c)
    BY <1>1 DEF AddrOf
  <2> QED BY <1>1, <1>2, <1>4, <2>1, <2>2 DEF MarkInv, CallOK
<1>5. /\ [Blank EXCEPT !.at = clock].ip = NoAddr
      /\ [Blank EXCEPT !.at = clock].at = clock
  BY DEF Blank
<1> QED BY <1>3, <1>4, <1>5 DEF Lookup

\* The row a call inserted is the row of its address.
LEMMA WriteOK ==
  ASSUME TypeInv, MarkInv, NEW c \in Containers, Write(c)
  PROVE  CallOK(c)'
<1> DEFINE a == AddrOf(c)
           t == event[cur[c]].at
<1>1. /\ pc[c] = "write" /\ UNCHANGED <<clock, event, cur, hit, side>>
      /\ geo \in Seq(Geos) /\ Len(geo) \in Nat /\ clock \in Nat
      /\ \A i \in 1 .. Len(geo) : geo[i] \in Geos
      /\ answer[c] \in Geos /\ answer[c].at \in Nat
  BY Values DEF Write, TypeInv, TypeOK
<1>2. t \in Nat /\ t <= clock
  BY <1>1, AddrType, Values DEF MarkInv, TimesOK
<1>3. /\ row[c] # 0 => geo[row[c]].ip = Normal(a)
      /\ answer[c].ip \in {Normal(a), NoAddr} /\ answer[c].at >= t
  BY <1>1 DEF MarkInv, CallOK
<1>4. CASE /\ row[c] \in 1 .. Len(geo) /\ geo' = [geo EXCEPT ![row[c]].at = clock]
           /\ Resolved(c, row[c])
  <2>1. /\ Len(geo') = Len(geo) /\ geo[row[c]] \in Geos
        /\ geo'[row[c]] = [geo[row[c]] EXCEPT !.at = clock]
    BY <1>1, <1>4
  <2>2. geo'[row[c]].at = clock /\ geo'[row[c]].ip = geo[row[c]].ip
    BY <2>1 DEF Geos
  <2>3. Suits(geo', row[c], a, t)
    BY <1>1, <1>2, <1>3, <1>4, <2>1, <2>2 DEF Suits
  <2> QED BY <1>1, <1>4, <2>3, ResolvedOK
<1>5. CASE geo' = Append(geo, answer[c]) /\ Resolved(c, Len(geo) + 1)
  <2>1. Len(geo') = Len(geo) + 1 /\ geo'[Len(geo) + 1] = answer[c]
    BY <1>1, <1>5
  <2>2. Suits(geo', Len(geo) + 1, a, t)
    BY <1>1, <1>2, <1>3, <2>1 DEF Suits
  <2> QED BY <1>1, <1>5, <2>2, ResolvedOK
<1>6. CASE Resolved(c, 0)
  BY <1>1, <1>6, ResolvedOK DEF Suits
<1> QED BY <1>4, <1>5, <1>6, WriteCases

\* Without the cache, every step keeps what events and calls have.
LEMMA MarkNext == ~UseCache /\ TypeInv /\ MarkInv /\ [Next]_vars => MarkInv'
<1> SUFFICES ASSUME ~UseCache, TypeInv, MarkInv, [Next]_vars PROVE MarkInv'
  OBVIOUS
<1>1. Grows /\ TimesOK'
  BY StepGrows DEF MarkInv
<1>2. \A i \in 1 .. Len(event) : EventOK(geo', event[i])
  BY <1>1, SuitsStays, Values DEF MarkInv, EventOK
<1>3. ASSUME NEW d \in Containers, Still(d) PROVE ~hit'[d] /\ CallOK(d)'
  BY <1>1, <1>3, CallStays DEF MarkInv, Still
<1>4. CASE Tick \/ Move \/ UNCHANGED vars \/ \E c \in Containers : ClearCache(c)
  <2>1. /\ UNCHANGED <<event, pc, cur, hit, side, row, answer, found>>
    BY <1>4 DEF Tick, Move, vars, ClearCache
  <2>2. \A d \in Containers : Still(d)
    BY <2>1 DEF Still
  <2> QED BY <1>1, <1>2, <1>3, <2>1, <2>2 DEF MarkInv
<1>5. ASSUME NEW c \in Containers, Acts(c) PROVE MarkInv'
  <2>1. \A d \in Containers : d # c => ~hit'[d] /\ CallOK(d)'
    BY <1>3, <1>5, ActsAlone
  <2>2. CASE Kill(c)
    <3>1. pc'[c] = "idle" /\ ~hit'[c] /\ event' = event
      BY <2>2 DEF Kill, Forget, TypeInv, TypeOK
    <3> QED BY <1>1, <1>2, <2>1, <3>1 DEF MarkInv, CallOK
  <2>3. CASE Handle(c)
    <3>1. pc'[c] = "select" /\ ~hit'[c]
      BY <2>3 DEF Handle, Cached, TypeInv, TypeOK
    <3>2. \A i \in 1 .. Len(event') : EventOK(geo', event'[i])
      <4>1. ASSUME NEW i \in 1 .. Len(event') PROVE EventOK(geo', event'[i])
        <5>1. Len(event) \in Nat
          BY Values
        <5>2. i \in 1 .. Len(event) \/ i = Len(event) + 1
          BY <2>3, <5>1, HandleEvent
        <5> QED BY <1>2, <2>3, <5>2, HandleEvent DEF EventOK, Suits
      <4> QED BY <4>1
    <3> QED BY <1>1, <2>1, <3>1, <3>2 DEF MarkInv, CallOK
  <2>4. CASE Select(c) \/ Lookup(c) \/ Write(c)
    <3>1. event' = event /\ hit' = hit
      BY <2>4 DEF Select, Lookup, Write
    <3>2. CallOK(c)'
      BY <2>4, SelectOK, LookupOK, WriteOK
    <3> QED BY <1>1, <1>2, <2>1, <3>1, <3>2 DEF MarkInv
  <2>5. CASE Mark(c)
    <3>1. pc[c] = "mark" /\ geo' = geo /\ ~hit[c]
      BY <2>5 DEF Mark, MarkInv
    <3>2. /\ cur[c] \in 1 .. Len(event) /\ event[cur[c]] \in EventType(Len(geo))
      BY <3>1, AddrType
    <3>3. Suits(geo, found[c][side[c]], AddrOf(c), event[cur[c]].at)
      BY <3>1 DEF MarkInv, CallOK
    <3>4. EventOK(geo, event'[cur[c]])
      <4>1. EventOK(geo, event[cur[c]])
        BY <3>2 DEF MarkInv
      <4>2. CASE event' = event
        BY <4>1, <4>2
      <4>3. CASE /\ side[c] = "remote"
                 /\ event'[cur[c]] = [event[cur[c]] EXCEPT !.remoteGeo = found[c][side[c]]]
        BY <3>2, <3>3, <4>1, <4>3 DEF EventOK, AddrOf, EventType
      <4>4. CASE /\ side[c] = "origin"
                 /\ event'[cur[c]] = [event[cur[c]] EXCEPT !.originGeo = found[c][side[c]]]
        BY <3>2, <3>3, <4>1, <4>4 DEF EventOK, AddrOf, EventType
      <4> QED BY <2>5, <4>2, <4>3, <4>4, MarkEvent
    <3>5. \A i \in 1 .. Len(event') : EventOK(geo', event'[i])
      BY <1>2, <2>5, <3>1, <3>4, MarkEvent
    <3>6. pc'[c] \in {"idle", "select"} /\ ~hit'[c]
      BY <2>5, <3>1 DEF Mark, Forget, TypeInv, TypeOK
    <3> QED BY <1>1, <2>1, <3>5, <3>6 DEF MarkInv, CallOK
  <2> QED BY <1>5, <2>2, <2>3, <2>4, <2>5 DEF Acts, Resolve
<1> QED BY <1>4, <1>5 DEF Next, Acts

\* Without the cache the types and what calls know are an invariant, whatever
\* fails and however the containers interleave.
THEOREM MarkInvariant == ~UseCache => (Spec => [](TypeInv /\ MarkInv))
<1> SUFFICES ASSUME ~UseCache PROVE Spec => [](TypeInv /\ MarkInv)
  OBVIOUS
<1>1. Init => TypeInv /\ MarkInv
  BY TypeInit, MarkInit
<1>2. (TypeInv /\ MarkInv) /\ [Next]_vars => (TypeInv /\ MarkInv)'
  BY TypeNext, MarkNext
<1> QED BY <1>1, <1>2, PTL DEF Spec

\* Without the cache no event gets the location of another address.
THEOREM LocationsMatch == ~UseCache => (Spec => []GeoMatches)
<1> SUFFICES ASSUME ~UseCache PROVE Spec => []GeoMatches
  OBVIOUS
<1>1. MarkInv => GeoMatches
  BY DEF MarkInv, EventOK, Suits, GeoMatches, RowsFor
<1>2. Spec => [](TypeInv /\ MarkInv)
  BY MarkInvariant
<1> QED BY <1>1, <1>2, PTL

\* Without the cache no event gets a location that had expired when the event
\* was recorded.
THEOREM LocationsFresh == ~UseCache => (Spec => []FreshWhenMarked)
<1> SUFFICES ASSUME ~UseCache PROVE Spec => []FreshWhenMarked
  OBVIOUS
<1>1. TypeInv /\ MarkInv => FreshWhenMarked
  <2> SUFFICES ASSUME TypeInv, MarkInv, NEW i \in 1 .. Len(event), NEW s \in Sides,
                      event[i][Field(s)] # 0
               PROVE  geo[event[i][Field(s)]].at >= event[i].at - Ttl
    BY DEF FreshWhenMarked
  <2>1. event[i] \in EventType(Len(geo)) /\ EventOK(geo, event[i])
    BY Values DEF MarkInv
  <2>2. event[i][Field(s)] = event[i].remoteGeo \/ event[i][Field(s)] = event[i].originGeo
    BY <2>1 DEF Field, EventType
  <2> QED BY <2>1, <2>2 DEF EventOK, Suits
<1>2. Spec => [](TypeInv /\ MarkInv)
  BY MarkInvariant
<1> QED BY <1>1, <1>2, PTL

-----------------------------------------------------------------------------
(***************************************************************************)
(* Without faults no call leaves its event without locations               *)
(***************************************************************************)

\* A call has what it is about to mark, and has marked the remote address
\* before it goes on to the origin.
CallFinds(c) ==
  /\ pc[c] = "idle" => side[c] = "remote" /\ ~hit[c]
  /\ pc[c] # "idle" /\ hit[c] => /\ pc[c] = "mark"
                                 /\ \A s \in Sides : found[c][s] # 0
  /\ pc[c] = "mark" => found[c][side[c]] # 0
  /\ pc[c] # "idle" /\ side[c] = "origin" => event[cur[c]].remoteGeo # 0

DoneInv == (\A c \in Containers : CallFinds(c)) /\ HandledIsMarked

\* No column that was marked becomes empty again.
Fills ==
  \A i \in 1 .. Len(event) :
    /\ event[i].remoteGeo # 0 => event'[i].remoteGeo # 0
    /\ event[i].originGeo # 0 => event'[i].originGeo # 0

\* No event is handled at the start.
LEMMA DoneInit == Init => DoneInv
  BY DEF Init, DoneInv, CallFinds, HandledIsMarked

\* A call that does not move keeps what it has.
LEMMA FindsStays ==
  ASSUME TypeInv, Fills, NEW d \in Containers, CallFinds(d), Still(d)
  PROVE  CallFinds(d)'
<1>1. pc[d] # "idle" => cur[d] \in 1 .. Len(event)
  BY DEF TypeInv, InCall
<1> QED BY <1>1 DEF Still, CallFinds, Fills

\* Without faults resolveAddr returns the id of a row.
LEMMA ResolvedFinds ==
  ASSUME TypeInv, NEW c \in Containers, pc[c] \in {"select", "lookup", "write"},
         CallFinds(c), NEW id, id # 0, Resolved(c, id), UNCHANGED <<event, cur, hit, side>>
  PROVE  CallFinds(c)' /\ pc'[c] # "idle"
<1>1. /\ pc'[c] = "mark" /\ found'[c][side[c]] = id
      /\ event' = event /\ cur' = cur /\ side' = side /\ hit' = hit
  BY DEF Resolved, TypeInv, TypeOK
<1> QED BY <1>1 DEF CallFinds

\* The three statements of resolveAddr.
LEMMA FindingFinds ==
  ASSUME Faults = {}, TypeInv, NEW c \in Containers, CallFinds(c),
         Select(c) \/ Lookup(c) \/ Write(c)
  PROVE  CallFinds(c)' /\ pc'[c] # "idle" /\ UNCHANGED <<event, cur>>
<1>1. /\ pc[c] \in {"select", "lookup", "write"} /\ UNCHANGED <<event, cur, hit, side>>
      /\ Len(geo) \in Nat
  BY Values DEF Select, Lookup, Write
<1>2. ASSUME NEW i, LookUp(c, i) PROVE CallFinds(c)' /\ pc'[c] # "idle"
  <2>1. pc'[c] = "lookup"
    BY <1>2 DEF LookUp, TypeInv, TypeOK
  <2> QED BY <1>1, <2>1 DEF CallFinds
<1>3. ASSUME NEW g, Answers(c, g) PROVE CallFinds(c)' /\ pc'[c] # "idle"
  <2>1. pc'[c] = "write"
    BY <1>3 DEF Answers, TypeInv, TypeOK
  <2> QED BY <1>1, <2>1 DEF CallFinds
<1>4. ASSUME NEW id, id # 0, Resolved(c, id) PROVE CallFinds(c)' /\ pc'[c] # "idle"
  BY <1>1, <1>4, ResolvedFinds
<1>5. CASE Select(c)
  <2>1. \A i \in Latest(Normal(AddrOf(c))) : i # 0
    BY DEF Latest
  <2> QED BY <1>1, <1>2, <1>4, <1>5, <2>1 DEF Select
<1>6. CASE Lookup(c)
  BY <1>1, <1>3, <1>6 DEF Lookup
<1>7. CASE Write(c)
  <2>1. Len(geo) + 1 # 0 /\ (row[c] \in 1 .. Len(geo) => row[c] # 0)
    BY <1>1
  <2>2. /\ \/ row[c] \in 1 .. Len(geo) /\ Resolved(c, row[c])
           \/ Resolved(c, Len(geo) + 1)
    BY <1>7, WriteCases
  <2> QED BY <1>1, <1>4, <2>1, <2>2
<1> QED BY <1>1, <1>5, <1>6, <1>7

\* Mark fills the column of the side it is at.
LEMMA MarkFills ==
  ASSUME TypeInv, NEW c \in Containers, Mark(c)
  PROVE  /\ Fills
         /\ Faults = {} /\ found[c][side[c]] # 0 =>
              /\ side[c] = "remote" => event'[cur[c]].remoteGeo # 0
              /\ side[c] = "origin" => event'[cur[c]].originGeo # 0
<1>1. /\ cur[c] \in 1 .. Len(event) /\ event[cur[c]] \in EventType(Len(geo))
      /\ found[c][side[c]] \in Nat
  <2>1. pc[c] # "idle"
    BY DEF Mark
  <2>2. found[c][side[c]] \in Nat
    <3>1. side[c] \in Sides /\ found[c] \in [Sides -> 0 .. Len(geo)] /\ geo \in Seq(Geos)
      BY DEF TypeInv, TypeOK
    <3> QED BY <3>1
  <2> QED BY <2>1, <2>2, AddrType
<1>2. \A i \in 1 .. Len(event) : i # cur[c] => event'[i] = event[i]
  BY MarkEvent
<1>3. CASE /\ found[c][side[c]] = 0 \/ "db" \in Faults
           /\ event' = event
  BY <1>3 DEF Fills
<1>4. CASE /\ found[c][side[c]] > 0 /\ side[c] = "remote"
           /\ event'[cur[c]] = [event[cur[c]] EXCEPT !.remoteGeo = found[c][side[c]]]
  <2>1. /\ event'[cur[c]].remoteGeo = found[c][side[c]]
        /\ event'[cur[c]].originGeo = event[cur[c]].originGeo
    BY <1>1, <1>4 DEF EventType
  <2>2. found[c][side[c]] # 0
    BY <1>4
  <2>3. Fills
    BY <1>2, <2>1, <2>2 DEF Fills
  <2> QED BY <1>4, <2>1, <2>2, <2>3
<1>5. CASE /\ found[c][side[c]] > 0 /\ side[c] = "origin"
           /\ event'[cur[c]] = [event[cur[c]] EXCEPT !.originGeo = found[c][side[c]]]
  <2>1. /\ event'[cur[c]].originGeo = found[c][side[c]]
        /\ event'[cur[c]].remoteGeo = event[cur[c]].remoteGeo
    BY <1>1, <1>5 DEF EventType
  <2>2. found[c][side[c]] # 0
    BY <1>5
  <2>3. Fills
    BY <1>2, <2>1, <2>2 DEF Fills
  <2> QED BY <1>5, <2>1, <2>2, <2>3
<1> QED BY <1>3, <1>4, <1>5, MarkEvent

\* The step of the container that marks, and of its event.
LEMMA MarkFinds ==
  ASSUME Faults = {}, TypeInv, NEW c \in Containers, CallFinds(c), Mark(c)
  PROVE  /\ CallFinds(c)'
         /\ \/ pc'[c] # "idle" /\ cur' = cur
            \/ /\ event'[cur[c]].remoteGeo # 0
               /\ event'[cur[c]].originGeo # 0
<1>1. /\ pc[c] = "mark" /\ cur[c] \in 1 .. Len(event)
      /\ found[c][side[c]] # 0 /\ side[c] \in {"remote", "origin"}
  BY AddrType DEF Mark, CallFinds, TypeInv, TypeOK, Sides
<1>2. CASE Last(c) /\ Forget(c)
  <2>1. pc'[c] = "idle" /\ side'[c] = "remote" /\ ~hit'[c]
    BY <1>2 DEF Forget, TypeInv, TypeOK
  <2>2. side[c] = "origin" /\ event[cur[c]].remoteGeo # 0
    BY <1>1, <1>2 DEF Last, CallFinds
  <2> QED BY <1>1, <2>1, <2>2, MarkFills DEF CallFinds, Fills
<1>3. CASE /\ ~Last(c)
           /\ side' = [side EXCEPT ![c] = "origin"]
           /\ pc' = [pc EXCEPT ![c] = IF hit[c] THEN "mark" ELSE "select"]
           /\ UNCHANGED <<cur, hit, row, answer, found>>
  <2>1. /\ side[c] = "remote" /\ side'[c] = "origin"
        /\ pc'[c] = IF hit[c] THEN "mark" ELSE "select"
    BY <1>1, <1>3 DEF Last, TypeInv, TypeOK
  <2>2. event'[cur[c]].remoteGeo # 0
    BY <1>1, <2>1, MarkFills
  <2> QED BY <1>1, <1>3, <2>1, <2>2 DEF CallFinds, Sides
<1> QED BY <1>2, <1>3 DEF Mark

\* Without faults, every step keeps that a call finds what it needs.
LEMMA DoneNext == Faults = {} /\ TypeInv /\ DoneInv /\ [Next]_vars => DoneInv'
<1> SUFFICES ASSUME Faults = {}, TypeInv, DoneInv, [Next]_vars PROVE DoneInv'
  OBVIOUS
<1>0. Len(event) \in Nat /\ \A c \in Containers : CallFinds(c)
  BY Values DEF DoneInv
<1>1. CASE Tick \/ Move \/ UNCHANGED vars \/ \E c \in Containers : ClearCache(c)
  <2>1. UNCHANGED <<event, pc, cur, hit, side, row, answer, found>>
    BY <1>1 DEF Tick, Move, vars, ClearCache
  <2>2. \A d \in Containers : Still(d)
    BY <2>1 DEF Still
  <2>3. \A d \in Containers : CallFinds(d)'
    BY <1>0, <2>1, <2>2, FindsStays DEF Fills
  <2> QED BY <2>1, <2>3 DEF DoneInv, HandledIsMarked
<1>2. ASSUME NEW c \in Containers, Acts(c) PROVE DoneInv'
  <2>1. \A d \in Containers : d # c => Still(d)
    BY <1>2, ActsAlone
  <2>2. CASE Kill(c)
    BY <2>2 DEF Kill
  <2>3. CASE Handle(c)
    <3>1. /\ Len(event') = Len(event) + 1
          /\ \A i \in 1 .. Len(event) : event'[i] = event[i]
          /\ cur'[c] = Len(event) + 1
      BY <2>3, HandleEvent
    <3>2. Fills
      BY <3>1 DEF Fills
    <3>3. CallFinds(c)' /\ pc[c] = "idle" /\ pc'[c] # "idle"
      <4>1. PICK remote \in Addrs, origin \in Addrs :
              LET isHit == Cached(c, remote, origin)
              IN  /\ hit' = [hit EXCEPT ![c] = isHit]
                  /\ found' = [found EXCEPT ![c] =
                                 [remote |-> IF isHit THEN cache[c][remote] ELSE 0,
                                  origin |-> IF isHit THEN cache[c][origin] ELSE 0]]
                  /\ pc' = [pc EXCEPT ![c] = IF isHit THEN "mark" ELSE "select"]
        BY <2>3 DEF Handle
      <4>2. /\ side' = side /\ pc[c] = "idle" /\ side[c] = "remote"
            /\ cache[c] \in [Addrs -> Nat]
        BY <1>0, <2>3 DEF Handle, CallFinds, TypeInv, TypeOK
      <4>3. CASE Cached(c, remote, origin)
        <5>1. /\ hit'[c] /\ pc'[c] = "mark"
              /\ found'[c] = [remote |-> cache[c][remote], origin |-> cache[c][origin]]
          BY <4>1, <4>3 DEF TypeInv, TypeOK
        <5>2. cache[c][remote] # 0 /\ cache[c][origin] # 0
          BY <4>2, <4>3 DEF Cached
        <5>3. \A s \in Sides : found'[c][s] # 0
          BY <5>1, <5>2 DEF Sides
        <5> QED BY <4>2, <5>1, <5>3 DEF CallFinds, Sides
      <4>4. CASE ~Cached(c, remote, origin)
        <5>1. ~hit'[c] /\ pc'[c] = "select"
          BY <4>1, <4>4 DEF TypeInv, TypeOK
        <5> QED BY <4>2, <5>1 DEF CallFinds
      <4> QED BY <4>3, <4>4
    <3>4. \A d \in Containers : CallFinds(d)'
      BY <1>0, <2>1, <3>2, <3>3, FindsStays
    <3>5. HandledIsMarked'
      <4> SUFFICES ASSUME NEW i \in 1 .. Len(event'),
                          \A d \in Containers : pc'[d] = "idle" \/ cur'[d] # i
                   PROVE  event'[i].remoteGeo # 0 /\ event'[i].originGeo # 0
        BY DEF HandledIsMarked
      <4>1. i \in 1 .. Len(event)
        BY <1>0, <3>1, <3>3
      <4>2. \A d \in Containers : pc[d] = "idle" \/ cur[d] # i
        BY <2>1, <3>3 DEF Still
      <4> QED BY <3>1, <4>1, <4>2 DEF DoneInv, HandledIsMarked
    <3> QED BY <3>4, <3>5 DEF DoneInv
  <2>4. CASE Select(c) \/ Lookup(c) \/ Write(c)
    <3>1. CallFinds(c)' /\ pc'[c] # "idle" /\ UNCHANGED <<event, cur>>
      BY <1>0, <2>4, FindingFinds
    <3>2. \A d \in Containers : CallFinds(d)'
      BY <1>0, <2>1, <3>1, FindsStays DEF Fills
    <3>3. HandledIsMarked'
      BY <2>1, <3>1 DEF DoneInv, HandledIsMarked, Still
    <3> QED BY <3>2, <3>3 DEF DoneInv
  <2>5. CASE Mark(c)
    <3>1. /\ CallFinds(c)'
          /\ \/ pc'[c] # "idle" /\ cur' = cur
             \/ /\ event'[cur[c]].remoteGeo # 0
                /\ event'[cur[c]].originGeo # 0
      BY <1>0, <2>5, MarkFinds
    <3>2. Fills /\ Len(event') = Len(event)
      BY <2>5, MarkFills, MarkEvent
    <3>3. \A d \in Containers : CallFinds(d)'
      BY <1>0, <2>1, <3>1, <3>2, FindsStays
    <3>4. HandledIsMarked'
      <4> SUFFICES ASSUME NEW i \in 1 .. Len(event),
                          \A d \in Containers : pc'[d] = "idle" \/ cur'[d] # i
                   PROVE  event'[i].remoteGeo # 0 /\ event'[i].originGeo # 0
        BY <3>2 DEF HandledIsMarked
      <4>1. CASE i = cur[c]
        BY <3>1, <4>1
      <4>2. CASE i # cur[c]
        <5>1. \A d \in Containers : pc[d] = "idle" \/ cur[d] # i
          BY <2>1, <4>2 DEF Still
        <5> QED BY <3>2, <5>1 DEF DoneInv, HandledIsMarked, Fills
      <4> QED BY <4>1, <4>2
    <3> QED BY <3>3, <3>4 DEF DoneInv
  <2> QED BY <1>2, <2>2, <2>3, <2>4, <2>5 DEF Acts, Resolve
<1> QED BY <1>1, <1>2 DEF Next, Acts

\* Without faults no call returns before its event has both locations, with
\* any number of containers and with the cache as well as without it.
THEOREM CallsMark == Faults = {} => (Spec => []HandledIsMarked)
<1> SUFFICES ASSUME Faults = {} PROVE Spec => []HandledIsMarked
  OBVIOUS
<1>1. Init => TypeInv /\ DoneInv
  BY TypeInit, DoneInit
<1>2. (TypeInv /\ DoneInv) /\ [Next]_vars => (TypeInv /\ DoneInv)'
  BY TypeNext, DoneNext
<1>3. DoneInv => HandledIsMarked
  BY DEF DoneInv
<1> QED BY <1>1, <1>2, <1>3, PTL DEF Spec

-----------------------------------------------------------------------------
(***************************************************************************)
(* A single container stores a location again only when it has changed     *)
(***************************************************************************)

Alone == \A c, d \in Containers : c = d

\* Of two rows of an address the later one is younger.
Ordered(g) ==
  \A j \in 1 .. Len(g) : \A i \in 1 .. j - 1 :
    g[i].ip = g[j].ip /\ g[i].ip # NoAddr => g[i].at < g[j].at

Differ(g, i, j) ==
  \/ g[i].ip # g[j].ip
  \/ g[i].ip = NoAddr
  \/ \E k \in i + 1 .. j - 1 : g[k].ip = g[i].ip
  \/ g[i].loc # g[j].loc

NoneRepeated(g) == \A j \in 1 .. Len(g) : \A i \in 1 .. j - 1 : Differ(g, i, j)

\* r is the last row of address a in the table g, or 0 when it has none.
LastRow(g, a, r) ==
  /\ r = 0 => \A k \in 1 .. Len(g) : g[k].ip # a
  /\ r # 0 => /\ r \in 1 .. Len(g) /\ g[r].ip = a
              /\ \A k \in r + 1 .. Len(g) : g[k].ip # a

\* The call holds the last row of its address, and an answer younger than it.
HoldsLast(c) ==
  /\ pc[c] \in {"lookup", "write"} =>
       /\ LastRow(geo, Normal(AddrOf(c)), row[c])
       /\ row[c] # 0 => geo[row[c]].at < clock
  /\ pc[c] = "write" =>
       /\ answer[c].ip \in {Normal(AddrOf(c)), NoAddr}
       /\ row[c] # 0 => geo[row[c]].at < answer[c].at

RowsInv == /\ Ordered(geo) /\ NoneRepeated(geo)
           /\ \A c \in Containers : HoldsLast(c)

\* There are no rows at the start.
LEMMA RowsInit == Init => RowsInv
  BY DEF Init, RowsInv, Ordered, NoneRepeated, HoldsLast

\* A set of numbers that is not empty has a least element.
LEMMA Least ==
  ASSUME NEW T, T \subseteq Nat, T # {}
  PROVE  \E m \in T : \A k \in T : m <= k
<1>1. PICK m \in T : \A k \in T : <<k, m>> \notin OpToRel(<, Nat)
  BY NatLessThanWellFounded, WFMin
<1>2. \A k \in T : ~ (k < m)
  BY <1>1 DEF OpToRel
<1> QED BY <1>2

\* Select finds a row whenever there is one, and what it finds is the last.
LEMMA LatestIsLast ==
  ASSUME TypeInv, Ordered(geo), NEW a \in Addrs
  PROVE  /\ Latest(a) = {} => LastRow(geo, a, 0)
         /\ \A r \in Latest(a) : LastRow(geo, a, r)
<1>1. /\ Len(geo) \in Nat /\ a # NoAddr
      /\ \A i \in 1 .. Len(geo) : geo[i].at \in Nat
  BY Values
<1>2. ASSUME NEW k \in 1 .. Len(geo), geo[k].ip = a PROVE Latest(a) # {}
  <2> DEFINE T == {Len(geo) - i : i \in {j \in 1 .. Len(geo) : geo[j].ip = a}}
  <2>1. T \subseteq Nat /\ T # {}
    BY <1>1, <1>2
  <2>2. PICK m \in T : \A n \in T : m <= n
    <3> HIDE DEF T
    <3> QED BY <2>1, Least
  <2>3. PICK r \in 1 .. Len(geo) : geo[r].ip = a /\ m = Len(geo) - r
    OBVIOUS
  <2>4. ASSUME NEW j \in 1 .. Len(geo), geo[j].ip = a PROVE geo[j].at <= geo[r].at
    <3>1. Len(geo) - j \in T
      BY <2>4
    <3>2. Len(geo) - r <= Len(geo) - j
      BY <2>2, <2>3, <3>1
    <3>3. j = r \/ j \in 1 .. r - 1
      BY <1>1, <3>2
    <3> QED BY <1>1, <2>3, <2>4, <3>3 DEF Ordered
  <2>5. r \in Latest(a)
    BY <2>3, <2>4 DEF Latest
  <2> QED BY <2>5
<1>3. ASSUME NEW r \in Latest(a) PROVE LastRow(geo, a, r)
  <2>1. /\ r \in 1 .. Len(geo) /\ geo[r].ip = a
        /\ \A j \in 1 .. Len(geo) : geo[j].ip = a => geo[j].at <= geo[r].at
    BY DEF Latest
  <2>2. ASSUME NEW k \in r + 1 .. Len(geo), geo[k].ip = a PROVE FALSE
    <3>1. k \in 1 .. Len(geo) /\ r \in 1 .. k - 1
      BY <1>1, <2>1
    <3>2. geo[r].at < geo[k].at /\ geo[k].at <= geo[r].at
      BY <1>1, <2>1, <2>2, <3>1 DEF Ordered
    <3> QED BY <1>1, <2>1, <3>1, <3>2
  <2>3. r # 0
    BY <2>1
  <2> QED BY <2>1, <2>2, <2>3 DEF LastRow
<1> QED BY <1>2, <1>3 DEF LastRow

\* A step that leaves the rows alone.
LEMMA HoldsStays ==
  ASSUME TypeInv, Grows, geo' = geo, NEW d \in Containers, HoldsLast(d), Still(d)
  PROVE  HoldsLast(d)'
<1>1. CASE pc[d] \notin {"lookup", "write"}
  BY <1>1 DEF HoldsLast, Still
<1>2. CASE pc[d] \in {"lookup", "write"}
  <2>1. /\ cur[d] \in 1 .. Len(event) /\ row[d] \in 0 .. Len(geo)
        /\ \A i \in 1 .. Len(geo) : geo[i].at \in Nat
        /\ clock \in Nat /\ Len(geo) \in Nat
    BY <1>2, AddrType, Values
  <2>2. AddrOf(d)' = AddrOf(d)
    BY <2>1 DEF AddrOf, Still, Grows
  <2>3. row[d] # 0 /\ geo[row[d]].at < clock => geo[row[d]].at < clock'
    BY <2>1 DEF Grows
  <2> QED BY <2>2, <2>3 DEF HoldsLast, Still
<1> QED BY <1>1, <1>2

\* A call that does not look at a row holds none.
LEMMA HoldsNone ==
  ASSUME NEW c \in Containers, pc'[c] \notin {"lookup", "write"}
  PROVE  HoldsLast(c)'
  BY DEF HoldsLast

\* After its query a call has the last row of its address.
LEMMA SelectHolds ==
  ASSUME TypeInv, RowsInv, NEW c \in Containers, Select(c)
  PROVE  HoldsLast(c)'
<1>1. /\ pc[c] # "idle" /\ UNCHANGED <<clock, geo, event, cur, side>>
      /\ clock \in Nat /\ \A i \in 1 .. Len(geo) : geo[i].at \in Nat
  BY Values DEF Select
<1>2. AddrOf(c)' = AddrOf(c) /\ Normal(AddrOf(c)) \in Addrs
  BY <1>1, AddrType DEF AddrOf
<1>3. ASSUME NEW x, Resolved(c, x) PROVE HoldsLast(c)'
  <2>1. pc'[c] = "mark"
    BY <1>3 DEF Resolved, TypeInv, TypeOK
  <2> QED BY <2>1, HoldsNone
<1>4. ASSUME NEW i, LookUp(c, i), LastRow(geo, Normal(AddrOf(c)), i),
             i # 0 => geo[i].at < clock
      PROVE  HoldsLast(c)'
  <2>1. pc'[c] = "lookup" /\ row'[c] = i
    BY <1>4 DEF LookUp, TypeInv, TypeOK
  <2> QED BY <1>1, <1>2, <1>4, <2>1 DEF HoldsLast
<1>5. ASSUME NEW i \in Latest(Normal(AddrOf(c))), Expired(i) PROVE geo[i].at < clock
  BY <1>1, <1>5 DEF Latest, Expired
<1>6. /\ Latest(Normal(AddrOf(c))) = {} => LastRow(geo, Normal(AddrOf(c)), 0)
      /\ \A r \in Latest(Normal(AddrOf(c))) : LastRow(geo, Normal(AddrOf(c)), r)
  BY <1>2, LatestIsLast DEF RowsInv
<1> QED BY <1>3, <1>4, <1>5, <1>6 DEF Select

\* The request to the service changes no row.
LEMMA LookupHolds ==
  ASSUME TypeInv, RowsInv, NEW c \in Containers, Lookup(c)
  PROVE  HoldsLast(c)'
<1>1. pc[c] = "lookup" /\ UNCHANGED <<clock, geo, event, cur, side>>
  BY DEF Lookup
<1>2. AddrOf(c)' = AddrOf(c)
  BY <1>1 DEF AddrOf
<1>3. ASSUME NEW x, Resolved(c, x) PROVE HoldsLast(c)'
  <2>1. pc'[c] = "mark"
    BY <1>3 DEF Resolved, TypeInv, TypeOK
  <2> QED BY <2>1, HoldsNone
<1>4. ASSUME NEW g, Answers(c, g), g.ip \in {Normal(AddrOf(c)), NoAddr}, g.at = clock
      PROVE  HoldsLast(c)'
  <2>1. pc'[c] = "write" /\ answer'[c] = g /\ row' = row
    BY <1>4 DEF Answers, TypeInv, TypeOK
  <2> QED BY <1>1, <1>2, <1>4, <2>1 DEF RowsInv, HoldsLast
<1>5. /\ [Blank EXCEPT !.at = clock].ip = NoAddr
      /\ [Blank EXCEPT !.at = clock].at = clock
  BY DEF Blank
<1> QED BY <1>3, <1>4, <1>5 DEF Lookup

\* A row that was the last of its address is made younger.
LEMMA RefreshKeeps ==
  ASSUME TypeInv, RowsInv, NEW r \in 1 .. Len(geo), NEW a, LastRow(geo, a, r),
         geo[r].at < clock, geo' = [geo EXCEPT ![r].at = clock]
  PROVE  Ordered(geo') /\ NoneRepeated(geo')
<1>1. /\ geo \in Seq(Geos) /\ Len(geo) \in Nat /\ clock \in Nat
      /\ \A i \in 1 .. Len(geo) : geo[i] \in Geos /\ geo[i].at \in Nat
  BY Values DEF TypeInv, TypeOK
<1>2. /\ Len(geo') = Len(geo) /\ geo'[r] = [geo[r] EXCEPT !.at = clock]
      /\ \A i \in 1 .. Len(geo) : i # r => geo'[i] = geo[i]
  BY <1>1
<1>3. geo'[r].at = clock /\ geo'[r].ip = geo[r].ip /\ geo'[r].loc = geo[r].loc
  BY <1>1, <1>2 DEF Geos
<1>4. \A i \in 1 .. Len(geo) : geo'[i].ip = geo[i].ip /\ geo'[i].loc = geo[i].loc
  BY <1>2, <1>3
<1>5. ASSUME NEW j \in 1 .. Len(geo'), NEW i \in 1 .. j - 1,
             geo'[i].ip = geo'[j].ip, geo'[i].ip # NoAddr
      PROVE  geo'[i].at < geo'[j].at
  <2>1. i \in 1 .. Len(geo) /\ j \in 1 .. Len(geo) /\ i # j
    BY <1>1, <1>2
  <2>2. geo[i].at < geo[j].at
    BY <1>2, <1>4, <1>5, <2>1 DEF RowsInv, Ordered
  <2>3. i # r
    <3>1. ASSUME i = r PROVE j \in r + 1 .. Len(geo) /\ geo[j].ip = a
      BY <1>1, <1>4, <1>5, <2>1, <3>1 DEF LastRow
    <3> QED BY <3>1 DEF LastRow
  <2>4. j = r => geo[j].at < clock /\ geo'[j].at = clock
    BY <1>3
  <2> QED BY <1>1, <1>2, <2>1, <2>2, <2>3, <2>4
<1>6. ASSUME NEW j \in 1 .. Len(geo'), NEW i \in 1 .. j - 1
      PROVE  Differ(geo', i, j)
  <2>1. /\ i \in 1 .. Len(geo) /\ j \in 1 .. Len(geo) /\ Differ(geo, i, j)
        /\ \A k \in i + 1 .. j - 1 : k \in 1 .. Len(geo)
    BY <1>1, <1>2 DEF RowsInv, NoneRepeated
  <2> QED BY <1>4, <2>1 DEF Differ
<1> QED BY <1>5, <1>6 DEF Ordered, NoneRepeated

\* An answer is added that differs from the last row of its address.
LEMMA InsertKeeps ==
  ASSUME TypeInv, RowsInv, NEW g \in Geos, NEW r \in 0 .. Len(geo), NEW a,
         LastRow(geo, a, r), g.ip \in {a, NoAddr},
         r # 0 => geo[r].at < g.at /\ ~Same(geo[r], g),
         geo' = Append(geo, g)
  PROVE  Ordered(geo') /\ NoneRepeated(geo')
<1> DEFINE n == Len(geo) + 1
<1>1. /\ geo \in Seq(Geos) /\ Len(geo) \in Nat /\ g.at \in Nat
      /\ \A i \in 1 .. Len(geo) : geo[i] \in Geos /\ geo[i].at \in Nat
  BY Values DEF TypeInv, TypeOK, Geos
<1>2. /\ Len(geo') = n /\ geo'[n] = g /\ n \in Nat
      /\ \A i \in 1 .. Len(geo) : geo'[i] = geo[i]
  BY <1>1
<1>3. ASSUME NEW i \in 1 .. Len(geo), geo[i].ip = g.ip, g.ip # NoAddr
      PROVE  /\ r # 0 /\ r \in 1 .. Len(geo) /\ geo[r].ip = g.ip
             /\ i = r \/ i \in 1 .. r - 1
  <2>1. geo[i].ip = a
    BY <1>3
  <2>2. r # 0
    BY <2>1 DEF LastRow
  <2>3. i \notin r + 1 .. Len(geo)
    BY <2>1, <2>2 DEF LastRow
  <2> QED BY <1>1, <1>3, <2>1, <2>2, <2>3 DEF LastRow
<1>4. ASSUME NEW i \in 1 .. Len(geo), geo[i].ip = g.ip, g.ip # NoAddr
      PROVE  geo[i].at < g.at
  <2>1. CASE i = r
    BY <1>3, <1>4, <2>1
  <2>2. CASE i \in 1 .. r - 1
    <3>1. geo[i].at < geo[r].at
      BY <1>3, <1>4, <2>2 DEF RowsInv, Ordered
    <3> QED BY <1>1, <1>3, <1>4, <3>1
  <2> QED BY <1>3, <1>4, <2>1, <2>2
<1>5. ASSUME NEW i \in 1 .. Len(geo) PROVE Differ(geo', i, n)
  <2>1. CASE geo[i].ip # g.ip \/ g.ip = NoAddr
    BY <1>2, <2>1 DEF Differ
  <2>2. CASE geo[i].ip = g.ip /\ g.ip # NoAddr
    <3>1. r # 0 /\ r \in 1 .. Len(geo) /\ geo[r].ip = g.ip /\ (i = r \/ i \in 1 .. r - 1)
      BY <1>3, <2>2
    <3>2. CASE i = r
      BY <1>2, <3>1, <3>2 DEF Differ, Same
    <3>3. CASE i \in 1 .. r - 1
      <4>1. r \in i + 1 .. n - 1 /\ geo'[r].ip = geo'[i].ip
        BY <1>1, <1>2, <2>2, <3>1, <3>3
      <4> QED BY <4>1 DEF Differ
    <3> QED BY <3>1, <3>2, <3>3
  <2> QED BY <2>1, <2>2
<1>6. ASSUME NEW j \in 1 .. Len(geo), NEW i \in 1 .. j - 1
      PROVE  /\ Differ(geo', i, j)
             /\ geo'[i].ip = geo'[j].ip /\ geo'[i].ip # NoAddr => geo'[i].at < geo'[j].at
  <2>1. /\ i \in 1 .. Len(geo) /\ Differ(geo, i, j)
        /\ \A k \in i + 1 .. j - 1 : k \in 1 .. Len(geo)
    BY <1>1 DEF RowsInv, NoneRepeated
  <2>2. Differ(geo', i, j)
    BY <1>2, <2>1 DEF Differ
  <2> QED BY <1>2, <2>1, <2>2 DEF RowsInv, Ordered
<1>7. \A j \in 1 .. Len(geo') : j = n \/ j \in 1 .. Len(geo)
  BY <1>1, <1>2
<1>8. \A i \in 1 .. n - 1 : i \in 1 .. Len(geo)
  BY <1>1
<1> HIDE DEF n
<1>9. Ordered(geo')
  BY <1>2, <1>4, <1>6, <1>7, <1>8 DEF Ordered
<1>10. NoneRepeated(geo')
  BY <1>5, <1>6, <1>7, <1>8 DEF NoneRepeated
<1> QED BY <1>9, <1>10

\* The insert adds a row that differs from the one before it.
LEMMA WriteKeeps ==
  ASSUME TypeInv, RowsInv, NEW c \in Containers, Write(c)
  PROVE  Ordered(geo') /\ NoneRepeated(geo') /\ HoldsLast(c)'
<1>1. /\ LastRow(geo, Normal(AddrOf(c)), row[c])
      /\ row[c] # 0 => geo[row[c]].at < clock /\ geo[row[c]].at < answer[c].at
      /\ answer[c].ip \in {Normal(AddrOf(c)), NoAddr}
      /\ answer[c] \in Geos /\ row[c] \in 0 .. Len(geo)
  BY Values DEF Write, RowsInv, HoldsLast
<1>2. HoldsLast(c)'
  <2>1. ASSUME NEW x, Resolved(c, x) PROVE pc'[c] = "mark"
    BY <2>1 DEF Resolved, TypeInv, TypeOK
  <2> QED BY <2>1, HoldsNone, WriteCases
<1>3. CASE row[c] \in 1 .. Len(geo) /\ geo' = [geo EXCEPT ![row[c]].at = clock]
  <2>1. row[c] # 0
    BY <1>3
  <2> QED BY <1>1, <1>2, <1>3, <2>1, RefreshKeeps
<1>4. CASE /\ ~(row[c] # 0 /\ Same(geo[row[c]], answer[c]))
           /\ geo' = Append(geo, answer[c])
  BY <1>1, <1>2, <1>4, InsertKeeps
<1>5. CASE geo' = geo
  BY <1>2, <1>5 DEF RowsInv
<1> QED BY <1>3, <1>4, <1>5, WriteCases

\* While one call runs at a time, every step keeps the order of the rows and
\* repeats none.
LEMMA RowsNext == Alone /\ TypeInv /\ TimesOK /\ RowsInv /\ [Next]_vars => RowsInv'
<1> SUFFICES ASSUME Alone, TypeInv, TimesOK, RowsInv, [Next]_vars PROVE RowsInv'
  OBVIOUS
<1>1. Grows
  BY StepGrows
<1>2. CASE Tick \/ Move \/ UNCHANGED vars \/ \E c \in Containers : ClearCache(c)
  <2>1. UNCHANGED <<geo, pc, cur, hit, side, row, answer, found>>
    BY <1>2 DEF Tick, Move, vars, ClearCache
  <2>2. \A d \in Containers : Still(d)
    BY <2>1 DEF Still
  <2> QED BY <1>1, <2>1, <2>2, HoldsStays DEF RowsInv
<1>3. ASSUME NEW c \in Containers, Acts(c) PROVE RowsInv'
  <2>1. \A d \in Containers : d = c
    BY DEF Alone
  <2>2. CASE Select(c) \/ Lookup(c)
    <3>1. geo' = geo
      BY <2>2 DEF Select, Lookup
    <3> QED BY <2>1, <2>2, <3>1, SelectHolds, LookupHolds DEF RowsInv
  <2>3. CASE Write(c)
    BY <2>1, <2>3, WriteKeeps DEF RowsInv
  <2>4. CASE Kill(c) \/ Handle(c) \/ Mark(c)
    <3>1. geo' = geo /\ pc'[c] \notin {"lookup", "write"}
      BY <2>4 DEF Kill, Handle, Mark, Forget, TypeInv, TypeOK
    <3> QED BY <2>1, <3>1, HoldsNone DEF RowsInv
  <2> QED BY <1>3, <2>2, <2>3, <2>4 DEF Acts, Resolve
<1> QED BY <1>2, <1>3 DEF Next, Acts

\* A single container stores a location of an address again only when it has
\* changed, whatever fails and however often the rows expire.
THEOREM RowsNotRepeated == Spec => []NoRepeatedRow
<1>1. Cardinality(Containers) = 1 => Alone
  <2> SUFFICES ASSUME Cardinality(Containers) = 1 PROVE Alone
    OBVIOUS
  <2> QED BY ContainersAssumption, FS_Singleton DEF Alone
<1>2. CASE Cardinality(Containers) = 1
  <2>1. TypeInv /\ TimesOK /\ [Next]_vars => TimesOK'
    BY StepGrows
  <2>2. Alone
    BY <1>1, <1>2
  <2>3. TypeInv /\ TimesOK /\ RowsInv /\ [Next]_vars => (TypeInv /\ TimesOK /\ RowsInv)'
    BY <2>1, <2>2, TypeNext, RowsNext
  <2>4. Init => TypeInv /\ TimesOK /\ RowsInv
    BY TypeInit, MarkInit, RowsInit DEF MarkInv
  <2>5. RowsInv => NoRepeatedRow
    BY DEF RowsInv, NoneRepeated, Differ, NoRepeatedRow
  <2> QED BY <2>3, <2>4, <2>5, PTL DEF Spec
<1>3. CASE Cardinality(Containers) # 1
  <2>1. NoRepeatedRow
    BY <1>3 DEF NoRepeatedRow
  <2> QED BY <2>1, PTL
<1> QED BY <1>2, <1>3
=============================================================================
