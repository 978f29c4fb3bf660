------------------------------ MODULE EventLambda ------------------------------
(***************************************************************************)
(* The containers of the Lambdas in aws/lambda/events.go: how setup,       *)
(* Handle and HandleBatch share setupError, and HandleBatch down to the    *)
(* transaction of RecordBatchEvents (event/event.go).  A container runs    *)
(* one handler, main chooses it by the name of the function, and takes one *)
(* request at a time; the containers share the database.                   *)
(*                                                                         *)
(* The id of a row of geo is written as the address of that row.  How      *)
(* Resolve finds the row is the subject of GeoResolver.                    *)
(***************************************************************************)
EXTENDS Naturals, Sequences, FiniteSetsExt

CONSTANTS
  BatchContainers,   \* those that run HandleBatch
  SingleContainers,  \* those that run Handle
  Batches,           \* the remote addresses of the requests, as sequences
  Origin,            \* events.OriginAddr
  Blank,             \* the empty remote address
  TooLong,           \* addresses that do not fit the column remote_addr
  NoId,              \* the id 0
  MaxConns,          \* the connections the database allows
  MaxAttempts,       \* bound: batches received
  Faults             \* which faults a configuration lets happen

\* "down" the database becomes unreachable, "stmt" an error of a statement of
\* the transaction, "resolve" an error of Resolve, "lostCommit" a commit
\* whose answer is lost, "kill" the end of a container.
AllFaults == {"down", "stmt", "resolve", "lostCommit", "kill"}

\* The remote addresses that occur, and the ids that geo can have.
Addresses == UNION {{b[i] : i \in 1 .. Len(b)} : b \in Batches}
Ids == {Origin, NoId} \cup Addresses

ASSUME ContainersAssumption == IsFiniteSet(BatchContainers)
ASSUME BatchesAssumption == Batches \subseteq Seq(Addresses)
ASSUME ConnsAssumption == MaxConns \in Nat \ {0}
ASSUME LambdaFaultsAssumption == Faults \subseteq AllFaults

VARIABLES
  dbUp,        \* db.Ping succeeds
  setupError,  \* of each container: setupError is not nil
  bound,       \* of each container: setup has given the clients the database
  pc,          \* where each batch container is
  work,        \* the variables of its call
  leaked,      \* transactions it began and left open
  attempts,    \* history: the batches received so far, in order
  stored,      \* table event, each row with the attempt it belongs to
  answered     \* history: the attempts answered without an error

vars == <<dbUp, setupError, bound, pc, work, leaked, attempts, stored, answered>>

Containers == BatchContainers \cup SingleContainers

\* i the loop variable, id and gid as in HandleBatch, known the keys of
\* geoIds, rows the events as they were filled in.
NoWork == [attempt |-> 0, i |-> 1, id |-> NoId, gid |-> NoId, known |-> {}, rows |-> <<>>]

\* init calls setup: it fails when the database is down.
Init ==
  /\ dbUp \in BOOLEAN
  /\ setupError = [c \in Containers |-> ~dbUp]
  /\ bound = [c \in Containers |-> dbUp]
  /\ pc = [c \in BatchContainers |-> "idle"]
  /\ work = [c \in BatchContainers |-> NoWork]
  /\ leaked = [c \in BatchContainers |-> 0]
  /\ attempts = <<>>
  /\ stored = {}
  /\ answered = {}

-----------------------------------------------------------------------------
(***************************************************************************)
(* The environment                                                         *)
(***************************************************************************)

\* The connections of a database that went down are gone with it.
DbDown ==
  /\ "down" \in Faults
  /\ dbUp
  /\ dbUp' = FALSE
  /\ leaked' = [c \in BatchContainers |-> 0]
  /\ UNCHANGED <<setupError, bound, pc, work, attempts, stored, answered>>

DbUp ==
  /\ ~dbUp
  /\ dbUp' = TRUE
  /\ UNCHANGED <<setupError, bound, pc, work, leaked, attempts, stored, answered>>

\* A container is replaced by a new one, which runs init.
Kill(c) ==
  /\ "kill" \in Faults
  /\ setupError' = [setupError EXCEPT ![c] = ~dbUp]
  /\ bound' = [bound EXCEPT ![c] = dbUp]
  /\ pc' = [pc EXCEPT ![c] = "idle"]
  /\ work' = [work EXCEPT ![c] = NoWork]
  /\ leaked' = [leaked EXCEPT ![c] = 0]
  /\ UNCHANGED <<dbUp, attempts, stored, answered>>

-----------------------------------------------------------------------------
(***************************************************************************)
(* setup, and the requests it refuses                                      *)
(***************************************************************************)

\* setup: Ping, then SetDB on both clients.
Binds(c) == bound' = [bound EXCEPT ![c] = @ \/ dbUp]

\* Mutants of SingleError: Handle forgets the error without setting up, and
\* it keeps the error as HandleBatch does.
SingleErrorCleared(c) == FALSE
SingleErrorKept(c) == setupError[c]

\* Handle resets setupError before it calls setup.
SingleError(c) == ~dbUp

\* Handle with a setupError: setup again, and answer 500.  (Without one it is
\* GeoResolver's Handle.)
HandleAfterError(c) ==
  /\ setupError[c]
  /\ setupError' = [setupError EXCEPT ![c] = SingleError(c)]
  /\ Binds(c)
  /\ UNCHANGED <<dbUp, pc, work, leaked, attempts, stored, answered>>

\* HandleBatch with a setupError: setup again, and answer 500.  Nothing sets
\* setupError to nil here.
BatchAfterError(c) ==
  /\ pc[c] = "idle"
  /\ setupError[c]
  /\ Binds(c)
  /\ UNCHANGED <<dbUp, setupError, pc, work, leaked, attempts, stored, answered>>

-----------------------------------------------------------------------------
(***************************************************************************)
(* HandleBatch                                                             *)
(***************************************************************************)

Batch(c) == attempts[work[c].attempt]

\* The handler returns, with an error unless answered changes.
Returns(c) ==
  /\ pc' = [pc EXCEPT ![c] = "idle"]
  /\ work' = [work EXCEPT ![c] = NoWork]

Fails(c) == Returns(c) /\ UNCHANGED <<leaked, stored, answered>>

Receive(c) ==
  /\ pc[c] = "idle"
  /\ ~setupError[c]
  /\ Len(attempts) < MaxAttempts
  /\ \E b \in Batches : attempts' = Append(attempts, b)
  /\ pc' = [pc EXCEPT ![c] = "origin"]
  /\ work' = [work EXCEPT ![c].attempt = Len(attempts) + 1]
  /\ UNCHANGED <<dbUp, setupError, bound, leaked, stored, answered>>

CannotResolve == ~dbUp \/ "resolve" \in Faults

ResolveOrigin(c) ==
  /\ pc[c] = "origin"
  /\ \/ /\ dbUp
        /\ pc' = [pc EXCEPT ![c] = "loop"]
        /\ work' = [work EXCEPT ![c].gid = Origin]
        /\ UNCHANGED <<leaked, stored, answered>>
     \/ /\ CannotResolve
        /\ Fails(c)
  /\ UNCHANGED <<dbUp, setupError, bound, attempts>>

\* Mutant of RowOf: the two ids are swapped.
RowOfSwapped(c, id) ==
  [remote |-> Batch(c)[work[c].i], remoteGeo |-> work[c].gid, originGeo |-> id]

RowOf(c, id) ==
  [remote |-> Batch(c)[work[c].i], remoteGeo |-> id, originGeo |-> work[c].gid]

\* The end of an iteration: e gets the id that the variable id holds.
Fills(c, id) ==
  LET w == work[c]
  IN  work' = [work EXCEPT ![c] =
                 [w EXCEPT !.i = w.i + 1, !.id = id,
                           !.known = w.known \cup {Batch(c)[w.i]},
                           !.rows = Append(w.rows, RowOf(c, id))]]

InLoop(c) == pc[c] = "loop" /\ work[c].i <= Len(Batch(c))

\* An event without a remote address ends the request.
BlankAddr(c) ==
  /\ InLoop(c)
  /\ Batch(c)[work[c].i] = Blank
  /\ Fails(c)
  /\ UNCHANGED <<dbUp, setupError, bound, attempts>>

\* An address seen before in this batch: id is left as the latest Resolve set
\* it, whichever address that was for.
KnownAddr(c) ==
  /\ InLoop(c)
  /\ Batch(c)[work[c].i] \in work[c].known
  /\ Fills(c, work[c].id)
  /\ UNCHANGED <<dbUp, setupError, bound, pc, leaked, attempts, stored, answered>>

NewAddr(c) ==
  LET a == Batch(c)[work[c].i]
  IN  /\ InLoop(c)
      /\ a # Blank /\ a \notin work[c].known
      /\ \/ /\ dbUp
            /\ Fills(c, a)
            /\ UNCHANGED <<pc, leaked, stored, answered>>
         \/ /\ CannotResolve
            /\ Fails(c)
      /\ UNCHANGED <<dbUp, setupError, bound, attempts>>

-----------------------------------------------------------------------------
(***************************************************************************)
(* RecordBatchEvents                                                       *)
(***************************************************************************)

\* The open transactions, with those in progress.
Open == MapThenSumSet(LAMBDA c : leaked[c], BatchContainers)
          + Cardinality({c \in BatchContainers : pc[c] \in {"copy", "commit"}})

\* d.Begin() takes a connection, which the database may refuse.
Begin(c) ==
  /\ pc[c] = "loop"
  /\ work[c].i > Len(Batch(c))
  /\ \/ /\ dbUp /\ Open < MaxConns
        /\ pc' = [pc EXCEPT ![c] = "copy"]
        /\ UNCHANGED <<work, leaked, stored, answered>>
     \/ /\ ~dbUp \/ Open >= MaxConns
        /\ Fails(c)
  /\ UNCHANGED <<dbUp, setupError, bound, attempts>>

\* The rows of a batch, as the table has them.
RowsOf(c) ==
  {[attempt |-> work[c].attempt, at |-> k, row |-> work[c].rows[k]] :
     k \in 1 .. Len(work[c].rows)}

Refused(c) == \E k \in 1 .. Len(work[c].rows) : work[c].rows[k].remote \in TooLong

\* Mutant of InTransaction: the rows are inserted outside of the transaction.
InTransactionNot(c) == {r \in RowsOf(c) : r.row.remote \notin TooLong}

\* What Prepare, Exec and Close make visible before the commit.
InTransaction(c) == {}

\* Prepare, Exec for each event and Close.  The database checks the rows
\* when Close sends them.  The returns on error do not roll back.
Copy(c) ==
  /\ pc[c] = "copy"
  /\ stored' = stored \cup InTransaction(c)
  /\ \/ /\ dbUp /\ ~Refused(c)
        /\ pc' = [pc EXCEPT ![c] = "commit"]
        /\ UNCHANGED <<work, leaked>>
     \/ /\ ~dbUp \/ Refused(c) \/ "stmt" \in Faults
        /\ Returns(c)
        /\ leaked' = IF dbUp THEN [leaked EXCEPT ![c] = @ + 1] ELSE leaked
  /\ UNCHANGED <<dbUp, setupError, bound, attempts, answered>>

\* Mutant of Answers: an error of the commit is not returned.
AnswersAlways(c) == answered \cup {work[c].attempt}

\* What a failed commit answers.
Answers(c) == answered

\* Commit gives the connection back whatever its outcome.
Commit(c) ==
  /\ pc[c] = "commit"
  /\ Returns(c)
  /\ \/ /\ dbUp
        /\ stored' = stored \cup RowsOf(c)
        /\ answered' = answered \cup {work[c].attempt}
     \/ /\ ~dbUp \/ "stmt" \in Faults
        /\ answered' = Answers(c)
        /\ UNCHANGED stored
     \/ /\ "lostCommit" \in Faults
        /\ dbUp
        /\ stored' = stored \cup RowsOf(c)
        /\ answered' = Answers(c)
  /\ UNCHANGED <<dbUp, setupError, bound, leaked, attempts>>

-----------------------------------------------------------------------------

BatchStep(c) ==
  \/ ResolveOrigin(c) \/ BlankAddr(c) \/ KnownAddr(c) \/ NewAddr(c)
  \/ Begin(c) \/ Copy(c) \/ Commit(c)

Requests(c) == \/ c \in SingleContainers /\ HandleAfterError(c)
               \/ c \in BatchContainers /\ BatchAfterError(c)

Next ==
  \/ DbDown \/ DbUp
  \/ \E c \in BatchContainers : Kill(c) \/ Receive(c) \/ BatchStep(c)
  \/ \E c \in Containers : Requests(c)

Spec == Init /\ [][Next]_vars

\* Clients go on sending to every container that answers 500, a call that has
\* begun goes on, and the database comes back.
FairSpec ==
  /\ Spec
  /\ WF_vars(DbUp)
  /\ \A c \in Containers : WF_vars(Requests(c))
  /\ \A c \in BatchContainers : WF_vars(BatchStep(c))

-----------------------------------------------------------------------------
(***************************************************************************)
(* Properties                                                              *)
(***************************************************************************)

\* Every variable has its type, and a call works only on clients that have
\* been given the database.
TypeOK ==
  /\ dbUp \in BOOLEAN
  /\ setupError \in [Containers -> BOOLEAN]
  /\ bound \in [Containers -> BOOLEAN]
  /\ \A c \in Containers : ~setupError[c] => bound[c]
  /\ pc \in [BatchContainers -> {"idle", "origin", "loop", "copy", "commit"}]
  /\ \A c \in BatchContainers :
       /\ work[c].attempt \in 0 .. Len(attempts)
       /\ pc[c] # "idle" => work[c].attempt # 0 /\ bound[c]
       /\ work[c].id \in Ids /\ work[c].gid \in Ids
       /\ leaked[c] \in 0 .. MaxConns
  /\ attempts \in Seq(Batches)
  /\ answered \subseteq 1 .. Len(attempts)

RowsStored(n) == {r \in stored : r.attempt = n}

\* A batch is in the table as a whole or not at all, whatever statement of
\* its transaction fails and whoever else writes.
AllOrNothing ==
  \A n \in 1 .. Len(attempts) :
    Cardinality(RowsStored(n)) \in {0, Len(attempts[n])}

\* A batch that was answered without an error is in the table, each event
\* with its own address, in its own row.
AnsweredIsStored ==
  \A n \in answered : \A k \in 1 .. Len(attempts[n]) :
    \E r \in RowsStored(n) : r.at = k /\ r.row.remote = attempts[n][k]

\* The test of batch inserts sets RemoteGeoID to geoIDs[RemoteAddr]: the
\* location of a row is that of its own address.
RowsMatch ==
  \A r \in stored : r.row.remoteGeo = r.row.remote /\ r.row.originGeo = Origin

\* An outage of the database during init is over for Handle soon after the
\* database is back.
SingleRecovers ==
  \A c \in SingleContainers : (<>[]dbUp) => <>[]~setupError[c]
=============================================================================
