------------------------------- MODULE Pipeline -------------------------------
(***************************************************************************)
(* From the pots to the table: the events of one potter, the proxy of the  *)
(* host, and the Lambda that stores its batches.  The potter is            *)
(* SendContract, which PotterClient implements; the proxy is ProxyRelay,   *)
(* all of it; of the Lambda it matters here whether it can store a batch,  *)
(* which EventLambda shows in detail.  The requests of the potter become   *)
(* ServeHTTP of the proxy, and its attempts become requests of the Lambda, *)
(* so that recorded is the table, batch by batch.                          *)
(*                                                                         *)
(* An event is the number of its login, and a request takes effect, if at  *)
(* all, before its attempt ends.                                           *)
(***************************************************************************)
EXTENDS ProxyRelay, EventTime, FiniteSetsExt

CONSTANTS
  Times,       \* the time of each login, in order
  MaxUnheard   \* bound: answers of the proxy that are lost

Events == 1 .. Len(Times)

ASSUME TimesAssumption ==
  /\ Times \in Seq(Nat)
  /\ \A e, f \in Events : e < f => Times[e] <= Times[f]
\* The year 2262 has not come.
ASSUME ClockAssumption == \A e \in Events : Times[e] < Limit
ASSUME UnheardAssumption == MaxUnheard \in Nat

VARIABLES
  state, copies, unheard, refused,   \* of each event: see SendContract
  owner,    \* the event of each payload in log
  earlier,  \* of each event: the events sent before its login
  lambda    \* what the Lambda does with a batch

Sender == INSTANCE SendContract

potter == <<state, copies, unheard, refused, owner, earlier>>
pipeVars == <<vars, potter, lambda>>

\* "stores" it in the table, or "fails": it rejects the batch or never answers.
Behaviours == {"stores", "fails"}

PipelineInit ==
  /\ Init
  /\ Sender!ContractInit
  /\ owner = <<>>
  /\ earlier = [e \in Events |-> {}]
  /\ lambda = "stores"

-----------------------------------------------------------------------------
(***************************************************************************)
(* The potter                                                              *)
(***************************************************************************)

\* A pot reports a login.
Login(e) ==
  /\ \A f \in 1 .. e - 1 : state[f] # "new"
  /\ Sender!Begin(e)
  /\ earlier' = [earlier EXCEPT ![e] = {f \in Events : state[f] = "sent"}]
  /\ UNCHANGED <<vars, owner, lambda>>

\* A POST of event e reaches ServeHTTP.
Posts(e) ==
  /\ ServeHTTP
  /\ owner' = IF log' = log THEN owner ELSE Append(owner, e)
  /\ UNCHANGED <<earlier, lambda>>

\* Mutant of Post: the retries go on after a success.
PostOnAndOn(e) == Posts(e) /\ Sender!Taken(e) /\ UNCHANGED <<state, unheard, refused>>

\* ... and ServeHTTP waits for the mutex.
PostNeedsMux(e) == mux = "free" /\ Posts(e) /\ Sender!Deliver(e)

Post(e) == Posts(e) /\ Sender!Deliver(e)

PostUnheard(e) ==
  /\ MapThenSumSet(LAMBDA f : unheard[f], Events) < MaxUnheard
  /\ Posts(e)
  /\ Sender!DeliverUnheard(e)

Listening == up /\ pc["main"] # "listen"

\* ServeHTTP could not read the body and answers 400.
PostDeclined(e) ==
  /\ Listening
  /\ Sender!Decline(e)
  /\ UNCHANGED <<vars, owner, earlier, lambda>>

\* The retries end while no proxy listens, or the potter ends.
PostsEnd(e) ==
  /\ Sender!GiveUp({e})
  /\ UNCHANGED <<vars, owner, earlier, lambda>>

-----------------------------------------------------------------------------
(***************************************************************************)
(* The Lambda                                                              *)
(***************************************************************************)

\* It rejects a batch while the database is down, in a container that was set
\* up while it was, and when transactions left open hold every connection.  It
\* never answers as long as the network between the two is silent:
\* http.DefaultClient has no timeout.
Changes ==
  /\ \E b \in Behaviours : lambda' = b
  /\ UNCHANGED <<vars, potter>>

\* An attempt of RecordBatchEvents, as far as the state of the Lambda allows
\* its outcome.  A batch it could store it rejects only when the answer of the
\* commit is lost.
Request(d) ==
  \/ Accepted(d) /\ lambda = "stores"
  \/ Rejected(d) /\ lambda = IF recorded' = recorded THEN "fails" ELSE "stores"
  \/ Panics(d) /\ (recorded' = recorded \/ lambda = "stores")

-----------------------------------------------------------------------------

ProxyStep ==
  \/ Restart \/ Listen \/ ListenFails \/ ServeFails \/ MainReturns
  \/ Tick \/ ReceiveSignal \/ HandOff \/ OsExit
  \/ \E s \in Signals : Signal(s)
  \/ \E d \in Drainers : Lock(d) \/ DrainStep(d) \/ Request(d)

PipelineNext ==
  \/ ProxyStep /\ UNCHANGED <<potter, lambda>>
  \/ Changes
  \/ \E e \in Events : Login(e) \/ Post(e) \/ PostUnheard(e) \/ PostDeclined(e) \/ PostsEnd(e)

PipelineSpec == PipelineInit /\ [][PipelineNext]_pipeVars

\* As in ProxyRelay, except that an attempt need not be answered while the
\* Lambda fails; and the goroutine of an event goes on to try.
FairPipeline ==
  /\ PipelineSpec
  /\ Scheduling
  /\ \A d \in Drainers : WF_vars(lambda = "stores" /\ Request(d))
  /\ \A e \in Events : WF_pipeVars(Post(e) \/ PostUnheard(e))

-----------------------------------------------------------------------------
(***************************************************************************)
(* Properties                                                              *)
(***************************************************************************)

\* Where the rows of an event are in the table: the batch and the place in it.
Rows(e) ==
  {r \in (1 .. Len(recorded)) \X (1 .. MaxItems) :
     r[2] <= Len(recorded[r[1]]) /\ owner[recorded[r[1]][r[2]]] = e}

Before(a, b) == a[1] < b[1] \/ (a[1] = b[1] /\ a[2] < b[2])

\* Two clients repeat on their way what they got no good answer about: the
\* potter a POST, the proxy a batch.  Together they store an event at most
\* once for each time the proxy took it and each attempt of its batch.
RowsBounded ==
  \A e \in Events : Cardinality(Rows(e)) <= (1 + unheard[e]) * MaxTries

\* The time of a row: the potter encodes the event, the proxy decodes it and
\* encodes it again, the Lambda decodes it.
RowTime(e) == UnmarshalTime(MarshalTime(UnmarshalTime(MarshalTime(Times[e]))))

\* An event that was sent before another login begins comes before it in the
\* table as well, and its time is not later, whatever was repeated, retried,
\* lost or restarted between the two.
TableInOrder ==
  \A f \in Events : \A e \in earlier[f], b \in Rows(f) :
    /\ RowTime(e) <= RowTime(f)
    /\ Rows(e) # {} => \E a \in Rows(e) : Before(a, b)

\* Nothing is in the way of events any more.
Calm ==
  /\ up /\ lambda = "stores"
  /\ \A i \in 1 .. Len(log) : log[i].ok

\* Drain is about to take this event out of the queue and leave it out of the
\* batch, which has no room for it any more.
LeftOut(e) ==
  \E d \in Drainers : /\ pc[d] = "loop" /\ HasRoom(d)
                      /\ QueueLength > 0 /\ owner[head + 1] = e /\ Overflows(d)

\* An event whose sending goes on while everything works gets to the table,
\* through the retries of the potter, the queue, the timer, the lock and the
\* batch; unless the potter ends, the proxy declined it, or it meets a batch
\* without room for it: a backlog of an earlier outage overflows a batch also
\* after the outage, and the event is dropped (cmd/proxy.go:160-163).
EventsArrive ==
  \A e \in Events :
    [](state[e] = "open" /\ []Calm =>
         <>(Rows(e) # {} \/ e \in refused \/ state[e] = "lost" \/ LeftOut(e)))

\* The sending of an event ends also when the Lambda never answers: the queue
\* stands between the two, and ServeHTTP does not wait for the mutex that an
\* attempt without an answer keeps from everyone else.
SendingEnds == \A e \in Events : state[e] = "open" ~> state[e] # "open"
=============================================================================
