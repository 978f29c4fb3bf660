------------------------------ MODULE ProxyRelay ------------------------------
(***************************************************************************)
(* The proxy of cmd/proxy.go: an HTTP handler that appends each event it   *)
(* receives to a queue on disk, and Drain, which takes a batch of events   *)
(* out of that queue and hands it to EventClient.RecordBatchEvents         *)
(* (api/event.go).  Drain is called by three goroutines: the timer loop    *)
(* "start", the goroutine "signal" that receives HUP and the terminating   *)
(* signals, and "main", by the deferred call that runs when http.Serve     *)
(* returns.  They share the mutex s.mux and the queue.                     *)
(*                                                                         *)
(* The queue is the part of log after head: Enqueue appends to log,        *)
(* Dequeue moves head.  Events are named by their position in log.         *)
(***************************************************************************)
EXTENDS Integers, Sequences, FiniteSets

CONSTANTS
  Sizes,      \* the lengths a request body can have
  MaxBatch,   \* maxBatchSize
  MaxTries,   \* attempts of backoff.WithMaxRetries(..., 5): 6 in the code
  MaxItems,   \* bound: the requests accepted in a behaviour
  Faults      \* which faults of the environment a configuration lets happen

\* "garbled" a body that does not decode (a short Read), "enqueue" and "dequeue"
\* errors of the queue, "refuse" an answer other than 200 and 202, "lostAck" the
\* same after the server stored the batch, "net" an error of the transport, "hup"
\* and "term" signals, "serve" and "listen" errors of the listener.
AllFaults == {"garbled", "enqueue", "dequeue", "refuse", "lostAck", "net",
              "hup", "term", "serve", "listen"}

ASSUME SizesAssumption == Sizes \subseteq Nat
ASSUME MaxBatchAssumption == MaxBatch \in Nat \ {0}
ASSUME MaxTriesAssumption == MaxTries \in Nat \ {0}
ASSUME MaxItemsAssumption == MaxItems \in Nat
ASSUME FaultsAssumption == Faults \subseteq AllFaults

VARIABLES
  log,       \* every payload Enqueue stored: [size, ok], ok when it decodes
  head,      \* the payloads up to head were dequeued, or lost with their queue
  accepted,  \* how many requests were answered 202
  mux,       \* the goroutine that holds s.mux, or "free"
  pc,        \* where each goroutine is
  events,    \* the local variable of each call of Drain, as positions in log
  bufSize,   \* the local variable of each call of Drain
  tries,     \* attempts the running RecordBatchEvents has used
  sigChan,   \* signalChan, of capacity 1: "none" or the signal it holds
  handling,  \* the signal the goroutine "signal" last received
  exiting,   \* the goroutine waiting on exitChan received the code
  up,        \* the process runs
  recorded   \* history: the batches the server stored, in order

local == <<mux, pc, events, bufSize, tries, sigChan, handling, exiting>>
vars == <<log, head, accepted, local, up, recorded>>

Drainers == {"start", "signal", "main"}
Signals == {"hup", "term"}

\* "none": not started.  "idle": main in http.Serve, start asleep, signal
\* waiting for a signal.  "want": in Drain before the lock.  "loop", "send":
\* in Drain with the lock.  "exit": main about to return, signal at
\* exitChan <- 0.
Places == {"none", "listen", "idle", "want", "loop", "send", "exit"}

Init ==
  /\ log = <<>>
  /\ head = 0
  /\ accepted = 0
  /\ mux = "free"
  /\ pc = [d \in Drainers |-> CASE d = "main"   -> "listen"
                                [] d = "signal" -> "idle"
                                [] d = "start"  -> "none"]
  /\ events = [d \in Drainers |-> <<>>]
  /\ bufSize = [d \in Drainers |-> 0]
  /\ tries = [d \in Drainers |-> 0]
  /\ sigChan = "none"
  /\ handling = "none"
  /\ exiting = FALSE
  /\ up = TRUE
  /\ recorded = <<>>

-----------------------------------------------------------------------------
(***************************************************************************)
(* The life of the process                                                 *)
(***************************************************************************)

\* os.Exit, the return of main, or a panic: every goroutine and its local
\* variables are gone.
Ends ==
  /\ up' = FALSE
  /\ mux' = "free"
  /\ pc' = [d \in Drainers |-> "none"]
  /\ events' = [d \in Drainers |-> <<>>]
  /\ bufSize' = [d \in Drainers |-> 0]
  /\ tries' = [d \in Drainers |-> 0]
  /\ sigChan' = "none"
  /\ handling' = "none"
  /\ exiting' = FALSE

\* systemd starts the proxy again (Restart=always).  proxyrun opens a queue
\* in a directory named after the current time, so what the former queue
\* still held is out of reach.
Restart ==
  /\ ~up
  /\ up' = TRUE
  /\ head' = Len(log)
  /\ pc' = [d \in Drainers |-> CASE d = "main"   -> "listen"
                                 [] d = "signal" -> "idle"
                                 [] d = "start"  -> "none"]
  /\ UNCHANGED <<log, accepted, mux, events, bufSize, tries, sigChan, handling,
                 exiting, recorded>>

\* Mutant of Listen: runproxyServer forgets go sr.start().
ListenNoTimer ==
  /\ up /\ pc["main"] = "listen"
  /\ pc' = [pc EXCEPT !["main"] = "idle"]
  /\ UNCHANGED <<log, head, accepted, mux, events, bufSize, tries, sigChan,
                 handling, exiting, up, recorded>>

\* runproxyServer: net.Listen, then the timer goroutine, then http.Serve.
Listen ==
  /\ up /\ pc["main"] = "listen"
  /\ pc' = [pc EXCEPT !["main"] = "idle", !["start"] = "idle"]
  /\ UNCHANGED <<log, head, accepted, mux, events, bufSize, tries, sigChan,
                 handling, exiting, up, recorded>>

\* net.Listen failed: main returns without a Drain.
ListenFails ==
  /\ "listen" \in Faults
  /\ up /\ pc["main"] = "listen"
  /\ Ends
  /\ UNCHANGED <<log, head, accepted, recorded>>

\* http.Serve returned: the deferred Drain runs.
ServeFails ==
  /\ "serve" \in Faults
  /\ up /\ pc["main"] = "idle"
  /\ pc' = [pc EXCEPT !["main"] = "want"]
  /\ UNCHANGED <<log, head, accepted, mux, events, bufSize, tries, sigChan,
                 handling, exiting, up, recorded>>

\* main returns, which ends the process whatever the others are doing.
MainReturns ==
  /\ pc["main"] = "exit"
  /\ Ends
  /\ UNCHANGED <<log, head, accepted, recorded>>

-----------------------------------------------------------------------------
(***************************************************************************)
(* The HTTP handler                                                        *)
(***************************************************************************)

Store(size, ok) == log' = Append(log, [size |-> size, ok |-> ok])

\* ServeHTTP answers 202 whether or not the queue took the body.  (It answers
\* 400 to a body it cannot read, and then changes nothing.)  It takes no lock.
ServeHTTP ==
  /\ up /\ pc["main"] # "listen"
  /\ accepted < MaxItems
  /\ accepted' = accepted + 1
  /\ \/ \E size \in Sizes \ {0} : Store(size, TRUE)
     \/ /\ "garbled" \in Faults
        /\ \E size \in Sizes : Store(size, FALSE)
     \/ /\ "enqueue" \in Faults
        /\ UNCHANGED log
  /\ UNCHANGED <<head, local, up, recorded>>

-----------------------------------------------------------------------------
(***************************************************************************)
(* The goroutines that call Drain                                          *)
(***************************************************************************)

\* start: time.Sleep returned.
Tick ==
  /\ pc["start"] = "idle"
  /\ pc' = [pc EXCEPT !["start"] = "want"]
  /\ UNCHANGED <<log, head, accepted, mux, events, bufSize, tries, sigChan,
                 handling, exiting, up, recorded>>

\* The runtime forwards a signal to signalChan and drops it when the channel
\* is full.
Signal(s) ==
  /\ s \in Faults
  /\ up
  /\ sigChan = "none"
  /\ sigChan' = s
  /\ UNCHANGED <<log, head, accepted, mux, pc, events, bufSize, tries, handling,
                 exiting, up, recorded>>

ReceiveSignal ==
  /\ pc["signal"] = "idle"
  /\ sigChan # "none"
  /\ sigChan' = "none"
  /\ handling' = sigChan
  /\ pc' = [pc EXCEPT !["signal"] = "want"]
  /\ UNCHANGED <<log, head, accepted, mux, events, bufSize, tries, exiting, up,
                 recorded>>

\* exitChan <- 0: the channel has no buffer, and its reader receives once.
HandOff ==
  /\ pc["signal"] = "exit"
  /\ ~exiting
  /\ exiting' = TRUE
  /\ pc' = [pc EXCEPT !["signal"] = "idle"]
  /\ UNCHANGED <<log, head, accepted, mux, events, bufSize, tries, sigChan,
                 handling, up, recorded>>

\* os.Exit(code)
OsExit ==
  /\ exiting
  /\ Ends
  /\ UNCHANGED <<log, head, accepted, recorded>>

\* Mutant of AfterDrain: the default case does not send on exitChan.
AfterDrainNoExit(d) == IF d = "main" THEN "exit" ELSE "idle"

\* Where a goroutine goes on after Drain returned.
AfterDrain(d) ==
  CASE d = "start"  -> "idle"
    [] d = "signal" -> IF handling = "hup" THEN "idle" ELSE "exit"
    [] d = "main"   -> "exit"

-----------------------------------------------------------------------------
(***************************************************************************)
(* Drain                                                                   *)
(***************************************************************************)

QueueLength == Len(log) - head

\* Mutant of CanLock: Drain does not lock.
CanLockAlways(d) == pc[d] = "want"

\* Whether a goroutine can take s.mux.
CanLock(d) == mux = "free"

\* s.mux.Lock(), and the return of a call that finds nothing to send.
Lock(d) ==
  /\ pc[d] = "want"
  /\ CanLock(d)
  /\ IF QueueLength <= 0
       THEN /\ pc' = [pc EXCEPT ![d] = AfterDrain(d)]
            /\ UNCHANGED mux
       ELSE /\ pc' = [pc EXCEPT ![d] = "loop"]
            /\ mux' = d
  /\ UNCHANGED <<log, head, accepted, events, bufSize, tries, sigChan, handling,
                 exiting, up, recorded>>

\* Mutant of Return: the batch outlives the call, as if it were a field of
\* proxyRelay.
ReturnKeepsEvents(d) ==
  /\ pc' = [pc EXCEPT ![d] = AfterDrain(d)]
  /\ mux' = "free"
  /\ bufSize' = [bufSize EXCEPT ![d] = 0]
  /\ tries' = [tries EXCEPT ![d] = 0]
  /\ UNCHANGED events

\* Mutant of Return: no deferred Unlock.
ReturnLocked(d) ==
  /\ pc' = [pc EXCEPT ![d] = AfterDrain(d)]
  /\ events' = [events EXCEPT ![d] = <<>>]
  /\ bufSize' = [bufSize EXCEPT ![d] = 0]
  /\ tries' = [tries EXCEPT ![d] = 0]
  /\ UNCHANGED mux

\* Every return of Drain: the deferred Unlock, and the end of its variables.
Return(d) ==
  /\ pc' = [pc EXCEPT ![d] = AfterDrain(d)]
  /\ mux' = "free"
  /\ events' = [events EXCEPT ![d] = <<>>]
  /\ bufSize' = [bufSize EXCEPT ![d] = 0]
  /\ tries' = [tries EXCEPT ![d] = 0]

\* The code after the loop: nothing collected, or a batch to send.
LeaveLoop(d) ==
  \/ /\ events[d] = <<>>
     /\ Return(d)
  \/ /\ events[d] # <<>>
     /\ pc' = [pc EXCEPT ![d] = "send"]
     /\ bufSize' = [bufSize EXCEPT ![d] = 0]
     /\ UNCHANGED <<mux, events, tries>>

\* The condition of the loop.
HasRoom(d) == bufSize[d] < MaxBatch

\* One Dequeue, which moves the head of the queue.
Dequeues(d) ==
  /\ pc[d] = "loop"
  /\ HasRoom(d)
  /\ QueueLength > 0
  /\ head' = head + 1

\* Mutants of Overflows: no check, a check of the payload alone, and a check
\* that rejects a batch filled exactly.
OverflowsNever(d) == pc[d] = "none"
OverflowsAlone(d) == log[head + 1].size > MaxBatch /\ pc[d] = "loop"
OverflowsWhenFull(d) == bufSize[d] + log[head + 1].size >= MaxBatch

\* Whether the payload just dequeued makes the batch too large.
Overflows(d) == bufSize[d] + log[head + 1].size > MaxBatch

\* The loop ends on its condition, or because Dequeue returned no item: it found
\* nothing, or its error was ignored and the payload stays in the queue.
EndLoop(d) ==
  /\ pc[d] = "loop"
  /\ ~HasRoom(d) \/ QueueLength = 0 \/ "dequeue" \in Faults
  /\ LeaveLoop(d)
  /\ UNCHANGED <<log, head, accepted, sigChan, handling, exiting, up, recorded>>

\* The payload does not fit: it is out of the queue and not in the batch.
DropOverflow(d) ==
  /\ Dequeues(d)
  /\ Overflows(d)
  /\ LeaveLoop(d)
  /\ UNCHANGED <<log, accepted, sigChan, handling, exiting, up, recorded>>

\* The payload does not decode: Drain returns and sends nothing of what it
\* has collected.
Undecodable(d) ==
  /\ Dequeues(d)
  /\ ~Overflows(d)
  /\ ~log[head + 1].ok
  /\ Return(d)
  /\ UNCHANGED <<log, accepted, sigChan, handling, exiting, up, recorded>>

Collect(d) ==
  /\ Dequeues(d)
  /\ ~Overflows(d)
  /\ log[head + 1].ok
  /\ bufSize' = [bufSize EXCEPT ![d] = @ + log[head + 1].size]
  /\ events' = [events EXCEPT ![d] = Append(@, head + 1)]
  /\ UNCHANGED <<log, accepted, mux, pc, tries, sigChan, handling, exiting, up,
                 recorded>>

-----------------------------------------------------------------------------
(***************************************************************************)
(* RecordBatchEvents                                                       *)
(***************************************************************************)

\* The server stores a batch as a whole (event/event.go: one transaction).
Stores(d) == recorded' = Append(recorded, events[d])

\* An attempt answered 200 or 202.
Accepted(d) ==
  /\ pc[d] = "send"
  /\ Stores(d)
  /\ Return(d)
  /\ UNCHANGED <<log, head, accepted, sigChan, handling, exiting, up>>

NextTry(d) == tries[d] + 1

MoreTries(d) == NextTry(d) < MaxTries

\* An attempt answered otherwise: the next one follows after a second, or
\* RecordBatchEvents gives up, with a nil error (api/event.go:152).
Rejected(d) ==
  /\ pc[d] = "send"
  /\ \/ "refuse" \in Faults /\ UNCHANGED recorded
     \/ "lostAck" \in Faults /\ Stores(d)
  /\ \/ /\ MoreTries(d)
        /\ tries' = [tries EXCEPT ![d] = NextTry(d)]
        /\ UNCHANGED <<mux, pc, events, bufSize>>
     \/ /\ ~MoreTries(d)
        /\ Return(d)
  /\ UNCHANGED <<log, head, accepted, sigChan, handling, exiting, up>>

\* An error of the transport: the closure reads resp.StatusCode of a nil
\* response (api/event.go:143), and the panic ends the process.  A retry fails
\* like this by itself when net/http cannot rewind the body, which the first
\* attempt has read.
Panics(d) ==
  /\ "net" \in Faults
  /\ pc[d] = "send"
  /\ \/ UNCHANGED recorded
     \/ Stores(d)
  /\ Ends
  /\ UNCHANGED <<log, head, accepted>>

-----------------------------------------------------------------------------

DrainStep(d) == \/ EndLoop(d)
                \/ DropOverflow(d)
                \/ Undecodable(d)
                \/ Collect(d)

Attempt(d) == Accepted(d) \/ Rejected(d) \/ Panics(d)

Next ==
  \/ Restart
  \/ Listen
  \/ ListenFails
  \/ ServeFails
  \/ MainReturns
  \/ ServeHTTP
  \/ Tick
  \/ \E s \in Signals : Signal(s)
  \/ ReceiveSignal
  \/ HandOff
  \/ OsExit
  \/ \E d \in Drainers : Lock(d) \/ DrainStep(d) \/ Attempt(d)

\* The Go scheduler runs every goroutine that can run; sync.Mutex hands the
\* lock to a waiter that has waited a millisecond (strong fairness); systemd
\* restarts the service; the timer fires.  Nothing makes a client send, a
\* signal arrive or the listener fail.
Scheduling ==
  /\ WF_vars(Restart) /\ WF_vars(Listen) /\ WF_vars(MainReturns)
  /\ WF_vars(Tick) /\ WF_vars(ReceiveSignal)
  /\ WF_vars(HandOff) /\ WF_vars(OsExit)
  /\ \A d \in Drainers : SF_vars(Lock(d)) /\ WF_vars(DrainStep(d))

\* The server answers each attempt.
Answers == \A d \in Drainers : WF_vars(Attempt(d))

Spec == Init /\ [][Next]_vars

FairSpec == Spec /\ Scheduling /\ Answers

-----------------------------------------------------------------------------
(***************************************************************************)
(* Properties                                                              *)
(***************************************************************************)

ItemType == [size : Sizes, ok : BOOLEAN]

\* Every variable has its type; a batch never outgrows its bound while it is
\* collected, and no call uses more attempts than it has.
TypeOK ==
  /\ log \in Seq(ItemType)
  /\ head \in 0 .. Len(log)
  /\ accepted \in Nat
  /\ mux \in Drainers \cup {"free"}
  /\ pc \in [Drainers -> Places]
  /\ events \in [Drainers -> Seq(Nat)]
  /\ bufSize \in [Drainers -> 0 .. MaxBatch]
  /\ tries \in [Drainers -> 0 .. MaxTries - 1]
  /\ sigChan \in Signals \cup {"none"}
  /\ handling \in Signals \cup {"none"}
  /\ exiting \in BOOLEAN
  /\ up \in BOOLEAN
  /\ recorded \in Seq(Seq(Nat))

LastOf(s) == s[Len(s)]
ItemsOf(s) == {s[i] : i \in 1 .. Len(s)}
Bytes(s) ==
  LET upTo[i \in 0 .. Len(s)] == IF i = 0 THEN 0 ELSE upTo[i - 1] + log[s[i]].size
  IN  upTo[Len(s)]

\* s is a run of events of the log l that were accepted one directly after
\* the other, each of them decodable.
IsRun(l, s) == /\ s # <<>>
               /\ \A i \in 1 .. Len(s) : /\ s[i] \in 1 .. Len(l)
                                          /\ l[s[i]].ok
                                          /\ s[i] = s[1] + i - 1

\* Three goroutines drain one queue, a batch stays in a local variable for
\* all the seconds of its retries, and an answer can be lost.  Still, what
\* reaches the server is in the order of acceptance: each batch is a run, and
\* of two batches the later one is the same request again, or it starts after
\* the end of the earlier one.
InOrder ==
  /\ \A i \in 1 .. Len(recorded) : IsRun(log, recorded[i])
  /\ \A i, j \in 1 .. Len(recorded) :
       i < j => \/ recorded[i] = recorded[j]
                \/ LastOf(recorded[i]) < recorded[j][1]

\* Why InOrder holds, as an inductive invariant.  LockHeld: a goroutine inside
\* the body of Drain holds the mutex, and the timer does not run before Listen
\* starts it, so that Listen pulls nobody out of Drain.  BatchInHand: only such
\* a goroutine has events, they are a run that ends at the head of the queue,
\* and it has some when it sends.  StoredIsPast: what is stored was dequeued,
\* and is either older than the batch in hand or that batch itself, already
\* being retried.
LockHeld ==
  /\ \A d \in Drainers : pc[d] \in {"loop", "send"} => mux = d
  /\ ~up => \A d \in Drainers : pc[d] = "none"
  /\ pc["main"] = "listen" => pc["start"] = "none"

BatchInHand ==
  \A d \in Drainers :
    /\ events[d] # <<>> => /\ pc[d] \in {"loop", "send"}
                           /\ IsRun(log, events[d])
                           /\ LastOf(events[d]) <= head
                           /\ pc[d] = "loop" => LastOf(events[d]) = head
    /\ pc[d] = "send" => events[d] # <<>>

StoredIsPast ==
  \A i \in 1 .. Len(recorded) :
    /\ LastOf(recorded[i]) <= head
    /\ \A d \in Drainers :
         events[d] # <<>> => \/ LastOf(recorded[i]) < events[d][1]
                            \/ (pc[d] = "send" /\ recorded[i] = events[d])

OrderInv == LockHeld /\ BatchInHand /\ StoredIsPast /\ InOrder

\* No request is larger than maxBatchSize, whatever the sizes of the events
\* and wherever the loop of Drain stops.
BatchFits == \A i \in 1 .. Len(recorded) : Bytes(recorded[i]) <= MaxBatch

InFlight == UNION {ItemsOf(events[d]) : d \in Drainers}
Stored == UNION {ItemsOf(recorded[i]) : i \in 1 .. Len(recorded)}

\* The payloads the process still has, and whether a step loses one of them.
Held == (head + 1 .. Len(log)) \cup InFlight
Loses(i) == i \in Held /\ i \notin Held' \cup Stored'

\* Why a step may lose payload i: the process ends, or a new one does not read
\* the queue of the former; the payload does not fit where the batch in hand
\* ends; it is in one call with a payload that does not decode; or the last
\* attempt of its batch was refused.
EndOfProcess == ~up \/ ~up'
DoesNotFit(i) ==
  \E d \in Drainers : /\ pc[d] = "loop" /\ i = head + 1
                      /\ Bytes(events[d]) + log[i].size > MaxBatch
WithGarbage(i) ==
  \E d \in Drainers : /\ pc[d] = "loop" /\ ~log[head + 1].ok
                      /\ i = head + 1 \/ i \in ItemsOf(events[d])
GivenUp(i) ==
  \E d \in Drainers : /\ pc[d] = "send" /\ tries[d] = MaxTries - 1
                      /\ i \in ItemsOf(events[d])

\* What the queue took is not lost in silence anywhere else, whichever of the
\* paths through Drain and RecordBatchEvents a payload takes, and a batch that
\* an event overflows loses that event alone.
EveryLossHasACause ==
  [][\A i \in Held :
       Loses(i) => EndOfProcess \/ DoesNotFit(i) \/ WithGarbage(i) \/ GivenUp(i)]_vars

\* What the proxy promises the server, from outside: see RelayContract.
Abstract == INSTANCE RelayContract
Contract == Abstract!Contract

\* Every payload the queue holds leaves it, by a Dequeue or with the process,
\* although each Drain takes out one batch only.
QueueEmpties == \A i \in 1 .. MaxItems : Len(log) >= i ~> head >= i

\* A terminating signal that reached signalChan ends the process, although
\* the goroutine has to finish a HUP first, wait for the lock, drain a batch
\* and retry it.
TermEnds == sigChan = "term" ~> ~up

\* Nobody who waits for s.mux waits for ever, whatever way the goroutine in
\* Drain leaves it.
NobodyWaitsForever == \A d \in Drainers : pc[d] = "want" ~> pc[d] # "want"
=============================================================================
