# A TLA+ model of passwd-pot

passwd-pot is a honeypot for passwords.  *Pots* (FTP, POP3, HTTP, Postgres)
accept connections, refuse every login and report the credentials they saw.
A *proxy* collects the reports of a host in a queue on disk and forwards them
in batches.  *Lambda* functions behind an API gateway store them in a database
and find out where the addresses are.  This directory holds TLA+ models of
those parts, configurations that model-check them with TLC, and proofs that
TLAPS checks.

    client --TCP--> pot --goroutine--> potterClient.Send --HTTP--> proxy
                    (LinePot, PsqlPot, (PotterClient)              (ProxyRelay)
                     Potter)
                                                                     | batches
                                                                     v
          location service <--HTTP-- Lambda containers --SQL--> database
                                     (GeoResolver, EventLambda, GeoCache)

    Pipeline: from the logins through the proxy to the table
    RelayContract, SendContract, PotContract: what the proxy, the potter and
    the line pots promise, each implemented by the module of that part

## 1. Inventory

| part | state | operations | hard behaviour | what makes it correct |
|---|---|---|---|---|
| **Proxy** `cmd/proxy.go` | queue on disk, mutex, signal and exit channels; per call of `Drain`: `events`, `bufSize` | `ServeHTTP` enqueues; `Drain` dequeues and sends; `start` ticks; the signal goroutine; deferred `Drain` of `runproxyServer` | three callers of `Drain`, retries under the lock, overflow of a batch, panics, restart with a new queue | order of acceptance, batches of bounded size, no loss without a known cause, the queue empties, signals end the process |
| **API client** `api/event.go` | none between calls | `RecordBatchEvents` (constant backoff, 5 retries), `RecordEvent` (exponential backoff, 15 minutes) | lost answers, answers that are neither success nor error, a nil response, no timeout | an event is repeated only after a lost answer and lost only after the retries |
| **Time of an event** `EventTime` of `api/event.go` | none | `MarshalJSON`, `UnmarshalJSON` on every hop | milliseconds, quotient and remainder, an int64 of nanoseconds | the order of the logins is the order of the times in the table |
| **FTP and POP pots** `cmd/ftp`, `cmd/pop` | per connection: `user`, the `bufio.Reader` | commands `USER`, `PASS`, `QUIT` | TCP cuts lines anywhere; the FTP pot makes a new reader for each command; connections run side by side | each password is reported once, with its own user, in order |
| **Sending** `cmd/potter.go` | one goroutine for each event | `Send`, then `RecordEvent` | outages, retries, end of the process | each event is settled; a short outage loses none |
| **psql pot** `cmd/psql` | per connection: `scratch`, `buf`, `user`, `pass` | start message, password message, error response | messages that share one array; `N` and `E` messages | one event for each started login, with the user and the password of that login |
| **HTTP pot** `cmd/http` | none | `ServeHTTP` | `sendEvent` outlives the request | one event for each decodable header |
| **Supervisor** `cmd/potter.go`, `cmd/listen` | `WaitGroup`, listeners, channel of connections | `runPotter`, `Run`, `AcceptConnection` | pots that cannot bind, accept errors | the process runs as long as a pot does |
| **Lambda handlers** `aws/lambda/events.go` | `setupError`, the clients' databases; per call: the loop over a batch | `init`, `setup`, `Handle`, `HandleBatch` | outages at start, containers on one database | what is answered is stored; a handler recovers |
| **Event client** `event/event.go` | tables, open transactions | `RecordEvent`, `RecordBatchEvents` | a statement fails in the middle, a commit's answer is lost, connections leak | a batch is stored whole or not at all |
| **Resolver** `resolver` | table `geo`, columns of `event` | `ResolveEvent`, `resolveAddr`, `insertGeo`, `markEvent` | containers interleave statement by statement; rows expire; addresses move | an event has the locations of its own addresses, and fresh ones |
| **Geo cache** `cache` | map with a lock for each shard | `Get`, `Set`, `Clear` by a timer | `Clear` works on a snapshot while others write | `Clear` forgets what is older than itself, and ends |
| **Database wrapper** `potdb` | none | `Insert`, `replaceParams` | two dialects | the id of the new row; numbered parameters |

Not modelled, because they keep no state that another part reads or are not
code that runs: the geo lookup Lambda (one call of `GetLocationForAddr`),
`cmd/stream.go`, `cmd/hub.go` and the stream of the cli (commented out),
logging, flags, profiling, the templates of `aws/`, the schemas and the units
(from which the models take foreign keys, column lengths and the restart of
the service).

The parts interact through HTTP (pots to proxy, proxy to Lambda), SQL (the
containers share one database), channels and one mutex (inside the proxy), and
goroutines that outlive the call that started them (inside the pots).

## 2. Plan

Done, in this order, the most concurrent part first:

1. `RelayContract`, `ProxyRelay`: what the proxy promises and how it works;
   `ProxyRelayProofs`.
2. `GeoResolver`, `GeoCache`: the resolution of addresses and its cache.
3. `EventLambda`: batches, transactions, recovery.
4. `PotContract`, `LinePot`: sessions of the FTP and POP pots.
5. `PotterClient`: an event between the pot and the server.
6. `PsqlPot` and `Potter`: the sessions of the psql pot, with `scratch` as
   shared memory, composed with the supervisor, the listeners and the HTTP pot.

7. `SendContract`, which `PotterClient` implements, and `Pipeline`: that
   contract, all of `ProxyRelay` and the Lambda composed: which events end up in
   the table, how often, in which order and when.
8. `EventTime`: the conversions of the time of an event, used by `Pipeline`.

Theorems: type correctness of every part and every safety property that a run
checks, each from an inductive invariant, and the refinement of
`RelayContract` and `SendContract` are proved (section 5).  Left is the
refinement of `PotContract` by `LinePot`: that the credentials of a careful
connection are those that `Expected` computes from its lines, which needs the
position of each connection in its lines as part of the invariant, and lemmas
about the recursive function in `Expected`.

Parameters are CONSTANTS with named assumptions, an operation is one action,
invariants are conjunctions of named parts, and no module that is proved about
has a RECURSIVE operator.

## 3. The modules

### ProxyRelay and RelayContract (`cmd/proxy.go`, `RecordBatchEvents` of `api/event.go`)

The queue is a log and the position `head` up to which it was read, so an event
is named by its position and "order" means order of these numbers.  `pc`,
`events`, `bufSize` and `tries` are functions of the goroutine: `"start"` (the
timer), `"signal"` (which receives HUP and the terminating signals) and
`"main"` (the deferred `Drain`).  One action is one step that another
goroutine can see: taking the lock with the test of the length (`Lock`), one
`Dequeue` with what follows it (`Collect`, `DropOverflow`, `Undecodable`), the
end of the loop (`EndLoop`), one attempt of the request with its outcome
(`Accepted`, `Rejected`, `Panics`).

What the code does that a reader might not expect, all of it in the model:

* the payload that makes a batch too large has been dequeued already and is
  dropped (`DropOverflow`); a payload that does not decode takes the whole
  call with it (`Undecodable`);
* when the retries are used up `RecordBatchEvents` returns a nil error
  (`Rejected`), and `Drain` reports success;
* an error of the transport has no response whose status could be read: the
  goroutine panics and the process ends (`Panics`).  The request body is sent
  again by `net/http` itself where that is possible; where it is not, that is
  an error of the transport too;
* a restarted proxy opens a new queue, so what the old one held is left behind
  (`Restart`); `ServeHTTP` answers 202 also when the queue failed;
* `signalChan` holds one signal, and the runtime drops what does not fit;
* the error of `Dequeue` is ignored: without an item the loop ends (`EndLoop`),
  and the payload stays at the head of the queue.

Sizes are those of the payloads in the queue, which `bufSize` adds up.  The
request itself is encoded anew from the decoded events, so `BatchFits` bounds
what `Drain` counts and not the bytes that are sent.

`RelayContract` says the same from outside with two variables: batches are runs
of accepted events, in order, without overlap; the latest one may be repeated.

### Pipeline and EventTime (the way of an event; `EventTime` of `api/event.go`)

`Pipeline` extends `ProxyRelay` and puts two things around it.  In front is
the potter, as the variables of `SendContract`: a `Post` of the potter is
`ServeHTTP` of the proxy, `owner` says which event each payload of the log is,
and `PostUnheard` is a `Post` whose answer is lost, after which the potter may
post again.  Behind is the Lambda, as a variable `lambda`: it stores batches, or
it `"fails"`, that is, it rejects a batch or does not answer.  `Request`
restricts the attempts of `ProxyRelay` to the outcomes which that state allows.
`recorded` is the table.  A crash of the potter is `PostsEnd` of each event.

Taking `SendContract` instead of `PotterClient` leaves out its clocks; run
`potter_client` shows that it has no other behaviour.  Of the Lambda only the
outcome of a batch is left: that a batch is stored whole or not at all, and is
stored when it is answered so, is shown by `lambda_faults`.  One thing is
assumed: a request takes effect, if at all, before its attempt ends.  A Lambda
that commits after the gateway has answered for it could store a batch between
two later ones.

`EventTime` has the conversions as the code computes them: division in Go
truncates towards zero, `UnixNano` is an int64 (`Limit` is the first number too
large for it), and `UnmarshalJSON` puts a time together from a quotient and a
remainder.  An event is encoded by the potter,
decoded and encoded again by the proxy, and decoded by the Lambda (`RowTime`).

### GeoResolver (`resolver/`, `Handle` of `aws/lambda/events.go`)

One SQL statement or one request to the location service is one action, and
containers interleave between them.  `geo` and `event` are the two tables.
Locations, addresses and time stamps are small values; `Local` stands for
127.0.0.1, which replaces what is not an IPv4 address.  A failed lookup yields
the id 0, which the foreign key refuses (`Mark`).  An answer of the service
whose body is no location becomes a row that no address finds (`"blank"`).

### GeoCache (`cache/cache.go`)

A step of the concurrent map is one key.  `Clear` reads the shards into a
channel in one goroutine and removes what comes out of it in another, and
`Get` is made of `Has` and `Get` of the map.  The removal of `Clear` may fall
between those two, and then the type assertion panics (`Read`, second case);
`GeoResolver` takes the cache as a map that is cleared as a whole.

### EventLambda (`aws/lambda/events.go`, `event/event.go`)

Containers with their `setupError`, the loop of `HandleBatch` event by event,
and the transaction of `RecordBatchEvents` as `Begin`, `Copy` (Prepare, Exec
and Close) and `Commit`.  Error returns between `Begin` and `Commit` do not
roll back, so the transaction stays open (`leaked`) and holds its connection
until the database or the container goes away.

### LinePot and PotContract (`cmd/ftp`, `cmd/pop`)

A line consists of two pieces; a Read returns any number of pieces that have
arrived, so lines come cut in two or several at once.  A piece whose
other half is gone goes through `getCommand` like any line (`Commands`, `Tails`):
a cut `PASS xPASS y` may end as `PASS y`, which is reported, or as `PASS`, at which
the FTP pot panics.  What ends a word may have is the constant `Endings`.  The
pots differ in the reader (`LeftOver`), in commands without an argument (`Panics`) and in what
they answer.  A client is *patient* when it waits for each answer.
`PotContract` holds for the POP pot and for patient clients of the FTP pot; it
does not hold for impatient ones, because the reader of each command takes
what it has read ahead with it.  For those `OwnCredentials` remains: a report
comes from a line of the same client or from the end of one, the user from an
earlier line in the same way, and no line gives two reports; the ends count for
no connection that is careful, and for no first line.  The
contract ends with QUIT: what a client writes after it is not reported.

### PsqlPot and Potter (`cmd/psql`, `cmd/listen`, `cmd/http`, `runPotter`)

`PsqlPot` has the actions of one session, `Potter` extends it with the process
around it.  A client has a script of messages from the start; one it has not
written yet is the same, for a pot in `io.ReadFull`, as one that has not been
read yet, so no action writes.  `scratch` is an array with a content, and
`params` a slice with the place it points to: `SendEvent` reads it when it
runs, after any number of further steps of `handleClient`.  The loop over the
words of the start message finds `user` among values too (`UserIn`), so
`ReportsOwnLogin` speaks of the user only where the word occurs once, as a key:
a login of the user `user` is reported under the next word.  Length fields that are too
small, a `user` without a word after it and an empty password message are
indices out of range, which end the process (`Panic`).  `Write` on a TCP
connection never returns `io.EOF`, so the branch of `handleClient` that tests
for it (line 196) is no action.

`Launch` and `RunReturns` move the counter of the WaitGroup as `Add` and `Done`
do; `MainReturns` is `Wait` returning.  Connections go from the kernel's
backlog through the goroutine `AcceptConnection`, which holds one at a time, to
the loop of `listen.Run`.

### PotterClient (`cmd/potter.go`, `RecordEvent` of `api/event.go`)

The stages of an event: lookup of the name, attempts, pauses, end.  Clocks count
steps of the backoff up to one more than the limit that anything is compared
with, so time may pass for ever in finitely many states.  `SendContract` says the
same without time, for the server: an event is handed over once more than
answers about it were lost, at most; it counts as sent after an answer that was
heard, or after one that declined it, which `RecordEvent` takes for a success;
and nothing is handed over after its end.  A server may also take a request
and keep silent (`Silence`): `http.Post` has no timeout, so the goroutine waits
until the connection breaks (`Breaks`), which need not happen.  A silence in the
middle of the body of an answer is the same wait in `ReadAll` and is not told
apart.

## 4. The runs

| run | configuration | what it shows |
|---|---|---|
| `proxy_faults` | 3 events of sizes 1 to 3, batches of 2, 2 attempts, all ten faults | types; batches in order of acceptance (`InOrder`) and within the limit (`BatchFits`); every step that loses an event is the end of a process, an overflow, a payload that does not decode or the end of the retries (`EveryLossHasACause`); `RelayContract` is implemented |
| `proxy_live` | 3 events of size 1 | the queue empties, a terminating signal ends the process, nobody waits for the mutex for ever |
| `pipeline` | 2 logins of sizes 1 and 2, batches of 2, 2 attempts for a batch, 1 lost answer of the proxy, lost answers of the Lambda, panics and restarts of the proxy | an event is in the table at most once for each time the proxy took it and each attempt of its batch (`RowsBounded`); an event that was sent before another login is before it in the table, with a time that is not later (`TableInOrder`); when everything works from some point on, an event whose sending goes on gets to the table, unless a batch, left full by a backlog, has no room for it (`EventsArrive`); the sending of an event ends even when the Lambda never answers (`SendingEnds`) |
| `geo_race` | 2 containers, 2 events, 2 addresses, all faults, no cache | no event gets the location of another address or one that had expired |
| `geo_alone` | 1 container with cache, 2 events, moves and expiry | both locations are found, by the end of the call, and stored again only when they have changed |
| `geo_poisoned` | the cache, 3 addresses | *violation*: the location of another address |
| `cache_clears` | 2 users, 2 shards | `Clear` forgets and returns |
| `lambda_faults` | 2 batch containers and one for single events, 3 batches, all faults | batches are atomic, what is answered is stored, rows match, `Handle` recovers |
| `lambda_stale_id` | a batch in which an address comes back | *violation*: the row has the id of another address |
| `line_pots` | a connection to each pot, 3 lines whose ends may be commands | the contract of the pots; what is reported where readers lose lines (`OwnCredentials`); and that each password is reported |
| `potter` | the HTTP and the psql pot, 2 connections with scripts of up to 4 messages, 1 request | each login is reported once, as its client wrote it; main outlives no pot and no pot is cut off by the end of another; every connection gets its handler |
| `potter_client` | 2 events, 2 outages, a server that may keep silent, retries for 2 steps | which events are lost, that each is settled unless the server neither answers nor breaks its request off, and that `SendContract` is implemented |

**Why the bounds are enough.**  Proxy: with batches of 2 the sizes 1, 2 and 3
give every case of the loop (filled exactly, ended by the queue, too large
with what is in hand, too large by itself), and 3 events make two batches of
which the first is being retried while others wait; 2 attempts have a first, a
repeated and a last one.  Pipeline: two events and one lost
answer make three payloads, which fill a batch and begin another, or overflow it
when the second is of size 2.  There are no signals, no garbled bodies and no
events larger than a batch: `ProxyRelay` has those in its own runs, and with
signals the run takes eight times as long.  The times of the logins lie in different
seconds of the small units, and within a `Limit` of 128, as those of the code lie
before the year 2262.  Resolver: a row can be found, missing, expired, or
replaced by the other container between any two statements with 2 events and
one tick past the expiry; moves away and back need the 4 units of `geo_alone`.
Lambda: with one connection two containers meet each other's open transaction,
and a third batch meets a leaked one.  Pots: three lines hold a user, another
user and a password, each cut anywhere; a cut `USER` line may end in another
`USER`, a cut `PASS` line in another `PASS` or in a `USER` without an argument.  Client: pauses of 1 and 2 steps end
before, at and after the limit of 2.  Potter: with two pots one can fail before,
while and after the other is started; with two connections one waits in the
accept goroutine behind the other; the scripts have each kind of message and
each of the panics, and a body that does not fit a scratch of 2.

**Faults** are named in each module and chosen by the configuration, so that a
property is checked with as many of them as it can hold under.
`CHECK_DEADLOCK FALSE` is used where a system may rest: a Lambda without
requests, connections that are over.

**Fairness.**  Weak fairness for goroutines that can run, which is what the Go
scheduler gives them.  Strong fairness for `AcceptConnection`: the backlog is a
queue, so a connection in it is not passed over for ever.  Strong fairness for `Lock` of the proxy: `sync.Mutex`
hands itself to a waiter after a millisecond, while a goroutine that waits is
enabled again and again only.  Weak fairness for the answer to a request
in `proxy_live`,
although `http.DefaultClient` has no timeout: a server that accepts a
connection and never answers stops the proxy (`Answers` of `ProxyRelay` is
stated apart from `Scheduling` for that reason).  `Pipeline` assumes it only
while the Lambda stores batches, and `SendingEnds` shows that the pots do not
notice otherwise; that the proxy answers them is assumed there, as its handler
waits for nothing.  `PotterClient` does not assume it of its server: a request
may meet a silence, to which no fairness applies, and `EveryEventSettles` excepts
the event that stays in one for ever.  `Restart` is fair because
of `Restart=always`.  In the Lambda the database comes back and clients go on
sending; nothing else is fair: no client has to write, no signal has to
arrive, no event has to come, no fault has to happen.

**Findings.**  Each violation run states what a comment or a test of the
repository says; PROJECT.json quotes it.

* `geo_poisoned`: line 150 of `resolve.go` stores the id of the origin under
  the remote address; with the cache on, as the Lambda has it, a later event
  gets a wrong location.
* `lambda_stale_id`: for an address that was seen before, `HandleBatch` uses
  the id of whichever address was resolved last.

Other things the models contain and the code would be better without:
`Drain` (comment: "Send remaining logs") leaves the loop at line 161 with a
dequeued event in no batch (`DropOverflow`);
`HandleBatch` never resets `setupError`, as `Handle` does, so that a container
that started during an outage answers 500 for ever (`BatchAfterError`); the nil
error after the last retry and after a status other than 200 and 202, the
panic on a nil response, the panic of `Get` during `Clear`, the open
transactions after an error, the arguments of FTP commands that are not there,
the readers that take commands with them and may leave the end of a
line to be carried out as one, and the request of the potter that waits for a
silent server without a limit.

**Not modelled**, besides the parts listed in section 1: `GetEvent` and
`GetCountryStats` of the client and of `event/event.go`, which only read (the
client's `GetCountryStats` decodes into a value instead of a pointer, so it
always returns an error); `Scan` of `EventTime`, used for reading only;
`replaceParams`, which rewrites the text of a statement; the statement
`pq.CopyIn`, which a MySQL server would refuse: the batch Lambda is taken to
run on Postgres.

## 5. The proofs

Each `...Proofs` module EXTENDS the module it is about and proves theorems for
every value of the constants that satisfies the ASSUMEs of that module.  In all
of them the type invariant and the safety properties come from an inductive
invariant, with one lemma for each kind of step; PROJECT.json lists the
theorems.

**ProxyRelayProofs** (any sizes, limits and faults).

* `BatchesInOrder`: `InOrder` is not inductive by itself, because nothing in it
  says why the next batch comes after the ones before.  `OrderInv` adds who
  holds the lock (`LockHeld`: a goroutine inside the body of `Drain` is the one
  the mutex names, so there is one), what it has in hand (`BatchInHand`: a run
  of decodable events, ending at the head of the queue while it is collected),
  and where the stored batches are (`StoredIsPast`: before the head, and before
  the batch in hand unless they are that batch).  A batch that is stored is
  then later than all others or a repetition of the last; an event that is
  collected extends the run by exactly one.  The last conjunct of `LockHeld`,
  that the timer does not run before `Listen`, came out of the proof: without
  it `Listen` could pull the timer out of `Drain` while it holds the mutex.
* `ProxyImplementsContract`: with `OrderInv`, each step is a step of
  `RelayContract` or leaves its variables alone: an append to the log is
  `Accept`; an attempt that stores is `Deliver`, or `Redeliver` when the batch
  is the latest stored one.
* `BatchesFit`: `SizeInv` says what `bufSize` counts, namely the sizes of the
  batch that is being collected, and that the batches in hand and those stored
  fit.  `Bytes` sums with a recursive function.  That such a function satisfies
  its equations, that a sum does not change when the log grows and what one
  more payload adds to it is proved by taking the least length for which it
  fails (`Smallest`).
* `LossesHaveCauses`: an action property, by the actions that move the head of
  the queue or end a batch.

**PotterClientProofs** (any events, any lengths of pause and of retries).
`ShortOutages` needs `NotOlder`: in the first outage an event that nothing else
can fail is not older than the outage.  `ClientImplementsContract` maps each
attempt, with its clocks, outages and crashes, to a step of `SendContract`.

**PipelineProofs** (any number of logins and lost answers, any times).
`PipelineRunsProxy` and `PipelineRunsPotter` show that the composition is
one: projected to the variables of a part, each step is one of that part or
none, so that `OrderInv` and `SendContract` hold in it.  `RowsBound` needs two
numberings.  `Numbered`: the payloads of an event have different numbers up to
`copies`, which `SendContract` bounds by the lost answers (`HandedOver`).
`Tried`: the places of a batch in the table have different numbers up to
`MaxTries`, and none above the attempts used while that batch is in hand.  A
row is then known by the two numbers, as two batches with a payload in common
are equal by `InOrder`; so there are no more rows than pairs.  `TableOrdered`
needs `SentBefore` and `Payloads`: an event that counted as sent before a login
is handed over no more, so all its payloads come before those of that login, and
`InOrder` carries this to the rows.  The times follow from the conversions, for
times before `Limit` (`ClockAssumption`; after it `UnixNano` wraps and the order
is lost).

**EventLambdaProofs** (any number of containers, connections and batches).
`TypeInv` counts the open transactions, as a sum over the containers, against
the connections.  `StoreInv` says which rows a call has built (`CallOf`), that
running calls have attempts of their own, and that every row of an attempt is
in the table if one is; `BatchesAtomic` and `AnswersStored` follow.
`LocationsMatch` has the hypothesis `NoReturns`, that no address comes back in a
batch after another one.  It cannot be dropped, as run `lambda_stale_id` shows;
the theorem says that there is no violation without such a batch.

**GeoResolverProofs** (any containers, addresses, locations and times).
`MarkInv` follows what a call knows from its SELECT to its UPDATE.
`LocationsMatch` and `LocationsFresh` have the hypothesis `~UseCache`, as they
do not hold with the cache (run `geo_poisoned`).  `CallsMark` has the hypothesis
`Faults = {}`: a call that fails leaves its event without locations, as it
should; `CallFinds` says what a call has marked at each place.
`RowsNotRepeated` holds for one container; with two of them, both may insert
the row that neither has found.

**GeoCacheProofs** (any users, keys and values).  `ClearsForget` needs
`OldIsDue`: as long as a `Clear` runs, an entry older than it is still to be
read or to be removed.

**LinePotProofs** (any connections, lines, ends of words and cuts).  The
invariant of a connection says that the pieces on the wire and in the reader are
in the order of its lines, that reports are fewer than the number of any line of
which something is left (`Own`), and that the user comes from a line before
those.  `Kept` says where lines can lose their beginnings: not in the reader of
the POP pot, which is kept; not where the client waits, as it has one line on
its way (`Flow`: what is left of a line comes after the answers); and not in the
first line of any connection.  `CredentialsOwn` then gives the reports of careful
connections as their lines, and those of impatient clients of the FTP pot as
lines or ends of lines.

**PotterProofs** (any pots and flags; scripts of clients that know the
protocol).  `PotInv`: the counter of the WaitGroup is the number of pots that
run, and main leaves after it has started all of them.  `SessionInv` follows a
session through its places: from which message the slice and the user are, that
only notices came since, and that there is one report, on its way to
`sendEvent` or made.

**What is assumed.**  `BatchesAssumption` and `ScriptsAssumption` say that
inputs are sequences of the kind their parsers produce, and `PotsAssumption`
that no pot is registered twice; `ContainersAssumption` that the containers are
finitely many, without which their open transactions could not be counted;
`LocsAssumption` that the location service has an answer to give.  Bounds such
as `MaxItems` and `MaxClock` are arbitrary naturals.

**What the proofs changed.**  The conjunct of `LockHeld` named above; the bound
of `answers` in the `TypeOK` of `LinePot`, which is one for each line and the
greeting; `Ambiguous` of `PsqlPot`, which has to count the word `user` among
keys and values; `EventTime`, whose width is now the limit itself; and the time
of a login, which has to be before that limit.

**How the proofs are written.**  Fixed sets of places are given by enumeration
and compared element by element; no step takes the intersection of two of them,
which tlapm 1.4.5 translates wrongly.

**Model-checked only.**  Liveness (`QueueEmpties`, `TermEnds`,
`NobodyWaitsForever`, `EventsArrive`, `SendingEnds`, `EventsResolved`,
`ClearReturns`, `SingleRecovers`, `EveryPassReported`, `EveryEventSettles`,
`ProcessEnds`, `EveryClientHandled`, `EveryLoginReported`), which is out of the
prover's reach; and that `LinePot` implements `PotContract` (`Contract` of run
`line_pots`).
