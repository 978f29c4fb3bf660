--------------------------------- MODULE Potter ---------------------------------
(***************************************************************************)
(* The process "passwd-pot potter": runPotter (cmd/potter.go) starts the   *)
(* goroutine Run of each pot and waits for all of them; listen.Run         *)
(* (cmd/listen/listner.go) of a TCP pot receives connections from the      *)
(* goroutine AcceptConnection and starts a handler for each; the HTTP pot  *)
(* (cmd/http/http.go) is a net/http server.  The handlers of the psql pot  *)
(* are those of PsqlPot; those of the FTP and the POP pot are in LinePot.  *)
(* Every goroutine ends with the process: when main returns, or when any   *)
(* of them panics.                                                         *)
(***************************************************************************)
EXTENDS PsqlPot

CONSTANTS
  All,       \* the pots of runPotter in their order: http, ftp, pop, psql
  Optional,  \* those that can be asked for one by one: http and ftp
  Requests,  \* the requests to the HTTP pot
  Faults     \* which faults a configuration lets happen

\* "bind" an address that is taken, "serve" an error of the HTTP listener.
ASSUME PotsAssumption ==
  /\ All \in Seq(STRING) /\ {"http", "psql"} \subseteq ToSet(All)
  /\ \A i, j \in 1 .. Len(All) : All[i] = All[j] => i = j
  /\ Optional \subseteq ToSet(All)
ASSUME PotterFaultsAssumption == Faults \subseteq {"bind", "serve"}

VARIABLES
  wanted,    \* the pots that the flags ask for, in the order of runPotter
  launched,  \* how many of them main has started
  wg,        \* the counter of the WaitGroup
  run,       \* where the goroutine Run of each pot is
  request    \* where each request to the HTTP pot is

pots == <<wanted, launched, wg, run>>
vars == <<session, process, pots, request>>

Pots == ToSet(All)

\* With --all every pot is started.  Without it only two are asked for; the
\* flags of the POP and the psql pot only set their ports.
Before(p, q) == \E i, j \in 1 .. Len(All) : i < j /\ All[i] = p /\ All[j] = q
Wanted ==
  {All} \cup {some \in UNION {[1 .. n -> Optional] : n \in 0 .. Cardinality(Optional)} :
               \A i, j \in DOMAIN some : i < j => Before(some[i], some[j])}

Init ==
  /\ PsqlInit
  /\ process = "up"
  /\ wanted \in Wanted
  /\ launched = 0
  /\ wg = 0
  /\ run = [p \in Pots |-> "off"]
  /\ request = [r \in Requests |-> "none"]

-----------------------------------------------------------------------------
(***************************************************************************)
(* runPotter                                                               *)
(***************************************************************************)

\* Mutant of Added: the go statement of a pot without its wg.Add(1).
AddedNothing == wg

\* wg.Add(1) before the go statement.
Added == wg + 1

Launch ==
  /\ Up /\ launched < Len(wanted)
  /\ launched' = launched + 1
  /\ wg' = Added
  /\ run' = [run EXCEPT ![wanted[launched + 1]] = "binding"]
  /\ UNCHANGED <<session, process, wanted, request>>

\* Mutant of WaitOver: main ends with the first pot.
WaitOverFirst == \E p \in Pots : run[p] = "done"

\* wg.Wait() returns.
WaitOver == wg = 0

MainReturns ==
  /\ Up /\ launched = Len(wanted)
  /\ WaitOver
  /\ process' = "returned"
  /\ UNCHANGED <<session, pots, request>>

\* net.Listen, or the beginning of ListenAndServe.
Bind(p) ==
  /\ Up /\ run[p] = "binding"
  /\ run' = [run EXCEPT ![p] = "serving"]
  /\ UNCHANGED <<session, process, wanted, launched, wg, request>>

\* Mutant of DoneBy: Done is not deferred, and the early return misses it.
DoneByNobody(p) == wg

\* The deferred worker.Wg.Done().
DoneBy(p) == wg - 1

\* Run returns: the address is taken, or the HTTP server ended.  The loop of
\* listen.Run has no end.
RunReturns(p) ==
  /\ Up
  /\ \/ "bind" \in Faults /\ run[p] = "binding"
     \/ "serve" \in Faults /\ run[p] = "serving" /\ p = "http"
  /\ run' = [run EXCEPT ![p] = "done"]
  /\ wg' = DoneBy(p)
  /\ UNCHANGED <<session, process, wanted, launched, request>>

-----------------------------------------------------------------------------
(***************************************************************************)
(* Connections to the psql pot                                             *)
(***************************************************************************)

Moves(c, from, to) ==
  /\ At(c, from)
  /\ Goes(c, to)
  /\ UNCHANGED <<sent, read, ended, scratch, params, user, pending, reported, process,
                 pots, request>>

\* The kernel takes connections as soon as the pot listens.
Connect(c) == run["psql"] = "serving" /\ Moves(c, "away", "backlog")

\* The channel has no buffer: AcceptConnection holds one connection until the
\* loop of Run takes it.  (It goes on after an error of Accept.)
AcceptConnection(c) ==
  /\ \A d \in Conns : pc[d] # "accepted"
  /\ Moves(c, "backlog", "accepted")

\* Mutant of LoopReceives: a select without the loop around it.
LoopReceivesOnce == \A d \in Conns : pc[d] \in {"away", "backlog", "accepted"}

\* The loop of Run is ready to receive.
LoopReceives == run["psql"] = "serving"

\* go h.HandleConnection(conn)
HandleConnection(c) == LoopReceives /\ Moves(c, "accepted", "start")

-----------------------------------------------------------------------------
(***************************************************************************)
(* Requests to the HTTP pot                                                *)
(***************************************************************************)

\* processAuth starts sendEvent for credentials that decode, and the handler
\* answers 401 to every request.
ServeHTTP(r) ==
  /\ Up /\ run["http"] = "serving"
  /\ request[r] = "none"
  /\ \E outcome \in {"refused", "sending"} :
       request' = [request EXCEPT ![r] = outcome]
  /\ UNCHANGED <<session, process, pots>>

\* Its goroutine, which may outlive the request and the server.
SendRequest(r) ==
  /\ Up /\ request[r] = "sending"
  /\ request' = [request EXCEPT ![r] = "reported"]
  /\ UNCHANGED <<session, process, pots>>

-----------------------------------------------------------------------------

Supervisor == Launch \/ MainReturns \/ \E p \in Pots : Bind(p) \/ RunReturns(p)

Session(c) == HandleClient(c) \/ SendEvent(c)

Next ==
  \/ Supervisor
  \/ \E c \in Conns : \/ Connect(c) \/ AcceptConnection(c) \/ HandleConnection(c)
                      \/ (ClientStep(c) \/ Session(c)) /\ UNCHANGED <<pots, request>>
  \/ \E r \in Requests : ServeHTTP(r) \/ SendRequest(r)

Spec == Init /\ [][Next]_vars

\* Goroutines that can run do, and so do the two at the ends of the channel.
\* Nothing makes a client connect, write or end, or a server fail.
FairSpec ==
  /\ Spec
  /\ WF_vars(Launch) /\ WF_vars(MainReturns)
  /\ \A p \in Pots : WF_vars(Bind(p))
  /\ \A c \in Conns : /\ SF_vars(AcceptConnection(c)) /\ WF_vars(HandleConnection(c))
                      /\ WF_vars(HandleClient(c) /\ UNCHANGED <<pots, request>>)
                      /\ WF_vars(SendEvent(c) /\ UNCHANGED <<pots, request>>)
  /\ \A r \in Requests : WF_vars(SendRequest(r))

-----------------------------------------------------------------------------
(***************************************************************************)
(* Properties                                                              *)
(***************************************************************************)

Serving == {p \in Pots : run[p] \in {"binding", "serving"}}

\* Every variable has its type; the WaitGroup counts the pots that run, so
\* that Done never takes it below 0, which would be a panic.
TypeOK ==
  /\ SessionTypes
  /\ wanted \in Wanted
  /\ launched \in 0 .. Len(wanted)
  /\ run \in [Pots -> {"off", "binding", "serving", "done"}]
  /\ request \in [Requests -> {"none", "refused", "sending", "reported"}]
  /\ wg = Cardinality(Serving)

\* The failure of some pots does not end the others: main returns only when
\* every pot that the flags ask for has returned, however the binds, the
\* failures and the go statements interleave.
PotsOutliveEachOther ==
  process = "returned" => \A i \in 1 .. Len(wanted) : run[wanted[i]] = "done"

\* When no pot is left the process does not stay: main does not wait for a
\* Done that never comes.
ProcessEnds ==
  (launched = Len(wanted) /\ Serving = {}) ~> ~Up

\* Every connection that the kernel took gets its handler although they all
\* pass through one goroutine and a channel without a buffer; and every
\* request whose credentials decoded is reported.  Unless the process ends.
EveryClientHandled ==
  /\ \A c \in Conns : pc[c] = "backlog" ~> pc[c] \notin {"backlog", "accepted"} \/ ~Up
  /\ \A r \in Requests : request[r] = "sending" ~> request[r] = "reported" \/ ~Up
=============================================================================
