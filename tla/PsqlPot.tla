-------------------------------- MODULE PsqlPot --------------------------------
(***************************************************************************)
(* The sessions of the psql pot (cmd/psql/psql.go): the goroutine          *)
(* handleClient of each connection reads a start message, asks for a       *)
(* password, reads messages until one is an answer, starts sendEvent and   *)
(* refuses the login.  io.ReadFull makes a message that arrives in part    *)
(* the same as one that does not arrive.                                   *)
(*                                                                         *)
(* handler.scratch is one array for the length of a start message, the     *)
(* body of each short message and both answers; a slice into it changes    *)
(* with it.  params is a slice, and the goroutine sendEvent reads it while *)
(* handleClient goes on.                                                   *)
(*                                                                         *)
(* How connections come to handleClient is the subject of Potter.          *)
(***************************************************************************)
EXTENDS Integers, Sequences, SequencesExt, FiniteSetsExt

CONSTANTS
  Conns,          \* the connections
  Scripts,        \* for each connection, what its client may write: a set of
                  \* sequences of messages
  ScratchSize     \* len(handler.scratch): 512 in the code

\* A start message is an SSL request, has the words that bytes.Split finds
\* between the NULs, or is "short": its length field is below 8.  n is the
\* length field of another message, less the 4 bytes of the field itself.
StartKinds == {"ssl", "start", "short"}

Messages == [kind : StartKinds, words : Seq(STRING) \ {<<>>}]
       \cup [kind : STRING \ StartKinds, n : Int, body : Seq(STRING)]

\* A client knows the protocol: SSL requests, then one start message, then
\* others.
ASSUME ScriptsAssumption ==
  \A c \in Conns :
    /\ Scripts[c] \subseteq Seq(Messages)
    /\ \A s \in Scripts[c] : \A i \in 1 .. Len(s) :
         IF i = 1 \/ s[i - 1].kind = "ssl" THEN s[i].kind \in StartKinds
         ELSE s[i].kind \notin StartKinds /\ s[i].n \in {-1, Len(s[i].body)}
ASSUME ScratchAssumption == ScratchSize \in Nat

VARIABLES
  sent,      \* the messages each client wrote, or is going to write
  read,      \* how many of them the pot has read
  ended,     \* "no", or how the client ended: "closed" or "reset"
  pc,        \* where the goroutine of the connection is
  scratch,   \* what the array scratch holds
  params,    \* the slice of the start message: where it points, its bytes
  user,      \* its local variable user
  pending,   \* the call go sendEvent that has not run yet, if any
  reported,  \* what sendEvent handed to EventQueue.Send
  process    \* "up", or how the process ended: "returned" or "panicked"

session == <<sent, read, ended, pc, scratch, params, user, pending, reported>>

Places == {"away", "backlog", "accepted", "start", "ask", "recv", "refuse", "gone"}

PsqlInit ==
  /\ sent \in [Conns -> UNION {Scripts[c] : c \in Conns}]
  /\ \A c \in Conns : sent[c] \in Scripts[c]
  /\ read = [c \in Conns |-> 0]
  /\ ended = [c \in Conns |-> "no"]
  /\ pc = [c \in Conns |-> "away"]
  /\ scratch = [c \in Conns |-> <<>>]
  /\ params = [c \in Conns |-> [at |-> "heap", bytes |-> <<>>]]
  /\ user = [c \in Conns |-> ""]
  /\ pending = [c \in Conns |-> <<>>]
  /\ reported = [c \in Conns |-> <<>>]

Up == process = "up"
At(c, place) == Up /\ pc[c] = place
Goes(c, place) == pc' = [pc EXCEPT ![c] = place]

-----------------------------------------------------------------------------
(***************************************************************************)
(* The clients                                                             *)
(***************************************************************************)

Connected(c) == Up /\ pc[c] # "away" /\ ended[c] = "no"

\* A client that ends before it has written everything is one with a shorter
\* script; a message that is not yet written is one that the pot does not yet
\* read.
CloseConn(c) ==
  /\ Connected(c)
  /\ ended' = [ended EXCEPT ![c] = "closed"]
  /\ UNCHANGED <<sent, read, pc, scratch, params, user, pending, reported, process>>

\* What was on its way is lost, as if it had not been written.
Reset(c) ==
  /\ Connected(c)
  /\ ended' = [ended EXCEPT ![c] = "reset"]
  /\ sent' = [sent EXCEPT ![c] = SubSeq(@, 1, read[c])]
  /\ UNCHANGED <<read, pc, scratch, params, user, pending, reported, process>>

-----------------------------------------------------------------------------
(***************************************************************************)
(* The start message                                                       *)
(***************************************************************************)

Arrived(c) == read[c] < Len(sent[c])
Message(c) == sent[c][read[c] + 1]

Consume(c) == read' = [read EXCEPT ![c] = @ + 1]

\* No message can be read any more.
Nothing(c) == ended[c] # "no" /\ ~Arrived(c)

\* conn.Write to a client that has ended may fail.
WriteFails(c) == ended[c] # "no"

Fill(c, bytes) == scratch' = [scratch EXCEPT ![c] = bytes]

\* An index or a length out of range in any goroutine ends the process.
Panic ==
  /\ process' = "panicked"
  /\ UNCHANGED session

\* recvStartMessage answers an SSL request with N and starts again.
SslRequest(c) ==
  /\ At(c, "start") /\ Arrived(c) /\ Message(c).kind = "ssl"
  /\ Consume(c)
  /\ Fill(c, <<"length">>)
  /\ \/ UNCHANGED pc
     \/ WriteFails(c) /\ Goes(c, "gone")
  /\ UNCHANGED <<sent, ended, params, user, pending, reported, process>>

\* The last word that is "user", key or value; 0 when there is none.
UserAt(words) == SelectLastInSeq(words, LAMBDA w : w = "user")

\* The loop takes the word after each "user".
UserIn(words) == IF UserAt(words) = 0 THEN "" ELSE words[UserAt(words) + 1]

\* make([]byte, n) with n below 0, or params[n+1] after the last word.
BadStart(c) == \/ Message(c).kind = "short"
               \/ UserAt(Message(c).words) = Len(Message(c).words)

StartPanics(c) ==
  /\ At(c, "start") /\ Arrived(c) /\ Message(c).kind # "ssl" /\ BadStart(c)
  /\ Panic

\* Mutant of ParamsAt: recvStartMessage reads into scratch, as recvMessage
\* does.
ParamsAtScratch == "scratch"

\* recvStartMessage makes an array of its own for the words.
ParamsAt == "heap"

Start(c) ==
  /\ At(c, "start") /\ Arrived(c) /\ Message(c).kind = "start" /\ ~BadStart(c)
  /\ Consume(c)
  /\ Fill(c, IF ParamsAt = "scratch" THEN Message(c).words ELSE <<"length">>)
  /\ params' = [params EXCEPT ![c] = [at |-> ParamsAt, bytes |-> Message(c).words]]
  /\ user' = [user EXCEPT ![c] = UserIn(Message(c).words)]
  /\ Goes(c, "ask")
  /\ UNCHANGED <<sent, ended, pending, reported, process>>

\* No start message came: nothing is reported.
NoStart(c) ==
  /\ At(c, "start") /\ Nothing(c)
  /\ Goes(c, "gone")
  /\ UNCHANGED <<sent, read, ended, scratch, params, user, pending, reported, process>>

-----------------------------------------------------------------------------
(***************************************************************************)
(* The password                                                            *)
(***************************************************************************)

\* writeBuf('R') and send.  An error other than io.EOF, which Write does not
\* return, is not looked at.
Ask(c) ==
  /\ At(c, "ask")
  /\ Fill(c, <<"R">>)
  /\ Goes(c, "recv")
  /\ UNCHANGED <<sent, read, ended, params, user, pending, reported, process>>

Receives(c) == At(c, "recv") /\ Arrived(c)

\* The body goes to scratch when it fits there.
Receive(c) ==
  /\ Consume(c)
  /\ IF Message(c).n <= ScratchSize THEN Fill(c, Message(c).body) ELSE UNCHANGED scratch

\* scratch[:n] with n below 0, or the body without its last byte of an empty
\* body.
BadMessage(m) == m.n < IF m.kind \in {"E", "N"} THEN 0 ELSE 1

MessagePanics(c) ==
  /\ Receives(c) /\ BadMessage(Message(c))
  /\ Panic

IsNotice(m) == m.kind = "N"

\* recv reads on.
Notice(c) ==
  /\ Receives(c) /\ IsNotice(Message(c)) /\ ~BadMessage(Message(c))
  /\ Receive(c)
  /\ UNCHANGED <<sent, ended, pc, params, user, pending, reported, process>>

GoSendEvent(c, pass) ==
  pending' = [pending EXCEPT ![c] = Append(@, [user |-> user[c], pass |-> pass])]

\* Any message but N and E counts as the password, less its last byte.
Password(c) ==
  /\ Receives(c) /\ Message(c).kind # "E" /\ ~IsNotice(Message(c)) /\ ~BadMessage(Message(c))
  /\ Receive(c)
  /\ GoSendEvent(c, Front(Message(c).body))
  /\ Goes(c, "refuse")
  /\ UNCHANGED <<sent, ended, params, user, reported, process>>

\* Mutant of ReportsWithout: only what has a password is reported.
ReportsWithoutNot(c) == UNCHANGED pending

\* What handleClient does about an error of recv.
ReportsWithout(c) == GoSendEvent(c, <<>>)

\* Message E, or the end of the connection: a login without a password.
NoPassword(c) ==
  /\ \/ /\ Receives(c) /\ Message(c).kind = "E" /\ ~BadMessage(Message(c))
        /\ Receive(c)
     \/ /\ At(c, "recv") /\ Nothing(c)
        /\ UNCHANGED <<read, scratch>>
  /\ ReportsWithout(c)
  /\ Goes(c, "gone")
  /\ UNCHANGED <<sent, ended, params, user, reported, process>>

\* The error response; then the connection is closed.
Refuse(c) ==
  /\ At(c, "refuse")
  /\ Fill(c, <<"E">>)
  /\ Goes(c, "gone")
  /\ UNCHANGED <<sent, read, ended, params, user, pending, reported, process>>

\* The goroutine sendEvent, whenever it runs: it reads params through the
\* slice (nullTermToStrings drops what follows the last NUL).
Bytes(c) == IF params[c].at = "scratch" THEN scratch[c] ELSE params[c].bytes

SendEvent(c) ==
  /\ Up /\ pending[c] # <<>>
  /\ reported' = [reported EXCEPT ![c] =
       Append(@, [user |-> pending[c][1].user, pass |-> pending[c][1].pass,
                  version |-> Front(Bytes(c))])]
  /\ pending' = [pending EXCEPT ![c] = Tail(@)]
  /\ UNCHANGED <<sent, read, ended, pc, scratch, params, user, process>>

-----------------------------------------------------------------------------

ClientStep(c) == CloseConn(c) \/ Reset(c)

HandleClient(c) ==
  \/ SslRequest(c) \/ StartPanics(c) \/ Start(c) \/ NoStart(c) \/ Ask(c)
  \/ MessagePanics(c) \/ Notice(c) \/ Password(c) \/ NoPassword(c) \/ Refuse(c)

-----------------------------------------------------------------------------
(***************************************************************************)
(* Properties                                                              *)
(***************************************************************************)

\* What the pot writes by itself is a string as well.
Text == STRING \cup {"", "length", "R", "E"}

\* Every variable has its type, nothing is read that was not sent, and a
\* connection that has not come so far has nothing.
SessionTypes ==
  /\ process \in {"up", "returned", "panicked"}
  /\ \A c \in Conns :
       /\ \E s \in Scripts[c] : IsPrefix(sent[c], s)
       /\ read[c] \in 0 .. Len(sent[c])
       /\ ended[c] \in {"no", "closed", "reset"}
       /\ pc[c] \in Places
       /\ scratch[c] \in Seq(Text)
       /\ params[c] \in [at : {"heap", "scratch"}, bytes : Seq(STRING)]
       /\ user[c] \in Text
       /\ pending[c] \in Seq([user : Text, pass : Seq(STRING)])
       /\ reported[c] \in Seq([user : Text, pass : Seq(STRING), version : Seq(STRING)])
       /\ pc[c] \in {"away", "backlog", "accepted"} => read[c] = 0
       /\ pc[c] # "gone" /\ pending[c] # <<>> => pc[c] = "refuse"

\* The words the client started with, where the name of the user is the value
\* of the key "user": keys and values alternate.
Starts(c) == {i \in 1 .. Len(sent[c]) : sent[c][i].kind = "start"}
StartOf(c) == sent[c][Min(Starts(c))].words
ValueOf(words, key) ==
  LET keys == {i \in 1 .. Len(words) - 1 : i % 2 = 1 /\ words[i] = key}
  IN  IF keys = {} THEN "" ELSE words[Min(keys) + 1]

\* The answer of the client to the question for a password.
Answers(c) == {i \in 1 .. Len(sent[c]) : sent[c][i].kind \notin StartKinds \cup {"N"}}
PassIn(m) == IF m.kind = "E" THEN <<>> ELSE Front(m.body)
PasswordOf(c) == IF Answers(c) = {} THEN <<>> ELSE PassIn(sent[c][Min(Answers(c))])

\* The word "user" for a value, or for more than one key, is where the pot goes
\* wrong: it takes the word after the last one.
Ambiguous(words) ==
  \E i, j \in 1 .. Len(words) :
    words[i] = "user" /\ words[j] = "user" /\ (i # j \/ i % 2 = 0)

\* A connection yields one report at most, and whatever messages come before
\* the password, in whatever order sendEvent, the answers that are built in
\* scratch and the sessions of others run, it has the words, the user and the
\* password that this client wrote.
ReportsOwnLogin ==
  \A c \in Conns :
    /\ Len(pending[c]) + Len(reported[c]) <= 1
    /\ reported[c] # <<>> =>
         /\ reported[c][1].version = Front(StartOf(c))
         /\ reported[c][1].pass = PasswordOf(c)
         /\ ~Ambiguous(StartOf(c)) =>
              reported[c][1].user = ValueOf(StartOf(c), "user")

\* A login is due when its start message has arrived and the client has
\* answered or gone.  The answer to an SSL request may fail when the client is
\* gone already.
LoginDue(c) ==
  /\ Up /\ pc[c] # "away" /\ ended[c] # "reset" /\ reported[c] = <<>>
  /\ Starts(c) # {}
  /\ Answers(c) # {} \/ ended[c] # "no"
  /\ (\E i \in 1 .. Len(sent[c]) : sent[c][i].kind = "ssl") => ended[c] = "no"

\* Every such login is reported, with or without a password, unless the
\* process ends.
EveryLoginReported == \A c \in Conns : LoginDue(c) ~> ~LoginDue(c)
=============================================================================
