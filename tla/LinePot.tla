-------------------------------- MODULE LinePot --------------------------------
(***************************************************************************)
(* The FTP and the POP pot (cmd/ftp/ftp.go, cmd/pop/pop.go): goroutines    *)
(* that read commands, a line each, from the connections of clients, and   *)
(* start a goroutine sendEvent for each PASS.  TCP cuts what a client      *)
(* writes where it likes, so a Read may return half a line or several of   *)
(* them.  The POP pot reads through one bufio.Reader; the FTP pot makes a  *)
(* new one for each command, and what the old one had read ahead is gone.  *)
(*                                                                         *)
(* A line is written as two pieces, of which the second has the newline.   *)
(* A reader that is gone may have had the first: the second is then a line *)
(* like any other, and may well be a command.                              *)
(* How events travel on from sendEvent is the subject of PotterClient.     *)
(***************************************************************************)
EXTENDS Naturals, Sequences, FiniteSetsExt

CONSTANTS
  Ftp,       \* the connections to the FTP pot
  Pop,       \* the connections to the POP pot
  Lines,     \* what clients write, as the words that strings.Split returns
  Endings(_), \* what a word may end in: not the whole word, and not nothing
  MaxLines,  \* bound: the lines written in a behaviour
  Faults     \* "reset": connections break

ASSUME KindsAssumption == Ftp \cap Pop = {}
ASSUME LinesAssumption == Lines \subseteq Seq(STRING) \ {<<>>}
ASSUME EndingsAssumption ==
  \A line \in Lines : \A i \in 1 .. Len(line) : Endings(line[i]) \subseteq STRING
ASSUME LineFaultsAssumption == Faults \subseteq {"reset"}

Conns == Ftp \cup Pop

VARIABLES
  patient,  \* those to the FTP pot whose clients wait for each answer
  typed,    \* the lines each client wrote, in order
  wire,     \* the pieces the pot has not read: <<number of the line, half>>
  ended,    \* "no", or how the client ended: "closed" or "reset"
  buf,      \* what the bufio.Reader of the connection holds
  answers,  \* how many answers the client received, with the greeting
  pc,       \* where the goroutine of the connection is
  user,     \* its local variable user
  started,  \* the arguments of each go sendEvent, in order
  up        \* the process runs

vars == <<patient, typed, wire, ended, buf, answers, pc, user, started, up>>

Init ==
  /\ patient \in SUBSET Ftp
  /\ typed = [c \in Conns |-> <<>>]
  /\ wire = [c \in Conns |-> <<>>]
  /\ ended = [c \in Conns |-> "no"]
  /\ buf = [c \in Conns |-> <<>>]
  /\ answers = [c \in Conns |-> 0]
  /\ pc = [c \in Conns |-> "greet"]
  /\ user = [c \in Conns |-> ""]
  /\ started = [c \in Conns |-> <<>>]
  /\ up = TRUE

-----------------------------------------------------------------------------
(***************************************************************************)
(* The clients and the network                                             *)
(***************************************************************************)

Written == FoldSet(LAMBDA c, n : n + Len(typed[c]), 0, Conns)

WriteLine(c) ==
  /\ up /\ ended[c] = "no"
  /\ Written < MaxLines
  /\ c \in patient => answers[c] > Len(typed[c])
  /\ \E line \in Lines : typed' = [typed EXCEPT ![c] = Append(@, line)]
  /\ LET n == Len(typed[c]) + 1
     IN  wire' = [wire EXCEPT ![c] = @ \o <<<<n, 1>>, <<n, 2>>>>]
  /\ UNCHANGED <<patient, ended, buf, answers, pc, user, started, up>>

CloseConn(c) ==
  /\ up /\ ended[c] = "no"
  /\ ended' = [ended EXCEPT ![c] = "closed"]
  /\ UNCHANGED <<patient, typed, wire, buf, answers, pc, user, started, up>>

\* What was on its way is lost.
Reset(c) ==
  /\ "reset" \in Faults
  /\ up /\ ended[c] = "no"
  /\ ended' = [ended EXCEPT ![c] = "reset"]
  /\ wire' = [wire EXCEPT ![c] = <<>>]
  /\ UNCHANGED <<patient, typed, buf, answers, pc, user, started, up>>

-----------------------------------------------------------------------------
(***************************************************************************)
(* Reading a line                                                          *)
(***************************************************************************)

\* conn.Write to a client that has ended may fail.
WriteFails(c) == ended[c] # "no"
Answer(c) == answers' = [answers EXCEPT ![c] = @ + 1]
Return(c) == pc' = [pc EXCEPT ![c] = "gone"]

\* The greeting.  The FTP pot gives up when it cannot be written.
Greet(c) ==
  /\ up /\ pc[c] = "greet"
  /\ \/ /\ Answer(c)
        /\ pc' = [pc EXCEPT ![c] = "read"]
     \/ /\ WriteFails(c)
        /\ IF c \in Ftp THEN Return(c) ELSE pc' = [pc EXCEPT ![c] = "read"]
        /\ UNCHANGED answers
  /\ UNCHANGED <<patient, typed, wire, ended, buf, user, started, up>>

\* The places of the newlines in what the reader holds.
Newlines(c) == {i \in 1 .. Len(buf[c]) : buf[c][i][2] = 2}

Reading(c) == up /\ pc[c] = "read" /\ Newlines(c) = {}

\* Mutant of Rest: what was read stays readable.
RestAll(c, k) == wire[c]

\* The wire after a Read of k pieces.
Rest(c, k) == SubSeq(wire[c], k + 1, Len(wire[c]))

\* A Read of the connection, of whatever has arrived.
Fill(c) ==
  /\ Reading(c)
  /\ \E k \in 1 .. Len(wire[c]) :
       /\ buf' = [buf EXCEPT ![c] = @ \o SubSeq(wire[c], 1, k)]
       /\ wire' = [wire EXCEPT ![c] = Rest(c, k)]
  /\ UNCHANGED <<patient, typed, ended, answers, pc, user, started, up>>

\* Mutant of NothingLeft: the end of the connection is noticed before what
\* arrived ahead of it.
NothingLeftEver(c) == TRUE

NothingLeft(c) == wire[c] = <<>>

\* io.EOF, or an error of the connection.
EndOfInput(c) ==
  /\ Reading(c)
  /\ ended[c] # "no" /\ NothingLeft(c)
  /\ Return(c)
  /\ UNCHANGED <<patient, typed, wire, ended, buf, answers, user, started, up>>

HasLine(c) == up /\ pc[c] = "read" /\ Newlines(c) # {}

EndOfLine(c) == Min(Newlines(c))

\* The words that getCommand finds in what follows a cut of the line: nothing,
\* or the end of a word, or a word that is not the first, and the words after it.
Tails(line) ==
  LET Ends(i) == (Endings(line[i]) \cup IF i = 1 THEN {} ELSE {line[i]}) \ {""}
  IN  {<<"">>} \cup
      UNION {{<<x>> \o SubSeq(line, i + 1, Len(line)) : x \in Ends(i)} :
               i \in 1 .. Len(line)}

\* getCommand: the words of what was read, which is the line that the client
\* wrote, or the end of it when an earlier reader took the beginning.
Commands(c) ==
  LET p == buf[c][1]
  IN  IF p[2] = 1 THEN {typed[c][p[1]]} ELSE Tails(typed[c][p[1]])

Cmd(words) == words[1]
HasArg(words) == Len(words) > 1

\* args[0] of the FTP pot, and getSafeArg of the POP pot.
Arg(words) == IF HasArg(words) THEN words[2] ELSE ""

\* Mutant of LeftOver: the POP pot makes a new reader for each command too.
LeftOverNone(c) == <<>>

\* What the next ReadString finds before it reads the connection.
LeftOver(c) ==
  IF c \in Pop THEN SubSeq(buf[c], EndOfLine(c) + 1, Len(buf[c])) ELSE <<>>

NextCommand(c) == buf' = [buf EXCEPT ![c] = LeftOver(c)]

-----------------------------------------------------------------------------
(***************************************************************************)
(* The commands                                                            *)
(***************************************************************************)

\* The FTP pot takes args[0] of a command without arguments: the goroutine
\* panics and the process ends.
Panics(c, words) == c \in Ftp /\ Cmd(words) \in {"USER", "PASS"} /\ ~HasArg(words)

NoArgument(c, words) ==
  /\ Panics(c, words)
  /\ up' = FALSE
  /\ UNCHANGED <<patient, typed, wire, ended, buf, answers, pc, user, started>>

\* Mutant of SetUser: the user is a field of the pot.
SetUserShared(c, words) == user' = [d \in Conns |-> Arg(words)]

SetUser(c, words) == user' = [user EXCEPT ![c] = Arg(words)]

\* The FTP pot returns when it cannot answer, before it looks for an argument;
\* the POP pot does not look at the outcome.
User(c, words) ==
  /\ Cmd(words) = "USER"
  /\ NextCommand(c)
  /\ \/ ~Panics(c, words) /\ SetUser(c, words) /\ Answer(c) /\ UNCHANGED pc
     \/ /\ WriteFails(c)
        /\ UNCHANGED answers
        /\ IF c \in Ftp THEN Return(c) /\ UNCHANGED user
           ELSE SetUser(c, words) /\ UNCHANGED pc
  /\ UNCHANGED <<patient, typed, wire, ended, started, up>>

\* Both pots start sendEvent first, and neither looks at the outcome of the
\* answer: ftp.go:102 tests the error of the read before it.
Pass(c, words) ==
  /\ Cmd(words) = "PASS" /\ ~Panics(c, words)
  /\ NextCommand(c)
  /\ started' = [started EXCEPT ![c] = Append(@, [user |-> user[c], pass |-> Arg(words)])]
  /\ Answer(c) \/ (WriteFails(c) /\ UNCHANGED answers)
  /\ UNCHANGED <<patient, typed, wire, ended, pc, user, up>>

Quit(c, words) ==
  /\ Cmd(words) = "QUIT"
  /\ Return(c)
  /\ UNCHANGED <<patient, typed, wire, ended, buf, answers, user, started, up>>

\* Any other line: the FTP pot answers 550, the POP pot not at all.
Unknown(c, words) ==
  /\ Cmd(words) \notin {"USER", "PASS", "QUIT"}
  /\ NextCommand(c)
  /\ IF c \in Ftp THEN Answer(c) ELSE UNCHANGED answers
  /\ UNCHANGED <<patient, typed, wire, ended, pc, user, started, up>>

CarryOut(c) ==
  /\ HasLine(c)
  /\ \E words \in Commands(c) :
       NoArgument(c, words) \/ User(c, words) \/ Pass(c, words) \/ Quit(c, words)
         \/ Unknown(c, words)

-----------------------------------------------------------------------------

Session(c) == Greet(c) \/ Fill(c) \/ EndOfInput(c) \/ CarryOut(c)

Next == \E c \in Conns : WriteLine(c) \/ CloseConn(c) \/ Reset(c) \/ Session(c)

Spec == Init /\ [][Next]_vars

\* The goroutine of a connection runs on; a Read returns what has arrived.
\* Nothing makes a client write or end.
FairSpec == Spec /\ \A c \in Conns : WF_vars(Session(c))

-----------------------------------------------------------------------------
(***************************************************************************)
(* Properties                                                              *)
(***************************************************************************)

Args == {""} \cup {Arg(words) : words \in Lines \cup UNION {Tails(line) : line \in Lines}}

Pieces(c) == Seq((1 .. Len(typed[c])) \X {1, 2})

\* Every variable has its type: users and passwords are arguments of lines that
\* clients write, or of the ends of such lines, there is an answer to each line at most, and what is on the
\* wire comes after what the reader holds.
TypeOK ==
  /\ up \in BOOLEAN
  /\ patient \subseteq Ftp
  /\ \A c \in Conns :
       /\ typed[c] \in Seq(Lines)
       /\ wire[c] \in Pieces(c) /\ buf[c] \in Pieces(c)
       /\ \A i \in 1 .. Len(buf[c]), j \in 1 .. Len(wire[c]) :
            2 * buf[c][i][1] + buf[c][i][2] < 2 * wire[c][j][1] + wire[c][j][2]
       /\ ended[c] \in {"no", "closed", "reset"}
       /\ answers[c] \in 0 .. Len(typed[c]) + 1
       /\ pc[c] \in {"greet", "read", "gone"}
       /\ user[c] \in Args
       /\ started[c] \in Seq([user : Args, pass : Args])

\* Connections whose clients see every line of theirs carried out: those to
\* the POP pot, and those to the FTP pot that wait for the answers.
Careful == Pop \cup patient

\* From outside: see PotContract.  It does not look at the other connections.
Outside == INSTANCE PotContract WITH
  typed <- [c \in Conns |-> IF c \in Careful THEN typed[c] ELSE <<>>],
  started <- [c \in Conns |-> IF c \in Careful THEN started[c] ELSE <<>>]
Contract == Outside!Contract

\* No reader took the beginning of this line: that of a careful connection, or
\* the first of any connection.
Whole(c, n) == c \in Careful \/ n = 1

\* The line, or an end of it where its beginning may be gone, is this command.
Gives(c, n, command, arg) ==
  \E words \in {typed[c][n]} \cup IF Whole(c, n) THEN {} ELSE Tails(typed[c][n]) :
    Cmd(words) = command /\ Arg(words) = arg

\* Whatever lines the readers of the FTP pot lose (ftp.go:117), each report is
\* made of what was written on that connection.  The k-th report has the password
\* of a line, the k-th one or a later one, that is a PASS, and the user of an
\* earlier line of the same client that is a USER, or none; so a line gives one
\* report at most.  Only an FTP client that does not wait for the answers may have
\* a later line of its cut, and what is left of it taken for a command.
OwnCredentials ==
  \A c \in Conns : \A k \in 1 .. Len(started[c]) :
    \E n \in k .. Len(typed[c]) :
      /\ Gives(c, n, "PASS", started[c][k].pass)
      /\ \/ started[c][k].user = ""
         \/ \E m \in 1 .. n - 1 : Gives(c, m, "USER", started[c][k].user)

\* A pot has still to report a PASS of a careful connection.  An error of the
\* connection or the end of the process keep it from doing so.
Unreported(c) ==
  /\ up /\ c \in Careful /\ ended[c] # "reset"
  /\ Len(started[c]) < Len(Outside!Expected(typed[c]))

\* Every PASS is reported, wherever TCP cuts the line and also when the client
\* closes the connection right after it.
EveryPassReported == \A c \in Conns : Unreported(c) ~> ~Unreported(c)
=============================================================================
