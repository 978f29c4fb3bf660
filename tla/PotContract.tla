------------------------------ MODULE PotContract ------------------------------
(***************************************************************************)
(* What a pot that talks a line protocol promises, whatever its goroutines *)
(* and the network do: it reports the passwords of a connection one by     *)
(* one, in the order in which the client wrote them, none twice and none   *)
(* left out, each with the user that was current when it was written, and  *)
(* nothing that was written after QUIT.  LinePot implements this contract. *)
(***************************************************************************)
EXTENDS Naturals, Sequences

CONSTANTS Conns,   \* the connections
          Lines    \* what clients write, each line as its words

VARIABLES typed,   \* the lines the client of each wrote
          started  \* the credentials reported for each

cvars == <<typed, started>>

First(line) == IF Len(line) > 1 THEN line[2] ELSE ""

\* One more line: USER sets the user, PASS yields credentials, QUIT ends.
Step(line, state) ==
  CASE state.over        -> state
    [] line[1] = "QUIT" -> [state EXCEPT !.over = TRUE]
    [] line[1] = "USER" -> [state EXCEPT !.user = First(line)]
    [] line[1] = "PASS" -> [state EXCEPT !.out = Append(@, [user |-> state.user,
                                                            pass |-> First(line)])]
    [] OTHER -> state

\* The credentials in a sequence of lines.
Expected(lines) ==
  LET after[n \in 0 .. Len(lines)] ==
        IF n = 0 THEN [user |-> "", out |-> <<>>, over |-> FALSE]
        ELSE Step(lines[n], after[n - 1])
  IN  after[Len(lines)].out

ContractInit == /\ typed = [c \in Conns |-> <<>>]
                /\ started = [c \in Conns |-> <<>>]

Writes(c) == /\ \E line \in Lines : typed' = [typed EXCEPT ![c] = Append(@, line)]
             /\ UNCHANGED started

Reports(c) == LET n == Len(started[c]) + 1
                  all == Expected(typed[c])
              IN  /\ n <= Len(all)
                  /\ started' = [started EXCEPT ![c] = Append(@, all[n])]
                  /\ UNCHANGED typed

ContractNext == \E c \in Conns : Writes(c) \/ Reports(c)

Contract == ContractInit /\ [][ContractNext]_cvars
=============================================================================
