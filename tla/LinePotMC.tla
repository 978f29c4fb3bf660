------------------------------- MODULE LinePotMC -------------------------------
(***************************************************************************)
(* An instance of LinePot for TLC: a connection to each pot.  Its client   *)
(* waits for answers or not.  Three lines hold a login with a line too     *)
(* many, a password with two users or a user with two passwords, or a      *)
(* login of one client and a line of the other.  Cut lines may end in a    *)
(* USER, a PASS, a command without its argument or no command.             *)
(***************************************************************************)
EXTENDS LinePot

MCFtp == {"f"}
MCPop == {"p"}
MCLines == {<<"USER", "a", "USER", "b">>, <<"USER">>, <<"PASS", "xPASS", "USER">>,
            <<"QUIT">>}

\* One end of some words is enough: the others make no other command.
MCEndings(word) == CASE word = "xPASS" -> {"PASS"}
                     [] word = "QUIT"  -> {"T"}
                     [] OTHER          -> {}
MCFaults == {"reset"}
=============================================================================
