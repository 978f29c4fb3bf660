-------------------------------- MODULE PotterMC --------------------------------
(***************************************************************************)
(* An instance of Potter for TLC: the HTTP pot and the psql pot, with two  *)
(* connections to the latter, and a request to the former.  The start      *)
(* messages have the key user first, have it not at all, have "user" as a  *)
(* name too, or end with it; what follows is a password, a notice, an      *)
(* error, a message that does not fit scratch, or one without a body       *)
(* (Sync, Terminate), and length fields that are too small.                *)
(***************************************************************************)
EXTENDS Potter

Ssl == [kind |-> "ssl", words |-> <<"">>]
StartWith(words) == [kind |-> "start", words |-> words]
Msg(kind, body) == [kind |-> kind, n |-> Len(body), body |-> body]

Ann == StartWith(<<"db", "d", "user", "ann", "">>)
Twice == StartWith(<<"user", "user", "db", "">>)
Nobody == StartWith(<<"">>)
Cut == StartWith(<<"db", "user">>)

MCConns == {"c1", "c2"}
MCScripts ==
  [c1 |-> {<<Ssl, Ann, Msg("N", <<"n">>), Msg("p", <<"x", "0">>)>>,
           <<Twice, Msg("E", <<>>)>>,
           <<Ssl, Nobody, Msg("p", <<"x", "y", "0">>), Msg("p", <<"z", "0">>)>>,
           <<Ann, Msg("X", <<>>)>>,
           <<Cut>>},
   c2 |-> {<<Ann, Msg("p", <<"w", "0">>)>>,
           <<Ann, [Msg("N", <<>>) EXCEPT !.n = -1]>>,
           <<[kind |-> "short", words |-> <<"">>]>>}]
MCAll == <<"http", "psql">>
MCOptional == {"http"}
MCRequests == {"r"}
MCFaults == {"bind", "serve"}
=============================================================================
