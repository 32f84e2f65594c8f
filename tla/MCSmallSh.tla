----------------------------- MODULE MCSmallSh -----------------------------
(* Every form of command line: with and without arguments, redirections and "&",  *)
(* redirections in the order that loses one, a refused one, built-ins and exit.   *)
EXTENDS SmallSh

Amp == {<<>>, <<"&">>}
In == {<<>>, <<"<", "in">>}
Out == {<<>>, <<">", "out">>}
MCCommands == {<<"wc">> \o i \o o \o b : i \in In, o \in Out, b \in Amp}
              \cup {<<"wc", "-l">>, <<"wc", ">", "out", "<", "in">>,
                    <<"wc", "<", "nofile">>, <<"status">>, <<"exit">>}
=============================================================================
