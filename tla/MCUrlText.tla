------------------------------ MODULE MCUrlText ------------------------------
(* Instances of UrlText for TLC. *)
EXTENDS UrlText

MCChars == DOMAIN Value \cup {"h", "t", "p", "s", ":", "/", "x", "X", " ", "\t", "\r", "\n", ";", ".", "?", "u", "="}

(* A host that begins like a protocol, one of one character, an address. *)
MCHosts == {<<"h", "t", "t", "p", "s">>, <<"s">>, <<"1", "8", ".", "9">>}
MCPorts == {<<>>, <<"8", "0">>, <<"8", "4", "4", "9">>, <<"0", "8">>}
MCPaths == {<<>>, <<"/">>, <<"/", "a", "/">>, <<"/", "?", "u", "=", ":", "/", "/", "h", ":", "8">>}
MCBlanks == {<<>>, <<" ", "\t">>}
MCTails == {<<>>, <<"\r", "\n">>, <<";", "a">>, <<" ", "5">>}
=============================================================================
