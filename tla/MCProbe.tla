------------------------------- MODULE MCProbe -------------------------------
EXTENDS Probe

(* Pages of two pieces: each mark with and without the other, in the first  *)
(* piece, in the second and in both.                                        *)
MCPages == {<<"plain", "error">>, <<"error", "expected">>, <<"expected", "plain">>,
            <<"expected", "expected">>}
=============================================================================
